----------------------------- MODULE AppendRows -----------------------------
(***************************************************************************)
(* ingest.append_rows: the insert-only, idempotent append every table of   *)
(* the platform is written with (bronze, quarantine, audit, archive,       *)
(* statistics).  Several processes append to one Delta table at once;      *)
(* Delta commits are optimistic, and a retention run may lift the table's  *)
(* append-only property for a while and delete rows meanwhile.             *)
(***************************************************************************)
EXTENDS Integers, FiniteSets

CONSTANTS Writers,       \* processes that call append_rows on the table
          Keys,          \* values of the key column
          Contents,      \* content of the replay-guarded columns
          MaxAttempts,   \* MAX_COMMIT_ATTEMPTS
          MaxCalls,      \* bound: calls one process makes
          MaxLifts       \* bound: times retention lifts the property

ASSUME AttemptsAssumption == MaxAttempts \in Nat \ {0}
ASSUME KeysAssumption == IsFiniteSet(Keys)
ASSUME CallsAssumption == MaxCalls \in Nat /\ MaxLifts \in Nat

VARIABLES exists,      \* the table has been created
          appendOnly,  \* its delta.appendOnly property
          version,     \* its latest version
          table,       \* the rows of that version
          pc,          \* per writer: where the call is
          batch,       \* per writer: the rows to append, key -> content
          attempt,     \* per writer: the loop variable of append_rows
          snap,        \* per writer: [version, rows] of the loaded snapshot
          written,     \* per writer: records_written of the call
          start,       \* per writer: version when the call began (for properties)
          calls,       \* per writer: calls made
          lifts,       \* times the property was lifted
          removed,     \* rows that were ever deleted (for properties)
          purged       \* per writer: keys of its batch deleted since it loaded
                       \* its snapshot (for properties)

vars == <<exists, appendOnly, version, table, pc, batch, attempt, snap, written,
          start, calls, lifts, removed, purged>>

\* A batch gives each of its keys one content; callers reject duplicates.
Batches == UNION {[K -> Contents] : K \in SUBSET Keys \ {{}}}

\* The call that inserted a row; it stands for the columns that are not
\* replay-guarded (ingested_at and the like).
Tags == Writers \X (1..MaxCalls)
Row == [key : Keys, content : Contents, by : Tags]

Tag(w) == <<w, calls[w]>>
RowsOf(w, K) == {[key |-> k, content |-> batch[w][k], by |-> Tag(w)] : k \in K}
KeysIn(rows) == {r.key : r \in rows}

\* Mutant of Conflicts: no replay check.
NoConflicts(w, rows) == FALSE

\* reject_conflicting_replays on the rows of a snapshot.
Conflicts(w, rows) ==
    \E r \in rows : r.key \in DOMAIN batch[w] /\ r.content # batch[w][r.key]

Ended == {"ok", "conflict", "refused", "exists", "exhausted", "killed"}
Running == {"begun", "create", "load", "merge", "verify"}

Init ==
    /\ exists = FALSE
    /\ appendOnly = TRUE
    /\ version = 0
    /\ table = {}
    /\ pc = [w \in Writers |-> "ok"]
    /\ batch = [w \in Writers |-> <<>>]
    /\ attempt = [w \in Writers |-> 0]
    /\ snap = [w \in Writers |-> [version |-> 0, rows |-> {}]]
    /\ written = [w \in Writers |-> 0]
    /\ start = [w \in Writers |-> 0]
    /\ calls = [w \in Writers |-> 0]
    /\ lifts = 0
    /\ removed = {}
    /\ purged = [w \in Writers |-> {}]

-----------------------------------------------------------------------------
\* append_rows(rows) is called; the batch is not empty.
Call(w) ==
    /\ pc[w] \in Ended
    /\ calls[w] < MaxCalls
    /\ calls' = [calls EXCEPT ![w] = @ + 1]
    /\ \E b \in Batches : batch' = [batch EXCEPT ![w] = b]
    /\ pc' = [pc EXCEPT ![w] = "begun"]
    /\ start' = [start EXCEPT ![w] = version]
    /\ written' = [written EXCEPT ![w] = 0]
    /\ purged' = [purged EXCEPT ![w] = {}]
    /\ UNCHANGED <<exists, appendOnly, version, table, attempt, snap, lifts, removed>>

\* delta_table_exists.
Exists(w) ==
    /\ pc[w] = "begun"
    /\ pc' = [pc EXCEPT ![w] = IF exists THEN "load" ELSE "create"]
    /\ attempt' = [attempt EXCEPT ![w] = 1]
    /\ UNCHANGED <<exists, appendOnly, version, table, batch, snap, written, start, calls,
                   lifts, removed, purged>>

\* write_deltalake(mode="error") makes version 0 with the whole batch.
Create(w) ==
    /\ pc[w] = "create"
    /\ ~exists
    /\ exists' = TRUE
    /\ table' = RowsOf(w, DOMAIN batch[w])
    /\ written' = [written EXCEPT ![w] = Cardinality(DOMAIN batch[w])]
    /\ pc' = [pc EXCEPT ![w] = "ok"]
    /\ UNCHANGED <<appendOnly, version, batch, attempt, snap, start, calls, lifts, removed,
                   purged>>

\* Another process created the table since the test: the write raises and is
\* not retried.
CreateRaces(w) ==
    /\ pc[w] = "create"
    /\ exists
    /\ pc' = [pc EXCEPT ![w] = "exists"]
    /\ UNCHANGED <<exists, appendOnly, version, table, batch, attempt, snap, written, start,
                   calls, lifts, removed, purged>>

\* One snapshot serves the property check, the replay check and the merge.
Load(w) ==
    /\ pc[w] = "load"
    /\ snap' = [snap EXCEPT ![w] = [version |-> version, rows |-> table]]
    /\ pc' = [pc EXCEPT ![w] = IF ~appendOnly THEN "refused"
                               ELSE IF Conflicts(w, table) THEN "conflict"
                               ELSE "merge"]
    /\ purged' = [purged EXCEPT ![w] = {}]
    /\ UNCHANGED <<exists, appendOnly, version, table, batch, attempt, written, start,
                   calls, lifts, removed>>

Missing(w) == DOMAIN batch[w] \ KeysIn(snap[w].rows)

\* Mutant of Commits: a blind append, which Delta never refuses.
BlindCommit(w) == TRUE

\* Delta's optimistic check: nothing was committed since the snapshot.
Commits(w) == version = snap[w].version

\* Mutant of Merge: the rows submitted are counted, not the rows inserted.
MergeCountsAll(w) ==
    /\ pc[w] = "merge"
    /\ Missing(w) # {}
    /\ Commits(w)
    /\ table' = table \cup RowsOf(w, Missing(w))
    /\ version' = version + 1
    /\ written' = [written EXCEPT ![w] = Cardinality(DOMAIN batch[w])]
    /\ pc' = [pc EXCEPT ![w] = "verify"]
    /\ UNCHANGED <<exists, appendOnly, batch, attempt, snap, start, calls, lifts, removed,
                   purged>>

\* The merge inserts the keys the snapshot does not have.
Merge(w) ==
    /\ pc[w] = "merge"
    /\ Missing(w) # {}
    /\ Commits(w)
    /\ table' = table \cup RowsOf(w, Missing(w))
    /\ version' = version + 1
    /\ written' = [written EXCEPT ![w] = Cardinality(Missing(w))]
    /\ pc' = [pc EXCEPT ![w] = "verify"]
    /\ UNCHANGED <<exists, appendOnly, batch, attempt, snap, start, calls, lifts, removed,
                   purged>>

\* Every key is there: the merge has nothing to commit.
MergeNothing(w) ==
    /\ pc[w] = "merge"
    /\ Missing(w) = {}
    /\ pc' = [pc EXCEPT ![w] = "verify"]
    /\ UNCHANGED <<exists, appendOnly, version, table, batch, attempt, snap, written, start,
                   calls, lifts, removed, purged>>

\* Mutant of CommitFails: one attempt too many.
RetryOnceMore(w) ==
    /\ pc[w] = "merge"
    /\ Missing(w) # {}
    /\ ~Commits(w)
    /\ IF attempt[w] > MaxAttempts
       THEN /\ pc' = [pc EXCEPT ![w] = "exhausted"]
            /\ UNCHANGED attempt
       ELSE /\ pc' = [pc EXCEPT ![w] = "load"]
            /\ attempt' = [attempt EXCEPT ![w] = @ + 1]
    /\ UNCHANGED <<exists, appendOnly, version, table, batch, snap, written, start, calls,
                   lifts, removed, purged>>

\* Mutant of CommitFails: a lost race is reported at once.
NeverRetry(w) ==
    /\ pc[w] = "merge"
    /\ Missing(w) # {}
    /\ ~Commits(w)
    /\ pc' = [pc EXCEPT ![w] = "exhausted"]
    /\ UNCHANGED <<exists, appendOnly, version, table, batch, attempt, snap, written, start,
                   calls, lifts, removed, purged>>

\* CommitFailedError: retried from a new snapshot, re-raised the last time.
CommitFails(w) ==
    /\ pc[w] = "merge"
    /\ Missing(w) # {}
    /\ ~Commits(w)
    /\ IF attempt[w] = MaxAttempts
       THEN /\ pc' = [pc EXCEPT ![w] = "exhausted"]
            /\ UNCHANGED attempt
       ELSE /\ pc' = [pc EXCEPT ![w] = "load"]
            /\ attempt' = [attempt EXCEPT ![w] = @ + 1]
    /\ UNCHANGED <<exists, appendOnly, version, table, batch, snap, written, start, calls,
                   lifts, removed, purged>>

\* The replay check again, on what is now retained.
Verify(w) ==
    /\ pc[w] = "verify"
    /\ pc' = [pc EXCEPT ![w] = IF Conflicts(w, table) THEN "conflict" ELSE "ok"]
    /\ UNCHANGED <<exists, appendOnly, version, table, batch, attempt, snap, written, start,
                   calls, lifts, removed, purged>>

\* The process is killed, or the store cannot be reached.
Kill(w) ==
    /\ pc[w] \in Running
    /\ pc' = [pc EXCEPT ![w] = "killed"]
    /\ UNCHANGED <<exists, appendOnly, version, table, batch, attempt, snap, written, start,
                   calls, lifts, removed, purged>>

-----------------------------------------------------------------------------
\* retention._delete_batch lifts the property, ...
Lift ==
    /\ exists
    /\ appendOnly
    /\ lifts < MaxLifts
    /\ appendOnly' = FALSE
    /\ version' = version + 1
    /\ lifts' = lifts + 1
    /\ UNCHANGED <<exists, table, pc, batch, attempt, snap, written, start, calls, removed,
                   purged>>

\* ... deletes rows chunk by chunk, ...
Delete ==
    /\ ~appendOnly
    /\ \E K \in SUBSET KeysIn(table) \ {{}} :
          LET rows == {r \in table : r.key \in K} IN
          /\ table' = table \ rows
          /\ removed' = removed \cup rows
          /\ purged' = [w \in Writers |-> purged[w] \cup (K \cap DOMAIN batch[w])]
    /\ version' = version + 1
    /\ UNCHANGED <<exists, appendOnly, pc, batch, attempt, snap, written, start, calls,
                   lifts>>

\* ... and sets the property again; each is a commit of its own.
Restore ==
    /\ ~appendOnly
    /\ appendOnly' = TRUE
    /\ version' = version + 1
    /\ UNCHANGED <<exists, table, pc, batch, attempt, snap, written, start, calls, lifts,
                   removed, purged>>

Step(w) ==
    \/ Exists(w) \/ Create(w) \/ CreateRaces(w) \/ Load(w)
    \/ Merge(w) \/ MergeNothing(w) \/ CommitFails(w) \/ Verify(w)

Next ==
    \/ \E w \in Writers : Call(w) \/ Step(w) \/ Kill(w)
    \/ Lift \/ Delete \/ Restore

Spec == Init /\ [][Next]_vars

-----------------------------------------------------------------------------
TypeOK ==
    /\ exists \in BOOLEAN
    /\ appendOnly \in BOOLEAN
    /\ version \in Nat
    /\ table \subseteq Row
    /\ pc \in [Writers -> Ended \cup Running]
    /\ batch \in [Writers -> Batches \cup {<<>>}]
    /\ attempt \in [Writers -> 0..MaxAttempts]
    /\ snap \in [Writers -> [version : Nat, rows : SUBSET Row]]
    /\ written \in [Writers -> 0..Cardinality(Keys)]
    /\ start \in [Writers -> Nat]
    /\ calls \in [Writers -> 0..MaxCalls]
    /\ lifts \in 0..MaxLifts
    /\ removed \subseteq Row
    /\ purged \in [Writers -> SUBSET Keys]

\* From its commit on, every row of the batch is retained with the content
\* the caller gave it, whoever inserted it and whoever writes meanwhile, unless
\* retention deletes the row after the snapshot was loaded: when append_rows
\* returns the caller may forget the batch.
ReturnMeansRetained ==
    \A w \in Writers : pc[w] \in {"verify", "ok"} =>
        \A k \in DOMAIN batch[w] \ purged[w] :
            \A c \in Contents :
                (\E r \in table : r.key = k /\ r.content = c) <=> c = batch[w][k]

\* records_written is exact: it counts the rows this very call inserted, so
\* the counts reported by all runs add up to the rows of the table and those
\* that retention deleted.
CountExact ==
    \A w \in Writers : pc[w] = "ok" /\ calls[w] > 0 =>
        written[w] = Cardinality({r \in table \cup removed : r.by = Tag(w)})

\* The retry loop gives up only under real contention: at least one foreign
\* commit for each of its attempts.
ExhaustedMeansContention ==
    \A w \in Writers : pc[w] = "exhausted" => version - start[w] >= MaxAttempts

\* append_rows and the retention window implement the keyed table.
KT == INSTANCE KeyedTable
Keyed == KT!Spec
=============================================================================
