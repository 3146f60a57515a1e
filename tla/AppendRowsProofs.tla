-------------------------- MODULE AppendRowsProofs --------------------------
(***************************************************************************)
(* Proofs about AppendRows, for any number of writers, calls, attempts,    *)
(* lifts of the append-only property and deletions, over any finite set of *)
(* keys.                                                                   *)
(***************************************************************************)
EXTENDS AppendRows, FiniteSetTheorems, TLAPS

-----------------------------------------------------------------------------
(* The inductive invariant. *)

\* A key has one row; before the table exists there is no row, none was deleted
\* and nobody lifts its property.
TableInv ==
    /\ \A r, s \in table : r.key = s.key => r = s
    /\ ~exists => table = {} /\ removed = {} /\ appendOnly

\* While a merge is pending its snapshot is the table itself, with the property
\* set, unless a commit has raised the version; what the snapshot has of the
\* batch is still there or was deleted since.
SnapInv(w) ==
    /\ snap[w].version <= version
    /\ pc[w] \in {"load", "merge", "verify"} => exists
    /\ pc[w] = "merge" =>
         /\ ~Conflicts(w, snap[w].rows)
         /\ snap[w].version = version => snap[w].rows = table /\ appendOnly
         /\ \A r \in snap[w].rows :
               r \in table \/ r.key \in purged[w] \/ r.key \notin DOMAIN batch[w]

\* From the commit on the table holds the batch, save what was deleted since.
BatchInv(w) ==
    pc[w] \in {"verify", "ok"} =>
        \A k \in DOMAIN batch[w] \ purged[w] :
            \E r \in table : r.key = k /\ r.content = batch[w][k]

\* Every attempt after the first was paid for by a commit since the call began.
AttemptInv(w) ==
    /\ start[w] <= version
    /\ pc[w] \in {"load", "merge"} => attempt[w] >= 1
    /\ pc[w] = "load" => version - start[w] >= attempt[w] - 1
    /\ pc[w] = "merge" => snap[w].version - start[w] >= attempt[w] - 1
    /\ pc[w] = "exhausted" => version - start[w] >= MaxAttempts

\* The rows a call of w inserted, deleted since or not.
Inserted(w, n) == {r \in table \cup removed : r.by = <<w, n>>}

\* A writer past its first call has made one.  No row carries the tag of a
\* call not made yet, nor of one that has not committed; after the commit
\* records_written is their number.
CountInv(w) ==
    /\ pc[w] # "ok" => calls[w] > 0
    /\ \A n \in (calls[w] + 1)..MaxCalls : Inserted(w, n) = {}
    /\ pc[w] \in {"begun", "create", "load", "merge"} =>
         Inserted(w, calls[w]) = {} /\ written[w] = 0
    /\ pc[w] \in {"verify", "ok"} /\ calls[w] > 0 =>
         written[w] = Cardinality(Inserted(w, calls[w]))

WriterInv(w) == SnapInv(w) /\ BatchInv(w) /\ AttemptInv(w) /\ CountInv(w)

Inv == TypeOK /\ TableInv /\ \A w \in Writers : WriterInv(w)

-----------------------------------------------------------------------------
(* What the operators return. *)

\* A batch maps keys to contents.
LEMMA BatchType ==
    ASSUME TypeOK, NEW w \in Writers
    PROVE  /\ DOMAIN batch[w] \subseteq Keys
           /\ \A k \in DOMAIN batch[w] : batch[w][k] \in Contents
<1>1. CASE batch[w] = <<>>
  BY <1>1
<1>2. CASE batch[w] \in Batches
  BY <1>2 DEF Batches
<1> QED BY <1>1, <1>2 DEF TypeOK

\* The rows made of a batch are rows of the table's type, one per key, all
\* carrying the tag of the call.
LEMMA RowsOfType ==
    ASSUME TypeOK, NEW w \in Writers, calls[w] > 0, NEW K \in SUBSET DOMAIN batch[w]
    PROVE  /\ RowsOf(w, K) \subseteq Row
           /\ \A r \in RowsOf(w, K) : r.key \in K /\ r.content = batch[w][r.key] /\ r.by = Tag(w)
           /\ \A k \in K : \E r \in RowsOf(w, K) : r.key = k
           /\ \A r, s \in RowsOf(w, K) : r.key = s.key => r = s
<1>1. Tag(w) \in Tags
  BY CallsAssumption DEF TypeOK, Tag, Tags
<1>2. \A k \in K : k \in Keys /\ batch[w][k] \in Contents
  BY BatchType
<1>3. RowsOf(w, K) \subseteq Row
  BY <1>1, <1>2 DEF RowsOf, Row
<1>4. \A r \in RowsOf(w, K) : r.key \in K /\ r.content = batch[w][r.key] /\ r.by = Tag(w)
  BY DEF RowsOf
<1>5. \A k \in K : \E r \in RowsOf(w, K) : r.key = k
  <2> TAKE k \in K
  <2>1. [key |-> k, content |-> batch[w][k], by |-> Tag(w)] \in RowsOf(w, K)
    BY DEF RowsOf
  <2> QED BY <2>1
<1>6. \A r, s \in RowsOf(w, K) : r.key = s.key => r = s
  BY DEF RowsOf
<1> QED BY <1>3, <1>4, <1>5, <1>6

\* They are as many as the keys they are made for.
LEMMA RowsOfCount ==
    ASSUME TypeOK, NEW w \in Writers, NEW K \in SUBSET DOMAIN batch[w]
    PROVE  Cardinality(RowsOf(w, K)) = Cardinality(K)
<1> DEFINE f == [k \in K |-> [key |-> k, content |-> batch[w][k], by |-> Tag(w)]]
<1>1. f \in Bijection(K, RowsOf(w, K))
  BY DEF RowsOf, Bijection, Injection, Surjection, IsInjective
<1>2. ExistsBijection(K, RowsOf(w, K))
  BY <1>1 DEF ExistsBijection
<1>3. IsFiniteSet(K)
  <2>1. K \in SUBSET Keys
    BY BatchType
  <2> QED BY <2>1, KeysAssumption, FS_Subset
<1> QED BY <1>2, <1>3, FS_Bijection

\* A set of keys of a batch counts at most all keys.
LEMMA KeysCount ==
    ASSUME TypeOK, NEW w \in Writers, NEW K \in SUBSET DOMAIN batch[w]
    PROVE  Cardinality(K) \in 0..Cardinality(Keys)
<1>1. K \in SUBSET Keys
  BY BatchType
<1>2. /\ Cardinality(K) \in Nat /\ Cardinality(Keys) \in Nat
      /\ Cardinality(K) <= Cardinality(Keys)
  BY <1>1, KeysAssumption, FS_Subset, FS_CardinalityType
<1> QED BY <1>2

-----------------------------------------------------------------------------
(* The effect of a step on the writers that do not take it. *)

\* A step leaves the memory of d alone.
Spares(d) ==
    /\ pc'[d] = pc[d]
    /\ batch'[d] = batch[d]
    /\ attempt'[d] = attempt[d]
    /\ snap'[d] = snap[d]
    /\ written'[d] = written[d]
    /\ start'[d] = start[d]
    /\ calls'[d] = calls[d]

\* A step inserts no row by d, lets d remember what it deletes of its batch,
\* and raises the version when it changes a table that exists.
Grows(d) ==
    /\ \A r \in table : r \in table' \/ r.key \in purged'[d] \/ r.key \notin DOMAIN batch[d]
    /\ purged[d] \subseteq purged'[d]
    /\ \A n \in Nat : Inserted(d, n)' = Inserted(d, n)
    /\ version' \in Nat /\ version' >= version
    /\ exists => exists'
    /\ exists /\ (table' # table \/ appendOnly' # appendOnly) => version' > version

\* What a writer relies on survives the steps of the others.
LEMMA Undisturbed ==
    ASSUME TypeOK, NEW d \in Writers, WriterInv(d), Spares(d), Grows(d)
    PROVE  WriterInv(d)'
<1> USE DEF Spares, Grows
<1>0. snap[d].version \in Nat /\ start[d] \in Nat /\ attempt[d] \in Nat /\ version \in Nat
      /\ calls[d] \in 0..MaxCalls /\ MaxAttempts \in Nat /\ MaxCalls \in Nat
  BY AttemptsAssumption, CallsAssumption DEF TypeOK
<1>1. SnapInv(d)'
  BY <1>0 DEF WriterInv, SnapInv, Conflicts
<1>2. BatchInv(d)'
  BY DEF WriterInv, BatchInv
<1>3. AttemptInv(d)'
  BY <1>0 DEF WriterInv, AttemptInv
<1>4. CountInv(d)'
  BY <1>0 DEF WriterInv, CountInv
<1> QED BY <1>1, <1>2, <1>3, <1>4 DEF WriterInv

\* A step that adds rows of w adds none of another writer's.
LEMMA OthersRows ==
    ASSUME TypeOK, NEW w \in Writers, NEW d \in Writers, d # w,
           NEW K \in SUBSET DOMAIN batch[w],
           table' = table \cup RowsOf(w, K), removed' = removed
    PROVE  \A n \in Nat : Inserted(d, n)' = Inserted(d, n)
BY DEF Inserted, RowsOf, Tag

\* A step of w that leaves the table as it is does not disturb the others.
LEMMA QuietOthers ==
    ASSUME TypeOK, NEW w \in Writers, NEW d \in Writers, d # w, WriterInv(d),
           \/ Call(w) \/ Exists(w) \/ CreateRaces(w) \/ Load(w) \/ MergeNothing(w)
           \/ CommitFails(w) \/ Verify(w) \/ Kill(w)
    PROVE  WriterInv(d)'
<1>1. UNCHANGED <<exists, appendOnly, version, table, removed>> /\ purged'[d] = purged[d]
  BY DEF TypeOK, Call, Exists, CreateRaces, Load, MergeNothing, CommitFails, Verify, Kill
<1>2. Spares(d)
  BY DEF TypeOK, Spares, Call, Exists, CreateRaces, Load, MergeNothing, CommitFails,
         Verify, Kill
<1>3. Grows(d)
  BY <1>1 DEF TypeOK, Grows, Inserted
<1> QED BY <1>2, <1>3, Undisturbed

-----------------------------------------------------------------------------
(* The effect of each step on the writer that takes it. *)

\* A new call starts with nothing inserted and nothing counted.
LEMMA CallInv ==
    ASSUME Inv, NEW w \in Writers, Call(w)
    PROVE  WriterInv(w)'
<1>1. /\ UNCHANGED <<exists, version, table, removed, snap, attempt>>
      /\ pc'[w] = "begun" /\ start'[w] = version /\ written'[w] = 0
      /\ calls'[w] = calls[w] + 1 /\ calls[w] + 1 <= MaxCalls /\ calls[w] \in Nat
      /\ version \in Nat /\ MaxCalls \in Nat
  BY CallsAssumption DEF Inv, TypeOK, Call
<1>2. SnapInv(w)' /\ BatchInv(w)' /\ AttemptInv(w)'
  BY <1>1 DEF Inv, WriterInv, SnapInv, BatchInv, AttemptInv
<1>3. \A n \in (calls[w] + 1)..MaxCalls : Inserted(w, n)' = {}
  BY <1>1 DEF Inv, WriterInv, CountInv, Inserted
<1>4. CountInv(w)'
  BY <1>1, <1>3 DEF CountInv, Inserted
<1> QED BY <1>2, <1>4 DEF WriterInv

\* Steps that only move the writer on.
LEMMA QuietInv ==
    ASSUME Inv, NEW w \in Writers,
           \/ Exists(w) \/ CreateRaces(w) \/ CommitFails(w) \/ Verify(w) \/ Kill(w)
    PROVE  WriterInv(w)'
<1>1. /\ UNCHANGED <<exists, appendOnly, version, table, removed, purged, snap, batch, written,
                     start, calls>>
      /\ version \in Nat /\ start[w] \in Nat /\ snap[w].version \in Nat
      /\ attempt[w] \in 0..MaxAttempts /\ MaxAttempts \in Nat
      /\ calls[w] \in Nat
  BY AttemptsAssumption, CallsAssumption
     DEF Inv, TypeOK, Exists, CreateRaces, CommitFails, Verify, Kill
<1>2. SnapInv(w)'
  BY <1>1 DEF Inv, TypeOK, WriterInv, SnapInv, Exists, CreateRaces, CommitFails, Verify, Kill
<1>3. BatchInv(w)'
  BY <1>1 DEF Inv, TypeOK, WriterInv, BatchInv, Exists, CreateRaces, CommitFails, Verify, Kill
<1>4. AttemptInv(w)'
  BY <1>1 DEF Inv, TypeOK, WriterInv, SnapInv, AttemptInv, Exists, CreateRaces, CommitFails, Verify,
              Kill, Commits
<1>5. CountInv(w)'
  BY <1>1 DEF Inv, TypeOK, WriterInv, CountInv, Inserted, Exists, CreateRaces, CommitFails,
              Verify, Kill, Running
<1> QED BY <1>2, <1>3, <1>4, <1>5 DEF WriterInv

\* A snapshot just loaded is the table.
LEMMA LoadInv ==
    ASSUME Inv, NEW w \in Writers, Load(w)
    PROVE  WriterInv(w)'
<1>1. /\ UNCHANGED <<exists, version, table, removed, batch, written, start, calls, attempt>>
      /\ snap'[w] = [version |-> version, rows |-> table]
      /\ pc[w] = "load" /\ pc'[w] \in {"refused", "conflict", "merge"}
      /\ pc'[w] = "merge" => ~Conflicts(w, table) /\ appendOnly'
      /\ version \in Nat
  BY DEF Inv, TypeOK, Load
<1>2. SnapInv(w)'
  BY <1>1 DEF Inv, WriterInv, SnapInv, Conflicts
<1>3. BatchInv(w)' /\ AttemptInv(w)'
  BY <1>1 DEF Inv, WriterInv, BatchInv, AttemptInv
<1>4. CountInv(w)'
  BY <1>1 DEF Inv, WriterInv, CountInv, Inserted
<1> QED BY <1>2, <1>3, <1>4 DEF WriterInv

\* Nothing is missing and nothing conflicts: the snapshot holds the batch.
LEMMA MergeNothingInv ==
    ASSUME Inv, NEW w \in Writers, MergeNothing(w)
    PROVE  WriterInv(w)'
<1>1. /\ UNCHANGED <<exists, version, table, removed, purged, batch, written, start, calls,
                     attempt, snap>>
      /\ pc[w] = "merge" /\ pc'[w] = "verify" /\ Missing(w) = {}
      /\ written[w] = 0 /\ Inserted(w, calls[w]) = {}
  BY DEF Inv, TypeOK, MergeNothing, WriterInv, CountInv
<1>2. SnapInv(w)' /\ AttemptInv(w)'
  BY <1>1 DEF Inv, WriterInv, SnapInv, AttemptInv
<1>3. BatchInv(w)'
  BY <1>1 DEF Inv, WriterInv, SnapInv, BatchInv, Missing, KeysIn, Conflicts
<1>4. CountInv(w)'
  BY <1>1, FS_EmptySet DEF Inv, WriterInv, CountInv, Inserted
<1> QED BY <1>2, <1>3, <1>4 DEF WriterInv

\* A commit that inserts keys the table does not have.
CommitOf(w, K) ==
    /\ table' = table \cup RowsOf(w, K)
    /\ K \cap KeysIn(table) = {}
    /\ appendOnly
    /\ UNCHANGED <<appendOnly, removed, purged, batch, calls>>

\* Such a commit keeps keys unique and inserts exactly the rows of its call.
LEMMA CommitTable ==
    ASSUME Inv, NEW w \in Writers, calls[w] > 0, NEW K \in SUBSET DOMAIN batch[w],
           CommitOf(w, K), Inserted(w, calls[w]) = {}
    PROVE  /\ table' \subseteq Row
           /\ \A r, s \in table' : r.key = s.key => r = s
           /\ Inserted(w, calls[w])' = RowsOf(w, K)
           /\ \A n \in Nat : n # calls[w] => Inserted(w, n)' = Inserted(w, n)
           /\ KT!Insert
<1>1. /\ RowsOf(w, K) \subseteq Row
      /\ \A r \in RowsOf(w, K) : r.key \in K /\ r.by = Tag(w)
      /\ \A r, s \in RowsOf(w, K) : r.key = s.key => r = s
  BY RowsOfType DEF Inv
<1>2. table' \subseteq Row
  BY <1>1 DEF Inv, TypeOK, CommitOf
<1>3. \A r \in table, s \in RowsOf(w, K) : r.key # s.key
  BY <1>1 DEF CommitOf, KeysIn
<1>4. \A r, s \in table' : r.key = s.key => r = s
  BY <1>1, <1>3 DEF Inv, TableInv, CommitOf
<1>5. Inserted(w, calls[w])' = RowsOf(w, K)
  BY <1>1 DEF Inserted, CommitOf, Tag
<1>6. \A n \in Nat : n # calls[w] => Inserted(w, n)' = Inserted(w, n)
  BY <1>1 DEF Inserted, CommitOf, Tag
<1>7. KT!Insert
  BY <1>1, <1>3, <1>4 DEF KT!Insert, KT!KeysOf, CommitOf
<1> QED BY <1>2, <1>4, <1>5, <1>6, <1>7

\* The first writer makes the table of its whole batch.
LEMMA CreateCommits ==
    ASSUME Inv, NEW w \in Writers, Create(w)
    PROVE  /\ CommitOf(w, DOMAIN batch[w])
           /\ calls[w] > 0 /\ Inserted(w, calls[w]) = {}
BY DEF Inv, TableInv, WriterInv, CountInv, Create, CommitOf, KeysIn

\* A merge that commits read the table itself, so what the snapshot misses
\* the table misses.
LEMMA MergeCommits ==
    ASSUME Inv, NEW w \in Writers, Merge(w)
    PROVE  /\ CommitOf(w, Missing(w)) /\ snap[w].rows = table
           /\ Missing(w) \in SUBSET DOMAIN batch[w]
           /\ calls[w] > 0 /\ Inserted(w, calls[w]) = {}
BY DEF Inv, WriterInv, SnapInv, CountInv, Merge, Commits, CommitOf, Missing

\* The writer that created the table finds its batch there, and counts it.
LEMMA CreateInv ==
    ASSUME Inv, NEW w \in Writers, Create(w)
    PROVE  WriterInv(w)'
<1>1. /\ UNCHANGED <<version, snap, purged, batch, start, calls, attempt>>
      /\ exists' /\ pc'[w] = "ok" /\ table = {}
      /\ written'[w] = Cardinality(DOMAIN batch[w])
      /\ calls[w] \in Nat /\ MaxCalls \in Nat
  BY CallsAssumption DEF Inv, TypeOK, Create, TableInv
<1>2. /\ table' = RowsOf(w, DOMAIN batch[w])
      /\ calls[w] > 0
      /\ Inserted(w, calls[w])' = RowsOf(w, DOMAIN batch[w])
      /\ \A n \in Nat : n # calls[w] => Inserted(w, n)' = Inserted(w, n)
  BY CreateCommits, CommitTable DEF Create
<1>3. SnapInv(w)' /\ AttemptInv(w)'
  BY <1>1 DEF Inv, WriterInv, SnapInv, AttemptInv
<1>4. BatchInv(w)'
  BY <1>1, <1>2, RowsOfType DEF Inv, BatchInv
<1>5. CountInv(w)'
  BY <1>1, <1>2, RowsOfCount DEF Inv, WriterInv, CountInv
<1> QED BY <1>3, <1>4, <1>5 DEF WriterInv

\* A committed merge completes the batch, and counts what was missing.
LEMMA MergeInv ==
    ASSUME Inv, NEW w \in Writers, Merge(w)
    PROVE  WriterInv(w)'
<1>1. /\ UNCHANGED <<exists, snap, purged, batch, start, calls, attempt>>
      /\ pc[w] = "merge" /\ pc'[w] = "verify" /\ version' = version + 1
      /\ written'[w] = Cardinality(Missing(w))
      /\ calls[w] \in Nat /\ MaxCalls \in Nat
      /\ version \in Nat /\ snap[w].version \in Nat /\ start[w] \in Nat
  BY CallsAssumption DEF Inv, TypeOK, Merge
<1>2. /\ Missing(w) \in SUBSET DOMAIN batch[w] /\ snap[w].rows = table
      /\ calls[w] > 0
      /\ table' = table \cup RowsOf(w, Missing(w))
      /\ Inserted(w, calls[w])' = RowsOf(w, Missing(w))
      /\ \A n \in Nat : n # calls[w] => Inserted(w, n)' = Inserted(w, n)
  BY MergeCommits, CommitTable DEF CommitOf
<1>3. SnapInv(w)' /\ AttemptInv(w)'
  BY <1>1, <1>2 DEF Inv, WriterInv, SnapInv, AttemptInv
<1>4. BatchInv(w)'
  <2> SUFFICES ASSUME NEW k \in DOMAIN batch[w] \ purged[w]
               PROVE  \E r \in table' : r.key = k /\ r.content = batch[w][k]
    BY <1>1 DEF BatchInv
  <2>1. CASE k \in Missing(w)
    BY <2>1, <1>2, RowsOfType DEF Inv
  <2>2. CASE k \notin Missing(w)
    BY <2>2, <1>1, <1>2 DEF Inv, WriterInv, SnapInv, Conflicts, Missing, KeysIn
  <2> QED BY <2>1, <2>2
<1>5. CountInv(w)'
  BY <1>1, <1>2, RowsOfCount DEF Inv, WriterInv, CountInv
<1> QED BY <1>3, <1>4, <1>5 DEF WriterInv

\* The others see a commit as a table that grew.
LEMMA CommitOthers ==
    ASSUME Inv, NEW w \in Writers, NEW d \in Writers, d # w, Create(w) \/ Merge(w)
    PROVE  WriterInv(d)'
<1>1. Spares(d)
  BY DEF Inv, TypeOK, Spares, Create, Merge
<1>2. \E K \in SUBSET DOMAIN batch[w] : CommitOf(w, K)
  BY CreateCommits, MergeCommits
<1>3. \A n \in Nat : Inserted(d, n)' = Inserted(d, n)
  BY <1>2, OthersRows DEF Inv, CommitOf
<1>4. Grows(d)
  BY <1>2, <1>3 DEF Inv, TypeOK, Grows, CommitOf, Create, Merge
<1> QED BY <1>1, <1>4, Undisturbed DEF Inv

\* Retention's commits raise the version and insert no row; what they delete
\* of a batch its writer remembers.
LEMMA WindowInv ==
    ASSUME Inv, NEW d \in Writers, Lift \/ Delete \/ Restore
    PROVE  WriterInv(d)'
<1>1. Spares(d)
  BY DEF Spares, Lift, Delete, Restore
<1>2. CASE Lift \/ Restore
  <2>1. Grows(d)
    BY <1>2 DEF Inv, TypeOK, Grows, Inserted, Lift, Restore
  <2> QED BY <1>1, <2>1, Undisturbed DEF Inv
<1>3. CASE Delete
  <2>1. PICK K \in SUBSET KeysIn(table) :
           /\ table' = table \ {r \in table : r.key \in K}
           /\ removed' = removed \cup {r \in table : r.key \in K}
           /\ purged'[d] = purged[d] \cup (K \cap DOMAIN batch[d])
    BY <1>3 DEF Delete
  <2>2. \A n \in Nat : Inserted(d, n)' = Inserted(d, n)
    BY <2>1 DEF Inserted
  <2>3. UNCHANGED <<exists, appendOnly>> /\ version' = version + 1 /\ version \in Nat
    BY <1>3 DEF Inv, TypeOK, Delete
  <2>4. Grows(d)
    BY <2>1, <2>2, <2>3 DEF Grows
  <2> QED BY <1>1, <2>4, Undisturbed DEF Inv
<1> QED BY <1>2, <1>3

-----------------------------------------------------------------------------
(* The invariant is inductive. *)

\* The invariant holds before the first call.
LEMMA InitInv == Init => Inv
<1> SUFFICES ASSUME Init PROVE Inv
  OBVIOUS
<1>1. TypeOK
  <2>1. Cardinality(Keys) \in Nat
    BY KeysAssumption, FS_CardinalityType
  <2>2. 0 \in 0..MaxAttempts /\ 0 \in 0..MaxCalls /\ 0 \in 0..MaxLifts
    BY AttemptsAssumption, CallsAssumption
  <2>3. "ok" \in Ended \cup Running
    BY DEF Ended
  <2>4. [version |-> 0, rows |-> {}] \in [version : Nat, rows : SUBSET Row]
    OBVIOUS
  <2>5. batch \in [Writers -> Batches \cup {<<>>}]
    BY DEF Init
  <2>6. snap \in [Writers -> [version : Nat, rows : SUBSET Row]]
    BY <2>4 DEF Init
  <2>7. written \in [Writers -> 0..Cardinality(Keys)]
    BY <2>1 DEF Init
  <2> QED BY <2>2, <2>3, <2>5, <2>6, <2>7 DEF Init, TypeOK
<1>2. TableInv
  BY DEF Init, TableInv
<1>3. ASSUME NEW w \in Writers PROVE WriterInv(w)
  BY AttemptsAssumption, CallsAssumption
     DEF Init, WriterInv, SnapInv, BatchInv, AttemptInv, CountInv, Inserted
<1> QED BY <1>1, <1>2, <1>3 DEF Inv

\* The types survive a step of a writer.
LEMMA WriterType ==
    ASSUME Inv, NEW w \in Writers, Call(w) \/ Step(w) \/ Kill(w)
    PROVE  TypeOK'
<1> USE DEF Ended, Running
<1>0. /\ MaxCalls \in Nat /\ MaxAttempts \in Nat /\ MaxAttempts >= 1
      /\ Cardinality(Keys) \in Nat
  BY AttemptsAssumption, CallsAssumption, KeysAssumption, FS_CardinalityType
<1>1. CASE Call(w)
  BY <1>0, <1>1 DEF Inv, TypeOK, Call
<1>2. CASE Exists(w)
  BY <1>0, <1>2 DEF Inv, TypeOK, Exists
<1>3. CASE Create(w)
  <2>1. table' \subseteq Row
    BY <1>3, CreateCommits, CommitTable
  <2>2. Cardinality(DOMAIN batch[w]) \in 0..Cardinality(Keys)
    BY KeysCount DEF Inv
  <2> QED BY <1>3, <2>1, <2>2 DEF Inv, TypeOK, Create
<1>4. CASE CreateRaces(w)
  BY <1>4 DEF Inv, TypeOK, CreateRaces
<1>5. CASE Load(w)
  BY <1>5 DEF Inv, TypeOK, Load
<1>6. CASE Merge(w)
  <2>1. table' \subseteq Row
    BY <1>6, MergeCommits, CommitTable
  <2>2. Cardinality(Missing(w)) \in 0..Cardinality(Keys)
    BY <1>6, MergeCommits, KeysCount DEF Inv
  <2> QED BY <1>6, <2>1, <2>2 DEF Inv, TypeOK, Merge
<1>7. CASE MergeNothing(w)
  BY <1>7 DEF Inv, TypeOK, MergeNothing
<1>8. CASE CommitFails(w)
  <2>1. /\ pc' \in [Writers -> Ended \cup Running]
        /\ attempt' \in [Writers -> 0..MaxAttempts]
    <3>1. CASE attempt[w] = MaxAttempts
      BY <1>8, <3>1 DEF Inv, TypeOK, CommitFails
    <3>2. CASE attempt[w] # MaxAttempts
      <4>1. attempt[w] + 1 \in 0..MaxAttempts
        BY <1>0, <3>2 DEF Inv, TypeOK
      <4> QED BY <1>8, <3>2, <4>1 DEF Inv, TypeOK, CommitFails
    <3> QED BY <3>1, <3>2
  <2> QED BY <1>8, <2>1 DEF Inv, TypeOK, CommitFails
<1>9. CASE Verify(w)
  BY <1>9 DEF Inv, TypeOK, Verify
<1>10. CASE Kill(w)
  BY <1>10 DEF Inv, TypeOK, Kill
<1> QED
  BY <1>1, <1>2, <1>3, <1>4, <1>5, <1>6, <1>7, <1>8, <1>9, <1>10 DEF Step

\* The types survive the commits of retention.
LEMMA WindowType ==
    ASSUME Inv, Lift \/ Delete \/ Restore
    PROVE  TypeOK'
<1>1. CASE Lift
  <2>1. lifts' \in 0..MaxLifts /\ version' \in Nat
    BY <1>1, CallsAssumption DEF Inv, TypeOK, Lift
  <2> QED BY <1>1, <2>1 DEF Inv, TypeOK, Lift
<1>2. CASE Restore
  <2>1. version' \in Nat
    BY <1>2 DEF Inv, TypeOK, Restore
  <2> QED BY <1>2, <2>1 DEF Inv, TypeOK, Restore
<1>3. CASE Delete
  <2>1. PICK K \in SUBSET KeysIn(table) :
           /\ table' = table \ {r \in table : r.key \in K}
           /\ removed' = removed \cup {r \in table : r.key \in K}
           /\ purged' = [w \in Writers |-> purged[w] \cup (K \cap DOMAIN batch[w])]
    BY <1>3 DEF Delete
  <2>2. table' \subseteq Row /\ removed' \subseteq Row
    BY <2>1 DEF Inv, TypeOK
  <2>3. purged' \in [Writers -> SUBSET Keys]
    <3>1. \A w \in Writers : purged[w] \cup (K \cap DOMAIN batch[w]) \subseteq Keys
      BY BatchType DEF Inv, TypeOK
    <3> QED BY <2>1, <3>1
  <2>4. version' \in Nat
    BY <1>3 DEF Inv, TypeOK, Delete
  <2> QED BY <1>3, <2>2, <2>3, <2>4 DEF Inv, TypeOK, Delete
<1> QED BY <1>1, <1>2, <1>3

\* Every commit that changes the table inserts absent keys while it is
\* append-only, or removes rows while it is not.
LEMMA StepTable ==
    ASSUME Inv, [Next]_vars
    PROVE  TableInv' /\ [KT!Next]_<<table, appendOnly>>
<1>1. CASE \E w \in Writers : Create(w) \/ Merge(w)
  <2> PICK w \in Writers : Create(w) \/ Merge(w)
    BY <1>1
  <2>1. /\ \A r, s \in table' : r.key = s.key => r = s
        /\ KT!Insert
    BY CreateCommits, MergeCommits, CommitTable
  <2>2. exists'
    BY DEF Inv, WriterInv, SnapInv, Create, Merge
  <2> QED BY <2>1, <2>2 DEF TableInv, KT!Next
<1>2. CASE Lift \/ Delete \/ Restore
  <2>1. exists' /\ table' \subseteq table
    BY <1>2 DEF Inv, TableInv, Lift, Delete, Restore
  <2>2. KT!Next
    BY <1>2 DEF KT!Next, KT!Remove, KT!Switch, Lift, Delete, Restore
  <2> QED BY <2>1, <2>2 DEF Inv, TableInv
<1>3. CASE ~(\E w \in Writers : Create(w) \/ Merge(w)) /\ ~(Lift \/ Delete \/ Restore)
  <2>1. UNCHANGED <<exists, appendOnly, table, removed>>
    BY <1>3 DEF Next, Step, vars, Call, Exists, CreateRaces, Load, MergeNothing, CommitFails,
                Verify, Kill
  <2> QED BY <2>1 DEF Inv, TableInv
<1> QED BY <1>1, <1>2, <1>3

\* Every step keeps the invariant: one case per action.
LEMMA StepInv == Inv /\ [Next]_vars => Inv'
<1> SUFFICES ASSUME Inv, [Next]_vars PROVE Inv'
  OBVIOUS
<1>1. TableInv'
  BY StepTable
<1>2. ASSUME NEW w \in Writers, Call(w) \/ Step(w) \/ Kill(w)
      PROVE  Inv'
  <2>1. TypeOK'
    BY <1>2, WriterType
  <2>2. WriterInv(w)'
    BY <1>2, CallInv, QuietInv, LoadInv, MergeNothingInv, CreateInv, MergeInv DEF Step
  <2>3. ASSUME NEW d \in Writers, d # w PROVE WriterInv(d)'
    BY <1>2, <2>3, QuietOthers, CommitOthers DEF Step, Inv
  <2> QED BY <1>1, <2>1, <2>2, <2>3 DEF Inv
<1>3. CASE Lift \/ Delete \/ Restore
  BY <1>1, <1>3, WindowType, WindowInv DEF Inv
<1>4. CASE UNCHANGED vars
  <2>1. TypeOK'
    BY <1>4 DEF vars, Inv, TypeOK
  <2>2. ASSUME NEW d \in Writers PROVE WriterInv(d)'
    <3>1. Spares(d) /\ Grows(d)
      BY <1>4 DEF vars, Inv, TypeOK, Spares, Grows, Inserted
    <3> QED BY <3>1, Undisturbed DEF Inv
  <2> QED BY <1>1, <2>1, <2>2 DEF Inv
<1> QED BY <1>2, <1>3, <1>4 DEF Next

\* In every reachable state of append_rows the variables have their types:
\* the attempt counter stays within MAX_COMMIT_ATTEMPTS and records_written
\* never exceeds the keys there are.
THEOREM TypeCorrect == Spec => []TypeOK
<1>1. Inv => TypeOK
  BY DEF Inv
<1> QED BY <1>1, InitInv, StepInv, PTL DEF Spec

\* The invariant that carries the other theorems holds throughout: keys are
\* unique, a snapshot is the table itself while the version stands, what it had
\* and the table has not was deleted, and the call's counters account for its commits.
THEOREM Inductive == Spec => []Inv
BY InitInv, StepInv, PTL DEF Spec

\* When append_rows has committed, and when it returns, every key of the
\* batch that retention did not delete since is in the table with the caller's
\* content and no other, whichever writer inserted it and however many write at
\* once: a merge commits only when the version is that of the snapshot its
\* replay check read.
THEOREM RetainedOnReturn == Spec => []ReturnMeansRetained
<1>1. Inv => ReturnMeansRetained
  <2> SUFFICES ASSUME Inv, NEW w \in Writers, pc[w] \in {"verify", "ok"},
                      NEW k \in DOMAIN batch[w] \ purged[w], NEW c \in Contents
               PROVE  (\E r \in table : r.key = k /\ r.content = c) <=> c = batch[w][k]
    BY DEF ReturnMeansRetained
  <2>1. PICK r \in table : r.key = k /\ r.content = batch[w][k]
    BY DEF Inv, WriterInv, BatchInv
  <2>2. \A s \in table : s.key = k => s = r
    BY <2>1 DEF Inv, TableInv
  <2> QED BY <2>1, <2>2
<1> QED BY <1>1, InitInv, StepInv, PTL DEF Spec

\* records_written, as append_rows reports it, is the number of rows its own
\* call inserted, for any mix of concurrent and repeated batches and whatever
\* retention deletes of them later.
THEOREM WrittenIsExact == Spec => []CountExact
<1>1. Inv => CountExact
  BY DEF Inv, WriterInv, CountInv, CountExact, Inserted, Tag
<1> QED BY <1>1, InitInv, StepInv, PTL DEF Spec

\* append_rows re-raises CommitFailedError only after MAX_COMMIT_ATTEMPTS
\* foreign commits, one for each attempt, whoever made them.
THEOREM GivesUpUnderContention == Spec => []ExhaustedMeansContention
<1>1. Inv => ExhaustedMeansContention
  BY DEF Inv, WriterInv, AttemptInv, ExhaustedMeansContention
<1> QED BY <1>1, InitInv, StepInv, PTL DEF Spec

\* append_rows and the retention window implement the keyed table: every step
\* of every writer inserts a batch of absent keys at once, and only while the
\* table is append-only, or leaves the rows alone; rows go only while it is not.
THEOREM ImplementsKeyedTable == Spec => Keyed
<1>1. Init => KT!Init
  BY DEF Init, KT!Init
<1>2. Inv /\ [Next]_vars => [KT!Next]_<<table, appendOnly>>
  BY StepTable
<1> QED BY <1>1, <1>2, Inductive, PTL DEF Spec, Keyed, KT!Spec
=============================================================================
