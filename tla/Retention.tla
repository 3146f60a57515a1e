----------------------------- MODULE Retention -----------------------------
(***************************************************************************)
(* retention.enforce_retention: the audited deletion and tiering job, run  *)
(* against an append-only Delta table that ingestion keeps writing.        *)
(*                                                                         *)
(* Time is counted in days.  A row is its key; Occurred gives the day it   *)
(* occurred on, which is also its deletion window.  Appends to the audit   *)
(* and archive tables are atomic (module AppendRows).                      *)
(***************************************************************************)
EXTENDS Integers, FiniteSets

CONSTANTS Jobs,        \* process slots for retention runs
          Operators,   \* operator identities
          Keys,        \* keys of the governed table, a set of integers
          Occurred,    \* Occurred[k]: day the row with key k occurred on
          Initial,     \* keys in the table on the first day
          FirstDay,    \* the first day considered
          HotHorizon,  \* days a row is hot
          ColdHorizon, \* days a row is hot or cold
          MaxKeys,     \* MAX_KEYS_PER_DELETE
          MaxNow,      \* bound: last day considered
          MaxRuns,     \* bound: retention runs started
          MaxIngests,  \* bound: rows ingested
          MaxCrashes,  \* bound: runs killed
          MaxErrors    \* bound: deletions that raise

ASSUME OperatorsAssumption == Operators # {}
ASSUME KeysAssumption == Keys \subseteq Int /\ Initial \subseteq Keys /\ IsFiniteSet(Keys)
ASSUME OccurredAssumption ==
    /\ Occurred \in [Keys -> Nat]
    /\ \A k \in Initial : Occurred[k] <= FirstDay
ASSUME PolicyAssumption ==
    /\ HotHorizon \in Nat \ {0}
    /\ ColdHorizon \in Nat
    /\ ColdHorizon > HotHorizon
ASSUME BoundsAssumption ==
    /\ MaxKeys \in Nat \ {0} /\ MaxNow \in Nat /\ FirstDay \in 0..MaxNow /\ MaxRuns \in Nat
    /\ MaxIngests \in Nat /\ MaxCrashes \in Nat /\ MaxErrors \in Nat

VARIABLES now,         \* today
          table,       \* keys in the governed table
          appendOnly,  \* its delta.appendOnly property
          archive,     \* keys in the archive table
          audit,       \* rows of the audit table
          pc,          \* per job: where it is, or how it ended
          job,         \* per job: its arguments and reference day
          total,       \* per job: plan.total_rows
          planned,     \* per job: keys of plan.batches
          left,        \* per job: keys of the batches that are not finished
          todo,        \* per job: keys of the current batch still to delete, or
                       \* of the chunk that is being archived
          wanted,      \* per job: the cold keys of its plan, if it tiers
          cold,        \* per job: those of them it read and has still to archive
          lifts,       \* per job: the property was set when the batch began
          stale,       \* per job: it was changed by others since it was read
          raised,      \* per job: an exception waits for the finally block
          erased,      \* keys that were ever deleted (for properties)
          touched,     \* per job: others changed the table since the plan
                       \* (for properties)
          gone,        \* per job: keys deleted between its plan and its read of
                       \* the cold rows (for properties)
          open,        \* a job was killed while it had the property lifted
                       \* (for properties)
          unrecorded,  \* keys whose deletion was cut off before its record
                       \* (for properties)
          runs, ingests, crashes, errors   \* counters of the bounds

files == <<table, appendOnly, archive, audit>>
local == <<job, total, planned, left, todo, wanted, cold, lifts, stale, raised>>
bounds == <<runs, ingests, crashes, errors>>
cutOff == <<open, unrecorded>>
vars == <<now, files, pc, local, erased, touched, gone, cutOff, bounds>>

Arguments == [operator : Operators, apply : BOOLEAN, tiering : BOOLEAN, reference : 0..MaxNow]
Modes == {"plan-delete", "delete", "tier-archive"}
AuditRows == [mode : Modes, keys : SUBSET Keys, operator : Operators]
Ended == {"done", "future", "missing", "refused", "conflict", "mismatch", "crashed"}
Phases == Ended \cup {"plan", "record", "source", "archive", "tiered", "assert", "property",
                      "lift", "delete", "restore", "log", "verify"}

NoJob == [operator |-> CHOOSE o \in Operators : TRUE, apply |-> FALSE,
          tiering |-> FALSE, reference |-> FirstDay]

Init ==
    /\ now = FirstDay
    /\ table = Initial
    /\ appendOnly = TRUE
    /\ archive = {}
    /\ audit = {}
    /\ pc = [j \in Jobs |-> "done"]
    /\ job = [j \in Jobs |-> NoJob]
    /\ total = [j \in Jobs |-> 0]
    /\ planned = [j \in Jobs |-> {}]
    /\ left = [j \in Jobs |-> {}]
    /\ todo = [j \in Jobs |-> {}]
    /\ wanted = [j \in Jobs |-> {}]
    /\ cold = [j \in Jobs |-> {}]
    /\ lifts = [j \in Jobs |-> FALSE]
    /\ stale = [j \in Jobs |-> FALSE]
    /\ raised = [j \in Jobs |-> FALSE]
    /\ erased = {}
    /\ touched = [j \in Jobs |-> FALSE]
    /\ gone = [j \in Jobs |-> {}]
    /\ open = FALSE
    /\ unrecorded = {}
    /\ runs = 0
    /\ ingests = 0
    /\ crashes = 0
    /\ errors = 0

-----------------------------------------------------------------------------
\* Mutant of TierFor: a row expires on the last day of the cold horizon.
TierForTooEarly(k, reference) ==
    LET age == reference - Occurred[k] IN
    CASE age < 0 -> "future"
      [] age \in 0..HotHorizon -> "hot"
      [] age \in (HotHorizon + 1)..(ColdHorizon - 1) -> "cold"
      [] age >= ColdHorizon -> "expired"

\* RetentionPolicy.tier_for; it raises for a row that occurred after the
\* reference, which counts as the tier "future".
TierFor(k, reference) ==
    LET age == reference - Occurred[k] IN
    CASE age < 0 -> "future"
      [] age \in 0..HotHorizon -> "hot"
      [] age \in (HotHorizon + 1)..ColdHorizon -> "cold"
      [] OTHER -> "expired"

InTier(tier, reference) == {k \in table : TierFor(k, reference) = tier}

GoTo(j, where) == pc' = [pc EXCEPT ![j] = where]

\* The batch of the earliest window that is not finished.
Batch(j) == {k \in left[j] : \A i \in left[j] : Occurred[k] <= Occurred[i]}

\* At most MaxKeys keys, in sorted order.
Chunk(keys) == {k \in keys : Cardinality({i \in keys : i < k}) < MaxKeys}

\* Where an applied run goes when it turns to the next batch.
NextBatch(keys) == IF keys = {} THEN "verify" ELSE "assert"

\* Other jobs see that the table changes under them, and the rows they have
\* planned to archive and not read yet go.
Touch(writer, keys) ==
    /\ touched' = [j \in Jobs |-> touched[j] \/ j # writer]
    /\ gone' = [j \in Jobs |-> IF pc[j] = "source" THEN gone[j] \cup keys ELSE gone[j]]

-----------------------------------------------------------------------------
\* A new process calls enforce_retention; the reference day is fixed here.
Start(j) ==
    /\ pc[j] \in Ended
    /\ runs < MaxRuns
    /\ runs' = runs + 1
    /\ \E o \in Operators, a, t \in BOOLEAN :
          job' = [job EXCEPT ![j] = [operator |-> o, apply |-> a, tiering |-> t,
                                     reference |-> now]]
    /\ total' = [total EXCEPT ![j] = 0]
    /\ planned' = [planned EXCEPT ![j] = {}]
    /\ left' = [left EXCEPT ![j] = {}]
    /\ todo' = [todo EXCEPT ![j] = {}]
    /\ wanted' = [wanted EXCEPT ![j] = {}]
    /\ cold' = [cold EXCEPT ![j] = {}]
    /\ lifts' = [lifts EXCEPT ![j] = FALSE]
    /\ stale' = [stale EXCEPT ![j] = FALSE]
    /\ raised' = [raised EXCEPT ![j] = FALSE]
    /\ touched' = [touched EXCEPT ![j] = FALSE]
    /\ gone' = [gone EXCEPT ![j] = {}]
    /\ GoTo(j, "plan")
    /\ UNCHANGED <<now, files, erased, cutOff, ingests, crashes, errors>>

\* plan_retention.
Plan(j) ==
    LET reference == job[j].reference
        expired == InTier("expired", reference)
        tiered == IF job[j].apply /\ job[j].tiering THEN InTier("cold", reference) ELSE {}
    IN
    /\ pc[j] = "plan"
    /\ InTier("future", reference) = {}
    /\ total' = [total EXCEPT ![j] = Cardinality(table)]
    /\ planned' = [planned EXCEPT ![j] = expired]
    /\ left' = [left EXCEPT ![j] = expired]
    /\ wanted' = [wanted EXCEPT ![j] = tiered]
    /\ GoTo(j, IF ~job[j].apply THEN "record"
               ELSE IF tiered # {} THEN "source"
               ELSE NextBatch(expired))
    /\ touched' = [touched EXCEPT ![j] = FALSE]
    /\ UNCHANGED <<now, files, job, todo, cold, lifts, stale, raised, erased, gone, cutOff,
                   bounds>>

\* tier_for raises, in the plan or in the final verification.
PlanRaises(j) ==
    /\ pc[j] \in {"plan", "verify"}
    /\ InTier("future", job[j].reference) # {}
    /\ GoTo(j, "future")
    /\ UNCHANGED <<now, files, local, erased, touched, gone, cutOff, bounds>>

-----------------------------------------------------------------------------
(***************************************************************************)
(* _append_audit_record.  audit_id covers the mode, the window and the     *)
(* keys; the operator is a guarded column that it does not cover.          *)
(***************************************************************************)
\* Mutant of AuditRow: the operator identity is not recorded.
AnonymousAuditRow(j, mode, keys) == [mode |-> mode, keys |-> keys, operator |-> ""]

AuditRow(j, mode, keys) == [mode |-> mode, keys |-> keys, operator |-> job[j].operator]

AuditConflict(row) ==
    \E a \in audit : a.mode = row.mode /\ a.keys = row.keys /\ a.operator # row.operator

\* The record is appended, or was there already; the job goes on.
Record(j, row) ==
    /\ ~AuditConflict(row)
    /\ audit' = audit \cup {row}

\* Mutant of Pending: an executed deletion is recorded as a plan.
PendingAsPlan(j) ==
    CASE pc[j] \in {"record", "log"} -> AuditRow(j, "plan-delete", Batch(j))
      [] pc[j] = "tiered" -> AuditRow(j, "tier-archive", todo[j])

\* What the job is about to record.
Pending(j) ==
    CASE pc[j] = "record" -> AuditRow(j, "plan-delete", Batch(j))
      [] pc[j] = "tiered" -> AuditRow(j, "tier-archive", todo[j])
      [] pc[j] = "log"    -> AuditRow(j, "delete", Batch(j))

\* A dry run records each planned batch and stops.
RecordPlan(j) ==
    /\ pc[j] = "record"
    /\ IF left[j] = {}
       THEN GoTo(j, "done") /\ UNCHANGED <<audit, left>>
       ELSE /\ Record(j, Pending(j))
            /\ left' = [left EXCEPT ![j] = @ \ Batch(j)]
            /\ UNCHANGED pc
    /\ UNCHANGED <<now, table, appendOnly, archive, job, total, planned, todo, wanted, cold,
                   lifts, stale, raised, erased, touched, gone, cutOff, bounds>>

\* The key was recorded by another operator: append_rows reports a conflict.
RecordRaises(j) ==
    /\ \/ pc[j] = "record" /\ left[j] # {}
       \/ pc[j] \in {"tiered", "log"}
    /\ AuditConflict(Pending(j))
    /\ GoTo(j, "conflict")
    /\ UNCHANGED <<now, files, local, erased, touched, gone, cutOff, bounds>>

-----------------------------------------------------------------------------
\* _archive_cold_rows reads the rows it wants that are still there ...
ReadCold(j) ==
    LET rows == wanted[j] \cap table IN
    /\ pc[j] = "source"
    /\ cold' = [cold EXCEPT ![j] = rows]
    /\ GoTo(j, IF rows = {} THEN NextBatch(left[j]) ELSE "archive")
    /\ UNCHANGED <<now, files, job, total, planned, left, todo, wanted, lifts, stale,
                   raised, erased, touched, gone, cutOff, bounds>>

\* ... and copies them chunk by chunk, in the order the table listed them,
\* which may be any, ...
ArchiveChunk(j) ==
    /\ pc[j] = "archive"
    /\ \E chunk \in SUBSET cold[j] :
          /\ chunk = cold[j] \/ Cardinality(chunk) = MaxKeys
          /\ Cardinality(chunk) <= MaxKeys
          /\ archive' = archive \cup chunk
          /\ todo' = [todo EXCEPT ![j] = chunk]
    /\ GoTo(j, "tiered")
    /\ UNCHANGED <<now, table, appendOnly, audit, job, total, planned, left, wanted, cold,
                   lifts, stale, raised, erased, touched, gone, cutOff, bounds>>

\* Mutant of ArchiveRecord: the table is read again for every chunk.
RereadCold(j) ==
    LET rest == (cold[j] \ todo[j]) \cap table IN
    /\ pc[j] = "tiered"
    /\ Record(j, Pending(j))
    /\ cold' = [cold EXCEPT ![j] = rest]
    /\ todo' = [todo EXCEPT ![j] = {}]
    /\ GoTo(j, IF rest = {} THEN NextBatch(left[j]) ELSE "archive")
    /\ UNCHANGED <<now, table, appendOnly, archive, job, total, planned, left, wanted,
                   lifts, stale, raised, erased, touched, gone, cutOff, bounds>>

\* ... each with its audit record.
ArchiveRecord(j) ==
    LET rest == cold[j] \ todo[j] IN
    /\ pc[j] = "tiered"
    /\ Record(j, Pending(j))
    /\ cold' = [cold EXCEPT ![j] = rest]
    /\ todo' = [todo EXCEPT ![j] = {}]
    /\ GoTo(j, IF rest = {} THEN NextBatch(left[j]) ELSE "archive")
    /\ UNCHANGED <<now, table, appendOnly, archive, job, total, planned, left, wanted,
                   lifts, stale, raised, erased, touched, gone, cutOff, bounds>>

-----------------------------------------------------------------------------
(* One deletion batch. *)

InPolicy(j) == \A k \in Batch(j) : TierFor(k, job[j].reference) = "expired"

\* _assert_batch_in_policy.
AssertBatch(j) ==
    /\ pc[j] = "assert"
    /\ GoTo(j, IF ~InPolicy(j) THEN "refused"
               ELSE IF ~(Batch(j) \subseteq table) THEN "missing"
               ELSE "property")
    /\ todo' = [todo EXCEPT ![j] = Batch(j)]
    /\ UNCHANGED <<now, files, job, total, planned, left, wanted, cold, lifts, stale,
                   raised, erased, touched, gone, cutOff, bounds>>

\* _delete_batch reads the property once ...
ReadProperty(j) ==
    /\ pc[j] = "property"
    /\ lifts' = [lifts EXCEPT ![j] = appendOnly]
    /\ GoTo(j, IF appendOnly THEN "lift" ELSE "delete")
    /\ UNCHANGED <<now, files, job, total, planned, left, todo, wanted, cold, stale, raised,
                   erased, touched, gone, cutOff, bounds>>

\* The property is set by j: snapshots others are about to use are outdated.
SetProperty(j, value) ==
    /\ appendOnly' = value
    /\ stale' = [i \in Jobs |-> pc[i] = "lift" /\ i # j]

\* ... and lifts it if it was set.
LiftProperty(j) ==
    /\ pc[j] = "lift"
    /\ SetProperty(j, FALSE)
    /\ GoTo(j, "delete")
    /\ UNCHANGED <<now, table, archive, audit, job, total, planned, left, todo, wanted,
                   cold, lifts, raised, erased, touched, gone, cutOff, bounds>>

\* The property changed since it was read: Delta may refuse the change, and
\* the exception passes through the finally block.
LiftRefused(j) ==
    /\ pc[j] = "lift"
    /\ stale[j]
    /\ raised' = [raised EXCEPT ![j] = TRUE]
    /\ stale' = [stale EXCEPT ![j] = FALSE]
    /\ GoTo(j, "restore")
    /\ UNCHANGED <<now, files, job, total, planned, left, todo, wanted, cold, lifts, erased,
                   touched, gone, cutOff, bounds>>

\* Mutant of DeleteChunk: only the first chunk is deleted.
DeleteOneChunk(j) ==
    /\ pc[j] = "delete"
    /\ ~appendOnly
    /\ table' = table \ Chunk(todo[j])
    /\ erased' = erased \cup (Chunk(todo[j]) \cap table)
    /\ todo' = [todo EXCEPT ![j] = {}]
    /\ GoTo(j, "restore")
    /\ IF Chunk(todo[j]) \cap table = {}
       THEN UNCHANGED <<touched, gone>>
       ELSE Touch(j, Chunk(todo[j]) \cap table)
    /\ UNCHANGED <<now, appendOnly, archive, audit, job, total, planned, left, wanted, cold,
                   lifts, stale, raised, cutOff, bounds>>

DeleteChunk(j) ==
    /\ pc[j] = "delete"
    /\ ~appendOnly
    /\ table' = table \ Chunk(todo[j])
    /\ erased' = erased \cup (Chunk(todo[j]) \cap table)
    /\ todo' = [todo EXCEPT ![j] = @ \ Chunk(@)]
    /\ GoTo(j, IF todo'[j] = {} THEN "restore" ELSE "delete")
    /\ IF Chunk(todo[j]) \cap table = {}
       THEN UNCHANGED <<touched, gone>>
       ELSE Touch(j, Chunk(todo[j]) \cap table)
    /\ UNCHANGED <<now, appendOnly, archive, audit, job, total, planned, left, wanted, cold,
                   lifts, stale, raised, cutOff, bounds>>

\* Another run restored the property meanwhile: Delta refuses the deletion,
\* the exception passes through the finally block.
DeleteRefused(j) ==
    /\ pc[j] = "delete"
    /\ appendOnly
    /\ raised' = [raised EXCEPT ![j] = TRUE]
    /\ GoTo(j, "restore")
    /\ UNCHANGED <<now, files, job, total, planned, left, todo, wanted, cold, lifts, stale,
                   erased, touched, gone, cutOff, bounds>>

\* The store fails under a deletion: the exception passes through the finally
\* block.
DeleteFails(j) ==
    /\ pc[j] = "delete"
    /\ errors < MaxErrors
    /\ errors' = errors + 1
    /\ raised' = [raised EXCEPT ![j] = TRUE]
    /\ GoTo(j, "restore")
    /\ UNCHANGED <<now, files, job, total, planned, left, todo, wanted, cold, lifts, stale,
                   erased, touched, gone, cutOff, runs, ingests, crashes>>

\* The keys of the current batch that job j has deleted and not recorded.
Removed(j) == IF pc[j] \in {"delete", "restore", "log"} THEN Batch(j) \ todo[j] ELSE {}

\* Mutant of RestoreProperty: an exception skips the restoration.
RestoreOnSuccess(j) ==
    /\ pc[j] = "restore"
    /\ IF lifts[j] /\ ~raised[j]
       THEN SetProperty(j, TRUE) ELSE UNCHANGED <<appendOnly, stale>>
    /\ GoTo(j, IF raised[j] THEN "refused" ELSE "log")
    /\ unrecorded' = IF raised[j] THEN unrecorded \cup Removed(j) ELSE unrecorded
    /\ UNCHANGED <<now, table, archive, audit, job, total, planned, left, todo, wanted,
                   cold, lifts, raised, erased, touched, gone, open, bounds>>

\* The finally block.
RestoreProperty(j) ==
    /\ pc[j] = "restore"
    /\ IF lifts[j] THEN SetProperty(j, TRUE) ELSE UNCHANGED <<appendOnly, stale>>
    /\ GoTo(j, IF raised[j] THEN "refused" ELSE "log")
    /\ unrecorded' = IF raised[j] THEN unrecorded \cup Removed(j) ELSE unrecorded
    /\ UNCHANGED <<now, table, archive, audit, job, total, planned, left, todo, wanted,
                   cold, lifts, raised, erased, touched, gone, open, bounds>>

LogDeletion(j) ==
    LET rest == left[j] \ Batch(j) IN
    /\ pc[j] = "log"
    /\ Record(j, Pending(j))
    /\ left' = [left EXCEPT ![j] = rest]
    /\ GoTo(j, NextBatch(rest))
    /\ UNCHANGED <<now, table, appendOnly, archive, job, total, planned, todo, wanted, cold,
                   lifts, stale, raised, erased, touched, gone, cutOff, bounds>>

\* The post-deletion verification.
Verify(j) ==
    /\ pc[j] = "verify"
    /\ InTier("future", job[j].reference) = {}
    /\ GoTo(j, IF /\ Cardinality(table) = total[j] - Cardinality(planned[j])
                  /\ InTier("expired", job[j].reference) = {}
               THEN "done" ELSE "mismatch")
    /\ UNCHANGED <<now, files, local, erased, touched, gone, cutOff, bounds>>

-----------------------------------------------------------------------------
(* The surroundings. *)

\* The process is killed: no finally block runs.  The bound on runs leaves a
\* later run to follow.
Crash(j) ==
    /\ pc[j] \notin Ended
    /\ crashes < MaxCrashes
    /\ runs < MaxRuns
    /\ crashes' = crashes + 1
    /\ open' = (open \/ (lifts[j] /\ pc[j] \in {"delete", "restore"}))
    /\ unrecorded' = unrecorded \cup Removed(j)
    /\ GoTo(j, "crashed")
    /\ UNCHANGED <<now, files, local, erased, touched, gone, runs, ingests, errors>>

\* Ingestion appends an event that has occurred; append_rows refuses a table
\* that is not append-only.
Ingest ==
    /\ ingests < MaxIngests
    /\ ingests' = ingests + 1
    /\ appendOnly
    /\ \E k \in Keys \ table : Occurred[k] <= now /\ table' = table \cup {k}
    /\ touched' = [j \in Jobs |-> TRUE]
    /\ UNCHANGED <<now, appendOnly, archive, audit, pc, local, erased, gone, cutOff, runs,
                   crashes, errors>>

Tick ==
    /\ now < MaxNow
    /\ now' = now + 1
    /\ UNCHANGED <<files, pc, local, erased, touched, gone, cutOff, bounds>>

Step(j) ==
    \/ Plan(j) \/ PlanRaises(j) \/ RecordPlan(j) \/ RecordRaises(j)
    \/ ReadCold(j) \/ ArchiveChunk(j) \/ ArchiveRecord(j)
    \/ AssertBatch(j) \/ ReadProperty(j) \/ LiftProperty(j) \/ LiftRefused(j)
    \/ DeleteChunk(j) \/ DeleteRefused(j) \/ DeleteFails(j) \/ RestoreProperty(j)
    \/ LogDeletion(j) \/ Verify(j)

Next ==
    \/ \E j \in Jobs : Start(j) \/ Step(j) \/ Crash(j)
    \/ Ingest
    \/ Tick

Spec == Init /\ [][Next]_vars

\* A job that runs takes its next step, and jobs are started again.
FairSpec == Spec /\ \A j \in Jobs : WF_vars(Step(j)) /\ WF_vars(Start(j))

-----------------------------------------------------------------------------
TypeOK ==
    /\ now \in 0..MaxNow
    /\ table \subseteq Keys
    /\ appendOnly \in BOOLEAN
    /\ archive \subseteq Keys
    /\ audit \subseteq AuditRows
    /\ pc \in [Jobs -> Phases]
    /\ job \in [Jobs -> Arguments]
    /\ total \in [Jobs -> 0..Cardinality(Keys)]
    /\ planned \in [Jobs -> SUBSET Keys]
    /\ left \in [Jobs -> SUBSET Keys]
    /\ todo \in [Jobs -> SUBSET Keys]
    /\ wanted \in [Jobs -> SUBSET Keys]
    /\ cold \in [Jobs -> SUBSET Keys]
    /\ lifts \in [Jobs -> BOOLEAN]
    /\ stale \in [Jobs -> BOOLEAN]
    /\ raised \in [Jobs -> BOOLEAN]
    /\ erased \subseteq Keys
    /\ touched \in [Jobs -> BOOLEAN]
    /\ gone \in [Jobs -> SUBSET Keys]
    /\ open \in BOOLEAN
    /\ unrecorded \subseteq Keys

\* A row leaves the table only when it is older than the cold horizon on that
\* day, however stale the plan is and whatever other runs do.
OnlyExpiredDeleted ==
    [][\A k \in table \ table' : now - Occurred[k] > ColdHorizon]_vars

\* A run that tiers has archived every cold row of its plan by the time it
\* goes on to delete (_archive_cold_rows comes before the first batch): each
\* is in the archive unless somebody deleted it before the run read the rows to
\* copy.  Whatever other runs delete and ingestion adds later, no row that was
\* read is lost on the way.
ColdCopiedFirst ==
    \A j \in Jobs :
        pc[j] \notin {"source", "archive", "tiered", "conflict", "crashed"}
            => wanted[j] \subseteq archive \cup gone[j]

\* The append-only property is lifted for the length of a batch only: if no
\* job is between its lift and its finally block, the property is set, also
\* when runs overlap, fail or are killed elsewhere.  Only a run killed within
\* that window leaves the table open.
WindowClosed ==
    ~open /\ (\A j \in Jobs : pc[j] \notin {"delete", "restore"}) => appendOnly

\* The verification reports a mismatch, and a batch a missing key, only when
\* somebody else changed the table during the run.
MismatchMeansInterference ==
    \A j \in Jobs : pc[j] \in {"mismatch", "missing"} => touched[j]

\* The audit table accounts for the deletions, whatever other runs did
\* meanwhile: a record names only rows that were deleted; every deleted row
\* has one, or the job that deleted it is about to write it or was cut off
\* before it could; and a run that reports success has one for every row of
\* its plan.
DeletionsAudited ==
    LET recorded == UNION {a.keys : a \in {r \in audit : r.mode = "delete"}}
        owed == UNION {Removed(j) : j \in Jobs}
    IN /\ recorded \subseteq erased
       /\ erased \subseteq recorded \cup owed \cup unrecorded
       /\ \A j \in Jobs : pc[j] = "done" /\ job[j].apply => planned[j] \subseteq recorded

\* A deleted row gets its audit record.
EveryDeletionAudited ==
    \A k \in Keys : k \in erased ~> \E a \in audit : a.mode = "delete" /\ k \in a.keys
=============================================================================
