-------------------------- MODULE RetentionProofs --------------------------
(***************************************************************************)
(* Proofs about Retention, for any number of overlapping runs, operators,  *)
(* days, failures and kills, over any finite set of keys and any horizons. *)
(***************************************************************************)
EXTENDS Retention, FiniteSetTheorems, TLAPS

-----------------------------------------------------------------------------
(* The inductive invariant. *)

Tiering == {"source", "archive", "tiered"}
Deleting == {"property", "lift", "delete", "restore", "log"}
Unfinished == Tiering \cup {"conflict", "crashed"}
Applying == Tiering \cup Deleting \cup {"assert", "verify"}

\* The keys that records of executed deletions name.
Recorded == UNION {a.keys : a \in {r \in audit : r.mode = "delete"}}

\* A table left open has a run that will close it.
WindowInv ==
    ~appendOnly /\ ~open => \E j \in Jobs : lifts[j] /\ pc[j] \in {"delete", "restore"}

\* Records name deleted keys only, and a deleted key is recorded, about to be
\* recorded, or was cut off.
AuditInv ==
    /\ Recorded \subseteq erased
    /\ \A k \in erased : k \in Recorded \cup unrecorded \/ \E j \in Jobs : k \in Removed(j)

\* What is left to delete of the current batch is expired on the reference
\* day, which has come; a batch ends with nothing left unless it raised.
BatchInv(j) ==
    /\ job[j].reference <= now
    /\ pc[j] = "lift" => lifts[j]
    /\ pc[j] \in Deleting =>
         /\ todo[j] \subseteq Batch(j)
         /\ \A k \in todo[j] : TierFor(k, job[j].reference) = "expired"
         /\ Batch(j) \subseteq table \cup erased
         /\ Batch(j) \ todo[j] \subseteq erased
    /\ pc[j] \in {"property", "lift"} => todo[j] = Batch(j)
    /\ pc[j] = "log" \/ (pc[j] = "restore" /\ ~raised[j]) => todo[j] = {}

\* A run that applies its plan has recorded the batches it finished.
PlanInv(j) ==
    /\ pc[j] = "record" => ~job[j].apply
    /\ pc[j] = "verify" => left[j] = {}
    /\ pc[j] \in Applying => planned[j] \ left[j] \subseteq Recorded
    /\ pc[j] = "done" /\ job[j].apply => planned[j] \subseteq Recorded

\* The cold rows of the plan are still in the table until they are read, then
\* still to copy until they are archived, or they were deleted before the read.
ColdInv(j) ==
    /\ pc[j] = "source" => wanted[j] \subseteq table \cup gone[j]
    /\ pc[j] \in {"archive", "tiered"} => wanted[j] \subseteq cold[j] \cup archive \cup gone[j]
    /\ pc[j] = "tiered" => todo[j] \subseteq archive
    /\ pc[j] \notin Unfinished => wanted[j] \subseteq archive \cup gone[j]

\* Until somebody else changes the table, it is what the plan counted less the
\* keys already deleted.
SizeInv(j) ==
    /\ left[j] \subseteq planned[j]
    /\ pc[j] \in Applying /\ ~touched[j] =>
         /\ total[j] = Cardinality(table \cup planned[j])
         /\ InTier("expired", job[j].reference) \subseteq planned[j]
         /\ table \cap planned[j] =
              IF pc[j] \in Deleting THEN (left[j] \ Batch(j)) \cup todo[j] ELSE left[j]
    /\ pc[j] \in {"mismatch", "missing"} => touched[j]

JobInv(j) == BatchInv(j) /\ PlanInv(j) /\ ColdInv(j) /\ SizeInv(j)

Inv == TypeOK /\ WindowInv /\ AuditInv /\ \A j \in Jobs : JobInv(j)

-----------------------------------------------------------------------------
(* What the operators return. *)

\* tier_for says "expired" only of a row older than the cold horizon.
LEMMA ExpiredIsOld ==
    ASSUME NEW k \in Keys, NEW day \in Nat, TierFor(k, day) = "expired"
    PROVE  day - Occurred[k] > ColdHorizon
<1>1. Occurred[k] \in Nat /\ HotHorizon \in Nat /\ ColdHorizon \in Nat /\ HotHorizon < ColdHorizon
  BY OccurredAssumption, PolicyAssumption
<1> DEFINE age == day - Occurred[k]
<1>2. age \in Int
  BY <1>1
<1>3. CASE age < 0
  BY <1>1, <1>2, <1>3 DEF TierFor
<1>4. CASE age \in 0..HotHorizon
  BY <1>1, <1>2, <1>4 DEF TierFor
<1>5. CASE age \in (HotHorizon + 1)..ColdHorizon
  BY <1>1, <1>2, <1>5 DEF TierFor
<1> QED BY <1>1, <1>2, <1>3, <1>4, <1>5

\* A chunk is part of what it is cut from.
LEMMA ChunkOf ==
    ASSUME NEW keys
    PROVE  Chunk(keys) \subseteq keys
BY DEF Chunk

\* A batch is part of the keys that are left.
LEMMA BatchOf ==
    ASSUME NEW j
    PROVE  Batch(j) \subseteq left[j]
BY DEF Batch

-----------------------------------------------------------------------------
(* The effect of a step on the jobs that do not take it. *)

\* A step leaves the memory of job d alone.
Spares(d) ==
    /\ pc'[d] = pc[d]
    /\ job'[d] = job[d]
    /\ total'[d] = total[d]
    /\ planned'[d] = planned[d]
    /\ left'[d] = left[d]
    /\ todo'[d] = todo[d]
    /\ wanted'[d] = wanted[d]
    /\ cold'[d] = cold[d]
    /\ lifts'[d] = lifts[d]
    /\ raised'[d] = raised[d]

\* A step forgets no record, no archived and no deleted key, and d notices
\* when it changes the table, or deletes what d is about to copy.
Mild(d) ==
    /\ audit \subseteq audit'
    /\ erased \subseteq erased'
    /\ archive \subseteq archive'
    /\ table \subseteq table' \cup erased'
    /\ table' = table \/ touched'[d]
    /\ touched[d] => touched'[d]
    /\ gone[d] \subseteq gone'[d]
    /\ pc[d] = "source" => table \subseteq table' \cup gone'[d]
    /\ now' \in Nat /\ now <= now'

\* Records are never forgotten.
LEMMA RecordedStays ==
    ASSUME audit \subseteq audit'
    PROVE  Recorded \subseteq Recorded'
BY DEF Recorded

\* What a job relies on survives the steps of the others.
LEMMA Undisturbed ==
    ASSUME TypeOK, NEW d \in Jobs, JobInv(d), Spares(d), Mild(d)
    PROVE  JobInv(d)'
<1> USE DEF Spares
<1>0. /\ Batch(d)' = Batch(d)
      /\ Recorded \subseteq Recorded'
      /\ now \in Nat /\ job[d].reference \in Nat
  BY RecordedStays, BoundsAssumption DEF TypeOK, Arguments, Batch, Mild
<1>1. BatchInv(d)'
  BY <1>0 DEF JobInv, BatchInv, Mild
<1>2. PlanInv(d)'
  BY <1>0 DEF JobInv, PlanInv
<1>3. ColdInv(d)'
  BY DEF JobInv, ColdInv, Unfinished, Tiering, Mild
<1>4. SizeInv(d)'
  BY <1>0 DEF JobInv, SizeInv, InTier, Mild
<1> QED BY <1>1, <1>2, <1>3, <1>4 DEF JobInv

\* Every step of job i leaves the memory of the others alone.
LEMMA SparesOthers ==
    ASSUME Inv, NEW i \in Jobs, Start(i) \/ Step(i) \/ Crash(i), NEW d \in Jobs, d # i
    PROVE  Spares(d)
<1> USE DEF Inv, TypeOK, Spares, GoTo, files, local
<1>1. CASE Start(i) \/ Plan(i) \/ PlanRaises(i) \/ RecordPlan(i) \/ RecordRaises(i) \/ Crash(i)
  BY <1>1 DEF Start, Plan, PlanRaises, RecordPlan, RecordRaises, Crash
<1>2. CASE ReadCold(i) \/ ArchiveChunk(i) \/ ArchiveRecord(i) \/ AssertBatch(i)
           \/ ReadProperty(i) \/ LiftProperty(i) \/ LiftRefused(i)
  BY <1>2 DEF ReadCold, ArchiveChunk, ArchiveRecord, AssertBatch, ReadProperty, LiftProperty,
              LiftRefused
<1>3. CASE DeleteChunk(i) \/ DeleteRefused(i) \/ DeleteFails(i) \/ RestoreProperty(i)
           \/ LogDeletion(i) \/ Verify(i)
  BY <1>3 DEF DeleteChunk, DeleteRefused, DeleteFails, RestoreProperty, LogDeletion, Verify
<1> QED BY <1>1, <1>2, <1>3 DEF Step

\* Others notice when a step of job i deletes something.
LEMMA Others ==
    ASSUME Inv, NEW i \in Jobs, Start(i) \/ Step(i) \/ Crash(i), NEW d \in Jobs, d # i
    PROVE  JobInv(d)'
<1>0. now \in Nat
  BY BoundsAssumption DEF Inv, TypeOK
<1>1. Spares(d)
  BY SparesOthers
<1>2. Mild(d)
  <2>1. CASE Start(i) \/ Plan(i)
    <3>1. UNCHANGED <<now, table, archive, audit, erased>> /\ touched'[d] = touched[d]
         /\ gone'[d] = gone[d]
      BY <2>1 DEF Inv, TypeOK, Start, Plan, files
    <3> QED BY <1>0, <3>1 DEF Mild
  <2>2. CASE PlanRaises(i) \/ RecordRaises(i) \/ Crash(i) \/ Verify(i) \/ ReadCold(i)
             \/ AssertBatch(i) \/ ReadProperty(i)
    <3>1. UNCHANGED <<now, table, archive, audit, erased, touched, gone>>
      BY <2>2 DEF PlanRaises, RecordRaises, Crash, Verify, ReadCold, AssertBatch, ReadProperty,
                  files
    <3> QED BY <1>0, <3>1 DEF Mild
  <2>3. CASE RecordPlan(i) \/ ArchiveChunk(i) \/ ArchiveRecord(i) \/ LogDeletion(i)
    <3>1. /\ UNCHANGED <<now, table, erased, touched, gone>>
          /\ audit \subseteq audit' /\ archive \subseteq archive'
      BY <2>3 DEF RecordPlan, ArchiveChunk, ArchiveRecord, LogDeletion, Record
    <3> QED BY <1>0, <3>1 DEF Mild
  <2>4. CASE LiftProperty(i) \/ LiftRefused(i) \/ DeleteRefused(i) \/ DeleteFails(i)
             \/ RestoreProperty(i)
    <3>1. UNCHANGED <<now, table, archive, audit, erased, touched, gone>>
      BY <2>4 DEF LiftProperty, LiftRefused, DeleteRefused, DeleteFails, RestoreProperty, files
    <3> QED BY <1>0, <3>1 DEF Mild
  <2>5. CASE DeleteChunk(i)
    <3>1. /\ UNCHANGED <<now, archive, audit>>
          /\ table' = table \ Chunk(todo[i])
          /\ erased' = erased \cup (Chunk(todo[i]) \cap table)
      BY <2>5 DEF DeleteChunk
    <3>2. CASE Chunk(todo[i]) \cap table = {}
      <4>1. UNCHANGED <<touched, gone>>
        BY <2>5, <3>2 DEF DeleteChunk
      <4> QED BY <1>0, <3>1, <3>2, <4>1 DEF Mild
    <3>3. CASE Chunk(todo[i]) \cap table # {}
      <4>1. touched'[d] = TRUE
        BY <2>5, <3>3, Zenon DEF DeleteChunk, Touch
      <4>2. gone'[d] = IF pc[d] = "source" THEN gone[d] \cup (Chunk(todo[i]) \cap table)
                       ELSE gone[d]
        BY <2>5, <3>3, Zenon DEF DeleteChunk, Touch
      <4> QED BY <1>0, <3>1, <4>1, <4>2 DEF Mild
    <3> QED BY <3>2, <3>3
  <2> QED BY <2>1, <2>2, <2>3, <2>4, <2>5 DEF Step
<1> QED BY <1>1, <1>2, Undisturbed DEF Inv

\* Ingestion and the passing of days spare every job.
LEMMA Surroundings ==
    ASSUME Inv, Ingest \/ Tick, NEW d \in Jobs
    PROVE  JobInv(d)'
<1>0. now \in Nat
  BY BoundsAssumption DEF Inv, TypeOK
<1>1. Spares(d)
  BY DEF Spares, Ingest, Tick, local
<1>2. Mild(d)
  BY <1>0 DEF Mild, Ingest, Tick, files
<1> QED BY <1>1, <1>2, Undisturbed DEF Inv

-----------------------------------------------------------------------------
(* The effect of each step on the job that takes it. *)

\* A new run has no plan yet; its reference day is today.
LEMMA StartInv ==
    ASSUME Inv, NEW i \in Jobs, Start(i)
    PROVE  JobInv(i)'
<1>1. /\ pc'[i] = "plan" /\ job'[i].reference = now /\ now' = now /\ now \in Nat
      /\ left'[i] = {} /\ planned'[i] = {} /\ wanted'[i] = {}
  BY BoundsAssumption DEF Inv, TypeOK, Start, GoTo
<1> QED BY <1>1 DEF JobInv, BatchInv, PlanInv, ColdInv, SizeInv, Deleting, Applying, Tiering

\* A run that stops on an error promises nothing more.
LEMMA StopInv ==
    ASSUME Inv, NEW i \in Jobs, UNCHANGED <<now, job, left, planned, wanted, archive, gone>>,
           pc'[i] \in {"future", "conflict", "crashed", "refused"},
           pc[i] \in Tiering => pc'[i] \in {"conflict", "crashed"},
           pc[i] \notin {"conflict", "crashed"}
    PROVE  JobInv(i)'
BY DEF Inv, JobInv, BatchInv, PlanInv, ColdInv, SizeInv, Deleting, Applying, Tiering, Unfinished

\* The plan holds the expired rows, and the cold ones if the run tiers.
LEMMA PlanStepInv ==
    ASSUME Inv, NEW i \in Jobs, Plan(i)
    PROVE  JobInv(i)'
<1> DEFINE reference == job[i].reference
           expired == InTier("expired", reference)
           tiers == job[i].apply /\ job[i].tiering
           tiered == IF tiers THEN InTier("cold", reference) ELSE {}
<1>1. /\ UNCHANGED <<now, table, archive, audit, job, erased>>
      /\ planned'[i] = expired /\ left'[i] = expired /\ wanted'[i] = tiered
      /\ total'[i] = Cardinality(table)
      /\ pc'[i] = IF ~job[i].apply THEN "record"
                  ELSE IF tiered # {} THEN "source" ELSE NextBatch(expired)
  BY DEF Inv, TypeOK, Plan, GoTo, files
<1>2. /\ pc'[i] \in {"record", "source", "assert", "verify"}
      /\ pc'[i] = "record" => ~job[i].apply
      /\ pc'[i] = "verify" => expired = {}
      /\ pc'[i] # "source" => tiered = {}
      /\ tiered \subseteq table
  BY <1>1 DEF NextBatch, InTier
<1>3. expired \subseteq table /\ table \cup expired = table /\ table \cap expired = expired
  BY DEF InTier
<1>4. InTier("expired", reference)' = InTier("expired", reference)
  BY <1>1 DEF InTier
<1>5. BatchInv(i)'
  BY <1>1, <1>2 DEF Inv, JobInv, BatchInv, Deleting
<1>6. PlanInv(i)'
  BY <1>1, <1>2 DEF PlanInv, Applying, Tiering, Deleting
<1>7. ColdInv(i)'
  BY <1>1, <1>2 DEF ColdInv, Unfinished, Tiering
<1>8. SizeInv(i)'
  BY <1>1, <1>2, <1>3, <1>4 DEF SizeInv, Applying, Tiering, Deleting
<1> QED BY <1>5, <1>6, <1>7, <1>8 DEF JobInv

\* A dry run records and deletes nothing.
LEMMA RecordPlanInv ==
    ASSUME Inv, NEW i \in Jobs, RecordPlan(i)
    PROVE  JobInv(i)'
<1>1. /\ UNCHANGED <<now, job, planned>>
      /\ pc[i] = "record" /\ ~job[i].apply /\ pc'[i] \in {"record", "done"}
      /\ left'[i] \subseteq left[i]
      /\ UNCHANGED <<wanted, archive, gone>>
  BY DEF Inv, TypeOK, JobInv, PlanInv, RecordPlan, GoTo
<1> QED
  BY <1>1 DEF Inv, JobInv, BatchInv, PlanInv, ColdInv, SizeInv, Deleting, Applying, Tiering,
              Unfinished

\* A run that goes to its next batch, or to the verification, with all it has
\* to archive archived.
LEMMA OnInv ==
    ASSUME Inv, NEW i \in Jobs,
           UNCHANGED <<now, table, job, erased, planned, left, total, touched>>,
           pc[i] \in Tiering, archive \subseteq archive', audit \subseteq audit',
           pc'[i] = NextBatch(left[i]),
           wanted'[i] \subseteq archive' \cup gone'[i]
    PROVE  JobInv(i)'
<1>1. pc'[i] \in {"assert", "verify"} /\ (pc'[i] = "verify" => left[i] = {})
  BY DEF NextBatch
<1>2. Recorded \subseteq Recorded'
  BY RecordedStays
<1>3. \A tier : InTier(tier, job[i].reference)' = InTier(tier, job[i].reference)
  BY DEF InTier
<1>4. BatchInv(i)' /\ PlanInv(i)'
  BY <1>1, <1>2 DEF Inv, JobInv, BatchInv, PlanInv, Deleting, Applying, Tiering
<1>5. ColdInv(i)'
  BY <1>1 DEF ColdInv
<1>6. SizeInv(i)'
  BY <1>1, <1>3 DEF Inv, JobInv, SizeInv, Applying, Tiering, Deleting
<1> QED BY <1>4, <1>5, <1>6 DEF JobInv

\* A run that goes on tiering.
LEMMA TierInv ==
    ASSUME Inv, NEW i \in Jobs,
           UNCHANGED <<now, table, job, erased, planned, left, total, touched>>,
           pc[i] \in Tiering, pc'[i] \in {"archive", "tiered"}, 
           archive \subseteq archive', audit \subseteq audit',
           pc'[i] = "tiered" => todo'[i] \subseteq archive',
           wanted'[i] \subseteq cold'[i] \cup archive' \cup gone'[i]
    PROVE  JobInv(i)'
<1>1. Recorded \subseteq Recorded'
  BY RecordedStays
<1>2. \A tier : InTier(tier, job[i].reference)' = InTier(tier, job[i].reference)
  BY DEF InTier
<1>3. BatchInv(i)' /\ PlanInv(i)'
  BY <1>1 DEF Inv, JobInv, BatchInv, PlanInv, Deleting, Applying, Tiering
<1>4. ColdInv(i)'
  BY DEF ColdInv, Unfinished, Tiering
<1>5. SizeInv(i)'
  BY <1>2 DEF Inv, JobInv, SizeInv, Applying, Tiering, Deleting
<1> QED BY <1>3, <1>4, <1>5 DEF JobInv

\* Tiering reads, copies and records its chunks; a row leaves the list of
\* those to copy only once it is archived, or gone.
LEMMA TieringInv ==
    ASSUME Inv, NEW i \in Jobs, ReadCold(i) \/ ArchiveChunk(i) \/ ArchiveRecord(i)
    PROVE  JobInv(i)'
<1> DEFINE Kept == UNCHANGED <<now, table, job, erased, planned, left, total, touched>>
<1>1. CASE ReadCold(i)
  <2> DEFINE rows == wanted[i] \cap table
  <2>1. /\ Kept /\ UNCHANGED <<archive, audit, wanted, gone>>
        /\ pc[i] = "source" /\ cold'[i] = rows
        /\ pc'[i] = IF rows = {} THEN NextBatch(left[i]) ELSE "archive"
    BY <1>1 DEF Inv, TypeOK, ReadCold, GoTo, files
  <2>2. wanted[i] \subseteq rows \cup gone[i]
    BY <2>1 DEF Inv, JobInv, ColdInv
  <2>3. CASE rows = {}
    BY <2>1, <2>2, <2>3, OnInv DEF Tiering
  <2>4. CASE rows # {}
    BY <2>1, <2>2, <2>4, TierInv DEF Tiering
  <2> QED BY <2>3, <2>4
<1>2. CASE ArchiveChunk(i)
  <2>1. PICK chunk \in SUBSET cold[i] :
           archive' = archive \cup chunk /\ todo' = [todo EXCEPT ![i] = chunk]
    BY <1>2 DEF ArchiveChunk
  <2>2. /\ Kept /\ UNCHANGED <<cold, audit, wanted, gone>>
        /\ pc[i] = "archive" /\ pc'[i] = "tiered" /\ todo'[i] = chunk
    BY <1>2, <2>1 DEF Inv, TypeOK, ArchiveChunk, GoTo
  <2>3. wanted[i] \subseteq cold[i] \cup archive \cup gone[i]
    BY <2>2 DEF Inv, JobInv, ColdInv
  <2> QED BY <2>1, <2>2, <2>3, TierInv DEF Tiering
<1>3. CASE ArchiveRecord(i)
  <2> DEFINE rest == cold[i] \ todo[i]
  <2>1. /\ Kept /\ UNCHANGED <<archive, wanted, gone>> /\ audit \subseteq audit'
        /\ pc[i] = "tiered" /\ cold'[i] = rest
        /\ pc'[i] = IF rest = {} THEN NextBatch(left[i]) ELSE "archive"
    BY <1>3 DEF Inv, TypeOK, ArchiveRecord, GoTo, Record
  <2>2. wanted[i] \subseteq rest \cup archive \cup gone[i]
    BY <2>1 DEF Inv, JobInv, ColdInv
  <2>3. CASE rest = {}
    BY <2>1, <2>2, <2>3, OnInv DEF Tiering
  <2>4. CASE rest # {}
    BY <2>1, <2>2, <2>4, TierInv DEF Tiering
  <2> QED BY <2>3, <2>4
<1> QED BY <1>1, <1>2, <1>3

\* A batch is deleted only if all of it is expired and still there; when it
\* is not there, somebody else deleted it.
LEMMA AssertInv ==
    ASSUME Inv, NEW i \in Jobs, AssertBatch(i)
    PROVE  JobInv(i)'
<1>1. /\ UNCHANGED <<now, table, archive, audit, job, total, planned, left, erased, touched,
                     wanted, gone>>
      /\ pc[i] = "assert" /\ todo'[i] = Batch(i)
      /\ pc'[i] = IF ~InPolicy(i) THEN "refused"
                  ELSE IF ~(Batch(i) \subseteq table) THEN "missing" ELSE "property"
  BY DEF Inv, TypeOK, AssertBatch, GoTo, files
<1>2. /\ Batch(i)' = Batch(i) /\ Batch(i) \subseteq left[i] /\ Recorded' = Recorded
      /\ \A tier : InTier(tier, job[i].reference)' = InTier(tier, job[i].reference)
  BY <1>1 DEF Batch, Recorded, InTier
<1>3. CASE pc'[i] = "refused"
  BY <1>1, <1>3, StopInv DEF Tiering
<1>4. CASE pc'[i] = "missing"
  <2>1. touched'[i]
    BY <1>1, <1>2, <1>4 DEF Inv, JobInv, SizeInv, Applying, Deleting
  <2> QED BY <1>1, <1>4, <2>1
          DEF Inv, JobInv, BatchInv, PlanInv, ColdInv, SizeInv, Deleting, Applying, Tiering,
              Unfinished
<1>5. CASE pc'[i] = "property"
  <2>1. InPolicy(i) /\ Batch(i) \subseteq table
    BY <1>1, <1>5
  <2>2. BatchInv(i)'
    BY <1>1, <1>2, <1>5, <2>1 DEF Inv, JobInv, BatchInv, InPolicy, Deleting
  <2>3. PlanInv(i)'
    BY <1>1, <1>2, <1>5 DEF Inv, JobInv, PlanInv, Applying, Deleting
  <2>4. ColdInv(i)'
    BY <1>1, <1>2, <1>5 DEF Inv, JobInv, ColdInv, Unfinished, Tiering
  <2>5. SizeInv(i)'
    BY <1>1, <1>2, <1>5 DEF Inv, JobInv, SizeInv, Applying, Deleting, Tiering
  <2> QED BY <2>2, <2>3, <2>4, <2>5 DEF JobInv
<1> QED BY <1>1, <1>3, <1>4, <1>5

\* Lifting the property, or failing to, deletes nothing.
LEMMA LiftInv ==
    ASSUME Inv, NEW i \in Jobs,
           \/ ReadProperty(i) \/ LiftProperty(i) \/ LiftRefused(i)
           \/ DeleteRefused(i) \/ DeleteFails(i)
    PROVE  JobInv(i)'
<1>1. /\ UNCHANGED <<now, table, archive, audit, job, total, planned, left, todo, erased,
                     touched, wanted, gone>>
      /\ pc[i] \in {"property", "lift", "delete"} /\ pc'[i] \in {"lift", "delete", "restore"}
  BY DEF Inv, TypeOK, ReadProperty, LiftProperty, LiftRefused, DeleteRefused, DeleteFails,
         GoTo, files
<1>2. /\ pc'[i] = "lift" => pc[i] = "property" /\ lifts'[i]
      /\ pc'[i] = "restore" => raised'[i]
  BY DEF Inv, TypeOK, ReadProperty, LiftProperty, LiftRefused, DeleteRefused, DeleteFails,
         GoTo
<1>3. /\ Batch(i)' = Batch(i) /\ Recorded' = Recorded
      /\ \A tier : InTier(tier, job[i].reference)' = InTier(tier, job[i].reference)
  BY <1>1 DEF Batch, Recorded, InTier
<1>4. BatchInv(i)'
  BY <1>1, <1>2, <1>3 DEF Inv, JobInv, BatchInv, Deleting
<1>5. PlanInv(i)'
  BY <1>1, <1>3 DEF Inv, JobInv, PlanInv, Applying, Deleting
<1>6. ColdInv(i)'
  BY <1>1, <1>3 DEF Inv, JobInv, ColdInv, Unfinished, Tiering
<1>7. SizeInv(i)'
  BY <1>1, <1>3 DEF Inv, JobInv, SizeInv, Applying, Deleting, Tiering
<1> QED BY <1>4, <1>5, <1>6, <1>7 DEF JobInv

\* A chunk that is deleted leaves the table and joins the deleted keys.
LEMMA DeleteInv ==
    ASSUME Inv, NEW i \in Jobs, DeleteChunk(i)
    PROVE  JobInv(i)'
<1> DEFINE chunk == Chunk(todo[i])
<1>1. /\ UNCHANGED <<now, archive, audit, job, total, planned, left, wanted>>
      /\ pc[i] = "delete" /\ pc'[i] \in {"delete", "restore"}
      /\ pc'[i] = "restore" => todo'[i] = {}
      /\ table' = table \ chunk /\ erased' = erased \cup (chunk \cap table)
      /\ todo'[i] = todo[i] \ chunk
  BY DEF Inv, TypeOK, DeleteChunk, GoTo
<1>2. touched'[i] = touched[i] /\ gone'[i] = gone[i]
  <2>1. CASE UNCHANGED <<touched, gone>>
    BY <2>1
  <2>2. CASE Touch(i, chunk \cap table)
    <3>1. touched[i] \in BOOLEAN /\ pc[i] # "source"
      BY <1>1 DEF Inv, TypeOK
    <3> QED BY <2>2, <3>1, Zenon DEF Touch
  <2> QED BY <2>1, <2>2 DEF DeleteChunk
<1>3. chunk \subseteq todo[i] /\ todo[i] \subseteq Batch(i) /\ Batch(i) \subseteq left[i]
      /\ left[i] \subseteq planned[i] /\ Batch(i) \subseteq table \cup erased
  BY <1>1, ChunkOf, BatchOf DEF Inv, JobInv, BatchInv, SizeInv, Deleting
<1>4. /\ Batch(i)' = Batch(i) /\ Recorded' = Recorded
      /\ \A tier : InTier(tier, job[i].reference)' \subseteq InTier(tier, job[i].reference)
  BY <1>1 DEF Batch, Recorded, InTier
<1>5. BatchInv(i)'
  BY <1>1, <1>3, <1>4 DEF Inv, JobInv, BatchInv, Deleting
<1>6. PlanInv(i)'
  BY <1>1, <1>4 DEF Inv, JobInv, PlanInv, Applying, Deleting
<1>7. ColdInv(i)'
  BY <1>1, <1>2, <1>4 DEF Inv, JobInv, ColdInv, Unfinished, Tiering
<1>8. SizeInv(i)'
  <2>1. table' \cup planned[i] = table \cup planned[i]
    BY <1>1, <1>3
  <2>2. table \cap planned[i] = (left[i] \ Batch(i)) \cup todo[i]
        => table' \cap planned[i] = (left[i] \ Batch(i)) \cup todo'[i]
    BY <1>1, <1>3
  <2> QED BY <1>1, <1>2, <1>4, <2>1, <2>2
          DEF Inv, JobInv, SizeInv, Applying, Deleting, Tiering
<1> QED BY <1>5, <1>6, <1>7, <1>8 DEF JobInv

\* The finally block is followed by the record, or by the exception.
LEMMA RestoreInv ==
    ASSUME Inv, NEW i \in Jobs, RestoreProperty(i)
    PROVE  JobInv(i)'
<1>1. /\ UNCHANGED <<now, table, archive, audit, job, total, planned, left, todo, erased,
                     touched, wanted, gone>>
      /\ pc[i] = "restore" /\ pc'[i] = IF raised[i] THEN "refused" ELSE "log"
  BY DEF Inv, TypeOK, RestoreProperty, GoTo
<1>2. CASE raised[i]
  BY <1>1, <1>2, StopInv DEF Tiering
<1>3. CASE ~raised[i]
  <2>1. /\ Batch(i)' = Batch(i) /\ Recorded' = Recorded
        /\ \A tier : InTier(tier, job[i].reference)' = InTier(tier, job[i].reference)
    BY <1>1 DEF Batch, Recorded, InTier
  <2>2. BatchInv(i)'
    BY <1>1, <1>3, <2>1 DEF Inv, JobInv, BatchInv, Deleting
  <2>3. PlanInv(i)'
    BY <1>1, <1>3, <2>1 DEF Inv, JobInv, PlanInv, Applying, Deleting
  <2>4. ColdInv(i)'
    BY <1>1, <1>3, <2>1 DEF Inv, JobInv, ColdInv, Unfinished, Tiering
  <2>5. SizeInv(i)'
    BY <1>1, <1>3, <2>1 DEF Inv, JobInv, SizeInv, Applying, Deleting, Tiering
  <2> QED BY <2>2, <2>3, <2>4, <2>5 DEF JobInv
<1> QED BY <1>2, <1>3

\* A key is recorded when some record of a deletion names it.
LEMMA RecordedBy ==
    \A k : k \in Recorded <=> \E a \in audit : a.mode = "delete" /\ k \in a.keys
BY DEF Recorded

\* What the record of a finished batch adds to the recorded keys.
LEMMA LogRecords ==
    ASSUME Inv, NEW i \in Jobs, LogDeletion(i)
    PROVE  Recorded' = Recorded \cup Batch(i)
<1>1. Pending(i) = [mode |-> "delete", keys |-> Batch(i), operator |-> job[i].operator]
  BY DEF LogDeletion, Pending, AuditRow
<1>2. audit' = audit \cup {[mode |-> "delete", keys |-> Batch(i), operator |-> job[i].operator]}
  BY <1>1 DEF LogDeletion, Record
<1>3. \A k : k \in Recorded' <=> \E a \in audit' : a.mode = "delete" /\ k \in a.keys
  BY DEF Recorded
<1> DEFINE row == [mode |-> "delete", keys |-> Batch(i), operator |-> job[i].operator]
<1>4. row.mode = "delete" /\ row.keys = Batch(i)
  OBVIOUS
<1>5. \A k : k \in Recorded' <=> k \in Recorded \/ k \in Batch(i)
  <2> HIDE DEF row
  <2> QED BY <1>2, <1>3, <1>4, RecordedBy DEF row
<1> QED BY <1>5

\* A recorded batch is finished.
LEMMA LogInv ==
    ASSUME Inv, NEW i \in Jobs, LogDeletion(i)
    PROVE  JobInv(i)'
<1> DEFINE rest == left[i] \ Batch(i)
<1>1. /\ UNCHANGED <<now, table, archive, job, total, planned, todo, erased, touched, wanted,
                     gone>>
      /\ pc[i] = "log" /\ left'[i] = rest /\ pc'[i] = NextBatch(rest) /\ todo[i] = {}
  BY DEF Inv, TypeOK, JobInv, BatchInv, LogDeletion, GoTo
<1>2. pc'[i] \in {"assert", "verify"} /\ (pc'[i] = "verify" => rest = {})
  BY <1>1 DEF NextBatch
<1>3. /\ Recorded' = Recorded \cup Batch(i)
      /\ \A tier : InTier(tier, job[i].reference)' = InTier(tier, job[i].reference)
  BY <1>1, LogRecords DEF InTier
<1>4. BatchInv(i)'
  BY <1>1, <1>2 DEF Inv, JobInv, BatchInv, Deleting
<1>5. PlanInv(i)'
  BY <1>1, <1>2, <1>3 DEF Inv, JobInv, PlanInv, Applying, Deleting
<1>6. ColdInv(i)'
  BY <1>1, <1>2, <1>3 DEF Inv, JobInv, ColdInv, Unfinished, Tiering
<1>7. SizeInv(i)'
  BY <1>1, <1>2, <1>3 DEF Inv, JobInv, SizeInv, Applying, Deleting, Tiering
<1> QED BY <1>4, <1>5, <1>6, <1>7 DEF JobInv

\* The verification passes unless somebody else changed the table.
LEMMA VerifyInv ==
    ASSUME Inv, NEW i \in Jobs, Verify(i)
    PROVE  JobInv(i)'
<1>1. /\ UNCHANGED <<now, table, archive, audit, job, total, planned, left, erased, touched,
                     wanted, gone>>
      /\ pc[i] = "verify" /\ left[i] = {}
      /\ pc'[i] = IF /\ Cardinality(table) = total[i] - Cardinality(planned[i])
                     /\ InTier("expired", job[i].reference) = {}
                  THEN "done" ELSE "mismatch"
  BY DEF Inv, TypeOK, JobInv, PlanInv, Verify, GoTo, files, local
<1>2. ASSUME ~touched[i]
      PROVE  pc'[i] = "done"
  <2>1. /\ total[i] = Cardinality(table \cup planned[i])
        /\ InTier("expired", job[i].reference) \subseteq planned[i]
        /\ table \cap planned[i] = {}
    BY <1>1, <1>2 DEF Inv, JobInv, SizeInv, Applying, Deleting
  <2>2. InTier("expired", job[i].reference) = {}
    BY <2>1 DEF InTier
  <2>3. IsFiniteSet(table) /\ IsFiniteSet(planned[i])
    BY KeysAssumption, FS_Subset DEF Inv, TypeOK
  <2>4. Cardinality(table \cup planned[i])
          = Cardinality(table) + Cardinality(planned[i]) - Cardinality(table \cap planned[i])
    BY <2>3, FS_Union
  <2>5. /\ Cardinality(table \cap planned[i]) = 0
        /\ Cardinality(table) \in Nat /\ Cardinality(planned[i]) \in Nat
    BY <2>1, <2>3, FS_EmptySet, FS_CardinalityType
  <2> QED BY <1>1, <2>1, <2>2, <2>4, <2>5
<1>3. Recorded' = Recorded
  BY <1>1 DEF Recorded
<1>4. pc'[i] \in {"done", "mismatch"}
  BY <1>1
<1>5. BatchInv(i)' /\ ColdInv(i)'
  BY <1>1, <1>4 DEF Inv, JobInv, BatchInv, ColdInv, Deleting, Unfinished, Tiering
<1>6. PlanInv(i)'
  BY <1>1, <1>3, <1>4 DEF Inv, JobInv, PlanInv, Applying, Deleting, Tiering
<1>7. SizeInv(i)'
  BY <1>1, <1>2, <1>4 DEF Inv, JobInv, SizeInv, Applying, Deleting, Tiering
<1> QED BY <1>5, <1>6, <1>7 DEF JobInv

\* Every step keeps what its own job relies on.
LEMMA OwnInv ==
    ASSUME Inv, NEW i \in Jobs, Start(i) \/ Step(i) \/ Crash(i)
    PROVE  JobInv(i)'
<1>1. CASE PlanRaises(i) \/ RecordRaises(i) \/ Crash(i)
  <2>1. /\ UNCHANGED <<now, job, left, planned, wanted, archive, gone>>
        /\ pc'[i] \in {"future", "conflict", "crashed"}
        /\ pc'[i] = "future" => pc[i] \in {"plan", "verify"}
        /\ pc[i] \notin {"conflict", "crashed"}
    BY <1>1 DEF Inv, TypeOK, PlanRaises, RecordRaises, Crash, GoTo, local, files, Ended
  <2> QED BY <2>1, StopInv DEF Tiering
<1> QED BY <1>1, StartInv, PlanStepInv, RecordPlanInv, TieringInv, AssertInv, LiftInv,
           DeleteInv, RestoreInv, LogInv, VerifyInv DEF Step

-----------------------------------------------------------------------------
(* The parts of the invariant that concern all jobs. *)

\* A step of one job leaves the window of another as it is.
LEMMA OtherWindow ==
    ASSUME Inv, NEW i \in Jobs, Start(i) \/ Step(i) \/ Crash(i), NEW d \in Jobs, d # i
    PROVE  lifts'[d] = lifts[d] /\ pc'[d] = pc[d] /\ Removed(d)' = Removed(d)
BY SparesOthers DEF Spares, Removed, Batch

\* A run leaves the window only through its finally block, which closes it,
\* or by being killed, which is remembered.
LEMMA WindowStep ==
    ASSUME Inv, NEW i \in Jobs, Start(i) \/ Step(i) \/ Crash(i)
    PROVE  WindowInv'
<1> DEFINE In(d) == lifts[d] /\ pc[d] \in {"delete", "restore"}
<1>1. ASSUME UNCHANGED <<appendOnly, open>>, In(i) => In(i)'
      PROVE  WindowInv'
  <2> SUFFICES ASSUME ~appendOnly', ~open' PROVE \E d \in Jobs : In(d)'
    BY DEF WindowInv
  <2>1. PICK d \in Jobs : In(d)
    BY <1>1 DEF Inv, WindowInv
  <2>2. CASE d = i
    BY <1>1, <2>1, <2>2
  <2>3. CASE d # i
    BY <2>1, <2>3, OtherWindow
  <2> QED BY <2>2, <2>3
<1>2. CASE \/ Start(i) \/ Plan(i) \/ PlanRaises(i) \/ RecordPlan(i) \/ RecordRaises(i)
           \/ ReadCold(i) \/ ArchiveChunk(i) \/ ArchiveRecord(i) \/ AssertBatch(i)
           \/ ReadProperty(i) \/ LogDeletion(i) \/ Verify(i)
  <2>1. /\ UNCHANGED <<appendOnly, open>>
        /\ pc[i] \notin {"delete", "restore"}
    BY <1>2 DEF Start, Plan, PlanRaises, RecordPlan, RecordRaises, ReadCold, ArchiveChunk,
                ArchiveRecord, AssertBatch, ReadProperty, LogDeletion, Verify, Ended, files, cutOff
  <2> QED BY <1>1, <2>1
<1>3. CASE LiftRefused(i) \/ DeleteChunk(i) \/ DeleteRefused(i) \/ DeleteFails(i)
  <2>1. /\ UNCHANGED <<appendOnly, open>>
        /\ lifts' = lifts /\ pc'[i] \in {"delete", "restore"}
    BY <1>3 DEF Inv, TypeOK, LiftRefused, DeleteChunk, DeleteRefused, DeleteFails, GoTo, files,
                cutOff
  <2> QED BY <1>1, <2>1
<1>4. CASE LiftProperty(i)
  <2>1. lifts' = lifts /\ pc'[i] = "delete" /\ lifts[i]
    BY <1>4 DEF Inv, TypeOK, JobInv, BatchInv, LiftProperty, GoTo
  <2> QED BY <2>1 DEF WindowInv
<1>5. CASE RestoreProperty(i)
  <2>1. CASE lifts[i]
    BY <1>5, <2>1 DEF RestoreProperty, SetProperty, WindowInv
  <2>2. CASE ~lifts[i]
    <3>1. UNCHANGED <<appendOnly, open>>
      BY <1>5, <2>2 DEF RestoreProperty
    <3> QED BY <1>1, <2>2, <3>1
  <2> QED BY <2>1, <2>2
<1>6. CASE Crash(i)
  <2>1. appendOnly' = appendOnly /\ open' = (open \/ In(i))
    BY <1>6 DEF Crash, files
  <2>2. CASE In(i)
    BY <2>1, <2>2 DEF WindowInv
  <2>3. CASE ~In(i)
    BY <1>1, <2>1, <2>3 DEF Inv, TypeOK
  <2> QED BY <2>2, <2>3
<1> QED BY <1>2, <1>3, <1>4, <1>5, <1>6 DEF Step

\* The accounts of the audit table balance if the step's job records or
\* hands on what it had removed, and newly deleted keys are what it removed.
LEMMA Accounts ==
    ASSUME Inv, NEW i \in Jobs, Start(i) \/ Step(i) \/ Crash(i),
           Recorded \subseteq Recorded', Recorded' \subseteq erased',
           unrecorded \subseteq unrecorded', erased' \subseteq erased \cup Removed(i)',
           Removed(i) \subseteq Removed(i)' \cup Recorded' \cup unrecorded'
    PROVE  AuditInv'
<1> SUFFICES ASSUME NEW k \in erased'
             PROVE  k \in Recorded' \cup unrecorded' \/ \E d \in Jobs : k \in Removed(d)'
  BY DEF AuditInv
<1>1. CASE k \in Removed(i)'
  BY <1>1
<1>2. CASE k \in erased /\ k \notin Recorded \cup unrecorded
  <2>1. PICK d \in Jobs : k \in Removed(d)
    BY <1>2 DEF Inv, AuditInv
  <2>2. CASE d = i
    BY <2>1, <2>2
  <2>3. CASE d # i
    BY <2>1, <2>3, OtherWindow
  <2> QED BY <2>2, <2>3
<1> QED BY <1>1, <1>2

\* A record of a plan or of a tiering names no deleted key.
LEMMA OtherRecords ==
    ASSUME Inv, NEW i \in Jobs, RecordPlan(i) \/ ArchiveRecord(i)
    PROVE  Recorded' = Recorded
<1>1. CASE UNCHANGED audit
  BY <1>1 DEF Recorded
<1>2. CASE Record(i, Pending(i)) /\ pc[i] \in {"record", "tiered"}
  <2>1. PICK keys :
           Pending(i) \in {AuditRow(i, "plan-delete", keys), AuditRow(i, "tier-archive", keys)}
    BY <1>2, Zenon DEF Pending
  <2>2. Pending(i).mode # "delete"
    BY <2>1 DEF AuditRow
  <2>3. audit' = audit \cup {Pending(i)}
    BY <1>2 DEF Record
  <2>4. \A k : k \in Recorded' <=> \E a \in audit' : a.mode = "delete" /\ k \in a.keys
    BY DEF Recorded
  <2>5. \A k : k \in Recorded' <=> k \in Recorded
    BY <2>2, <2>3, <2>4, RecordedBy
  <2> QED BY <2>5
<1> QED BY <1>1, <1>2 DEF RecordPlan, ArchiveRecord

\* Every step of a job keeps the accounts of the audit table.
LEMMA AuditStep ==
    ASSUME Inv, NEW i \in Jobs, Start(i) \/ Step(i) \/ Crash(i)
    PROVE  AuditInv'
<1>0. Recorded \subseteq erased
  BY DEF Inv, AuditInv
<1>1. CASE \/ Start(i) \/ Plan(i) \/ PlanRaises(i) \/ ReadCold(i) \/ ArchiveChunk(i)
           \/ AssertBatch(i) \/ ReadProperty(i) \/ LiftProperty(i) \/ LiftRefused(i) \/ Verify(i)
  <2>1. UNCHANGED <<audit, erased, unrecorded>> /\ pc[i] \notin {"delete", "restore", "log"}
    BY <1>1 DEF Start, Plan, PlanRaises, ReadCold, ArchiveChunk, AssertBatch, ReadProperty,
                LiftProperty, LiftRefused, Verify, files, cutOff, Ended
  <2>2. Recorded' = Recorded /\ Removed(i) = {}
    BY <2>1 DEF Recorded, Removed
  <2> QED BY <1>0, <2>1, <2>2, Accounts
<1>2. CASE RecordPlan(i) \/ ArchiveRecord(i)
  <2>1. UNCHANGED <<erased, unrecorded>> /\ Removed(i) = {}
    BY <1>2 DEF RecordPlan, ArchiveRecord, cutOff, Removed
  <2> QED BY <1>0, <1>2, <2>1, OtherRecords, Accounts
<1>3. CASE RecordRaises(i)
  <2>1. UNCHANGED <<audit, erased, unrecorded>> /\ Recorded' = Recorded
    BY <1>3 DEF RecordRaises, files, cutOff, Recorded
  <2>2. Removed(i) \subseteq Recorded
    <3>1. CASE pc[i] = "log"
      <4>1. Pending(i) = AuditRow(i, "delete", Batch(i))
        BY <3>1, Zenon DEF Pending
      <4>2. \E a \in audit : a.mode = "delete" /\ a.keys = Batch(i)
        BY <1>3, <4>1 DEF RecordRaises, AuditConflict, AuditRow
      <4> QED BY <4>2, RecordedBy DEF Removed
    <3>2. CASE pc[i] # "log"
      BY <1>3, <3>2 DEF RecordRaises, Removed
    <3> QED BY <3>1, <3>2
  <2> QED BY <1>0, <2>1, <2>2, Accounts
<1>4. CASE DeleteRefused(i) \/ DeleteFails(i)
  <2>1. /\ UNCHANGED <<audit, erased, unrecorded, left, todo>>
        /\ pc[i] = "delete" /\ pc'[i] = "restore"
    BY <1>4 DEF Inv, TypeOK, DeleteRefused, DeleteFails, GoTo, files, cutOff
  <2>2. Recorded' = Recorded /\ Removed(i)' = Removed(i)
    BY <2>1 DEF Recorded, Removed, Batch
  <2> QED BY <1>0, <2>1, <2>2, Accounts
<1>5. CASE DeleteChunk(i)
  <2>1. /\ UNCHANGED <<audit, unrecorded, left>>
        /\ pc[i] = "delete" /\ pc'[i] \in {"delete", "restore"}
        /\ todo'[i] = todo[i] \ Chunk(todo[i])
        /\ erased' = erased \cup (Chunk(todo[i]) \cap table)
    BY <1>5 DEF Inv, TypeOK, DeleteChunk, GoTo, cutOff
  <2>2. Chunk(todo[i]) \subseteq Batch(i)
    BY <2>1, ChunkOf DEF Inv, JobInv, BatchInv, Deleting
  <2>3. /\ Recorded' = Recorded /\ Removed(i) = Batch(i) \ todo[i]
        /\ Removed(i)' = Batch(i) \ todo'[i]
    BY <2>1 DEF Recorded, Removed, Batch
  <2> QED BY <1>0, <2>1, <2>2, <2>3, Accounts
<1>6. CASE RestoreProperty(i)
  <2>1. /\ UNCHANGED <<audit, erased, left, todo>> /\ pc[i] = "restore"
        /\ pc'[i] = IF raised[i] THEN "refused" ELSE "log"
        /\ unrecorded' = IF raised[i] THEN unrecorded \cup Removed(i) ELSE unrecorded
    BY <1>6 DEF Inv, TypeOK, RestoreProperty, GoTo
  <2>2. Recorded' = Recorded /\ Batch(i)' = Batch(i)
    BY <2>1 DEF Recorded, Batch
  <2>3. raised[i] \/ Removed(i)' = Removed(i)
    BY <2>1, <2>2 DEF Removed
  <2> QED BY <1>0, <2>1, <2>2, <2>3, Accounts
<1>7. CASE LogDeletion(i)
  <2>1. UNCHANGED <<erased, unrecorded>> /\ pc[i] = "log"
    BY <1>7 DEF LogDeletion, cutOff
  <2>2. Recorded' = Recorded \cup Batch(i) /\ Removed(i) \subseteq Batch(i)
    BY <1>7, LogRecords DEF Removed
  <2>3. Batch(i) \subseteq erased
    BY <2>1 DEF Inv, JobInv, BatchInv, Deleting
  <2> QED BY <1>0, <2>1, <2>2, <2>3, Accounts
<1>8. CASE Crash(i)
  <2>1. UNCHANGED <<audit, erased>> /\ unrecorded' = unrecorded \cup Removed(i)
    BY <1>8 DEF Crash, files
  <2>2. Recorded' = Recorded
    BY <2>1 DEF Recorded
  <2> QED BY <1>0, <2>1, <2>2, Accounts
<1> QED BY <1>1, <1>2, <1>3, <1>4, <1>5, <1>6, <1>7, <1>8 DEF Step

-----------------------------------------------------------------------------
(* The types. *)

\* A record is a row of the audit table.
LEMMA PendingType ==
    ASSUME TypeOK, NEW i \in Jobs, pc[i] \in {"record", "tiered", "log"}
    PROVE  Pending(i) \in AuditRows
<1>1. /\ job[i].operator \in Operators /\ Batch(i) \subseteq Keys
      /\ todo[i] \subseteq Keys
  BY DEF TypeOK, Arguments, Batch
<1>2. PICK m \in Modes, K \in SUBSET Keys : Pending(i) = AuditRow(i, m, K)
  <2>1. CASE pc[i] = "record"
    <3>1. Pending(i) = AuditRow(i, "plan-delete", Batch(i))
      BY <2>1, Zenon DEF Pending
    <3> QED BY <1>1, <3>1 DEF Modes
  <2>2. CASE pc[i] = "tiered"
    <3>1. Pending(i) = AuditRow(i, "tier-archive", todo[i])
      BY <2>2, Zenon DEF Pending
    <3> QED BY <1>1, <3>1 DEF Modes
  <2>3. CASE pc[i] = "log"
    <3>1. Pending(i) = AuditRow(i, "delete", Batch(i))
      BY <2>3, Zenon DEF Pending
    <3> QED BY <1>1, <3>1 DEF Modes
  <2> QED BY <2>1, <2>2, <2>3
<1> QED BY <1>1, <1>2 DEF AuditRow, AuditRows

\* The types survive the steps of planning, recording and tiering.
LEMMA PlanType ==
    ASSUME TypeOK, NEW i \in Jobs,
           \/ Start(i) \/ Plan(i) \/ PlanRaises(i) \/ RecordPlan(i) \/ RecordRaises(i)
           \/ ReadCold(i) \/ ArchiveChunk(i) \/ ArchiveRecord(i)
    PROVE  TypeOK'
<1> USE DEF Phases, Ended, GoTo, files, local, cutOff, NextBatch
<1>0. now \in 0..MaxNow /\ job[i].reference \in 0..MaxNow
  BY DEF TypeOK, Arguments
<1>1. CASE Start(i)
  <2>1. PICK o \in Operators, a, t \in BOOLEAN :
          job' = [job EXCEPT ![i] = [operator |-> o, apply |-> a, tiering |-> t,
                                     reference |-> now]]
    BY <1>1 DEF Start
  <2>2. [operator |-> o, apply |-> a, tiering |-> t, reference |-> now] \in Arguments
    BY <1>0 DEF Arguments
  <2>3. job' \in [Jobs -> Arguments]
    BY <2>1, <2>2 DEF TypeOK
  <2>4. 0 \in 0..Cardinality(Keys)
    BY KeysAssumption, FS_CardinalityType
  <2>5. total' \in [Jobs -> 0..Cardinality(Keys)] /\ pc' \in [Jobs -> Phases]
    BY <1>1, <2>4 DEF TypeOK, Start
  <2>6. UNCHANGED <<now, table, appendOnly, archive, audit, erased, open, unrecorded>>
    BY <1>1 DEF Start
  <2>7. /\ planned' \in [Jobs -> SUBSET Keys] /\ left' \in [Jobs -> SUBSET Keys]
        /\ todo' \in [Jobs -> SUBSET Keys] /\ cold' \in [Jobs -> SUBSET Keys]
        /\ wanted' \in [Jobs -> SUBSET Keys] /\ gone' \in [Jobs -> SUBSET Keys]
    BY <1>1 DEF TypeOK, Start
  <2>8. /\ lifts' \in [Jobs -> BOOLEAN] /\ stale' \in [Jobs -> BOOLEAN]
        /\ raised' \in [Jobs -> BOOLEAN] /\ touched' \in [Jobs -> BOOLEAN]
    BY <1>1 DEF TypeOK, Start
  <2> QED BY <2>3, <2>5, <2>6, <2>7, <2>8 DEF TypeOK
<1>2. CASE Plan(i)
  <2> DEFINE expired == InTier("expired", job[i].reference)
             tiered == IF job[i].apply /\ job[i].tiering THEN InTier("cold", job[i].reference)
                       ELSE {}
  <2>1. expired \subseteq Keys /\ tiered \subseteq Keys
    BY DEF TypeOK, InTier
  <2>2. Cardinality(table) \in 0..Cardinality(Keys)
    <3>1. table \in SUBSET Keys
      BY DEF TypeOK
    <3>2. IsFiniteSet(table) /\ Cardinality(table) <= Cardinality(Keys)
      BY <3>1, KeysAssumption, FS_Subset
    <3>3. Cardinality(table) \in Nat /\ Cardinality(Keys) \in Nat
      BY <3>2, KeysAssumption, FS_CardinalityType
    <3> QED BY <3>2, <3>3
  <2>3. /\ UNCHANGED <<now, table, appendOnly, archive, audit, job, todo, cold, lifts, stale,
                       raised, erased, gone, open, unrecorded>>
        /\ total' = [total EXCEPT ![i] = Cardinality(table)]
        /\ planned' = [planned EXCEPT ![i] = expired]
        /\ left' = [left EXCEPT ![i] = expired]
        /\ wanted' = [wanted EXCEPT ![i] = tiered]
        /\ touched' = [touched EXCEPT ![i] = FALSE]
    BY <1>2 DEF Plan
  <2>4. pc' \in [Jobs -> Phases]
    BY <1>2 DEF TypeOK, Plan
  <2> QED BY <2>1, <2>2, <2>3, <2>4 DEF TypeOK
<1>3. CASE PlanRaises(i) \/ RecordRaises(i)
  BY <1>3 DEF TypeOK, PlanRaises, RecordRaises
<1>4. CASE RecordPlan(i)
  <2>1. audit' \subseteq AuditRows
    BY <1>4, PendingType DEF TypeOK, RecordPlan, Record
  <2>2. left' \in [Jobs -> SUBSET Keys] /\ pc' \in [Jobs -> Phases]
    BY <1>4 DEF TypeOK, RecordPlan
  <2> QED BY <1>4, <2>1, <2>2 DEF TypeOK, RecordPlan
<1>5. CASE ReadCold(i)
  BY <1>5 DEF TypeOK, ReadCold
<1>6. CASE ArchiveChunk(i)
  <2>1. PICK chunk \in SUBSET cold[i] :
           archive' = archive \cup chunk /\ todo' = [todo EXCEPT ![i] = chunk]
    BY <1>6 DEF ArchiveChunk
  <2>2. archive' \subseteq Keys /\ todo' \in [Jobs -> SUBSET Keys]
    BY <2>1 DEF TypeOK
  <2> QED BY <1>6, <2>2 DEF TypeOK, ArchiveChunk
<1>7. CASE ArchiveRecord(i)
  <2>1. audit' \subseteq AuditRows
    BY <1>7, PendingType DEF TypeOK, ArchiveRecord, Record
  <2>2. cold' \in [Jobs -> SUBSET Keys] /\ todo' \in [Jobs -> SUBSET Keys]
        /\ pc' \in [Jobs -> Phases]
    BY <1>7 DEF TypeOK, ArchiveRecord
  <2> QED BY <1>7, <2>1, <2>2 DEF TypeOK, ArchiveRecord
<1> QED BY <1>1, <1>2, <1>3, <1>4, <1>5, <1>6, <1>7

\* The types survive the steps of a deletion batch.
LEMMA DeleteType ==
    ASSUME TypeOK, NEW i \in Jobs,
           \/ AssertBatch(i) \/ ReadProperty(i) \/ LiftProperty(i) \/ LiftRefused(i)
           \/ DeleteChunk(i) \/ DeleteRefused(i) \/ DeleteFails(i) \/ RestoreProperty(i)
           \/ LogDeletion(i) \/ Verify(i) \/ Crash(i)
    PROVE  TypeOK'
<1> USE DEF Phases, Ended, GoTo, files, local, cutOff, NextBatch
<1>0. Batch(i) \subseteq Keys /\ Removed(i) \subseteq Keys
  BY DEF TypeOK, Batch, Removed
<1>1. CASE AssertBatch(i)
  BY <1>0, <1>1 DEF TypeOK, AssertBatch
<1>2. CASE ReadProperty(i)
  <2>1. lifts' \in [Jobs -> BOOLEAN] /\ pc' \in [Jobs -> Phases]
    BY <1>2 DEF TypeOK, ReadProperty
  <2> QED BY <1>2, <2>1 DEF TypeOK, ReadProperty
<1>3. CASE LiftProperty(i)
  <2>1. pc' \in [Jobs -> Phases] /\ stale' \in [Jobs -> BOOLEAN] /\ appendOnly' = FALSE
    BY <1>3 DEF TypeOK, LiftProperty, SetProperty
  <2> QED BY <1>3, <2>1 DEF TypeOK, LiftProperty
<1>4. CASE LiftRefused(i)
  BY <1>4 DEF TypeOK, LiftRefused
<1>5. CASE DeleteChunk(i)
  <2>1. /\ table' \subseteq Keys /\ erased' \subseteq Keys /\ todo' \in [Jobs -> SUBSET Keys]
        /\ pc' \in [Jobs -> Phases]
    BY <1>5 DEF TypeOK, DeleteChunk
  <2>2. touched' \in [Jobs -> BOOLEAN] /\ gone' \in [Jobs -> SUBSET Keys]
    <3>1. CASE UNCHANGED <<touched, gone>>
      BY <3>1 DEF TypeOK
    <3>2. CASE Touch(i, Chunk(todo[i]) \cap table)
      BY <3>2 DEF TypeOK, Touch
    <3> QED BY <1>5, <3>1, <3>2 DEF DeleteChunk
  <2> QED BY <1>5, <2>1, <2>2 DEF TypeOK, DeleteChunk
<1>6. CASE DeleteRefused(i) \/ DeleteFails(i)
  BY <1>6 DEF TypeOK, DeleteRefused, DeleteFails
<1>7. CASE RestoreProperty(i)
  <2>1. pc' \in [Jobs -> Phases] /\ unrecorded' \subseteq Keys
    BY <1>0, <1>7 DEF TypeOK, RestoreProperty
  <2>2. stale' \in [Jobs -> BOOLEAN] /\ appendOnly' \in BOOLEAN
    BY <1>7 DEF TypeOK, RestoreProperty, SetProperty
  <2> QED BY <1>7, <2>1, <2>2 DEF TypeOK, RestoreProperty
<1>8. CASE LogDeletion(i)
  <2>1. audit' \subseteq AuditRows
    BY <1>8, PendingType DEF TypeOK, LogDeletion, Record
  <2>2. pc' \in [Jobs -> Phases] /\ left' \in [Jobs -> SUBSET Keys]
    BY <1>8 DEF TypeOK, LogDeletion
  <2> QED BY <1>8, <2>1, <2>2 DEF TypeOK, LogDeletion
<1>9. CASE Verify(i)
  <2>1. pc' \in [Jobs -> Phases]
    BY <1>9 DEF TypeOK, Verify
  <2> QED BY <1>9, <2>1 DEF TypeOK, Verify
<1>10. CASE Crash(i)
  <2>1. pc' \in [Jobs -> Phases] /\ unrecorded' \subseteq Keys
    BY <1>0, <1>10 DEF TypeOK, Crash
  <2>2. open' \in BOOLEAN
    BY <1>10 DEF TypeOK, Crash
  <2> QED BY <1>10, <2>1, <2>2 DEF TypeOK, Crash
<1> QED BY <1>1, <1>2, <1>3, <1>4, <1>5, <1>6, <1>7, <1>8, <1>9, <1>10

\* The types survive ingestion and the passing of days.
LEMMA SurroundingsType ==
    ASSUME TypeOK, Ingest \/ Tick
    PROVE  TypeOK'
<1> USE DEF files, local, cutOff
<1>1. CASE Ingest
  BY <1>1 DEF TypeOK, Ingest
<1>2. CASE Tick
  <2>1. now' \in 0..MaxNow
    BY <1>2, BoundsAssumption DEF TypeOK, Tick
  <2> QED BY <1>2, <2>1 DEF TypeOK, Tick
<1> QED BY <1>1, <1>2

-----------------------------------------------------------------------------
(* The theorems. *)

\* The invariant holds on the first day.
LEMMA InitInv == Init => Inv
<1> SUFFICES ASSUME Init PROVE Inv
  OBVIOUS
<1>1. NoJob \in Arguments
  BY OperatorsAssumption, BoundsAssumption DEF NoJob, Arguments
<1>2. TypeOK
  <2>1. 0 \in 0..Cardinality(Keys)
    BY KeysAssumption, FS_CardinalityType
  <2>2. "done" \in Phases
    BY DEF Phases, Ended
  <2>3. now \in 0..MaxNow /\ table \subseteq Keys
    BY BoundsAssumption, KeysAssumption DEF Init
  <2>4. job \in [Jobs -> Arguments] /\ pc \in [Jobs -> Phases]
        /\ total \in [Jobs -> 0..Cardinality(Keys)]
    BY <1>1, <2>1, <2>2 DEF Init
  <2> QED BY <2>3, <2>4 DEF Init, TypeOK
<1>3. WindowInv
  BY DEF Init, WindowInv
<1>4. AuditInv
  BY DEF Init, AuditInv, Recorded
<1>5. ASSUME NEW j \in Jobs PROVE JobInv(j)
  <2>1. job[j].reference = now /\ now \in Nat /\ ~job[j].apply /\ wanted[j] = {}
    BY BoundsAssumption DEF Init, NoJob
  <2> QED BY <2>1 DEF Init, JobInv, BatchInv, PlanInv, ColdInv, SizeInv, Deleting, Tiering, Applying
<1> QED BY <1>2, <1>3, <1>4, <1>5 DEF Inv

\* Every step keeps the invariant.
LEMMA StepInv == Inv /\ [Next]_vars => Inv'
<1> SUFFICES ASSUME Inv, [Next]_vars PROVE Inv'
  OBVIOUS
<1>1. ASSUME NEW i \in Jobs, Start(i) \/ Step(i) \/ Crash(i)
      PROVE  Inv'
  <2>1. TypeOK'
    BY <1>1, PlanType, DeleteType DEF Inv, Step
  <2>2. WindowInv' /\ AuditInv'
    BY <1>1, WindowStep, AuditStep
  <2>3. \A d \in Jobs : JobInv(d)'
    BY <1>1, OwnInv, Others
  <2> QED BY <2>1, <2>2, <2>3 DEF Inv
<1>2. CASE Ingest \/ Tick
  <2>1. TypeOK'
    BY <1>2, SurroundingsType DEF Inv
  <2>2. WindowInv'
    BY <1>2 DEF Inv, WindowInv, Ingest, Tick, files, local, cutOff
  <2>3. AuditInv'
    BY <1>2 DEF Inv, AuditInv, Recorded, Removed, Batch, Ingest, Tick, files, local, cutOff
  <2>4. \A d \in Jobs : JobInv(d)'
    BY <1>2, Surroundings
  <2> QED BY <2>1, <2>2, <2>3, <2>4 DEF Inv
<1>3. CASE UNCHANGED vars
  <2> USE <1>3 DEF vars, files, local, cutOff
  <2>1. TypeOK'
    BY DEF Inv, TypeOK
  <2>2. WindowInv'
    BY DEF Inv, WindowInv
  <2>3. AuditInv'
    BY DEF Inv, AuditInv, Recorded, Removed, Batch
  <2>4. ASSUME NEW d \in Jobs PROVE JobInv(d)'
    <3>1. Spares(d)
      BY DEF Spares
    <3>2. Mild(d)
      BY BoundsAssumption DEF Inv, TypeOK, Mild
    <3> QED BY <3>1, <3>2, Undisturbed DEF Inv
  <2> QED BY <2>1, <2>2, <2>3, <2>4 DEF Inv
<1> QED BY <1>1, <1>2, <1>3 DEF Next

\* In every reachable state of the retention jobs the variables have their
\* types: no run plans, copies or deletes a key that is not the table's, and
\* every audit record has a known mode and operator.
THEOREM TypeCorrect == Spec => []TypeOK
<1>1. Inv => TypeOK
  BY DEF Inv
<1> QED BY <1>1, InitInv, StepInv, PTL DEF Spec

\* The invariant that carries the other theorems holds throughout: what a
\* run is about to delete is expired on a day that has come, its counts
\* explain the table until somebody else changes it, and every deleted key
\* is recorded, owed or known to be cut off.
THEOREM Inductive == Spec => []Inv
BY InitInv, StepInv, PTL DEF Spec

\* delta.appendOnly is lifted only within the try block of _delete_batch:
\* whatever the overlap of runs, refusals and failures, the finally block of
\* the run that lifted it sets it again; only a kill in the window leaves the
\* table open.
THEOREM WindowIsClosed == Spec => []WindowClosed
<1>1. Inv => WindowClosed
  BY DEF Inv, WindowInv, WindowClosed
<1> QED BY <1>1, InitInv, StepInv, PTL DEF Spec

\* _archive_cold_rows keeps every row it read: whatever overlapping runs delete
\* while it copies, a run that got past it has archived each cold row of its
\* plan that was not deleted before the read, for any chunk size and any order
\* of the listing.
THEOREM ColdRowsCopied == Spec => []ColdCopiedFirst
<1>1. Inv => ColdCopiedFirst
  BY DEF Inv, JobInv, ColdInv, Unfinished, Tiering, ColdCopiedFirst
<1> QED BY <1>1, InitInv, StepInv, PTL DEF Spec

\* A run reports a row-count mismatch, or a missing key, only when ingestion
\* or another run changed the table since its plan: its own batches and
\* chunks always add up.
THEOREM MismatchIsForeign == Spec => []MismatchMeansInterference
<1>1. Inv => MismatchMeansInterference
  BY DEF Inv, JobInv, SizeInv, MismatchMeansInterference
<1> QED BY <1>1, InitInv, StepInv, PTL DEF Spec

\* The audit table accounts for the deletions of enforce_retention: records
\* name deleted rows only, a deleted row is recorded, about to be recorded or
\* cut off, and a run that succeeds has recorded its whole plan.
THEOREM DeletionsAreAudited == Spec => []DeletionsAudited
<1>1. Inv => DeletionsAudited
  <2> SUFFICES ASSUME Inv
               PROVE  /\ Recorded \subseteq erased
                      /\ erased \subseteq Recorded \cup (UNION {Removed(j) : j \in Jobs})
                                             \cup unrecorded
                      /\ \A j \in Jobs :
                            pc[j] = "done" /\ job[j].apply => planned[j] \subseteq Recorded
    BY DEF DeletionsAudited, Recorded
  <2>1. Recorded \subseteq erased
    BY DEF Inv, AuditInv
  <2>2. erased \subseteq Recorded \cup (UNION {Removed(j) : j \in Jobs}) \cup unrecorded
    BY DEF Inv, AuditInv
  <2>3. \A j \in Jobs : pc[j] = "done" /\ job[j].apply => planned[j] \subseteq Recorded
    BY DEF Inv, JobInv, PlanInv
  <2> QED BY <2>1, <2>2, <2>3
<1> QED BY <1>1, InitInv, StepInv, PTL DEF Spec

\* No step of any run removes a row that is not older than the cold horizon
\* on that day: _assert_batch_in_policy holds of a batch until it is deleted,
\* however long the run takes and however stale its plan is.
THEOREM OnlyExpiredAreDeleted == Spec => OnlyExpiredDeleted
<1>1. Inv /\ [Next]_vars => [\A k \in table \ table' : now - Occurred[k] > ColdHorizon]_vars
  <2> SUFFICES ASSUME Inv, Next, NEW k \in table \ table'
               PROVE  now - Occurred[k] > ColdHorizon
    OBVIOUS
  <2>1. PICK i \in Jobs : DeleteChunk(i)
    BY DEF Next, Start, Step, Crash, Ingest, Tick, Plan, PlanRaises, RecordPlan, RecordRaises,
           ReadCold, ArchiveChunk, ArchiveRecord, AssertBatch, ReadProperty, LiftProperty,
           LiftRefused, DeleteRefused, DeleteFails, RestoreProperty, LogDeletion, Verify, files
  <2>2. k \in todo[i] /\ pc[i] = "delete"
    BY <2>1, ChunkOf DEF DeleteChunk
  <2>3. TierFor(k, job[i].reference) = "expired" /\ job[i].reference <= now
    BY <2>2 DEF Inv, JobInv, BatchInv, Deleting
  <2>4. k \in Keys /\ job[i].reference \in Nat /\ now \in Nat /\ Occurred[k] \in Nat
    BY BoundsAssumption, OccurredAssumption DEF Inv, TypeOK, Arguments
  <2>5. job[i].reference - Occurred[k] > ColdHorizon
    BY <2>3, <2>4, ExpiredIsOld
  <2> QED BY <2>3, <2>4, <2>5, PolicyAssumption
<1> QED BY <1>1, Inductive, PTL DEF Spec, OnlyExpiredDeleted
=============================================================================
