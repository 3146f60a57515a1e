---------------------------- MODULE KafkaIngest ----------------------------
(***************************************************************************)
(* The governed Kafka consumer (kafka_ingest.py, and vessel_ingest.py,     *)
(* which runs the same loop) with its dead-letter path (dlq.py).           *)
(*                                                                         *)
(* A run of the program collects one bounded batch, quarantines the poison *)
(* it meets on the way, appends the good events to the bronze table and    *)
(* only then commits the batch's offsets, partition by partition.  Runs    *)
(* are repeated for ever; several consumers of one group may run at once,  *)
(* partitions move between them, and any of them may stop at any step.     *)
(*                                                                         *)
(* A message is [kind, id, body, kid].  "ok" decodes and belongs to the    *)
(* scope, "foreign" decodes but is refused by enforce_event_scope or       *)
(* enforce_record_classification, "poison" does not decode whatever the    *)
(* key directory holds.  kid names the key that signed the envelope: a run *)
(* reads the key directory once, when it starts (signature_verification),  *)
(* while the file is replaced as producers rotate their keys.              *)
(***************************************************************************)
EXTENDS Integers, FiniteSets, Sequences

CONSTANTS Consumers,      \* process slots of the consumer group
          Partitions,     \* partitions of the consumed topic (a set of integers)
          EventIds,       \* event_id values
          Bodies,         \* immutable content of an event (payload and header columns)
          Kids,           \* signing keys, by key id
          Directories,    \* the successive contents of the key directory file
          Logs,           \* the topic contents considered, one function per topic
          MaxMessages,    \* --max-messages: messages collected by one run
          MaxFaults,      \* bound: process failures in one behaviour
          MaxRebalances,  \* bound: forced partition moves in one behaviour
          FilteredReadFails, \* the pinned deltalake/pyarrow pair rejects a filtered
                             \* read of a table that holds merge-written files
          Nobody          \* no consumer owns the partition

Messages == [kind : {"ok", "foreign", "poison"}, id : EventIds, body : Bodies,
             kid : Kids]

ASSUME ConsumersAssumption == Nobody \notin Consumers
ASSUME PartitionsAssumption == Partitions \subseteq Int
ASSUME LogsAssumption == \A l \in Logs : l \in [Partitions -> Seq(Messages)]
ASSUME DirectoriesAssumption == Directories \in Seq(SUBSET Kids) /\ Directories # <<>>
ASSUME BoundsAssumption ==
    /\ MaxMessages \in Nat \ {0}
    /\ MaxFaults \in Nat
    /\ MaxRebalances \in Nat
    /\ FilteredReadFails \in BOOLEAN

VARIABLES
    log,         \* the topic: log[p][o + 1] is the message at offset o
    committed,   \* broker: committed group offset of each partition
    owner,       \* broker: consumer a partition is assigned to, or Nobody
    fenced,      \* broker: consumers outside the current group generation
    bronze,      \* the bronze Delta table: a set of [id, body] rows
    dlqTopic,    \* dead-letter records the DLQ topic holds
    quarantine,  \* dead-letter records the quarantine table holds
    epoch,       \* key directory file: which of its contents it has
    trusted,     \* per consumer: the keys it loaded when it started
    phase,       \* per consumer: where the process is
    position,    \* per consumer and partition: next offset poll returns
    events,      \* per consumer: offsets of the decoded events of the batch
    count,       \* per consumer: length of the batch's message list
    last,        \* per consumer and partition: offset of the batch's latest
                 \* message of that partition in arrival order, -1 for none
    hand,        \* per consumer: the dead-letter record being written
    toCommit,    \* per consumer: partitions whose commit is still to be sent
    faults, rebalances   \* counters of the two bounds

broker == <<committed, owner, fenced>>
storage == <<bronze, dlqTopic, quarantine>>
memory == <<trusted, position, events, count, last, hand, toCommit>>
vars == <<log, epoch, broker, storage, phase, memory, faults, rebalances>>

Reasons == {"malformed-envelope", "unknown-kid", "duplicate-event-id"}
Rejections == Reasons \ {"duplicate-event-id"}
Offsets == Partitions \X Nat

\* A dead-letter record; dlq_event_id is a digest of exactly these fields.
DlqRecords == [at : Offsets, reason : Reasons]
NoRecord == [at |-> <<>>, reason |-> "none"]

Rows == [id : EventIds, body : Bodies]

Phases == {"down", "polling", "dlq_produce", "dlq_check", "dlq_append",
           "enforce", "append", "commit"}

Message(at) == log[at[1]][at[2] + 1]
RowOf(at) == [id |-> Message(at).id, body |-> Message(at).body]

\* The message survives the process: its event is a bronze row; or it could
\* not be read or verified and a quarantine row keeps its bytes; or it repeated an
\* event_id, a quarantine row keeps it, and the id it repeated is in bronze.
Kept(at) ==
    \/ Message(at).kind = "ok" /\ RowOf(at) \in bronze
    \/ \E r \in Rejections : [at |-> at, reason |-> r] \in quarantine
    \/ /\ [at |-> at, reason |-> "duplicate-event-id"] \in quarantine
       /\ \E r \in bronze : r.id = Message(at).id

EmptyBatch(c) ==
    /\ events' = [events EXCEPT ![c] = {}]
    /\ count' = [count EXCEPT ![c] = 0]
    /\ last' = [last EXCEPT ![c] = [p \in Partitions |-> -1]]
    /\ hand' = [hand EXCEPT ![c] = NoRecord]
    /\ toCommit' = [toCommit EXCEPT ![c] = {}]

\* The process ends: its memory is lost and it leaves the group.
Leave(c) ==
    /\ phase' = [phase EXCEPT ![c] = "down"]
    /\ owner' = [p \in Partitions |-> IF owner[p] = c THEN Nobody ELSE owner[p]]
    /\ fenced' = fenced \ {c}
    /\ trusted' = [trusted EXCEPT ![c] = {}]
    /\ position' = [position EXCEPT ![c] = [p \in Partitions |-> 0]]
    /\ EmptyBatch(c)

-----------------------------------------------------------------------------
Init ==
    /\ log \in Logs
    /\ committed = [p \in Partitions |-> 0]
    /\ owner = [p \in Partitions |-> Nobody]
    /\ fenced = {}
    /\ bronze = {}
    /\ dlqTopic = {}
    /\ quarantine = {}
    /\ phase = [c \in Consumers |-> "down"]
    /\ position = [c \in Consumers |-> [p \in Partitions |-> 0]]
    /\ events = [c \in Consumers |-> {}]
    /\ count = [c \in Consumers |-> 0]
    /\ last = [c \in Consumers |-> [p \in Partitions |-> -1]]
    /\ hand = [c \in Consumers |-> NoRecord]
    /\ toCommit = [c \in Consumers |-> {}]
    /\ epoch = 1
    /\ trusted = [c \in Consumers |-> {}]
    /\ faults = 0
    /\ rebalances = 0

\* load_key_directory: what the file holds now.
KeyDirectory == Directories[epoch]

\* The scheduler starts a run: configuration checks pass, the key directory
\* is loaded, the process subscribes and joins the group.  A directory without
\* keys is refused.
Start(c) ==
    /\ phase[c] = "down"
    /\ KeyDirectory # {}
    /\ trusted' = [trusted EXCEPT ![c] = KeyDirectory]
    /\ phase' = [phase EXCEPT ![c] = "polling"]
    /\ UNCHANGED <<log, epoch, broker, storage, position, events, count, last, hand,
                   toCommit, faults, rebalances>>

\* Operators replace the key directory: keys are added or withdrawn.
\* Consumers that run keep the keys they have loaded.
Rotate ==
    /\ epoch < Len(Directories)
    /\ epoch' = epoch + 1
    /\ UNCHANGED <<log, broker, storage, phase, memory, faults, rebalances>>

(***************************************************************************)
(* The group coordinator gives partition p to consumer c, which is inside  *)
(* poll() and so takes part in the rebalance; poll resumes at the          *)
(* committed offset.                                                       *)
(***************************************************************************)
GivePartition(p, c) ==
    /\ phase[c] = "polling"
    /\ position' = [position EXCEPT ![c][p] = committed[p]]
    /\ UNCHANGED <<log, epoch, committed, storage, trusted, phase, events, count, last,
                   hand, toCommit, faults>>

\* A partition nobody owns is assigned once every running member has come
\* back to poll().
Assign(p, c) ==
    /\ owner[p] = Nobody
    /\ \A d \in Consumers : phase[d] \in {"down", "polling"}
    /\ GivePartition(p, c)
    /\ owner' = [owner EXCEPT ![p] = c]
    /\ UNCHANGED <<fenced, rebalances>>

\* Members that are not inside poll() when the coordinator stops waiting.
Absent == {d \in Consumers : phase[d] \notin {"down", "polling"}}

\* A partition is taken from a running owner, or given to it anew (bounded).
\* Absent members lose all they own; their commits are refused.
Move(p, c) ==
    /\ owner[p] # Nobody
    /\ rebalances < MaxRebalances
    /\ GivePartition(p, c)
    /\ owner' = [q \in Partitions |-> IF q = p THEN c
                                     ELSE IF owner[q] \in Absent THEN Nobody
                                     ELSE owner[q]]
    /\ fenced' = fenced \cup Absent
    /\ rebalances' = rebalances + 1

-----------------------------------------------------------------------------
(***************************************************************************)
(* _collect_messages: one poll that returns the message at c's position.   *)
(***************************************************************************)
BatchIds(c) == {Message(at).id : at \in events[c]}

WellFormed(at) == Message(at).kind # "poison"

\* Mutant of Decodes: the signature is not verified.
DecodesUnverified(c, at) == WellFormed(at)

\* decode_event returns: the envelope is valid and its signature verifies
\* under a key that c has loaded.
Decodes(c, at) == WellFormed(at) /\ Message(at).kid \in trusted[c]

\* Why a message is quarantined.
ReasonFor(c, at) ==
    CASE ~WellFormed(at) -> "malformed-envelope"
      [] WellFormed(at) /\ ~Decodes(c, at) -> "unknown-kid"
      [] Decodes(c, at) -> "duplicate-event-id"

\* Mutant of Polled: the collection loop does not stop at --max-messages.
PolledPastLimit(c, p) ==
    /\ phase[c] = "polling"
    /\ owner[p] = c
    /\ position[c][p] < Len(log[p])
    /\ position' = [position EXCEPT ![c][p] = @ + 1]

Polled(c, p) ==
    /\ phase[c] = "polling"
    /\ owner[p] = c
    /\ count[c] < MaxMessages
    /\ position[c][p] < Len(log[p])
    /\ position' = [position EXCEPT ![c][p] = @ + 1]

Append1(c, at) ==
    /\ count' = [count EXCEPT ![c] = @ + 1]
    /\ last' = [last EXCEPT ![c][at[1]] = at[2]]

\* The message decodes and its event_id is new to the batch.
PollEvent(c, p) ==
    LET at == <<p, position[c][p]>> IN
    /\ Polled(c, p)
    /\ Decodes(c, at)
    /\ Message(at).id \notin BatchIds(c)
    /\ events' = [events EXCEPT ![c] = @ \cup {at}]
    /\ Append1(c, at)
    /\ UNCHANGED <<log, epoch, broker, storage, trusted, phase, hand, toCommit, faults,
                   rebalances>>

\* Mutant of PollPoison: the quarantine row is written before the topic.
PollPoisonTableFirst(c, p) ==
    LET at == <<p, position[c][p]>> IN
    /\ Polled(c, p)
    /\ ~Decodes(c, at) \/ Message(at).id \in BatchIds(c)
    /\ hand' = [hand EXCEPT ![c] = [at |-> at, reason |-> ReasonFor(c, at)]]
    /\ phase' = [phase EXCEPT ![c] = "dlq_check"]
    /\ UNCHANGED <<log, epoch, broker, storage, trusted, events, count, last,
                   toCommit, faults, rebalances>>

\* The message does not decode or repeats an event_id of the batch:
\* dlq.quarantine is called with the matching reason.
PollPoison(c, p) ==
    LET at == <<p, position[c][p]>> IN
    /\ Polled(c, p)
    /\ \/ ~Decodes(c, at)
       \/ Message(at).id \in BatchIds(c)
    /\ hand' = [hand EXCEPT ![c] = [at |-> at, reason |-> ReasonFor(c, at)]]
    /\ phase' = [phase EXCEPT ![c] = "dlq_produce"]
    /\ UNCHANGED <<log, epoch, broker, storage, trusted, events, count, last,
                   toCommit, faults, rebalances>>

-----------------------------------------------------------------------------
(***************************************************************************)
(* DeadLetterQueue.quarantine: the topic first, then the table.            *)
(***************************************************************************)

\* produce and flush are confirmed.
DlqProduce(c) ==
    /\ phase[c] = "dlq_produce"
    /\ dlqTopic' = dlqTopic \cup {hand[c]}
    /\ phase' = [phase EXCEPT ![c] = "dlq_check"]
    /\ UNCHANGED <<log, epoch, broker, bronze, quarantine, memory, faults, rebalances>>

\* quarantine() returns: the poison joins the message list, c polls again
\* and so is a member of the group again.
Quarantined(c) ==
    /\ Append1(c, hand[c].at)
    /\ hand' = [hand EXCEPT ![c] = NoRecord]
    /\ phase' = [phase EXCEPT ![c] = "polling"]
    /\ fenced' = fenced \ {c}
    /\ UNCHANGED <<log, epoch, committed, owner, bronze, dlqTopic, trusted, position,
                   events, toCommit, faults, rebalances>>

\* Mutant of AlreadyQuarantined: no idempotence check.
NeverAlreadyQuarantined(c) == FALSE

AlreadyQuarantined(c) == hand[c] \in quarantine

\* The quarantine table was created by its first row; every later row is
\* merge-written.  _already_quarantined reads the table with a filter.
FilteredReadRaises == FilteredReadFails /\ Cardinality(quarantine) > 1

\* _already_quarantined finds the record: nothing more to write.
DlqAlreadyThere(c) ==
    /\ phase[c] = "dlq_check"
    /\ ~FilteredReadRaises
    /\ AlreadyQuarantined(c)
    /\ Quarantined(c)
    /\ UNCHANGED quarantine

\* Mutant of DlqNotThere: the confirmed topic record counts as quarantine.
DlqTopicOnly(c) ==
    /\ phase[c] = "dlq_check"
    /\ ~FilteredReadRaises
    /\ ~AlreadyQuarantined(c)
    /\ Quarantined(c)
    /\ UNCHANGED quarantine

\* _already_quarantined does not find it: append_events follows.
DlqNotThere(c) ==
    /\ phase[c] = "dlq_check"
    /\ ~FilteredReadRaises
    /\ ~AlreadyQuarantined(c)
    /\ phase' = [phase EXCEPT ![c] = "dlq_append"]
    /\ UNCHANGED <<log, epoch, broker, storage, memory, faults, rebalances>>

\* The filtered read raises; the run halts without a commit.
DlqReadRaises(c) ==
    /\ phase[c] = "dlq_check"
    /\ FilteredReadRaises
    /\ Leave(c)
    /\ UNCHANGED <<log, epoch, committed, storage, faults, rebalances>>

DlqAppend(c) ==
    /\ phase[c] = "dlq_append"
    /\ hand[c] \notin quarantine
    /\ quarantine' = quarantine \cup {hand[c]}
    /\ Quarantined(c)

\* Another consumer wrote the record since the check.  The two rows differ in
\* quarantined_at, so append_events reports a conflicting replay.
DlqAppendConflict(c) ==
    /\ phase[c] = "dlq_append"
    /\ hand[c] \in quarantine
    /\ Leave(c)
    /\ UNCHANGED <<log, epoch, committed, storage, faults, rebalances>>

-----------------------------------------------------------------------------
(***************************************************************************)
(* _run after the collection.                                              *)
(***************************************************************************)

\* The batch is full or the idle timeout passed with a message in hand.
Collected(c) ==
    /\ phase[c] = "polling"
    /\ count[c] > 0
    /\ phase' = [phase EXCEPT ![c] = "enforce"]
    /\ UNCHANGED <<log, epoch, broker, storage, memory, faults, rebalances>>

Readable(c, p) == owner[p] = c /\ position[c][p] < Len(log[p])

\* The idle timeout passes on an empty batch: ValueError.  The timeout is
\* longer than a rebalance and a fetch; one that is not counts as a fault.
IdleTimeout(c) ==
    /\ phase[c] = "polling"
    /\ count[c] = 0
    /\ \A p \in Partitions : owner[p] # Nobody /\ ~Readable(c, p)
    /\ Leave(c)
    /\ UNCHANGED <<log, epoch, committed, storage, faults, rebalances>>

InScope(c) == \A at \in events[c] : Message(at).kind = "ok"

\* enforce_event_scope and enforce_record_classification pass.
EnforcePass(c) ==
    /\ phase[c] = "enforce"
    /\ InScope(c)
    /\ phase' = [phase EXCEPT ![c] = "append"]
    /\ UNCHANGED <<log, epoch, broker, storage, memory, faults, rebalances>>

\* One of them raises: nothing of the batch is written.
EnforceReject(c) ==
    /\ phase[c] = "enforce"
    /\ ~InScope(c)
    /\ Leave(c)
    /\ UNCHANGED <<log, epoch, committed, storage, faults, rebalances>>

NewRows(c) == {RowOf(at) : at \in events[c]}

\* Mutant of Conflicting: no replay check.
NoReplayCheck(c) == FALSE

\* A retained row has the event_id of a new one and other content.
Conflicting(c) ==
    \E r \in bronze, n \in NewRows(c) : r.id = n.id /\ r.body # n.body

LatestPartitions(c) == {p \in Partitions : last[c][p] >= 0}

\* append_events inserts the rows that are not there yet.  A batch of poison
\* only has no rows and leaves the table alone.
AppendEvents(c) ==
    /\ phase[c] = "append"
    /\ ~Conflicting(c)
    /\ bronze' = bronze \cup NewRows(c)
    /\ phase' = [phase EXCEPT ![c] = "commit"]
    /\ toCommit' = [toCommit EXCEPT ![c] = LatestPartitions(c)]
    /\ UNCHANGED <<log, epoch, broker, dlqTopic, quarantine, trusted, position,
                   events, count, last, hand, faults, rebalances>>

\* reject_conflicting_replays raises: the run halts without a commit.
AppendConflict(c) ==
    /\ phase[c] = "append"
    /\ Conflicting(c)
    /\ Leave(c)
    /\ UNCHANGED <<log, epoch, committed, storage, faults, rebalances>>

\* _commit_messages goes through the partitions in sorted order.
NextToCommit(c, p) ==
    /\ phase[c] = "commit"
    /\ p \in toCommit[c]
    /\ \A q \in toCommit[c] : p <= q

\* Mutant of CommitOffset: one offset too far.
CommitOffsetPast(c, p) ==
    /\ NextToCommit(c, p)
    /\ c \notin fenced
    /\ committed' = [committed EXCEPT ![p] = last[c][p] + 2]
    /\ toCommit' = [toCommit EXCEPT ![c] = @ \ {p}]
    /\ UNCHANGED <<log, epoch, owner, fenced, storage, trusted, phase, position,
                   events, count, last, hand, faults, rebalances>>

CommitOffset(c, p) ==
    /\ NextToCommit(c, p)
    /\ c \notin fenced
    /\ committed' = [committed EXCEPT ![p] = last[c][p] + 1]
    /\ toCommit' = [toCommit EXCEPT ![c] = @ \ {p}]
    /\ UNCHANGED <<log, epoch, owner, fenced, storage, trusted, phase, position,
                   events, count, last, hand, faults, rebalances>>

\* The broker refuses the commit of a member of an old generation.
CommitRefused(c, p) ==
    /\ NextToCommit(c, p)
    /\ c \in fenced
    /\ Leave(c)
    /\ UNCHANGED <<log, epoch, committed, storage, faults, rebalances>>

\* Every partition is committed: the report is written, the consumer closes.
Finish(c) ==
    /\ phase[c] = "commit"
    /\ toCommit[c] = {}
    /\ Leave(c)
    /\ UNCHANGED <<log, epoch, committed, storage, faults, rebalances>>

-----------------------------------------------------------------------------
(***************************************************************************)
(* Failures: the process is killed, or a broker error, an unreachable      *)
(* store or an early idle timeout raises.  Either way nothing follows.     *)
(***************************************************************************)
Fault == faults < MaxFaults /\ faults' = faults + 1

Fail(c) ==
    /\ Fault
    /\ phase[c] # "down"
    /\ Leave(c)
    /\ UNCHANGED <<log, epoch, committed, storage, rebalances>>

\* The dead-letter record reaches the topic, its confirmation does not reach
\* the process.
DlqUnconfirmed(c) ==
    /\ Fault
    /\ phase[c] = "dlq_produce"
    /\ dlqTopic' = dlqTopic \cup {hand[c]}
    /\ Leave(c)
    /\ UNCHANGED <<log, epoch, committed, bronze, quarantine, rebalances>>

\* The broker applies a commit, its confirmation does not reach the process.
CommitUnconfirmed(c, p) ==
    /\ Fault
    /\ NextToCommit(c, p)
    /\ c \notin fenced
    /\ committed' = [committed EXCEPT ![p] = last[c][p] + 1]
    /\ Leave(c)
    /\ UNCHANGED <<log, epoch, storage, rebalances>>

-----------------------------------------------------------------------------
Step(c) ==
    \/ \E p \in Partitions : PollEvent(c, p) \/ PollPoison(c, p)
    \/ DlqProduce(c) \/ DlqAlreadyThere(c) \/ DlqNotThere(c) \/ DlqReadRaises(c)
    \/ DlqAppend(c) \/ DlqAppendConflict(c)
    \/ Collected(c) \/ IdleTimeout(c)
    \/ EnforcePass(c) \/ EnforceReject(c)
    \/ AppendEvents(c) \/ AppendConflict(c)
    \/ \E p \in Partitions : CommitOffset(c, p) \/ CommitRefused(c, p)
    \/ Finish(c)

Failure(c) ==
    \/ Fail(c)
    \/ DlqUnconfirmed(c)
    \/ \E p \in Partitions : CommitUnconfirmed(c, p)

Next ==
    \/ \E c \in Consumers :
        \/ Start(c)
        \/ \E p \in Partitions : Assign(p, c) \/ Move(p, c)
        \/ Step(c)
        \/ Failure(c)
    \/ Rotate

Spec == Init /\ [][Next]_vars

(***************************************************************************)
(* Runs are repeated, the coordinator assigns partitions, and a running    *)
(* process takes its next step.  Failures and moves are never forced.      *)
(***************************************************************************)
Fairness ==
    \A c \in Consumers :
        /\ WF_vars(Start(c))
        /\ WF_vars(Step(c))
        /\ \A p \in Partitions : SF_vars(Assign(p, c))

FairSpec == Spec /\ Fairness

-----------------------------------------------------------------------------
TypeOK ==
    /\ log \in [Partitions -> Seq(Messages)]
    /\ committed \in [Partitions -> Nat]
    /\ owner \in [Partitions -> Consumers \cup {Nobody}]
    /\ fenced \subseteq Consumers
    /\ bronze \subseteq Rows
    /\ dlqTopic \subseteq DlqRecords
    /\ quarantine \subseteq DlqRecords
    /\ epoch \in 1..Len(Directories)
    /\ trusted \in [Consumers -> SUBSET Kids]
    /\ phase \in [Consumers -> Phases]
    /\ position \in [Consumers -> [Partitions -> Nat]]
    /\ events \in [Consumers -> SUBSET Offsets]
    /\ count \in [Consumers -> 0..MaxMessages]
    /\ last \in [Consumers -> [Partitions -> Int]]
    /\ hand \in [Consumers -> DlqRecords \cup {NoRecord}]
    /\ toCommit \in [Consumers -> SUBSET Partitions]
    /\ faults \in 0..MaxFaults
    /\ rebalances \in 0..MaxRebalances

\* No acknowledged message is lost: whatever stops, moves or is delivered
\* twice, every offset below a committed one is kept, and a message dropped
\* as a repeated event_id is backed by a bronze row with that id
\* (kafka_ingest.py: persist first, commit after).
NothingCommittedIsLost ==
    \A p \in Partitions :
        /\ committed[p] <= Len(log[p])
        /\ \A o \in 0..(committed[p] - 1) : Kept(<<p, o>>)

(***************************************************************************)
(* The inductive invariant behind NothingCommittedIsLost.  A message a     *)
(* running consumer has read and not yet committed is held: kept already,  *)
(* or an event of the batch, or dead-lettered because it repeats an event  *)
(* of the batch.                                                           *)
(***************************************************************************)
DlqPhases == {"dlq_produce", "dlq_check", "dlq_append"}

Held(c, at) ==
    \/ Kept(at)
    \/ at \in events[c]
    \/ /\ [at |-> at, reason |-> "duplicate-event-id"] \in quarantine
       /\ Message(at).id \in BatchIds(c)

\* Everything below the read position is held, or is the poison in hand.
ReadHeld(c) ==
    \A p \in Partitions : owner[p] = c =>
        /\ position[c][p] <= Len(log[p])
        /\ \A o \in 0..(position[c][p] - 1) :
              \/ Held(c, <<p, o>>)
              \/ phase[c] \in DlqPhases /\ hand[c].at = <<p, o>>

\* Everything up to the offset that will be committed is held.
LastHeld(c) ==
    \A p \in Partitions : last[c][p] >= 0 =>
        /\ last[c][p] < Len(log[p])
        /\ \A o \in 0..last[c][p] : Held(c, <<p, o>>)

\* Everything below the poison in hand is held, and a repeated event_id
\* repeats an event of the batch.
HandHeld(c) ==
    phase[c] \in DlqPhases =>
        /\ hand[c] \in DlqRecords
        /\ count[c] < MaxMessages
        /\ hand[c].at[2] < Len(log[hand[c].at[1]])
        /\ \A o \in 0..(hand[c].at[2] - 1) : Held(c, <<hand[c].at[1], o>>)
        /\ hand[c].reason = "duplicate-event-id" =>
              Message(hand[c].at).id \in BatchIds(c)

\* The batch's events decode, and by the time offsets are committed they are
\* bronze rows.
EventsHeld(c) ==
    \A at \in events[c] :
        /\ at[2] < Len(log[at[1]])
        /\ phase[c] \in {"append", "commit"} => Message(at).kind = "ok"
        /\ phase[c] = "commit" => RowOf(at) \in bronze

ToCommitHeld(c) == \A p \in toCommit[c] : phase[c] = "commit" /\ last[c][p] >= 0

ConsumerInv(c) ==
    /\ ReadHeld(c)
    /\ LastHeld(c)
    /\ HandHeld(c)
    /\ EventsHeld(c)
    /\ ToCommitHeld(c)

IInv ==
    /\ TypeOK
    /\ NothingCommittedIsLost
    /\ \A c \in Consumers : ConsumerInv(c)

\* Whatever the bronze table holds is an accepted message of the topic: no
\* poison, no record of another scope and none signed with a key that was
\* never listed reaches it on any path, however the key directory changes.
BronzeIsVerified ==
    \A r \in bronze : \E p \in Partitions : \E o \in 0..(Len(log[p]) - 1) :
        /\ Message(<<p, o>>).kind = "ok"
        /\ Message(<<p, o>>).kid \in UNION {Directories[i] : i \in DOMAIN Directories}
        /\ RowOf(<<p, o>>) = r

\* An event_id has one content in the bronze table, whichever consumers and
\* redeliveries wrote it.
BronzeIdsUnique == \A r, s \in bronze : r.id = s.id => r = s

\* The quarantine table never runs ahead of the dead-letter topic, also when
\* quarantine() stops half-way (dlq.py: both writes before the commit).
QuarantineOnTopic == quarantine \subseteq dlqTopic

\* The offsets whose message is kept.
Settled == {at \in UNION {{p} \X (0..(Len(log[p]) - 1)) : p \in Partitions} : Kept(at)}

\* The consumer implements the ingestion contract: kept messages stay kept,
\* and an offset is acknowledged only over kept messages.
IC == INSTANCE IngestContract WITH settled <- Settled
Contract == IC!Spec

\* Poison never halts the pipeline (dlq.py): once faults and moves have
\* ended, every message of the topic gets committed for good.
EverythingCommitted ==
    <>[](\A p \in Partitions : committed[p] = Len(log[p]))
=============================================================================
