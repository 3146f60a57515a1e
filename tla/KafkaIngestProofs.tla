------------------------- MODULE KafkaIngestProofs -------------------------
(***************************************************************************)
(* Proofs about KafkaIngest, for any number of consumers, partitions,      *)
(* messages, failures and rebalances.                                      *)
(***************************************************************************)
EXTENDS KafkaIngest, TLAPS

\* The storage never loses what a step found in it.
Retains ==
    /\ log' = log
    /\ bronze \subseteq bronze'
    /\ quarantine \subseteq quarantine'

\* A step does not touch the memory of d and gives it no partition.
Spares(d) ==
    /\ phase'[d] = phase[d]
    /\ position'[d] = position[d]
    /\ events'[d] = events[d]
    /\ count'[d] = count[d]
    /\ last'[d] = last[d]
    /\ hand'[d] = hand[d]
    /\ toCommit'[d] = toCommit[d]
    /\ \A p \in Partitions : owner'[p] = d => owner[p] = d

\* A kept message stays kept as long as the tables only grow.
LEMMA KeptStays ==
    ASSUME NEW at, Kept(at), Retains
    PROVE  Kept(at)'
BY DEF Kept, Retains, Message, RowOf

\* What a consumer holds stays held as long as its batch only grows.
LEMMA HeldStays ==
    ASSUME NEW c, NEW at, Held(c, at), Retains, events[c] \subseteq events'[c]
    PROVE  Held(c, at)'
<1>1. CASE Kept(at)
  BY <1>1, KeptStays DEF Held
<1>2. CASE ~Kept(at)
  BY <1>2 DEF Held, Retains, BatchIds, Message
<1> QED BY <1>1, <1>2

\* A step that leaves a consumer's memory alone, and gives it no partition,
\* keeps its part of the invariant.
LEMMA Undisturbed ==
    ASSUME NEW c \in Consumers, ConsumerInv(c), Retains, Spares(c)
    PROVE  ConsumerInv(c)'
<1> USE DEF Spares
<1>1. \A at : Held(c, at) => Held(c, at)'
  BY HeldStays
<1>2. ReadHeld(c)'
  BY <1>1 DEF ConsumerInv, ReadHeld, Retains
<1>3. LastHeld(c)'
  BY <1>1 DEF ConsumerInv, LastHeld, Retains
<1>4. HandHeld(c)'
  BY <1>1 DEF ConsumerInv, HandHeld, Retains, BatchIds, Message
<1>5. EventsHeld(c)'
  BY DEF ConsumerInv, EventsHeld, Retains, Message, RowOf
<1>6. ToCommitHeld(c)'
  BY DEF ConsumerInv, ToCommitHeld
<1> QED BY <1>2, <1>3, <1>4, <1>5, <1>6 DEF ConsumerInv

\* A consumer that left holds nothing and owns nothing.
LEMMA Left ==
    ASSUME TypeOK, NEW c \in Consumers, Leave(c)
    PROVE  ConsumerInv(c)'
<1>1. /\ phase'[c] = "down" /\ events'[c] = {} /\ toCommit'[c] = {}
      /\ \A p \in Partitions : owner'[p] # c /\ last'[c][p] = -1
  BY ConsumersAssumption DEF TypeOK, Leave, EmptyBatch
<1> QED
  BY <1>1 DEF ConsumerInv, ReadHeld, LastHeld, HandHeld, EventsHeld, ToCommitHeld, DlqPhases

\* The other consumers do not notice that one left.
LEMMA LeftOthers ==
    ASSUME TypeOK, NEW c \in Consumers, Leave(c), Retains,
           NEW d \in Consumers, d # c, ConsumerInv(d)
    PROVE  ConsumerInv(d)'
<1>1. Spares(d)
  BY ConsumersAssumption DEF TypeOK, Leave, EmptyBatch, Spares
<1> QED BY <1>1, Undisturbed

\* Committed messages stay kept when no offset is committed.
LEMMA StillCommitted ==
    ASSUME NothingCommittedIsLost, Retains, committed' = committed
    PROVE  NothingCommittedIsLost'
BY KeptStays DEF NothingCommittedIsLost, Retains

-----------------------------------------------------------------------------
(* The effect of each kind of step on the consumer that takes it. *)

\* A process that starts owns and holds nothing yet.
LEMMA StartInv ==
    ASSUME TypeOK, NEW c \in Consumers, ConsumerInv(c), Start(c)
    PROVE  ConsumerInv(c)'
<1>1. phase[c] = "down" /\ phase'[c] = "polling"
  BY DEF TypeOK, Start
<1>2. Retains /\ UNCHANGED <<position, events, count, last, hand, toCommit, owner>>
  BY DEF Start, Retains, broker, storage, memory
<1>3. \A at : Held(c, at) => Held(c, at)'
  BY <1>2, HeldStays
<1>4. ReadHeld(c)' /\ LastHeld(c)'
  BY <1>1, <1>2, <1>3 DEF ConsumerInv, ReadHeld, LastHeld, DlqPhases, Retains
<1>5. HandHeld(c)' /\ EventsHeld(c)' /\ ToCommitHeld(c)'
  BY <1>1, <1>2 DEF ConsumerInv, HandHeld, EventsHeld, ToCommitHeld, DlqPhases, Retains
<1> QED BY <1>4, <1>5 DEF ConsumerInv

\* A partition that changes hands is read by its new owner from the committed offset.
LEMMA GiveInv ==
    ASSUME TypeOK, NothingCommittedIsLost, NEW c \in Consumers, ConsumerInv(c),
           NEW p \in Partitions, Assign(p, c) \/ Move(p, c)
    PROVE  ConsumerInv(c)'
<1>1. /\ Retains /\ UNCHANGED <<committed, phase, events, count, last, hand, toCommit>>
      /\ phase[c] = "polling"
      /\ position' = [position EXCEPT ![c][p] = committed[p]]
  BY DEF Assign, Move, GivePartition, Retains, storage
<1>2. \A q \in Partitions : owner'[q] = c => q = p \/ owner[q] = c
  BY ConsumersAssumption DEF TypeOK, Assign, Move
<1>3. \A at : Held(c, at) => Held(c, at)'
  BY <1>1, HeldStays
<1>4. \A o \in 0..(committed[p] - 1) : Held(c, <<p, o>>)
  BY DEF NothingCommittedIsLost, Held
<1>5. ReadHeld(c)'
  <2> SUFFICES ASSUME NEW q \in Partitions, owner'[q] = c
               PROVE  /\ position'[c][q] <= Len(log[q])
                      /\ \A o \in 0..(position'[c][q] - 1) : Held(c, <<q, o>>)'
    BY <1>1 DEF ReadHeld, Retains
  <2>1. CASE q = p
    <3>1. position'[c][q] = committed[p]
      BY <1>1, <2>1 DEF TypeOK
    <3> QED BY <3>1, <1>3, <1>4, <2>1 DEF NothingCommittedIsLost
  <2>2. CASE q # p
    <3>1. owner[q] = c /\ position'[c][q] = position[c][q]
      BY <1>1, <1>2, <2>2 DEF TypeOK
    <3> QED BY <3>1, <1>1, <1>3 DEF ConsumerInv, ReadHeld, DlqPhases
  <2> QED BY <2>1, <2>2
<1>6. LastHeld(c)'
  BY <1>1, <1>3 DEF ConsumerInv, LastHeld, Retains
<1>7. HandHeld(c)' /\ EventsHeld(c)' /\ ToCommitHeld(c)'
  BY <1>1 DEF ConsumerInv, HandHeld, EventsHeld, ToCommitHeld, DlqPhases, Retains
<1> QED BY <1>5, <1>6, <1>7 DEF ConsumerInv

\* A polled event is held in the batch of its consumer.
LEMMA PollEventInv ==
    ASSUME TypeOK, NEW c \in Consumers, ConsumerInv(c), NEW p \in Partitions,
           PollEvent(c, p)
    PROVE  ConsumerInv(c)'
<1>0. PICK o0 \in Nat : o0 = position[c][p]
  BY DEF TypeOK
<1>1. /\ Retains /\ UNCHANGED <<owner, phase, hand, toCommit>>
      /\ phase[c] = "polling" /\ owner[p] = c
      /\ o0 \in Nat /\ o0 < Len(log[p])
  BY <1>0 DEF PollEvent, Polled, Retains, broker, storage, TypeOK
<1>2. /\ events'[c] = events[c] \cup {<<p, o0>>}
      /\ \A q \in Partitions : position'[c][q] = IF q = p THEN o0 + 1 ELSE position[c][q]
      /\ \A q \in Partitions : last'[c][q] = IF q = p THEN o0 ELSE last[c][q]
  BY <1>0 DEF PollEvent, Polled, Append1, TypeOK
<1>3. \A at : Held(c, at) => Held(c, at)'
  BY <1>1, <1>2, HeldStays
<1>4. Held(c, <<p, o0>>)'
  BY <1>2 DEF Held
<1>5. \A o \in 0..(o0 - 1) : Held(c, <<p, o>>)'
  BY <1>0, <1>1, <1>3 DEF ConsumerInv, ReadHeld, DlqPhases
<1>6. \A o \in 0..o0 : Held(c, <<p, o>>)'
  <2> TAKE o \in 0..o0
  <2>1. o = o0 \/ o \in 0..(o0 - 1)
    BY <1>1
  <2> QED BY <2>1, <1>4, <1>5
<1>7. ReadHeld(c)'
  <2> SUFFICES ASSUME NEW q \in Partitions, owner[q] = c
               PROVE  /\ position'[c][q] <= Len(log[q])
                      /\ \A o \in 0..(position'[c][q] - 1) : Held(c, <<q, o>>)'
    BY <1>1 DEF ReadHeld, Retains
  <2>1. CASE q = p
    BY <2>1, <1>1, <1>2, <1>6 DEF TypeOK
  <2>2. CASE q # p
    BY <2>2, <1>1, <1>2, <1>3 DEF ConsumerInv, ReadHeld, DlqPhases
  <2> QED BY <2>1, <2>2
<1>8. LastHeld(c)'
  <2> SUFFICES ASSUME NEW q \in Partitions, last'[c][q] >= 0
               PROVE  /\ last'[c][q] < Len(log[q])
                      /\ \A o \in 0..last'[c][q] : Held(c, <<q, o>>)'
    BY <1>1 DEF LastHeld, Retains
  <2>1. CASE q = p
    BY <2>1, <1>1, <1>2, <1>6
  <2>2. CASE q # p
    BY <2>2, <1>2, <1>3 DEF ConsumerInv, LastHeld
  <2> QED BY <2>1, <2>2
<1>9. HandHeld(c)' /\ EventsHeld(c)' /\ ToCommitHeld(c)'
  BY <1>1, <1>2 DEF ConsumerInv, HandHeld, EventsHeld, ToCommitHeld, DlqPhases, Retains
<1> QED BY <1>7, <1>8, <1>9 DEF ConsumerInv

\* A polled poison message is in the hand of its consumer until it is quarantined.
LEMMA PollPoisonInv ==
    ASSUME TypeOK, NEW c \in Consumers, ConsumerInv(c), NEW p \in Partitions,
           PollPoison(c, p)
    PROVE  ConsumerInv(c)'
<1> DEFINE o0 == position[c][p]
<1>1. /\ Retains /\ UNCHANGED <<owner, events, count, last, toCommit>>
      /\ phase[c] = "polling" /\ phase'[c] = "dlq_produce" /\ owner[p] = c
      /\ o0 \in Nat /\ o0 < Len(log[p]) /\ count[c] < MaxMessages
  BY DEF PollPoison, Polled, Retains, broker, storage, TypeOK
<1>2. \A q \in Partitions : position'[c][q] = IF q = p THEN o0 + 1 ELSE position[c][q]
  BY DEF PollPoison, Polled, TypeOK
<1>3. \A at : Held(c, at) => Held(c, at)'
  BY <1>1, HeldStays
<1>4. /\ hand'[c] \in DlqRecords
      /\ hand'[c].at = <<p, o0>>
      /\ hand'[c].reason = "duplicate-event-id" => Message(<<p, o0>>).id \in BatchIds(c)
  <2>1. <<p, o0>> \in Offsets
    BY <1>1 DEF Offsets
  <2>2. PICK r \in Reasons :
          /\ hand'[c] = [at |-> <<p, o0>>, reason |-> r]
          /\ r = "duplicate-event-id" => Decodes(c, <<p, o0>>)
    BY DEF PollPoison, ReasonFor, Decodes, Reasons, TypeOK
  <2>3. Decodes(c, <<p, o0>>) => Message(<<p, o0>>).id \in BatchIds(c)
    BY DEF PollPoison
  <2> QED BY <2>1, <2>2, <2>3 DEF DlqRecords
<1>5. \A o \in 0..(o0 - 1) : Held(c, <<p, o>>)'
  BY <1>1, <1>3 DEF ConsumerInv, ReadHeld, DlqPhases
<1>6. ReadHeld(c)'
  <2> SUFFICES ASSUME NEW q \in Partitions, owner[q] = c
               PROVE  /\ position'[c][q] <= Len(log[q])
                      /\ \A o \in 0..(position'[c][q] - 1) :
                            Held(c, <<q, o>>)' \/ <<p, o0>> = <<q, o>>
    BY <1>1, <1>4 DEF ReadHeld, Retains, DlqPhases
  <2>1. CASE q = p
    BY <2>1, <1>1, <1>2, <1>5 DEF TypeOK
  <2>2. CASE q # p
    BY <2>2, <1>1, <1>2, <1>3 DEF ConsumerInv, ReadHeld, DlqPhases
  <2> QED BY <2>1, <2>2
<1>7. LastHeld(c)'
  BY <1>1, <1>3 DEF ConsumerInv, LastHeld, Retains
<1>8. HandHeld(c)'
  BY <1>1, <1>4, <1>5 DEF HandHeld, Retains, BatchIds, Message
<1>9. EventsHeld(c)' /\ ToCommitHeld(c)'
  BY <1>1 DEF ConsumerInv, EventsHeld, ToCommitHeld, Retains
<1> QED BY <1>6, <1>7, <1>8, <1>9 DEF ConsumerInv

\* quarantine() returned, with the record in the table.
LEMMA QuarantinedInv ==
    ASSUME TypeOK, NEW c \in Consumers, ConsumerInv(c), phase[c] \in DlqPhases,
           Quarantined(c), quarantine \subseteq quarantine', hand[c] \in quarantine'
    PROVE  ConsumerInv(c)'
<1>1. /\ Retains /\ UNCHANGED <<owner, position, events, toCommit>>
      /\ phase'[c] = "polling"
  BY DEF Quarantined, Retains, TypeOK
<1>2. PICK p \in Partitions, o0 \in Nat, r \in Reasons :
        hand[c] = [at |-> <<p, o0>>, reason |-> r]
  BY DEF ConsumerInv, HandHeld, DlqRecords, Offsets
<1>3. \A q \in Partitions : last'[c][q] = IF q = p THEN o0 ELSE last[c][q]
  BY <1>2 DEF Quarantined, Append1, TypeOK
<1>4. \A at : Held(c, at) => Held(c, at)'
  BY <1>1, HeldStays
<1>5. Held(c, <<p, o0>>)'
  <2>1. [at |-> <<p, o0>>, reason |-> r] \in quarantine'
    BY <1>2
  <2>2. CASE r \in Rejections
    BY <2>1, <2>2 DEF Held, Kept
  <2>3. CASE r = "duplicate-event-id"
    BY <2>1, <2>3, <1>1, <1>2 DEF Held, ConsumerInv, HandHeld, BatchIds, Message, Retains
  <2> QED BY <2>2, <2>3 DEF Rejections
<1>6. \A o \in 0..o0 : Held(c, <<p, o>>)'
  <2> TAKE o \in 0..o0
  <2>1. o = o0 \/ o \in 0..(o0 - 1)
    OBVIOUS
  <2>2. \A i \in 0..(o0 - 1) : Held(c, <<p, i>>)
    BY <1>2 DEF ConsumerInv, HandHeld
  <2> QED BY <2>1, <2>2, <1>4, <1>5
<1>7. ReadHeld(c)'
  BY <1>1, <1>2, <1>4, <1>5 DEF ConsumerInv, ReadHeld, Retains
<1>8. LastHeld(c)'
  <2> SUFFICES ASSUME NEW q \in Partitions, last'[c][q] >= 0
               PROVE  /\ last'[c][q] < Len(log[q])
                      /\ \A o \in 0..last'[c][q] : Held(c, <<q, o>>)'
    BY <1>1 DEF LastHeld, Retains
  <2>1. CASE q = p
    BY <2>1, <1>2, <1>3, <1>6 DEF ConsumerInv, HandHeld
  <2>2. CASE q # p
    BY <2>2, <1>3, <1>4 DEF ConsumerInv, LastHeld
  <2> QED BY <2>1, <2>2
<1>9. HandHeld(c)' /\ EventsHeld(c)' /\ ToCommitHeld(c)'
  BY <1>1 DEF ConsumerInv, HandHeld, EventsHeld, ToCommitHeld, DlqPhases, Retains
<1> QED BY <1>7, <1>8, <1>9 DEF ConsumerInv

\* Steps that only advance the phase of c.
LEMMA PhaseInv ==
    ASSUME TypeOK, NEW c \in Consumers, ConsumerInv(c),
           \/ DlqProduce(c)
           \/ DlqNotThere(c)
           \/ Collected(c)
           \/ EnforcePass(c)
    PROVE  ConsumerInv(c)'
<1>1. /\ Retains
      /\ UNCHANGED <<owner, position, events, count, last, hand, toCommit>>
      /\ phase'[c] \in DlqPhases => phase[c] \in DlqPhases
      /\ phase[c] \in DlqPhases => phase'[c] \in DlqPhases
      /\ phase[c] # "commit" /\ phase'[c] # "commit"
      /\ phase'[c] = "append" => InScope(c)
  BY DEF TypeOK, DlqProduce, DlqNotThere, Collected, EnforcePass, Retains, broker,
         storage, memory, DlqPhases
<1>2. \A at : Held(c, at) => Held(c, at)'
  BY <1>1, HeldStays
<1>3. ReadHeld(c)'
  BY <1>1, <1>2 DEF ConsumerInv, ReadHeld, Retains
<1>4. LastHeld(c)'
  BY <1>1, <1>2 DEF ConsumerInv, LastHeld, Retains
<1>5. HandHeld(c)'
  BY <1>1, <1>2 DEF ConsumerInv, HandHeld, Retains, BatchIds, Message
<1>6. EventsHeld(c)' /\ ToCommitHeld(c)'
  BY <1>1 DEF ConsumerInv, EventsHeld, ToCommitHeld, InScope, Retains, Message
<1> QED BY <1>3, <1>4, <1>5, <1>6 DEF ConsumerInv

\* append_events keeps every event of the batch.
LEMMA AppendInv ==
    ASSUME TypeOK, NEW c \in Consumers, ConsumerInv(c), AppendEvents(c)
    PROVE  ConsumerInv(c)'
<1>1. /\ Retains /\ UNCHANGED <<owner, position, events, count, last, hand>>
      /\ phase[c] = "append" /\ phase'[c] = "commit"
      /\ toCommit'[c] = LatestPartitions(c)
      /\ NewRows(c) \subseteq bronze'
  BY DEF TypeOK, AppendEvents, Retains, broker
<1>2. \A at : Held(c, at) => Held(c, at)'
  BY <1>1, HeldStays
<1>3. ReadHeld(c)' /\ LastHeld(c)'
  BY <1>1, <1>2 DEF ConsumerInv, ReadHeld, LastHeld, DlqPhases, Retains
<1>4. HandHeld(c)' /\ ToCommitHeld(c)'
  BY <1>1 DEF HandHeld, ToCommitHeld, LatestPartitions, DlqPhases
<1>5. EventsHeld(c)'
  BY <1>1 DEF ConsumerInv, EventsHeld, NewRows, RowOf, Message, Retains
<1> QED BY <1>3, <1>4, <1>5 DEF ConsumerInv

\* In the commit phase whatever the batch holds is kept.
LEMMA HeldIsKept ==
    ASSUME NEW c \in Consumers, ConsumerInv(c), phase[c] = "commit", NEW at, Held(c, at)
    PROVE  Kept(at)
<1>1. CASE at \in events[c]
  BY <1>1 DEF ConsumerInv, EventsHeld, Kept
<1>2. CASE /\ [at |-> at, reason |-> "duplicate-event-id"] \in quarantine
           /\ Message(at).id \in BatchIds(c)
  <2>1. PICK e \in events[c] : Message(e).id = Message(at).id
    BY <1>2 DEF BatchIds
  <2>2. RowOf(e) \in bronze /\ RowOf(e).id = Message(at).id
    BY <2>1 DEF ConsumerInv, EventsHeld, RowOf
  <2> QED BY <1>2, <2>2 DEF Kept
<1> QED BY <1>1, <1>2 DEF Held

\* A commit covers kept messages only.
LEMMA CommitCovers ==
    ASSUME TypeOK, NothingCommittedIsLost, NEW c \in Consumers, ConsumerInv(c),
           NEW p \in Partitions, NextToCommit(c, p), Retains,
           committed' = [committed EXCEPT ![p] = last[c][p] + 1]
    PROVE  /\ last[c][p] + 1 \in 0..Len(log[p])
           /\ \A o \in 0..last[c][p] : Kept(<<p, o>>)
           /\ NothingCommittedIsLost'
<1>1. phase[c] = "commit" /\ last[c][p] \in Nat /\ last[c][p] < Len(log[p])
  BY DEF NextToCommit, ConsumerInv, ToCommitHeld, LastHeld, TypeOK
<1>2. \A o \in 0..last[c][p] : Kept(<<p, o>>)
  BY <1>1, HeldIsKept DEF ConsumerInv, LastHeld
<1>3. last[c][p] + 1 \in 0..Len(log[p])
  BY <1>1 DEF TypeOK
<1>4. NothingCommittedIsLost'
  <2> SUFFICES ASSUME NEW q \in Partitions
               PROVE  /\ committed'[q] <= Len(log[q])
                      /\ \A o \in 0..(committed'[q] - 1) : Kept(<<q, o>>)
    BY KeptStays DEF NothingCommittedIsLost, Retains
  <2>1. CASE q = p
    BY <2>1, <1>1, <1>2, <1>3 DEF TypeOK
  <2>2. CASE q # p
    BY <2>2 DEF TypeOK, NothingCommittedIsLost
  <2> QED BY <2>1, <2>2
<1> QED BY <1>2, <1>3, <1>4

\* The invariant survives the commit of one partition.
LEMMA CommitInv ==
    ASSUME TypeOK, NEW c \in Consumers, ConsumerInv(c), NEW p \in Partitions,
           CommitOffset(c, p)
    PROVE  ConsumerInv(c)'
<1>1. /\ Retains /\ UNCHANGED <<owner, phase, position, events, count, last, hand>>
      /\ phase[c] = "commit" /\ toCommit'[c] \subseteq toCommit[c]
  BY DEF CommitOffset, NextToCommit, TypeOK, Retains, storage
<1>2. \A at : Held(c, at) => Held(c, at)'
  BY <1>1, HeldStays
<1>3. ReadHeld(c)' /\ LastHeld(c)'
  BY <1>1, <1>2 DEF ConsumerInv, ReadHeld, LastHeld, DlqPhases, Retains
<1>4. HandHeld(c)' /\ ToCommitHeld(c)'
  BY <1>1 DEF ConsumerInv, HandHeld, ToCommitHeld, DlqPhases
<1>5. EventsHeld(c)'
  BY <1>1 DEF ConsumerInv, EventsHeld, RowOf, Message, Retains
<1> QED BY <1>3, <1>4, <1>5 DEF ConsumerInv

-----------------------------------------------------------------------------
(* Whole steps. *)

\* The steps after which the process has ended.
Ends(c) ==
    \/ DlqReadRaises(c) \/ DlqAppendConflict(c) \/ IdleTimeout(c)
    \/ EnforceReject(c) \/ AppendConflict(c) \/ Finish(c)
    \/ \E p \in Partitions : CommitRefused(c, p)
    \/ Fail(c) \/ DlqUnconfirmed(c)

\* The steps after which it goes on.
GoesOn(c) ==
    \/ Start(c)
    \/ \E p \in Partitions : Assign(p, c) \/ Move(p, c)
    \/ \E p \in Partitions : PollEvent(c, p) \/ PollPoison(c, p)
    \/ DlqProduce(c) \/ DlqAlreadyThere(c) \/ DlqNotThere(c) \/ DlqAppend(c)
    \/ Collected(c) \/ EnforcePass(c) \/ AppendEvents(c)

\* A step ends a process, commits an offset, does neither, or is no consumer's.
LEMMA NextCases ==
    Next <=>
        \/ \E c \in Consumers :
            \/ GoesOn(c)
            \/ Ends(c)
            \/ \E p \in Partitions : CommitOffset(c, p) \/ CommitUnconfirmed(c, p)
        \/ Rotate
BY DEF Next, Step, Failure, GoesOn, Ends

\* A step that ends a process only makes it leave.
LEMMA EndsFacts ==
    ASSUME NEW c \in Consumers, Ends(c)
    PROVE  Leave(c) /\ Retains /\ committed' = committed
BY DEF Ends, DlqReadRaises, DlqAppendConflict, IdleTimeout, EnforceReject,
       AppendConflict, Finish, CommitRefused, Fail, DlqUnconfirmed, Retains, storage

\* A step after which the process goes on leaves the other consumers and the
\* committed offsets alone.
LEMMA GoesOnFacts ==
    ASSUME TypeOK, NEW c \in Consumers, GoesOn(c)
    PROVE  /\ Retains /\ committed' = committed
           /\ \A d \in Consumers \ {c} : Spares(d)
<1>1. CASE Start(c)
  BY <1>1 DEF Start, Retains, Spares, TypeOK, broker, storage, memory
<1>2. ASSUME NEW p \in Partitions, Assign(p, c) \/ Move(p, c)
      PROVE  /\ Retains /\ committed' = committed
             /\ \A d \in Consumers \ {c} : Spares(d)
  BY <1>2, ConsumersAssumption
  DEF Assign, Move, GivePartition, Retains, Spares, TypeOK, storage
<1>3. ASSUME NEW p \in Partitions, PollEvent(c, p) \/ PollPoison(c, p)
      PROVE  /\ Retains /\ committed' = committed
             /\ \A d \in Consumers \ {c} : Spares(d)
  <2>1. Retains /\ committed' = committed
    BY <1>3 DEF PollEvent, PollPoison, Retains, broker, storage
  <2>2. ASSUME NEW d \in Consumers \ {c} PROVE Spares(d)
    <3>1. PollEvent(c, p) => Spares(d)
      BY DEF PollEvent, Polled, Append1, Spares, TypeOK, broker
    <3>2. PollPoison(c, p) => Spares(d)
      BY DEF PollPoison, Polled, Spares, TypeOK, broker
    <3> QED BY <1>3, <3>1, <3>2
  <2> QED BY <2>1, <2>2
<1>4. CASE DlqProduce(c) \/ DlqNotThere(c) \/ Collected(c) \/ EnforcePass(c)
  BY <1>4 DEF DlqProduce, DlqNotThere, Collected, EnforcePass, Retains, Spares,
              TypeOK, broker, storage, memory
<1>5. CASE DlqAlreadyThere(c) \/ DlqAppend(c)
  <2>1. Quarantined(c) /\ quarantine \subseteq quarantine'
    BY <1>5 DEF DlqAlreadyThere, DlqAppend
  <2> QED BY <2>1 DEF Quarantined, Append1, Retains, Spares, TypeOK
<1>6. CASE AppendEvents(c)
  BY <1>6 DEF AppendEvents, Retains, Spares, TypeOK, broker
<1> QED BY <1>1, <1>2, <1>3, <1>4, <1>5, <1>6 DEF GoesOn

\* A step after which the process goes on keeps the invariant.
LEMMA GoesOnInv ==
    ASSUME TypeOK, NothingCommittedIsLost, NEW c \in Consumers, ConsumerInv(c), GoesOn(c)
    PROVE  ConsumerInv(c)'
<1>1. CASE DlqAlreadyThere(c)
  BY <1>1, QuarantinedInv DEF DlqAlreadyThere, AlreadyQuarantined, DlqPhases
<1>2. CASE DlqAppend(c)
  BY <1>2, QuarantinedInv DEF DlqAppend, DlqPhases
<1> QED BY <1>1, <1>2, StartInv, GiveInv, PollEventInv, PollPoisonInv, PhaseInv,
           AppendInv DEF GoesOn

\* TypeOK is kept by a step that ends the process ...
LEMMA LeaveType ==
    ASSUME TypeOK, NEW c \in Consumers, Leave(c)
    PROVE  /\ owner' \in [Partitions -> Consumers \cup {Nobody}]
           /\ fenced' \subseteq Consumers
           /\ trusted' \in [Consumers -> SUBSET Kids]
           /\ phase' \in [Consumers -> Phases]
           /\ position' \in [Consumers -> [Partitions -> Nat]]
           /\ events' \in [Consumers -> SUBSET Offsets]
           /\ count' \in [Consumers -> 0..MaxMessages]
           /\ last' \in [Consumers -> [Partitions -> Int]]
           /\ hand' \in [Consumers -> DlqRecords \cup {NoRecord}]
           /\ toCommit' \in [Consumers -> SUBSET Partitions]
<1>1. /\ [p \in Partitions |-> -1] \in [Partitions -> Int]
      /\ [p \in Partitions |-> 0] \in [Partitions -> Nat]
  OBVIOUS
<1> QED BY <1>1, BoundsAssumption DEF TypeOK, Leave, EmptyBatch, Phases

\* ... whichever step that is ...
LEMMA EndsType ==
    ASSUME TypeOK, NEW c \in Consumers, ConsumerInv(c), Ends(c)
    PROVE  TypeOK'
<1>1. Leave(c) /\ committed' = committed /\ log' = log
  BY EndsFacts DEF Retains
<1>2. UNCHANGED <<epoch, bronze, quarantine, rebalances>>
  BY DEF Ends, DlqReadRaises, DlqAppendConflict, IdleTimeout, EnforceReject,
         AppendConflict, Finish, CommitRefused, Fail, DlqUnconfirmed, storage
<1>3. faults' \in 0..MaxFaults
  BY BoundsAssumption
  DEF Ends, DlqReadRaises, DlqAppendConflict, IdleTimeout, EnforceReject,
      AppendConflict, Finish, CommitRefused, Fail, DlqUnconfirmed, Fault, TypeOK
<1>4. dlqTopic' = dlqTopic \/ DlqUnconfirmed(c)
  BY DEF Ends, DlqReadRaises, DlqAppendConflict, IdleTimeout, EnforceReject,
         AppendConflict, Finish, CommitRefused, Fail, storage
<1>5. dlqTopic' \subseteq DlqRecords
  BY <1>4 DEF DlqUnconfirmed, ConsumerInv, HandHeld, DlqPhases, TypeOK
<1> QED BY <1>1, <1>2, <1>3, <1>5, LeaveType DEF TypeOK

\* ... by one after which it goes on ...
LEMMA GoesOnType ==
    ASSUME TypeOK, NEW c \in Consumers, ConsumerInv(c), GoesOn(c)
    PROVE  TypeOK'
<1>1. CASE Start(c)
  <2>1. trusted' \in [Consumers -> SUBSET Kids]
    BY <1>1, DirectoriesAssumption DEF Start, KeyDirectory, TypeOK
  <2> QED BY <1>1, <2>1 DEF Start, TypeOK, Phases, broker, storage
<1>2. ASSUME NEW p \in Partitions, Assign(p, c) \/ Move(p, c)
      PROVE  TypeOK'
  <2>1. /\ UNCHANGED <<log, epoch, committed, bronze, dlqTopic, quarantine, trusted,
                       phase, events, count, last, hand, toCommit, faults>>
        /\ position' = [position EXCEPT ![c][p] = committed[p]]
    BY <1>2 DEF Assign, Move, GivePartition, storage
  <2>2. /\ owner' \in [Partitions -> Consumers \cup {Nobody}]
        /\ fenced' \subseteq Consumers
        /\ rebalances' \in 0..MaxRebalances
    <3>1. CASE Assign(p, c)
      BY <3>1 DEF Assign, TypeOK
    <3>2. CASE Move(p, c)
      BY <3>2, BoundsAssumption DEF Move, Absent, TypeOK
    <3> QED BY <1>2, <3>1, <3>2
  <2>3. position' \in [Consumers -> [Partitions -> Nat]]
    BY <2>1 DEF TypeOK
  <2> QED BY <2>1, <2>2, <2>3 DEF TypeOK
<1>3. ASSUME NEW p \in Partitions, PollEvent(c, p) \/ PollPoison(c, p)
      PROVE  TypeOK'
  <2>1. /\ UNCHANGED <<log, epoch, committed, owner, fenced, bronze, dlqTopic,
                       quarantine, trusted, toCommit, faults, rebalances>>
        /\ position' = [position EXCEPT ![c][p] = @ + 1]
        /\ count[c] < MaxMessages
    BY <1>3 DEF PollEvent, PollPoison, Polled, broker, storage
  <2>2. position' \in [Consumers -> [Partitions -> Nat]]
    BY <2>1 DEF TypeOK
  <2>3. <<p, position[c][p]>> \in Offsets
    BY DEF Offsets, TypeOK
  <2>4. CASE PollEvent(c, p)
    <3>1. count' \in [Consumers -> 0..MaxMessages]
      BY <2>1, <2>4, BoundsAssumption DEF PollEvent, Append1, TypeOK
    <3>2. last' \in [Consumers -> [Partitions -> Int]]
      BY <2>4 DEF PollEvent, Append1, TypeOK
    <3>3. /\ events' \in [Consumers -> SUBSET Offsets]
          /\ UNCHANGED <<phase, hand>>
      BY <2>3, <2>4 DEF PollEvent, TypeOK
    <3> QED BY <2>1, <2>2, <3>1, <3>2, <3>3 DEF TypeOK
  <2>5. CASE PollPoison(c, p)
    <3>1. hand' \in [Consumers -> DlqRecords \cup {NoRecord}]
      BY <2>3, <2>5 DEF PollPoison, ReasonFor, Decodes, DlqRecords, Reasons, TypeOK
    <3>2. phase' \in [Consumers -> Phases] /\ UNCHANGED <<events, count, last>>
      BY <2>5 DEF PollPoison, Phases, TypeOK
    <3> QED BY <2>1, <2>2, <3>1, <3>2 DEF TypeOK
  <2> QED BY <1>3, <2>4, <2>5
<1>4. CASE DlqProduce(c)
  BY <1>4 DEF DlqProduce, ConsumerInv, HandHeld, DlqPhases, TypeOK, Phases, broker, memory
<1>5. CASE DlqNotThere(c) \/ Collected(c) \/ EnforcePass(c)
  BY <1>5 DEF DlqNotThere, Collected, EnforcePass, TypeOK, Phases, broker, storage, memory
<1>6. CASE DlqAlreadyThere(c) \/ DlqAppend(c)
  <2>1. /\ Quarantined(c) /\ hand[c] \in DlqRecords /\ count[c] < MaxMessages
        /\ quarantine' \subseteq quarantine \cup {hand[c]}
    BY <1>6 DEF DlqAlreadyThere, DlqAppend, ConsumerInv, HandHeld, DlqPhases
  <2>2. count' \in [Consumers -> 0..MaxMessages]
    BY <2>1, BoundsAssumption DEF Quarantined, Append1, TypeOK
  <2>3. last' \in [Consumers -> [Partitions -> Int]]
    BY <2>1 DEF Quarantined, Append1, TypeOK, DlqRecords, Offsets
  <2>4. /\ hand' \in [Consumers -> DlqRecords \cup {NoRecord}]
        /\ phase' \in [Consumers -> Phases]
        /\ fenced' \subseteq Consumers
        /\ quarantine' \subseteq DlqRecords
    BY <2>1 DEF Quarantined, TypeOK, Phases
  <2>5. UNCHANGED <<log, epoch, committed, owner, bronze, dlqTopic, trusted, position,
                    events, toCommit, faults, rebalances>>
    BY <2>1 DEF Quarantined
  <2> QED BY <2>2, <2>3, <2>4, <2>5 DEF TypeOK
<1>7. CASE AppendEvents(c)
  <2>1. \A at \in events[c] : RowOf(at) \in Rows
    <3> TAKE at \in events[c]
    <3>1. at[1] \in Partitions /\ at[2] \in Nat /\ at[2] < Len(log[at[1]])
      BY DEF ConsumerInv, EventsHeld, Offsets, TypeOK
    <3>2. log[at[1]] \in Seq(Messages)
      BY <3>1 DEF TypeOK
    <3>3. at[2] + 1 \in 1..Len(log[at[1]])
      BY <3>1, <3>2
    <3>4. Message(at) \in Messages
      BY <3>2, <3>3 DEF Message
    <3> QED BY <3>4 DEF RowOf, Rows, Messages
  <2>2. NewRows(c) \subseteq Rows /\ LatestPartitions(c) \subseteq Partitions
    BY <2>1 DEF NewRows, LatestPartitions
  <2> QED BY <1>7, <2>2 DEF AppendEvents, TypeOK, Phases, broker
<1> QED BY <1>1, <1>2, <1>3, <1>4, <1>5, <1>6, <1>7 DEF GoesOn

\* ... and by a commit.
LEMMA CommitType ==
    ASSUME IInv, NEW c \in Consumers, NEW p \in Partitions,
           CommitOffset(c, p) \/ CommitUnconfirmed(c, p)
    PROVE  TypeOK'
<1>1. /\ NextToCommit(c, p) /\ Retains
      /\ committed' = [committed EXCEPT ![p] = last[c][p] + 1]
      /\ UNCHANGED <<log, epoch, bronze, dlqTopic, quarantine, rebalances>>
  BY DEF CommitOffset, CommitUnconfirmed, Retains, storage
<1>2. last[c][p] + 1 \in Nat
  <2>1. TypeOK /\ NothingCommittedIsLost /\ ConsumerInv(c)
    BY DEF IInv
  <2>2. last[c][p] + 1 \in 0..Len(log[p])
    BY <1>1, <2>1, CommitCovers
  <2> QED BY <2>2
<1>3. committed' \in [Partitions -> Nat]
  BY <1>1, <1>2 DEF IInv, TypeOK
<1>4. CASE CommitOffset(c, p)
  BY <1>1, <1>3, <1>4 DEF CommitOffset, IInv, TypeOK
<1>5. CASE CommitUnconfirmed(c, p)
  <2>1. Leave(c) /\ faults' \in 0..MaxFaults
    BY <1>5, BoundsAssumption DEF CommitUnconfirmed, Fault, IInv, TypeOK
  <2> QED BY <1>1, <1>3, <2>1, LeaveType DEF IInv, TypeOK
<1> QED BY <1>4, <1>5

\* The invariant holds initially.
LEMMA InitIInv == Init => IInv
<1> SUFFICES ASSUME Init PROVE IInv
  OBVIOUS
<1>1. [p \in Partitions |-> -1] \in [Partitions -> Int]
  OBVIOUS
<1>2. log \in [Partitions -> Seq(Messages)]
  BY LogsAssumption DEF Init
<1>3. TypeOK
  BY <1>1, <1>2, BoundsAssumption, DirectoriesAssumption DEF Init, TypeOK, Phases
<1>4. NothingCommittedIsLost
  BY <1>2 DEF Init, NothingCommittedIsLost
<1>5. ASSUME NEW c \in Consumers PROVE ConsumerInv(c)
  BY ConsumersAssumption
  DEF Init, ConsumerInv, ReadHeld, LastHeld, HandHeld, EventsHeld, ToCommitHeld, DlqPhases
<1> QED BY <1>3, <1>4, <1>5 DEF IInv

\* Every step keeps the invariant.
LEMMA NextIInv == IInv /\ [Next]_vars => IInv'
<1> SUFFICES ASSUME IInv, [Next]_vars PROVE IInv'
  OBVIOUS
<1> USE DEF IInv
<1>1. ASSUME NEW c \in Consumers, GoesOn(c) PROVE IInv'
  <2>1. Retains /\ committed' = committed /\ \A d \in Consumers \ {c} : Spares(d)
    BY <1>1, GoesOnFacts
  <2>2. TypeOK' /\ NothingCommittedIsLost'
    BY <1>1, <2>1, GoesOnType, StillCommitted
  <2>3. ASSUME NEW d \in Consumers PROVE ConsumerInv(d)'
    <3>1. CASE d = c
      BY <1>1, <3>1, GoesOnInv
    <3>2. CASE d # c
      BY <2>1, <3>2, Undisturbed
    <3> QED BY <3>1, <3>2
  <2> QED BY <2>2, <2>3
<1>2. ASSUME NEW c \in Consumers, Ends(c) PROVE IInv'
  <2>1. Leave(c) /\ Retains /\ committed' = committed
    BY <1>2, EndsFacts
  <2>2. TypeOK' /\ NothingCommittedIsLost'
    BY <1>2, <2>1, EndsType, StillCommitted
  <2>3. ASSUME NEW d \in Consumers PROVE ConsumerInv(d)'
    BY <2>1, Left, LeftOthers
  <2> QED BY <2>2, <2>3
<1>3. ASSUME NEW c \in Consumers, NEW p \in Partitions, CommitOffset(c, p)
      PROVE  IInv'
  <2>1. /\ Retains /\ NextToCommit(c, p)
        /\ committed' = [committed EXCEPT ![p] = last[c][p] + 1]
    BY <1>3 DEF CommitOffset, Retains, storage
  <2>2. TypeOK' /\ NothingCommittedIsLost'
    BY <1>3, <2>1, CommitType, CommitCovers
  <2>3. ASSUME NEW d \in Consumers PROVE ConsumerInv(d)'
    <3>1. CASE d = c
      BY <1>3, <3>1, CommitInv
    <3>2. CASE d # c
      <4>1. Spares(d)
        BY <1>3, <3>2 DEF CommitOffset, Spares, TypeOK
      <4> QED BY <2>1, <4>1, Undisturbed
    <3> QED BY <3>1, <3>2
  <2> QED BY <2>2, <2>3
<1>4. ASSUME NEW c \in Consumers, NEW p \in Partitions, CommitUnconfirmed(c, p)
      PROVE  IInv'
  <2>1. /\ Retains /\ NextToCommit(c, p) /\ Leave(c)
        /\ committed' = [committed EXCEPT ![p] = last[c][p] + 1]
    BY <1>4 DEF CommitUnconfirmed, Retains, storage
  <2>2. TypeOK' /\ NothingCommittedIsLost'
    BY <1>4, <2>1, CommitType, CommitCovers
  <2>3. ASSUME NEW d \in Consumers PROVE ConsumerInv(d)'
    BY <2>1, Left, LeftOthers
  <2> QED BY <2>2, <2>3
<1>5. CASE UNCHANGED vars
  <2>1. Retains /\ committed' = committed /\ \A d \in Consumers : Spares(d)
    BY <1>5 DEF vars, broker, storage, memory, Retains, Spares
  <2>2. TypeOK'
    BY <1>5 DEF vars, broker, storage, memory, TypeOK
  <2> QED BY <2>1, <2>2, StillCommitted, Undisturbed
<1>6. CASE Rotate
  <2>1. Retains /\ committed' = committed /\ \A d \in Consumers : Spares(d)
    BY <1>6 DEF Rotate, broker, storage, memory, Retains, Spares
  <2>2. TypeOK'
    BY <1>6, DirectoriesAssumption DEF Rotate, broker, storage, memory, TypeOK
  <2> QED BY <2>1, <2>2, StillCommitted, Undisturbed
<1> QED BY <1>1, <1>2, <1>3, <1>4, <1>5, <1>6, NextCases

\* The inductive invariant holds in every reachable state.
THEOREM Inductive == Spec => []IInv
BY InitIInv, NextIInv, PTL DEF Spec

\* Every variable keeps its type: batches never exceed --max-messages, a
\* commit is never a negative offset, dead letters are well-formed.
THEOREM TypeCorrect == Spec => []TypeOK
<1>1. IInv => TypeOK
  BY DEF IInv
<1> QED BY <1>1, Inductive, PTL

\* No acknowledged message is lost, for any number of consumers, partitions,
\* failures and rebalances (collect, quarantine, append, then commit).
THEOREM NoAcknowledgedLoss == Spec => []NothingCommittedIsLost
<1>1. IInv => NothingCommittedIsLost
  BY DEF IInv
<1> QED BY <1>1, Inductive, PTL
-----------------------------------------------------------------------------
(* Refinement of the ingestion contract. *)

\* A step that commits nothing only settles messages.
LEMMA SettleStep ==
    ASSUME Retains, committed' = committed
    PROVE  IC!Settle
<1>1. \A at : Kept(at) => Kept(at)'
  BY KeptStays
<1>2. Settled \subseteq Settled'
  BY <1>1 DEF Settled, Retains
<1>3. \A at \in Settled' : at[1] \in Partitions /\ at[2] \in 0..(Len(log[at[1]]) - 1)
  BY DEF Settled, Retains
<1> QED BY <1>2, <1>3 DEF IC!Settle, Retains

\* A commit acknowledges a prefix of kept messages and settles none.
LEMMA AcknowledgeStep ==
    ASSUME IInv, NEW c \in Consumers, NEW p \in Partitions,
           CommitOffset(c, p) \/ CommitUnconfirmed(c, p)
    PROVE  IC!Acknowledge(p)
<1>1. /\ NextToCommit(c, p) /\ Retains
      /\ committed' = [committed EXCEPT ![p] = last[c][p] + 1]
      /\ UNCHANGED <<log, bronze, quarantine>>
  BY DEF CommitOffset, CommitUnconfirmed, Retains, storage
<1>2. TypeOK /\ NothingCommittedIsLost /\ ConsumerInv(c)
  BY DEF IInv
<1>3. /\ last[c][p] + 1 \in 0..Len(log[p])
      /\ \A o \in 0..last[c][p] : Kept(<<p, o>>)
  BY <1>1, <1>2, CommitCovers
<1>4. \A o \in 0..((last[c][p] + 1) - 1) : <<p, o>> \in Settled
  <2> TAKE o \in 0..((last[c][p] + 1) - 1)
  <2>1. last[c][p] \in Int /\ Len(log[p]) \in Nat
    BY <1>2 DEF TypeOK
  <2>2. o \in 0..last[c][p] /\ o \in 0..(Len(log[p]) - 1)
    BY <1>3, <2>1
  <2> QED BY <1>3, <2>2 DEF Settled
<1>5. Settled' = Settled
  BY <1>1 DEF Settled, Kept, Message, RowOf
<1> QED BY <1>1, <1>3, <1>4, <1>5 DEF IC!Acknowledge

\* The consumer group implements the ingestion contract.
THEOREM ImplementsContract == Spec => Contract
<1>1. Init => IC!Init
  BY DEF Init, IC!Init, Settled, Kept
<1>2. IInv /\ [Next]_vars => [IC!Next]_(IC!vars)
  <2> SUFFICES ASSUME IInv, [Next]_vars PROVE [IC!Next]_(IC!vars)
    OBVIOUS
  <2>1. ASSUME NEW c \in Consumers, GoesOn(c) PROVE IC!Next
    BY <2>1, GoesOnFacts, SettleStep DEF IC!Next, IInv
  <2>2. ASSUME NEW c \in Consumers, Ends(c) PROVE IC!Next
    BY <2>2, EndsFacts, SettleStep DEF IC!Next
  <2>3. ASSUME NEW c \in Consumers, NEW p \in Partitions,
               CommitOffset(c, p) \/ CommitUnconfirmed(c, p)
        PROVE  IC!Next
    BY <2>3, AcknowledgeStep DEF IC!Next
  <2>4. CASE UNCHANGED vars
    <3>1. Settled' = Settled
      BY <2>4 DEF vars, storage, Settled, Kept, Message, RowOf
    <3> QED BY <2>4, <3>1 DEF vars, broker, IC!vars
  <2>5. CASE Rotate
    <3>1. Retains /\ committed' = committed
      BY <2>5 DEF Rotate, broker, storage, Retains
    <3> QED BY <3>1, SettleStep DEF IC!Next
  <2> QED BY <2>1, <2>2, <2>3, <2>4, <2>5, NextCases
<1> QED BY <1>1, <1>2, Inductive, PTL DEF Spec, Contract, IC!Spec

-----------------------------------------------------------------------------
(* What the tables hold. *)

\* Keys that some content of the key directory lists.
Listed == UNION {Directories[i] : i \in DOMAIN Directories}

\* A batch holds events that verified under listed keys, no two with one
\* event_id; once dead-lettered, the poison in hand is on the topic.
BatchVerified(c) ==
    /\ trusted[c] \subseteq Listed
    /\ \A at \in events[c] : Message(at).kid \in Listed
    /\ \A a, b \in events[c] : Message(a).id = Message(b).id => a = b
    /\ phase[c] \in {"dlq_check", "dlq_append"} => hand[c] \in dlqTopic

\* The invariant behind the properties of the bronze and quarantine tables.
TablesInv ==
    /\ BronzeIsVerified
    /\ BronzeIdsUnique
    /\ QuarantineOnTopic
    /\ \A c \in Consumers : BatchVerified(c)

\* A step that leaves the batch of d and its keys alone.
SparesBatch(d) ==
    /\ log' = log
    /\ dlqTopic \subseteq dlqTopic'
    /\ trusted'[d] = trusted[d]
    /\ events'[d] = events[d]
    /\ hand'[d] = hand[d]
    /\ phase'[d] = phase[d]

\* Such a step keeps what is known of the batch.
LEMMA BatchStays ==
    ASSUME NEW d \in Consumers, BatchVerified(d), SparesBatch(d)
    PROVE  BatchVerified(d)'
BY DEF BatchVerified, SparesBatch, Message

\* A process that ends has no batch and no keys.
LEMMA LeftBatch ==
    ASSUME TypeOK, NEW c \in Consumers, Leave(c)
    PROVE  BatchVerified(c)'
<1>1. trusted'[c] = {} /\ events'[c] = {} /\ phase'[c] = "down"
  BY DEF TypeOK, Leave, EmptyBatch
<1> QED BY <1>1 DEF BatchVerified

\* A process loads keys the directory lists at that moment.
LEMMA StartBatch ==
    ASSUME TypeOK, NEW c \in Consumers, BatchVerified(c), Start(c)
    PROVE  BatchVerified(c)'
<1>1. KeyDirectory \subseteq Listed
  <2>1. epoch \in DOMAIN Directories
    BY DirectoriesAssumption DEF TypeOK
  <2> QED BY <2>1 DEF KeyDirectory, Listed
<1>2. /\ trusted'[c] = KeyDirectory /\ phase'[c] = "polling"
      /\ UNCHANGED <<log, events>>
  BY DEF TypeOK, Start
<1> QED BY <1>1, <1>2 DEF BatchVerified, Message

\* A polled event was verified under a key its consumer loaded, and its
\* event_id is new to the batch.
LEMMA PollBatch ==
    ASSUME TypeOK, NEW c \in Consumers, BatchVerified(c), NEW p \in Partitions,
           PollEvent(c, p) \/ PollPoison(c, p)
    PROVE  BatchVerified(c)'
<1>1. CASE PollEvent(c, p)
  <2> DEFINE at == <<p, position[c][p]>>
  <2>1. /\ UNCHANGED <<log, trusted, phase, hand, dlqTopic>>
        /\ events'[c] = events[c] \cup {at}
        /\ Message(at).kid \in trusted[c]
        /\ Message(at).id \notin BatchIds(c)
    BY <1>1 DEF TypeOK, PollEvent, Decodes, storage
  <2>2. \A a \in events[c] : Message(a).id # Message(at).id
    BY <2>1 DEF BatchIds
  <2>3. \A a : Message(a)' = Message(a)
    BY <2>1 DEF Message
  <2> HIDE DEF at
  <2> QED BY <2>1, <2>2, <2>3 DEF BatchVerified
<1>2. CASE PollPoison(c, p)
  <2>1. UNCHANGED <<log, trusted, events>> /\ phase'[c] = "dlq_produce"
    BY <1>2 DEF TypeOK, PollPoison
  <2> QED BY <2>1 DEF BatchVerified, Message
<1> QED BY <1>1, <1>2

\* The other steps after which a process goes on leave its batch as it is.
LEMMA OnBatch ==
    ASSUME TypeOK, NEW c \in Consumers, BatchVerified(c),
           \/ \E p \in Partitions : Assign(p, c) \/ Move(p, c) \/ CommitOffset(c, p)
           \/ DlqProduce(c) \/ DlqAlreadyThere(c) \/ DlqNotThere(c) \/ DlqAppend(c)
           \/ Collected(c) \/ EnforcePass(c) \/ AppendEvents(c)
    PROVE  BatchVerified(c)'
<1>1. UNCHANGED <<log, trusted, events>> /\ dlqTopic \subseteq dlqTopic'
  BY DEF Assign, Move, GivePartition, CommitOffset, DlqProduce, DlqAlreadyThere, DlqNotThere,
         DlqAppend, Quarantined, Collected, EnforcePass, AppendEvents, storage, memory
<1>2. phase'[c] \in {"dlq_check", "dlq_append"} => hand'[c] \in dlqTopic'
  <2>1. CASE DlqProduce(c)
    BY <2>1 DEF TypeOK, DlqProduce, memory
  <2>2. CASE DlqNotThere(c)
    BY <2>2 DEF TypeOK, DlqNotThere, memory, storage, BatchVerified
  <2>3. CASE \E p \in Partitions : Assign(p, c) \/ Move(p, c) \/ CommitOffset(c, p)
    BY <2>3 DEF Assign, Move, GivePartition, CommitOffset, NextToCommit
  <2>4. CASE DlqAlreadyThere(c) \/ DlqAppend(c)
    BY <2>4 DEF TypeOK, DlqAlreadyThere, DlqAppend, Quarantined
  <2>5. CASE Collected(c) \/ EnforcePass(c) \/ AppendEvents(c)
    BY <2>5 DEF TypeOK, Collected, EnforcePass, AppendEvents
  <2> QED BY <2>1, <2>2, <2>3, <2>4, <2>5
<1> QED BY <1>1, <1>2 DEF BatchVerified, Message

\* No step touches the batch of another consumer.
LEMMA OthersBatch ==
    ASSUME TypeOK, NEW c \in Consumers, NEW d \in Consumers, d # c, BatchVerified(d),
           \/ GoesOn(c) \/ Ends(c)
           \/ \E p \in Partitions : CommitOffset(c, p) \/ CommitUnconfirmed(c, p)
    PROVE  BatchVerified(d)'
<1>1. CASE Ends(c)
  <2>1. Leave(c) /\ Retains
    BY <1>1, EndsFacts
  <2>2. dlqTopic \subseteq dlqTopic'
    BY <1>1 DEF Ends, DlqReadRaises, DlqAppendConflict, IdleTimeout, EnforceReject,
                AppendConflict, Finish, CommitRefused, Fail, DlqUnconfirmed, storage
  <2>3. SparesBatch(d)
    BY <2>1, <2>2 DEF TypeOK, Leave, EmptyBatch, Retains, SparesBatch
  <2> QED BY <2>3, BatchStays
<1>2. CASE GoesOn(c)
  <2>1. Retains /\ Spares(d)
    BY <1>2, GoesOnFacts
  <2>2. dlqTopic \subseteq dlqTopic' /\ trusted'[d] = trusted[d]
    BY <1>2 DEF TypeOK, GoesOn, Start, Assign, Move, GivePartition, PollEvent, PollPoison,
                DlqProduce, DlqAlreadyThere, DlqNotThere, DlqAppend, Quarantined, Collected,
                EnforcePass, AppendEvents, storage, memory
  <2>3. SparesBatch(d)
    BY <2>1, <2>2 DEF Retains, Spares, SparesBatch
  <2> QED BY <2>3, BatchStays
<1>3. ASSUME NEW p \in Partitions, CommitOffset(c, p) \/ CommitUnconfirmed(c, p)
      PROVE  BatchVerified(d)'
  <2>1. SparesBatch(d)
    BY <1>3 DEF TypeOK, CommitOffset, CommitUnconfirmed, Leave, EmptyBatch, storage, SparesBatch
  <2> QED BY <2>1, BatchStays
<1> QED BY <1>1, <1>2, <1>3

\* The rows of a batch that passed the scope checks are accepted messages.
LEMMA AppendTables ==
    ASSUME IInv, TablesInv, NEW c \in Consumers, AppendEvents(c)
    PROVE  BronzeIsVerified' /\ BronzeIdsUnique'
<1>0. /\ phase[c] = "append" /\ ~Conflicting(c) /\ bronze' = bronze \cup NewRows(c)
      /\ log' = log
  BY DEF AppendEvents
<1>1. ASSUME NEW at \in events[c]
      PROVE  /\ at[1] \in Partitions /\ at[2] \in 0..(Len(log[at[1]]) - 1)
             /\ Message(at) \in Messages /\ RowOf(at) \in Rows
             /\ Message(at).kind = "ok" /\ Message(at).kid \in Listed
  <2>1. /\ at[1] \in Partitions /\ at[2] \in Nat /\ at[2] < Len(log[at[1]])
        /\ log[at[1]] \in Seq(Messages)
    BY DEF IInv, ConsumerInv, EventsHeld, Offsets, TypeOK
  <2>2. at[2] + 1 \in 1..Len(log[at[1]])
    BY <2>1
  <2>3. Message(at) \in Messages
    BY <2>1, <2>2 DEF Message
  <2>4. RowOf(at) \in Rows
    BY <2>3 DEF RowOf, Rows, Messages
  <2>5. Message(at).kind = "ok"
    BY <1>0 DEF IInv, ConsumerInv, EventsHeld
  <2>6. Message(at).kid \in Listed
    BY DEF TablesInv, BatchVerified
  <2> QED BY <2>1, <2>3, <2>4, <2>5, <2>6
<1>3. ASSUME NEW r \in bronze'
      PROVE  \E p \in Partitions : \E o \in 0..(Len(log[p]) - 1) :
                /\ Message(<<p, o>>).kind = "ok"
                /\ Message(<<p, o>>).kid \in Listed
                /\ RowOf(<<p, o>>) = r
  <2>1. CASE r \in bronze
    BY <2>1 DEF TablesInv, BronzeIsVerified, Listed
  <2>2. CASE r \in NewRows(c)
    <3>1. PICK at \in events[c] : r = RowOf(at)
      BY <2>2 DEF NewRows
    <3>2. Message(<<at[1], at[2]>>) = Message(at) /\ RowOf(<<at[1], at[2]>>) = RowOf(at)
      BY DEF Message, RowOf
    <3> QED BY <1>1, <3>1, <3>2
  <2> QED BY <1>0, <2>1, <2>2
<1>4. BronzeIsVerified'
  BY <1>0, <1>3 DEF BronzeIsVerified, Listed, Message, RowOf
<1>5. ASSUME NEW r \in bronze', NEW s \in bronze', r.id = s.id
      PROVE  r = s
  <2>1. bronze \subseteq Rows /\ NewRows(c) \subseteq Rows
    BY <1>1 DEF IInv, TypeOK, NewRows
  <2>2. \A x, y \in Rows : x.id = y.id /\ x.body = y.body => x = y
    BY DEF Rows
  <2>3. CASE r \in bronze /\ s \in bronze
    BY <1>5, <2>3 DEF TablesInv, BronzeIdsUnique
  <2>4. CASE r \in NewRows(c) /\ s \in NewRows(c)
    <3>1. PICK a \in events[c], b \in events[c] : r = RowOf(a) /\ s = RowOf(b)
      BY <2>4 DEF NewRows
    <3>2. Message(a).id = Message(b).id
      BY <1>5, <3>1 DEF RowOf
    <3> QED BY <3>1, <3>2 DEF TablesInv, BatchVerified
  <2>5. CASE r \in bronze /\ s \in NewRows(c)
    BY <1>0, <1>5, <2>1, <2>2, <2>5 DEF Conflicting
  <2>6. CASE r \in NewRows(c) /\ s \in bronze
    BY <1>0, <1>5, <2>1, <2>2, <2>6 DEF Conflicting
  <2> QED BY <1>0, <2>3, <2>4, <2>5, <2>6
<1> QED BY <1>4, <1>5 DEF BronzeIdsUnique

\* A step that writes neither table nor topic keeps what they hold.
LEMMA TablesStay ==
    ASSUME TablesInv, UNCHANGED <<log, bronze, quarantine>>, dlqTopic \subseteq dlqTopic'
    PROVE  BronzeIsVerified' /\ BronzeIdsUnique' /\ QuarantineOnTopic'
<1>1. BronzeIsVerified /\ log' = log /\ bronze' = bronze
  BY DEF TablesInv
<1>2. BronzeIsVerified'
  BY <1>1 DEF BronzeIsVerified, Message, RowOf
<1> QED BY <1>2 DEF TablesInv, BronzeIdsUnique, QuarantineOnTopic

\* A record is appended to the quarantine table only when it is on the topic.
LEMMA DlqTables ==
    ASSUME TablesInv, NEW c \in Consumers, DlqAppend(c)
    PROVE  BronzeIsVerified' /\ BronzeIdsUnique' /\ QuarantineOnTopic'
<1>1. /\ UNCHANGED <<log, bronze, dlqTopic>> /\ quarantine' = quarantine \cup {hand[c]}
      /\ phase[c] = "dlq_append"
  BY DEF DlqAppend, Quarantined
<1>2. BronzeIsVerified' /\ BronzeIdsUnique'
  BY <1>1 DEF TablesInv, BronzeIsVerified, BronzeIdsUnique, Message, RowOf
<1>3. QuarantineOnTopic'
  BY <1>1 DEF TablesInv, QuarantineOnTopic, BatchVerified
<1> QED BY <1>2, <1>3

\* Every other step writes to the dead-letter topic at most.
LEMMA WritesNoTable ==
    ASSUME NEW c \in Consumers,
           \/ GoesOn(c) /\ ~DlqAppend(c) /\ ~AppendEvents(c)
           \/ Ends(c)
           \/ \E p \in Partitions : CommitOffset(c, p) \/ CommitUnconfirmed(c, p)
    PROVE  UNCHANGED <<log, bronze, quarantine>> /\ dlqTopic \subseteq dlqTopic'
<1>1. CASE GoesOn(c) /\ ~DlqAppend(c) /\ ~AppendEvents(c)
  BY <1>1 DEF GoesOn, Start, Assign, Move, GivePartition, PollEvent, PollPoison, DlqProduce,
              DlqAlreadyThere, DlqNotThere, Quarantined, Collected, EnforcePass, storage
<1>2. CASE Ends(c)
  BY <1>2 DEF Ends, DlqReadRaises, DlqAppendConflict, IdleTimeout, EnforceReject,
              AppendConflict, Finish, CommitRefused, Fail, DlqUnconfirmed, storage
<1>3. CASE \E p \in Partitions : CommitOffset(c, p) \/ CommitUnconfirmed(c, p)
  BY <1>3 DEF CommitOffset, CommitUnconfirmed, storage
<1> QED BY <1>1, <1>2, <1>3

\* Every step keeps the invariant of the tables.
LEMMA NextTables == IInv /\ TablesInv /\ [Next]_vars => TablesInv'
<1> SUFFICES ASSUME IInv, TablesInv, [Next]_vars PROVE TablesInv'
  OBVIOUS
<1>1. TypeOK /\ \A d \in Consumers : BatchVerified(d)
  BY DEF IInv, TablesInv
<1>2. ASSUME NEW c \in Consumers,
             \/ GoesOn(c) \/ Ends(c)
             \/ \E p \in Partitions : CommitOffset(c, p) \/ CommitUnconfirmed(c, p)
      PROVE  TablesInv'
  <2>1. BronzeIsVerified' /\ BronzeIdsUnique' /\ QuarantineOnTopic'
    <3>1. CASE AppendEvents(c)
      <4>1. UNCHANGED <<dlqTopic, quarantine>>
        BY <3>1 DEF AppendEvents
      <4> QED BY <3>1, <4>1, AppendTables DEF TablesInv, QuarantineOnTopic
    <3>2. CASE DlqAppend(c)
      BY <3>2, DlqTables
    <3>3. CASE ~AppendEvents(c) /\ ~DlqAppend(c)
      BY <1>2, <3>3, WritesNoTable, TablesStay
    <3> QED BY <3>1, <3>2, <3>3
  <2>2. ASSUME NEW d \in Consumers PROVE BatchVerified(d)'
    <3>1. CASE d # c
      BY <1>1, <1>2, <3>1, OthersBatch
    <3>2. BatchVerified(c)'
      <4>1. CASE GoesOn(c)
        BY <1>1, <4>1, StartBatch, PollBatch, OnBatch DEF GoesOn
      <4>2. CASE Ends(c)
        BY <1>1, <4>2, EndsFacts, LeftBatch
      <4>3. ASSUME NEW p \in Partitions, CommitOffset(c, p) PROVE BatchVerified(c)'
        BY <1>1, <4>3, OnBatch
      <4>4. ASSUME NEW p \in Partitions, CommitUnconfirmed(c, p) PROVE BatchVerified(c)'
        BY <1>1, <4>4, LeftBatch DEF CommitUnconfirmed
      <4> QED BY <1>2, <4>1, <4>2, <4>3, <4>4
    <3> QED BY <3>1, <3>2
  <2> QED BY <2>1, <2>2 DEF TablesInv
<1>3. CASE Rotate \/ UNCHANGED vars
  <2>1. UNCHANGED <<log, bronze, quarantine, dlqTopic, trusted, events, hand, phase>>
    BY <1>3 DEF Rotate, vars, storage, memory
  <2>2. \A d \in Consumers : SparesBatch(d)
    BY <2>1 DEF SparesBatch
  <2>3. \A d \in Consumers : BatchVerified(d)'
    BY <1>1, <2>2, BatchStays
  <2> QED BY <2>1, <2>3, TablesStay DEF TablesInv
<1> QED BY <1>2, <1>3, NextCases

\* Both invariants hold in every reachable state.
THEOREM TablesInductive == Spec => [](IInv /\ TablesInv)
<1>1. Init => TablesInv
  <2> SUFFICES ASSUME Init PROVE TablesInv
    OBVIOUS
  <2>1. ASSUME NEW c \in Consumers PROVE BatchVerified(c)
    <3>1. trusted[c] = {} /\ events[c] = {} /\ phase[c] = "down"
      BY DEF Init
    <3> QED BY <3>1 DEF BatchVerified
  <2> QED BY <2>1 DEF Init, TablesInv, BronzeIsVerified, BronzeIdsUnique, QuarantineOnTopic
<1> QED BY <1>1, InitIInv, NextIInv, NextTables, PTL DEF Spec

\* Whatever the bronze table holds is a message of the topic that belongs to
\* the scope and verified under a key some directory listed, however runs,
\* redeliveries and key rotations interleave.
THEOREM BronzeVerified == Spec => []BronzeIsVerified
<1>1. TablesInv => BronzeIsVerified
  BY DEF TablesInv
<1> QED BY <1>1, TablesInductive, PTL

\* An event_id has one content in the bronze table, for any number of
\* consumers that append at once (reject_conflicting_replays).
THEOREM OneContentPerId == Spec => []BronzeIdsUnique
<1>1. TablesInv => BronzeIdsUnique
  BY DEF TablesInv
<1> QED BY <1>1, TablesInductive, PTL

\* No quarantine row is without its record on the dead-letter topic, whatever
\* stops half-way through quarantine().
THEOREM TopicBeforeTable == Spec => []QuarantineOnTopic
<1>1. TablesInv => QuarantineOnTopic
  BY DEF TablesInv
<1> QED BY <1>1, TablesInductive, PTL
=============================================================================
