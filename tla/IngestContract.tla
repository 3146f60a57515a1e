--------------------------- MODULE IngestContract ---------------------------
(***************************************************************************)
(* What Kafka ingestion promises its operators, without consumers, batches *)
(* or tables: messages of the topic are settled (kept for good), and a     *)
(* partition's committed offset only ever covers settled messages.  A      *)
(* commit may go back, which only causes a redelivery.                     *)
(***************************************************************************)
EXTENDS Integers, Sequences

CONSTANT Partitions, Logs

VARIABLES log,        \* the topic
          settled,    \* <<partition, offset>> pairs whose message is kept
          committed   \* committed offset of each partition

vars == <<log, settled, committed>>

Init ==
    /\ log \in Logs
    /\ settled = {}
    /\ committed = [p \in Partitions |-> 0]

Settle ==
    /\ settled \subseteq settled'
    /\ \A at \in settled' : at[1] \in Partitions /\ at[2] \in 0..(Len(log[at[1]]) - 1)
    /\ UNCHANGED <<log, committed>>

Acknowledge(p) ==
    /\ \E n \in 0..Len(log[p]) :
        /\ \A o \in 0..(n - 1) : <<p, o>> \in settled
        /\ committed' = [committed EXCEPT ![p] = n]
    /\ UNCHANGED <<log, settled>>

Next == Settle \/ \E p \in Partitions : Acknowledge(p)

Spec == Init /\ [][Next]_vars
=============================================================================
