--------------------------- MODULE MCKafkaIngest ---------------------------
(* Small instances of KafkaIngest. *)
EXTENDS KafkaIngest, TLC

CONSTANTS c1, c2, e1, e2, b1, b2, old, new, rogue

Signed(k, i, b, key) == [kind |-> k, id |-> i, body |-> b, kid |-> key]
M(k, i, b) == Signed(k, i, b, new)

\* A producer's old key is withdrawn; the new one is listed throughout.
Rotation == <<{old, new}, {new}>>
NoRotation == <<{new}>>

OnePartition == {0}
TwoPartitions == {0, 1}

\* Poison after an event of the old key; a repeated and then a conflicting
\* event; conflicting events in two partitions; records of an unlisted key
\* and of another scope.
MixedLogs ==
    { (0 :> <<Signed("ok", e1, b1, old), M("poison", e1, b1), M("ok", e2, b1)>>
         @@ 1 :> <<>>),
      (0 :> <<M("ok", e1, b1), M("ok", e1, b1), M("ok", e1, b2)>> @@ 1 :> <<>>),
      (0 :> <<Signed("ok", e1, b1, old), M("ok", e2, b1)>> @@ 1 :> <<M("ok", e1, b2)>>),
      (0 :> <<Signed("ok", e1, b2, rogue), M("ok", e1, b1)>>
         @@ 1 :> <<M("foreign", e2, b1)>>) }

\* Topics without records of another scope and without conflicting content:
\* those two stop the consumer for good, by design.
LiveLogs ==
    { (0 :> <<M("poison", e1, b1), M("poison", e2, b1), M("ok", e1, b1)>> ),
      (0 :> <<Signed("ok", e1, b1, old), M("ok", e1, b1), M("poison", e2, b1)>>) }

\* Three poison messages: the third is met when the quarantine table holds a
\* merge-written file.
PoisonLogs ==
    { (0 :> <<M("poison", e1, b1), M("poison", e2, b1), M("poison", e1, b2)>>) }

Symmetry == Permutations({c1, c2})
=============================================================================
