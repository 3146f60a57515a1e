----------------------------- MODULE StampFacts -----------------------------
(***************************************************************************)
(* excise_stamps_gold.build_excise_stamp_fact_rows.  An event is           *)
(* [id, at, type, quantity]; an event of another type is left out.  The    *)
(* rows are a sequence: a silver row gives one gold row.                   *)
(***************************************************************************)
EXTENDS LatestEvents

StampTypes == {"assessed", "approved", "issued", "activated"}

Stamps(events) == Chosen(events, {i \in DOMAIN events : events[i].type \in StampTypes})

\* The smallest quantity accepted: an issue of nothing is malformed.
Minimum(type) == IF type = "issued" THEN 1 ELSE 0

Malformed(events) ==
    \E e \in ToSet(Stamps(events)) :
        e.type # "approved" /\ e.quantity < Minimum(e.type)

StampRows(events) ==
    LET sorted == InOrder(Stamps(events)) IN
    [i \in DOMAIN sorted |->
        [id |-> sorted[i].id, type |-> sorted[i].type, at |-> sorted[i].at,
         quantity |-> IF sorted[i].type = "approved" THEN {} ELSE {sorted[i].quantity}]]
=============================================================================
