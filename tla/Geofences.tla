------------------------------ MODULE Geofences ------------------------------
(***************************************************************************)
(* vessel_lakehouse.build_geofence_summaries.  An observation is           *)
(* [id, at, vessel, position]; inside gives the geofences that contain a   *)
(* position.                                                               *)
(***************************************************************************)
EXTENDS Integers, FiniteSets, SequencesExt

NewSighting(e) ==
    [count |-> 1, first |-> e.at, last |-> e.at, firstId |-> e.id, lastId |-> e.id]

\* Mutant of Sighted: the last observation read is taken for the last seen.
SightedReadOrder(s, e) ==
    [s EXCEPT !.count = @ + 1, !.last = e.at, !.lastId = e.id]

\* A further observation: one of the same instant does not replace another.
Sighted(s, e) ==
    [count |-> s.count + 1,
     first |-> IF e.at < s.first THEN e.at ELSE s.first,
     firstId |-> IF e.at < s.first THEN e.id ELSE s.firstId,
     last |-> IF e.at > s.last THEN e.at ELSE s.last,
     lastId |-> IF e.at > s.last THEN e.id ELSE s.lastId]

\* One turn of the loop, for every geofence around the position.
Sight(inside, entries, e) ==
    LET keys == {<<f, e.vessel>> : f \in inside[e.position]} IN
    [k \in DOMAIN entries \cup keys |->
        IF k \notin keys THEN entries[k]
        ELSE IF k \notin DOMAIN entries THEN NewSighting(e)
        ELSE Sighted(entries[k], e)]

Sightings(inside, events) ==
    LET entries[i \in 0 .. Len(events)] ==
            IF i = 0 THEN <<>> ELSE Sight(inside, entries[i - 1], events[i])
    IN entries[Len(events)]

SummaryRows(inside, events) ==
    LET entries == Sightings(inside, events) IN
    {[fence |-> k[1], vessel |-> k[2], seen |-> entries[k]] : k \in DOMAIN entries}

-----------------------------------------------------------------------------
\* The summaries account for the observations inside a geofence, and their
\* instants are those of the observations they name.
Bounds(inside, events, rows) ==
    /\ {<<r.fence, r.vessel>> : r \in rows} =
          UNION {{<<f, e.vessel>> : f \in inside[e.position]} : e \in ToSet(events)}
    /\ \A r \in rows :
          LET mine == {e \in ToSet(events) : e.vessel = r.vessel /\ r.fence \in inside[e.position]} IN
          /\ r.seen.count = Cardinality(mine)
          /\ \A e \in mine : r.seen.first <= e.at /\ e.at <= r.seen.last
          /\ \E e \in mine : e.at = r.seen.first /\ e.id = r.seen.firstId
          /\ \E e \in mine : e.at = r.seen.last /\ e.id = r.seen.lastId
=============================================================================
