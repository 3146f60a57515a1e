---------------------------- MODULE LatestEvents ----------------------------
(* The latest event per key: the loop shared by the gold projections. *)
EXTENDS Integers, Sequences, SequencesExt, TLC, Collections

\* (occurred_at, event_id) > (existing occurred_at, existing event_id).
Later(e, f) == e.at > f.at \/ (e.at = f.at /\ e.id > f.id)

\* Mutant of KeepLatest: whatever is read last is kept.
KeepLast(entries, key, e) == Put(entries, key, e)

KeepLatest(entries, key, e) ==
    IF key \in DOMAIN entries /\ ~Later(e, entries[key]) THEN entries
    ELSE Put(entries, key, e)

\* The latest of the chosen events (given by their places) for each key.
LatestPerKey(events, chosen, key) ==
    LET latest[i \in 0 .. Len(events)] ==
            IF i = 0 THEN <<>>
            ELSE IF i \in chosen THEN KeepLatest(latest[i - 1], key[i], events[i])
            ELSE latest[i - 1]
    IN latest[Len(events)]

\* Events are sorted by (occurred_at, event_id).
InOrder(events) == StableSort(events, LAMBDA e, f : Later(f, e))
=============================================================================
