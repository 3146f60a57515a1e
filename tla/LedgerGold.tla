----------------------------- MODULE LedgerGold -----------------------------
(***************************************************************************)
(* medallion._curate_gold: one row per ledger commitment.  A silver row is *)
(* [id, at, hash, system, offset].                                         *)
(***************************************************************************)
EXTENDS Integers, FiniteSets, FiniteSetsExt, SequencesExt, Collections

NewCommitment(e) ==
    [count |-> 1, first |-> e.at, last |-> e.at, systems |-> {e.system}, ids |-> <<e.id>>]

\* Mutant of Curate: the first row read is taken for the first to occur.
CurateReadOrder(entries, e) ==
    IF e.hash \notin DOMAIN entries THEN Put(entries, e.hash, NewCommitment(e))
    ELSE [entries EXCEPT ![e.hash].count = @ + 1,
                         ![e.hash].last = e.at,
                         ![e.hash].systems = @ \cup {e.system},
                         ![e.hash].ids = Append(@, e.id)]

\* One turn of the loop.
Curate(entries, e) ==
    IF e.hash \notin DOMAIN entries THEN Put(entries, e.hash, NewCommitment(e))
    ELSE [entries EXCEPT ![e.hash].count = @ + 1,
                         ![e.hash].first = Min({@, e.at}),
                         ![e.hash].last = Max({@, e.at}),
                         ![e.hash].systems = @ \cup {e.system},
                         ![e.hash].ids = Append(@, e.id)]

Curated(events) ==
    LET entries[i \in 0 .. Len(events)] ==
            IF i = 0 THEN <<>> ELSE Curate(entries[i - 1], events[i])
    IN entries[Len(events)]

\* The rows that are written; event ids are sorted.
LedgerRows(events) ==
    LET entries == Curated(events) IN
    {[hash |-> h, count |-> entries[h].count, first |-> entries[h].first,
      last |-> entries[h].last, systems |-> entries[h].systems,
      ids |-> StableSort(entries[h].ids, <)] : h \in DOMAIN entries}

-----------------------------------------------------------------------------
\* The commitments account for the silver rows: none is counted twice or left
\* out, and the two instants bound what they stand for.
Accounts(events, rows) ==
    /\ {r.hash : r \in rows} = {e.hash : e \in ToSet(events)}
    /\ \A r \in rows :
          LET mine == {e \in ToSet(events) : e.hash = r.hash} IN
          /\ r.count = Cardinality(mine)
          /\ r.first = Min({e.at : e \in mine})
          /\ r.last = Max({e.at : e \in mine})
          /\ ToSet(r.ids) = {e.id : e \in mine}
=============================================================================
