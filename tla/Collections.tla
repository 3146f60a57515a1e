---------------------------- MODULE Collections ----------------------------
(* Dictionaries and sorted lists, as the loops of the code use them. *)
EXTENDS Integers, FiniteSets, Sequences

\* The dictionary with this entry, new or replaced.
Put(entries, key, value) ==
    [k \in DOMAIN entries \cup {key} |-> IF k = key THEN value ELSE entries[k]]

\* The elements at these places, in their order.
Chosen(s, places) ==
    LET kept[i \in 0 .. Len(s)] ==
            IF i = 0 THEN <<>>
            ELSE IF i \in places THEN Append(kept[i - 1], s[i])
            ELSE kept[i - 1]
    IN kept[Len(s)]

\* sorted(): stable, so that elements of which neither precedes the other keep
\* their order.
StableSort(s, Precedes(_, _)) ==
    LET before(j, k) == Precedes(s[j], s[k]) \/ (~Precedes(s[k], s[j]) /\ j < k)
        place(k) == 1 + Cardinality({j \in DOMAIN s : before(j, k)})
    IN [i \in DOMAIN s |-> s[CHOOSE k \in DOMAIN s : place(k) = i]]
=============================================================================
