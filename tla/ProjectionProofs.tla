-------------------------- MODULE ProjectionProofs --------------------------
(***************************************************************************)
(* What the projections make of a list of rows, whatever the rows and their*)
(* order: the loops of the assemblies go through the list row by row, and  *)
(* an invariant of each says what they have gathered so far.               *)
(***************************************************************************)
EXTENDS GoldAssembly, SequenceLemmas

-----------------------------------------------------------------------------
(* Ledger commitments. *)

\* The loop curates row by row.
LEMMA CuratedSteps ==
    ASSUME NEW events, Len(events) \in Nat
    PROVE  \E h : /\ h[0] = <<>>
                  /\ \A i \in 1 .. Len(events) : h[i] = Ledger!Curate(h[i - 1], events[i])
                  /\ Ledger!Curated(events) = h[Len(events)]
<1> DEFINE n == Len(events)
           Turn(v, i) == Ledger!Curate(v, events[i])
           Defines(f, m) == f = [i \in 0 .. m |-> IF i = 0 THEN <<>> ELSE Turn(f[i - 1], i)]
           T == {m \in 0 .. n : \E f : Defines(f, m)}
<1> HIDE DEF n, Turn
<1>1. n \in Nat
  BY DEF n
<1>2. 0 \in T
  <2>1. Defines([i \in 0 .. 0 |-> <<>>], 0)
    OBVIOUS
  <2> HIDE DEF Defines
  <2> QED BY <1>1, <2>1
<1>3. ASSUME NEW m \in 1 .. n, m - 1 \in T PROVE m \in T
  <2>1. PICK f : Defines(f, m - 1)
    BY <1>3
  <2> DEFINE g == [i \in 0 .. m |-> IF i = m THEN Turn(f[m - 1], m) ELSE f[i]]
  <2>2. \A i \in 0 .. m - 1 : f[i] = IF i = 0 THEN <<>> ELSE Turn(f[i - 1], i)
    BY <2>1, Zenon
  <2>3. \A i \in 0 .. m : g[i] = IF i = 0 THEN <<>> ELSE Turn(g[i - 1], i)
    <3> SUFFICES ASSUME NEW i \in 0 .. m PROVE g[i] = IF i = 0 THEN <<>> ELSE Turn(g[i - 1], i)
      OBVIOUS
    <3>1. CASE i = 0
      BY <2>2, <3>1
    <3>2. CASE i \in 1 .. m - 1
      <4>1. i - 1 \in 0 .. m - 1 /\ i \in 0 .. m - 1 /\ i # 0
        BY <3>2
      <4>2. g[i] = f[i] /\ g[i - 1] = f[i - 1]
        BY <4>1
      <4> QED BY <2>2, <4>1, <4>2
    <3>3. CASE i = m
      <4>1. g[m] = Turn(f[m - 1], m) /\ g[m - 1] = f[m - 1] /\ m # 0
        OBVIOUS
      <4> QED BY <3>3, <4>1
    <3> QED BY <3>1, <3>2, <3>3
  <2>4. Defines(g, m)
    BY <2>3, Zenon
  <2> HIDE DEF Defines, g
  <2> QED BY <2>4
<1>4. n \in T
  <2> HIDE DEF T
  <2>1. \A i \in 0 .. n : i \in T
    BY <1>1, <1>2, <1>3, UpTo
  <2> QED BY <1>1, <2>1
<1> DEFINE h == CHOOSE f : Defines(f, n)
<1>5. Defines(h, n)
  <2>1. \E f : Defines(f, n)
    BY <1>4
  <2> HIDE DEF Defines
  <2> QED BY <2>1
<1>6. Ledger!Curated(events) = h[n]
  BY DEF Ledger!Curated, n, Turn
<1> HIDE DEF h
<1>7. h[0] = <<>> /\ \A i \in 1 .. n : h[i] = Turn(h[i - 1], i)
  <2>1. \A i \in 0 .. n : h[i] = IF i = 0 THEN <<>> ELSE Turn(h[i - 1], i)
    BY <1>5, Zenon
  <2> HIDE DEF Defines
  <2> QED BY <1>1, <2>1
<1> QED BY <1>6, <1>7 DEF n, Turn

\* The least and the greatest of two integers, and of a set that has them.
LEMMA LedgerExtremes ==
    ASSUME NEW M, M \subseteq Int
    PROVE  /\ \A a \in M : (\A b \in M : a <= b) => Ledger!Min(M) = a
           /\ \A a \in M : (\A b \in M : b <= a) => Ledger!Max(M) = a
<1>1. ASSUME NEW a \in M, \A b \in M : a <= b PROVE Ledger!Min(M) = a
  <2>1. Ledger!Min(M) \in M /\ \A b \in M : Ledger!Min(M) <= b
    BY <1>1 DEF Ledger!Min
  <2>2. Ledger!Min(M) <= a /\ a <= Ledger!Min(M) /\ Ledger!Min(M) \in Int /\ a \in Int
    BY <1>1, <2>1
  <2> HIDE DEF Ledger!Min
  <2> QED BY <2>2
<1>2. ASSUME NEW a \in M, \A b \in M : b <= a PROVE Ledger!Max(M) = a
  <2>1. Ledger!Max(M) \in M /\ \A b \in M : Ledger!Max(M) >= b
    BY <1>2 DEF Ledger!Max
  <2>2. a <= Ledger!Max(M) /\ Ledger!Max(M) <= a /\ Ledger!Max(M) \in Int /\ a \in Int
    BY <1>2, <2>1
  <2> QED BY <2>2
<1> QED BY <1>1, <1>2

\* So of two integers.
LEMMA LedgerPair ==
    ASSUME NEW a \in Int, NEW b \in Int
    PROVE  /\ Ledger!Min({a, b}) = IF a <= b THEN a ELSE b
           /\ Ledger!Max({a, b}) = IF b <= a THEN a ELSE b
<1> DEFINE M == {a, b}
<1>1. M \subseteq Int /\ a \in M /\ b \in M
  OBVIOUS
<1>2. (a <= b => \A c \in M : a <= c) /\ (~(a <= b) => \A c \in M : b <= c)
  OBVIOUS
<1>3. (b <= a => \A c \in M : c <= a) /\ (~(b <= a) => \A c \in M : c <= b)
  OBVIOUS
<1> HIDE DEF M
<1>4. /\ Ledger!Min(M) = IF a <= b THEN a ELSE b
      /\ Ledger!Max(M) = IF b <= a THEN a ELSE b
  BY <1>1, <1>2, <1>3, LedgerExtremes
<1> QED BY <1>4 DEF M

\* The rows among the first i with this commitment hash.
OfHash(events, i, x) == {j \in 1 .. i : events[j].hash = x}

LessPairs == {p \in Int \X Int : p[1] < p[2]}

LEMMA LessOrder ==
    /\ KeyOrder(LessPairs, Int)
    /\ \A a, b \in Int : <<a, b>> \in LessPairs <=> a < b
<1>1. \A a, b \in Int : <<a, b>> \in LessPairs <=> a < b
  BY DEF LessPairs
<1> QED BY <1>1 DEF KeyOrder

\* The source systems, and the ids, of the first i rows with this hash: as many
\* below each number as there are among the rows.
Enumerates(events, i, x, systems, ids) ==
    /\ systems = {events[j].system : j \in OfHash(events, i, x)}
    /\ Len(ids) = Cardinality(OfHash(events, i, x))
    /\ \A a \in Int :
          /\ CountBefore(LessPairs, ids, a) =
                Cardinality({j \in OfHash(events, i, x) : events[j].id < a})
          /\ CountUpTo(LessPairs, ids, a) =
                Cardinality({j \in OfHash(events, i, x) : ~(a < events[j].id)})

LEMMA EnumeratesNone ==
    ASSUME NEW events, NEW i, NEW x, OfHash(events, i, x) = {}
    PROVE  Enumerates(events, i, x, {}, <<>>)
<1>1. Cardinality({}) = 0
  BY FS_EmptySet
<1>2. \A a \in Int : CountBefore(LessPairs, <<>>, a) = 0 /\ CountUpTo(LessPairs, <<>>, a) = 0
  <2>1. 1 .. Len(<<>>) = {}
    OBVIOUS
  <2> QED BY <1>1, <2>1 DEF CountBefore, CountUpTo
<1> QED BY <1>1, <1>2 DEF Enumerates

LEMMA EnumeratesNext ==
    ASSUME NEW events, NEW i \in Nat \ {0}, events[i].id \in Int, NEW systems,
           NEW ids \in Seq(Int), Enumerates(events, i - 1, events[i].hash, systems, ids)
    PROVE  Enumerates(events, i, events[i].hash, systems \cup {events[i].system},
                      Append(ids, events[i].id))
<1> DEFINE x == events[i].hash
           K == OfHash(events, i - 1, x)
           J == OfHash(events, i, x)
           id == events[i].id
<1>1. J = K \cup {i} /\ i \notin K
  <2>1. 1 .. i = (1 .. (i - 1)) \cup {i} /\ i \notin 1 .. (i - 1)
    OBVIOUS
  <2> QED BY <2>1 DEF OfHash
<1>2. IsFiniteSet(K)
  <2>1. IsFiniteSet(1 .. (i - 1))
    BY FS_Interval
  <2>2. K \in SUBSET (1 .. (i - 1))
    BY DEF OfHash
  <2> HIDE DEF K
  <2> QED BY <2>1, <2>2, FS_Subset
<1>3. /\ systems = {events[j].system : j \in K} /\ Len(ids) = Cardinality(K)
      /\ \A a \in Int :
            /\ CountBefore(LessPairs, ids, a) = Cardinality({j \in K : events[j].id < a})
            /\ CountUpTo(LessPairs, ids, a) = Cardinality({j \in K : ~(a < events[j].id)})
  BY DEF Enumerates
<1> HIDE DEF J, K, x
<1>4. systems \cup {events[i].system} = {events[j].system : j \in J}
  BY <1>1, <1>3
<1>5. Len(Append(ids, id)) = Cardinality(J)
  <2>1. Cardinality(J) = Cardinality(K) + 1
    BY <1>1, <1>2, FS_AddElement
  <2> QED BY <1>3, <2>1
<1>6. ASSUME NEW a \in Int
      PROVE  /\ CountBefore(LessPairs, Append(ids, id), a) =
                   Cardinality({j \in J : events[j].id < a})
             /\ CountUpTo(LessPairs, Append(ids, id), a) =
                   Cardinality({j \in J : ~(a < events[j].id)})
  <2> DEFINE below == {j \in K : events[j].id < a}
             upTo == {j \in K : ~(a < events[j].id)}
  <2>1. /\ {j \in J : events[j].id < a} = IF id < a THEN below \cup {i} ELSE below
        /\ {j \in J : ~(a < events[j].id)} = IF ~(a < id) THEN upTo \cup {i} ELSE upTo
    BY <1>1
  <2>2. i \notin below /\ i \notin upTo /\ below \subseteq K /\ upTo \subseteq K
    BY <1>1
  <2> HIDE DEF below, upTo
  <2>3. IsFiniteSet(below) /\ IsFiniteSet(upTo)
    BY <1>2, <2>2, FS_Subset
  <2>4. /\ Cardinality(below \cup {i}) = Cardinality(below) + 1
        /\ Cardinality(upTo \cup {i}) = Cardinality(upTo) + 1
        /\ Cardinality(below) \in Nat /\ Cardinality(upTo) \in Nat
    BY <2>2, <2>3, FS_AddElement, FS_CardinalityType
  <2>5. /\ CountBefore(LessPairs, ids, a) = Cardinality(below)
        /\ CountUpTo(LessPairs, ids, a) = Cardinality(upTo)
    BY <1>3 DEF below, upTo
  <2>6. /\ CountBefore(LessPairs, Append(ids, id), a) =
              CountBefore(LessPairs, ids, a) + (IF <<id, a>> \in LessPairs THEN 1 ELSE 0)
        /\ CountUpTo(LessPairs, Append(ids, id), a) =
              CountUpTo(LessPairs, ids, a) + (IF <<a, id>> \notin LessPairs THEN 1 ELSE 0)
    <3>1. id \in Int /\ ids \in Seq(Int)
      OBVIOUS
    <3> HIDE DEF id
    <3>2. CountsOneMore(LessPairs, ids, id, a)
      BY <3>1, CountAppend
    <3> QED BY <3>2 DEF CountsOneMore
  <2>7. (<<id, a>> \in LessPairs <=> id < a) /\ (<<a, id>> \in LessPairs <=> a < id)
    BY LessOrder
  <2>8. CountBefore(LessPairs, Append(ids, id), a) =
           Cardinality(IF id < a THEN below \cup {i} ELSE below)
    BY <2>4, <2>5, <2>6, <2>7
  <2>9. CountUpTo(LessPairs, Append(ids, id), a) =
           Cardinality(IF ~(a < id) THEN upTo \cup {i} ELSE upTo)
    BY <2>4, <2>5, <2>6, <2>7
  <2> QED BY <2>1, <2>8, <2>9
<1> QED BY <1>4, <1>5, <1>6 DEF Enumerates, J, x

\* What an entry has gathered of the first i rows.
Gathers(events, i, x, entry) ==
    /\ entry = [count |-> entry.count, first |-> entry.first, last |-> entry.last,
                systems |-> entry.systems, ids |-> entry.ids]
    /\ entry.count = Cardinality(OfHash(events, i, x))
    /\ entry.first \in Int /\ entry.last \in Int
    /\ \A j \in OfHash(events, i, x) :
          entry.first <= events[j].at /\ events[j].at <= entry.last
    /\ \E j \in OfHash(events, i, x) : events[j].at = entry.first
    /\ \E j \in OfHash(events, i, x) : events[j].at = entry.last
    /\ entry.ids \in Seq(Int)
    /\ ToSet(entry.ids) = {events[j].id : j \in OfHash(events, i, x)}
    /\ Enumerates(events, i, x, entry.systems, entry.ids)

\* What the loop has gathered of the first i rows.
Gathered(events, i, entries) ==
    /\ DOMAIN entries = {events[j].hash : j \in 1 .. i}
    /\ \A x \in DOMAIN entries : Gathers(events, i, x, entries[x])

\* An entry of another commitment stays as it is.
LEMMA GathersStays ==
    ASSUME NEW events, NEW i \in Nat \ {0}, NEW x, x # events[i].hash,
           NEW entry, Gathers(events, i - 1, x, entry)
    PROVE  Gathers(events, i, x, entry)
<1>1. OfHash(events, i, x) = OfHash(events, i - 1, x)
  <2>1. 1 .. i = (1 .. (i - 1)) \cup {i}
    OBVIOUS
  <2> QED BY <2>1 DEF OfHash
<1>2. Enumerates(events, i, x, entry.systems, entry.ids)
  BY <1>1 DEF Gathers, Enumerates
<1> QED BY <1>1, <1>2 DEF Gathers

\* The first row of a commitment.
LEMMA GathersFirst ==
    ASSUME NEW events, NEW i \in Nat \ {0}, events[i].at \in Int, events[i].id \in Int,
           \A j \in 1 .. i - 1 : events[j].hash # events[i].hash
    PROVE  Gathers(events, i, events[i].hash, Ledger!NewCommitment(events[i]))
<1> DEFINE e == events[i]
           J == OfHash(events, i, e.hash)
           entry == Ledger!NewCommitment(e)
<1>1. J = {i}
  BY DEF OfHash
<1>2. Cardinality(J) = 1
  BY <1>1, FS_Singleton
<1>3. /\ entry.count = 1 /\ entry.first = e.at /\ entry.last = e.at /\ entry.ids = <<e.id>>
      /\ entry = [count |-> entry.count, first |-> entry.first, last |-> entry.last,
                  systems |-> entry.systems, ids |-> entry.ids]
  BY DEF Ledger!NewCommitment
<1>4. entry.ids \in Seq(Int) /\ ToSet(entry.ids) = {e.id}
  BY <1>3 DEF ToSet
<1>5. Enumerates(events, i, e.hash, entry.systems, entry.ids)
  <2>1. OfHash(events, i - 1, e.hash) = {}
    BY DEF OfHash
  <2>2. Enumerates(events, i - 1, e.hash, {}, <<>>)
    BY <2>1, EnumeratesNone
  <2>3. Enumerates(events, i, e.hash, {} \cup {e.system}, Append(<<>>, e.id))
    <3>1. <<>> \in Seq(Int)
      OBVIOUS
    <3> QED BY <2>2, <3>1, EnumeratesNext
  <2>4. entry.systems = {} \cup {e.system} /\ entry.ids = Append(<<>>, e.id)
    BY DEF Ledger!NewCommitment
  <2> HIDE DEF entry
  <2> QED BY <2>3, <2>4
<1> HIDE DEF entry, J
<1>6. Gathers(events, i, e.hash, entry)
  BY <1>1, <1>2, <1>3, <1>4, <1>5 DEF Gathers, J
<1> QED BY <1>6 DEF entry

\* A further row.
Further(entry, e) ==
    [count |-> entry.count + 1, first |-> Ledger!Min({entry.first, e.at}),
     last |-> Ledger!Max({entry.last, e.at}), systems |-> entry.systems \cup {e.system},
     ids |-> Append(entry.ids, e.id)]

LEMMA GathersFurther ==
    ASSUME NEW events, NEW i \in Nat \ {0}, events[i].at \in Int, events[i].id \in Int,
           NEW entry, Gathers(events, i - 1, events[i].hash, entry),
           \A j \in 1 .. i - 1 : events[j].at \in Int
    PROVE  Gathers(events, i, events[i].hash, Further(entry, events[i]))
<1> DEFINE e == events[i]
           K == OfHash(events, i - 1, e.hash)
           J == OfHash(events, i, e.hash)
           more == Further(entry, e)
<1>1. J = K \cup {i} /\ i \notin K /\ \A j \in K : events[j].at \in Int
  <2>1. 1 .. i = (1 .. (i - 1)) \cup {i} /\ i \notin 1 .. (i - 1)
    OBVIOUS
  <2> QED BY <2>1 DEF OfHash
<1>2. IsFiniteSet(K)
  <2>1. IsFiniteSet(1 .. (i - 1))
    BY FS_Interval
  <2>2. K \in SUBSET (1 .. (i - 1))
    BY DEF OfHash
  <2> HIDE DEF K
  <2> QED BY <2>1, <2>2, FS_Subset
<1>3. /\ entry.count = Cardinality(K) /\ entry.first \in Int /\ entry.last \in Int
      /\ \A j \in K : entry.first <= events[j].at /\ events[j].at <= entry.last
      /\ \E j \in K : events[j].at = entry.first
      /\ \E j \in K : events[j].at = entry.last
      /\ entry.ids \in Seq(Int) /\ ToSet(entry.ids) = {events[j].id : j \in K}
  BY DEF Gathers
<1>4. /\ more.count = entry.count + 1 /\ more.first = Ledger!Min({entry.first, e.at})
      /\ more.last = Ledger!Max({entry.last, e.at}) /\ more.ids = Append(entry.ids, e.id)
      /\ more = [count |-> more.count, first |-> more.first, last |-> more.last,
                 systems |-> more.systems, ids |-> more.ids]
  BY DEF Further
<1> HIDE DEF more, J, K
<1>5. more.count = Cardinality(J)
  BY <1>1, <1>2, <1>3, <1>4, FS_AddElement
<1>6. more.first = IF entry.first <= e.at THEN entry.first ELSE e.at
  BY <1>3, <1>4, LedgerPair
<1>7. more.last = IF e.at <= entry.last THEN entry.last ELSE e.at
  BY <1>3, <1>4, LedgerPair
<1>8. more.first \in Int /\ more.last \in Int
  BY <1>3, <1>6, <1>7
<1>9. \A j \in J : more.first <= events[j].at /\ events[j].at <= more.last
  BY <1>1, <1>3, <1>6, <1>7
<1>10. (\E j \in J : events[j].at = more.first) /\ \E j \in J : events[j].at = more.last
  BY <1>1, <1>3, <1>6, <1>7
<1>11. more.ids \in Seq(Int) /\ ToSet(more.ids) = {events[j].id : j \in J}
  <2>1. more.ids \in Seq(Int)
    BY <1>3, <1>4
  <2>2. ToSet(more.ids) = ToSet(entry.ids) \cup {e.id}
    BY <1>3, <1>4, AppendElements
  <2> QED BY <1>1, <1>3, <2>1, <2>2
<1>12. Enumerates(events, i, e.hash, more.systems, more.ids)
  <2>1. Enumerates(events, i - 1, e.hash, entry.systems, entry.ids)
    BY DEF Gathers
  <2>2. Enumerates(events, i, e.hash, entry.systems \cup {e.system}, Append(entry.ids, e.id))
    BY <1>3, <2>1, EnumeratesNext
  <2>3. more.systems = entry.systems \cup {e.system}
    BY DEF more, Further
  <2> QED BY <1>4, <2>2, <2>3
<1>13. Gathers(events, i, e.hash, more)
  BY <1>4, <1>5, <1>8, <1>9, <1>10, <1>11, <1>12 DEF Gathers, J
<1> QED BY <1>13 DEF more

\* One turn of the loop gathers one row more.
LEMMA CurateGathers ==
    ASSUME NEW events, NEW i \in Nat \ {0}, NEW entries, Gathered(events, i - 1, entries),
           \A j \in 1 .. i : events[j].at \in Int /\ events[j].id \in Int
    PROVE  Gathered(events, i, Ledger!Curate(entries, events[i]))
<1> DEFINE e == events[i]
           next == Ledger!Curate(entries, e)
<1>1. {events[j].hash : j \in 1 .. i} = {events[j].hash : j \in 1 .. i - 1} \cup {e.hash}
  <2>1. 1 .. i = (1 .. (i - 1)) \cup {i}
    OBVIOUS
  <2> QED BY <2>1
<1>2. /\ DOMAIN entries = {events[j].hash : j \in 1 .. i - 1}
      /\ \A x \in DOMAIN entries : Gathers(events, i - 1, x, entries[x])
  BY DEF Gathered
<1>3. i \in 1 .. i /\ \A j \in 1 .. i - 1 : j \in 1 .. i
  OBVIOUS
<1>4. CASE e.hash \notin DOMAIN entries
  <2>1. /\ DOMAIN next = DOMAIN entries \cup {e.hash}
        /\ next[e.hash] = Ledger!NewCommitment(e)
        /\ \A x \in DOMAIN entries : x # e.hash => next[x] = entries[x]
    BY <1>4 DEF Ledger!Curate, Ledger!Put
  <2>2. Gathers(events, i, e.hash, Ledger!NewCommitment(e))
    BY <1>2, <1>3, <1>4, GathersFirst
  <2>3. ASSUME NEW x \in DOMAIN entries PROVE Gathers(events, i, x, next[x])
    BY <1>2, <1>4, <2>1, GathersStays
  <2> HIDE DEF next
  <2> QED BY <1>1, <1>2, <2>1, <2>2, <2>3 DEF Gathered, next
<1>5. CASE e.hash \in DOMAIN entries
  <2>1. Gathers(events, i - 1, e.hash, entries[e.hash])
    BY <1>2, <1>5
  <2>2. entries[e.hash] = [count |-> entries[e.hash].count, first |-> entries[e.hash].first,
                           last |-> entries[e.hash].last, systems |-> entries[e.hash].systems,
                           ids |-> entries[e.hash].ids]
    BY <2>1 DEF Gathers
  <2>3. /\ DOMAIN next = DOMAIN entries
        /\ next[e.hash] = Further(entries[e.hash], e)
        /\ \A x \in DOMAIN entries : x # e.hash => next[x] = entries[x]
    BY <1>5, <2>2 DEF Ledger!Curate, Further
  <2>4. Gathers(events, i, e.hash, Further(entries[e.hash], e))
    BY <1>3, <2>1, GathersFurther
  <2>5. ASSUME NEW x \in DOMAIN entries, x # e.hash PROVE Gathers(events, i, x, next[x])
    BY <1>2, <2>3, <2>5, GathersStays
  <2> HIDE DEF next
  <2> QED BY <1>1, <1>2, <1>5, <2>3, <2>4, <2>5 DEF Gathered, next
<1> QED BY <1>4, <1>5

\* Sorting ids.
LEMMA IdsSort ==
    ASSUME NEW ids \in Seq(Int)
    PROVE  Ledger!StableSort(ids, <) = SortedBy(LessPairs, ids)
<1> DEFINE n == Len(ids)
           R == StableOrder(LessPairs, ids)
           Before(j, k) == ids[j] < ids[k] \/ (~(ids[k] < ids[j]) /\ j < k)
<1>1. n \in Nat /\ DOMAIN ids = 1 .. n /\ \A i \in 1 .. n : ids[i] \in Int
  OBVIOUS
<1>2. \A j, k \in 1 .. n : <<j, k>> \in R <=> Before(j, k)
  <2>1. \A j, k \in 1 .. n : <<j, k>> \in R <=>
           (<<ids[j], ids[k]>> \in LessPairs \/ (<<ids[k], ids[j]>> \notin LessPairs /\ j < k))
    BY DEF StableOrder
  <2>2. \A j, k \in 1 .. n : <<ids[j], ids[k]>> \in LessPairs <=> ids[j] < ids[k]
    BY <1>1, LessOrder
  <2> HIDE DEF R, n
  <2> QED BY <2>1, <2>2
<1>3. ASSUME NEW k \in 1 .. n
      PROVE  1 + Cardinality({j \in DOMAIN ids : Before(j, k)}) = Rank(R, 1 .. n, k)
  <2> HIDE DEF n, R, Before
  <2>1. {j \in DOMAIN ids : Before(j, k)} = {j \in 1 .. n : <<j, k>> \in R}
    BY <1>1, <1>2
  <2> QED BY <2>1 DEF Rank
<1>4. \A i \in 1 .. n :
         (CHOOSE k \in DOMAIN ids : 1 + Cardinality({j \in DOMAIN ids : Before(j, k)}) = i)
           = RankedAt(R, 1 .. n, i)
  <2> HIDE DEF n, R, Before
  <2> QED BY <1>1, <1>3, Zenon DEF RankedAt
<1>5. Ledger!StableSort(ids, <) =
         [i \in DOMAIN ids |->
            ids[CHOOSE k \in DOMAIN ids : 1 + Cardinality({j \in DOMAIN ids : Before(j, k)}) = i]]
  BY Zenon DEF Ledger!StableSort, Ledger!Cardinality, Cardinality
<1>6. SortedBy(LessPairs, ids) = [i \in DOMAIN ids |-> ids[RankedAt(R, 1 .. n, i)]]
  BY DEF SortedBy
<1> HIDE DEF n, R, Before
<1> QED BY <1>1, <1>4, <1>5, <1>6

LEMMA SortedIds ==
    ASSUME NEW ids \in Seq(Int)
    PROVE  Ledger!ToSet(Ledger!StableSort(ids, <)) = ToSet(ids)
<1>1. TotalOrder(StableOrder(LessPairs, ids), 1 .. Len(ids))
  BY LessOrder, StableTotal
<1>2. ToSet(SortedBy(LessPairs, ids)) = ToSet(ids)
  BY <1>1, SortKeeps DEF SortedBy
<1>3. \A s : Ledger!ToSet(s) = ToSet(s)
  BY DEF Ledger!ToSet, ToSet
<1> QED BY <1>2, <1>3, IdsSort

\* Two lists with as many ids below each number are sorted to the same list.
LEMMA IdsAlike ==
    ASSUME NEW s \in Seq(Int), NEW t \in Seq(Int), Len(s) = Len(t),
           \A a \in Int : /\ CountBefore(LessPairs, s, a) = CountBefore(LessPairs, t, a)
                          /\ CountUpTo(LessPairs, s, a) = CountUpTo(LessPairs, t, a)
    PROVE  Ledger!StableSort(s, <) = Ledger!StableSort(t, <)
<1> DEFINE x == SortedBy(LessPairs, s)
           y == SortedBy(LessPairs, t)
<1>1. \A i \in 1 .. Len(s) : <<x[i], y[i]>> \notin LessPairs /\ <<y[i], x[i]>> \notin LessPairs
  BY LessOrder, SortedAgree
<1>2. \A i \in 1 .. Len(s) : x[i] \in Int /\ y[i] \in Int
  <2>1. \A i \in 1 .. Len(s) : x[i] \in ToSet(s) /\ y[i] \in ToSet(t)
    BY LessOrder, SortedPlace
  <2>2. ToSet(s) \subseteq Int /\ ToSet(t) \subseteq Int
    BY DEF ToSet
  <2> QED BY <2>1, <2>2
<1>3. /\ DOMAIN x = 1 .. Len(s) /\ DOMAIN y = 1 .. Len(s)
      /\ x = [i \in DOMAIN x |-> x[i]] /\ y = [i \in DOMAIN y |-> y[i]]
  BY DEF SortedBy
<1> HIDE DEF x, y
<1>4. ASSUME NEW i \in 1 .. Len(s) PROVE x[i] = y[i]
  <2>1. x[i] \in Int /\ y[i] \in Int
    BY <1>2
  <2>2. ~(x[i] < y[i]) /\ ~(y[i] < x[i])
    BY <1>1, <2>1, LessOrder
  <2> QED BY <2>1, <2>2
<1>5. x = y
  BY <1>3, <1>4
<1> QED BY <1>5, IdsSort DEF x, y

\* What the loop has gathered of all rows.
LEMMA CuratedGathers ==
    ASSUME NEW events, Len(events) \in Nat,
           \A j \in 1 .. Len(events) : events[j].at \in Int /\ events[j].id \in Int
    PROVE  Gathered(events, Len(events), Ledger!Curated(events))
<1> DEFINE n == Len(events)
<1>1. PICK h : /\ h[0] = <<>>
               /\ \A i \in 1 .. n : h[i] = Ledger!Curate(h[i - 1], events[i])
               /\ Ledger!Curated(events) = h[n]
  BY CuratedSteps
<1> DEFINE T == {i \in 0 .. n : Gathered(events, i, h[i])}
<1> HIDE DEF n
<1>2. 0 \in T
  <2>1. Gathered(events, 0, <<>>)
    BY DEF Gathered
  <2> QED BY <1>1, <2>1 DEF n
<1>3. ASSUME NEW i \in 1 .. n, i - 1 \in T PROVE i \in T
  <2>1. Gathered(events, i - 1, h[i - 1]) /\ i \in Nat \ {0} /\ i \in 0 .. n
    BY <1>3 DEF n
  <2>2. \A j \in 1 .. i : events[j].at \in Int /\ events[j].id \in Int
    BY DEF n
  <2>3. Gathered(events, i, h[i])
    BY <1>1, <2>1, <2>2, CurateGathers
  <2> QED BY <2>1, <2>3
<1>4. n \in T
  <2> HIDE DEF T
  <2>1. \A i \in 0 .. n : i \in T
    BY <1>2, <1>3, UpTo DEF n
  <2> QED BY <2>1 DEF n
<1> QED BY <1>1, <1>4 DEF n

\* The commitments account for the rows, in whatever order they are listed.
LEMMA LedgerAccount ==
    ASSUME NEW S, NEW events \in Seq(S), \A e \in S : e.at \in Int /\ e.id \in Int,
           Distinct(events), NEW all, Ledger!ToSet(all) = ToSet(events)
    PROVE  Ledger!Accounts(all, Ledger!LedgerRows(events))
<1> DEFINE n == Len(events)
           entries == Ledger!Curated(events)
<1>1. n \in Nat /\ DOMAIN events = 1 .. n /\ \A j \in 1 .. n : events[j] \in S
  OBVIOUS
<1>2. Gathered(events, n, entries)
  BY <1>1, CuratedGathers
<1>3. ToSet(events) = {events[j] : j \in 1 .. n}
  BY <1>1 DEF ToSet
<1> DEFINE row(x) == [hash |-> x, count |-> entries[x].count, first |-> entries[x].first,
                      last |-> entries[x].last, systems |-> entries[x].systems,
                      ids |-> Ledger!StableSort(entries[x].ids, <)]
<1>4. Ledger!LedgerRows(events) = {row(x) : x \in DOMAIN entries}
  BY Zenon DEF Ledger!LedgerRows
<1> HIDE DEF n, entries
<1>5. DOMAIN entries = {e.hash : e \in ToSet(events)}
  BY <1>2, <1>3 DEF Gathered
<1>6. {r.hash : r \in {row(x) : x \in DOMAIN entries}} = DOMAIN entries
  <2>1. \A x : row(x).hash = x
    OBVIOUS
  <2> HIDE DEF row
  <2> QED BY <2>1
<1>7. ASSUME NEW x \in DOMAIN entries
      PROVE  LET mine == {e \in ToSet(events) : e.hash = x} IN
             /\ entries[x].count = Cardinality(mine)
             /\ entries[x].first = Ledger!Min({e.at : e \in mine})
             /\ entries[x].last = Ledger!Max({e.at : e \in mine})
             /\ Ledger!ToSet(Ledger!StableSort(entries[x].ids, <)) = {e.id : e \in mine}
  <2> DEFINE J == OfHash(events, n, x)
             mine == {e \in ToSet(events) : e.hash = x}
             instants == {e.at : e \in mine}
  <2>1. mine = {events[j] : j \in J}
    BY <1>3 DEF OfHash
  <2>2. Gathers(events, n, x, entries[x])
    BY <1>2 DEF Gathered
  <2>3. J \subseteq 1 .. n
    BY DEF OfHash
  <2>4. entries[x].count = Cardinality(mine)
    <3> HIDE DEF J, mine
    <3>1. Cardinality({events[j] : j \in J}) = Cardinality(J)
      BY <2>3, CountPlaces DEF n
    <3>2. entries[x].count = Cardinality(J)
      BY <2>2 DEF Gathers, J
    <3> QED BY <2>1, <3>1, <3>2
  <2>5. instants = {events[j].at : j \in J} /\ instants \subseteq Int
    BY <1>1, <2>1, <2>3
  <2>6. {e.id : e \in mine} = {events[j].id : j \in J}
    BY <2>1
  <2> HIDE DEF J, mine, instants
  <2>7. entries[x].first = Ledger!Min(instants) /\ entries[x].last = Ledger!Max(instants)
    <3>1. /\ entries[x].first \in instants /\ entries[x].last \in instants
          /\ \A a \in instants : entries[x].first <= a /\ a <= entries[x].last
      BY <2>2, <2>5 DEF Gathers, J
    <3> QED BY <2>5, <3>1, LedgerExtremes
  <2>8. Ledger!ToSet(Ledger!StableSort(entries[x].ids, <)) = {e.id : e \in mine}
    <3>1. entries[x].ids \in Seq(Int) /\ ToSet(entries[x].ids) = {events[j].id : j \in J}
      BY <2>2 DEF Gathers, J
    <3> QED BY <2>6, <3>1, SortedIds
  <2> QED BY <2>4, <2>7, <2>8 DEF mine, instants
<1> DEFINE Right(r) ==
               LET mine == {e \in ToSet(events) : e.hash = r.hash} IN
               /\ r.count = Cardinality(mine)
               /\ r.first = Ledger!Min({e.at : e \in mine})
               /\ r.last = Ledger!Max({e.at : e \in mine})
               /\ Ledger!ToSet(r.ids) = {e.id : e \in mine}
<1>8. ASSUME NEW x \in DOMAIN entries PROVE Right(row(x))
  <2>1. /\ row(x).hash = x /\ row(x).count = entries[x].count /\ row(x).first = entries[x].first
        /\ row(x).last = entries[x].last
        /\ row(x).ids = Ledger!StableSort(entries[x].ids, <)
    OBVIOUS
  <2> HIDE DEF row
  <2> QED BY <1>7, <2>1
<1> HIDE DEF row
<1>9. \A M : Ledger!Cardinality(M) = Cardinality(M)
  BY DEF Ledger!Cardinality, Cardinality
<1>10. {r.hash : r \in Ledger!LedgerRows(events)} = {e.hash : e \in Ledger!ToSet(all)}
  BY <1>4, <1>5, <1>6
<1>11. \A r \in Ledger!LedgerRows(events) : Right(r)
  <2> HIDE DEF Right
  <2> QED BY <1>4, <1>8
<1> QED BY <1>9, <1>10, <1>11 DEF Ledger!Accounts

\* What the commitments have gathered of a set of rows, however it was listed.
GathersAll(all, x, entry) ==
    LET mine == {e \in all : e.hash = x} IN
    /\ entry.count = Cardinality(mine)
    /\ entry.first \in Int /\ entry.last \in Int
    /\ \A e \in mine : entry.first <= e.at /\ e.at <= entry.last
    /\ \E e \in mine : e.at = entry.first
    /\ \E e \in mine : e.at = entry.last
    /\ entry.systems = {e.system : e \in mine}
    /\ entry.ids \in Seq(Int) /\ Len(entry.ids) = Cardinality(mine)
    /\ \A a \in Int :
          /\ CountBefore(LessPairs, entry.ids, a) = Cardinality({e \in mine : e.id < a})
          /\ CountUpTo(LessPairs, entry.ids, a) = Cardinality({e \in mine : ~(a < e.id)})

LEMMA LedgerGathers ==
    ASSUME NEW S, NEW events \in Seq(S), \A e \in S : e.at \in Int /\ e.id \in Int,
           Distinct(events)
    PROVE  LET entries == Ledger!Curated(events) IN
           /\ DOMAIN entries = {e.hash : e \in ToSet(events)}
           /\ \A x \in DOMAIN entries : GathersAll(ToSet(events), x, entries[x])
<1> DEFINE n == Len(events)
           entries == Ledger!Curated(events)
<1>1. n \in Nat /\ DOMAIN events = 1 .. n /\ \A j \in 1 .. n : events[j] \in S
  OBVIOUS
<1>2. Gathered(events, n, entries)
  BY <1>1, CuratedGathers
<1>3. ToSet(events) = {events[j] : j \in 1 .. n}
  BY <1>1 DEF ToSet
<1> HIDE DEF n, entries
<1>4. DOMAIN entries = {e.hash : e \in ToSet(events)}
  BY <1>2, <1>3 DEF Gathered
<1>5. ASSUME NEW x \in DOMAIN entries PROVE GathersAll(ToSet(events), x, entries[x])
  <2> DEFINE J == OfHash(events, n, x)
             mine == {e \in ToSet(events) : e.hash = x}
             entry == entries[x]
  <2>1. mine = {events[j] : j \in J}
    BY <1>3 DEF OfHash
  <2>2. J \subseteq 1 .. n
    BY DEF OfHash
  <2>3. Gathers(events, n, x, entry)
    BY <1>2 DEF Gathered
  <2> HIDE DEF J, mine, entry
  <2>4. Cardinality(mine) = Cardinality(J)
    BY <2>1, <2>2, CountPlaces DEF n
  <2>5. /\ entry.count = Cardinality(J) /\ entry.first \in Int /\ entry.last \in Int
        /\ \A j \in J : entry.first <= events[j].at /\ events[j].at <= entry.last
        /\ \E j \in J : events[j].at = entry.first
        /\ \E j \in J : events[j].at = entry.last
        /\ entry.ids \in Seq(Int)
        /\ Enumerates(events, n, x, entry.systems, entry.ids)
    BY <2>3 DEF Gathers, J
  <2>6. /\ entry.systems = {events[j].system : j \in J} /\ Len(entry.ids) = Cardinality(J)
        /\ \A a \in Int :
              /\ CountBefore(LessPairs, entry.ids, a) = Cardinality({j \in J : events[j].id < a})
              /\ CountUpTo(LessPairs, entry.ids, a) = Cardinality({j \in J : ~(a < events[j].id)})
    BY <2>5 DEF Enumerates, J
  <2>7. /\ \A e \in mine : entry.first <= e.at /\ e.at <= entry.last
        /\ \E e \in mine : e.at = entry.first
        /\ \E e \in mine : e.at = entry.last
        /\ {events[j].system : j \in J} = {e.system : e \in mine}
    BY <2>1, <2>5
  <2>8. ASSUME NEW a \in Int
        PROVE  /\ Cardinality({e \in mine : e.id < a}) = Cardinality({j \in J : events[j].id < a})
               /\ Cardinality({e \in mine : ~(a < e.id)}) =
                     Cardinality({j \in J : ~(a < events[j].id)})
    <3> DEFINE below == {j \in J : events[j].id < a}
               upTo == {j \in J : ~(a < events[j].id)}
    <3>1. /\ {e \in mine : e.id < a} = {events[j] : j \in below}
          /\ {e \in mine : ~(a < e.id)} = {events[j] : j \in upTo}
      BY <2>1
    <3>2. below \subseteq 1 .. Len(events) /\ upTo \subseteq 1 .. Len(events)
      BY <2>2 DEF n
    <3> HIDE DEF below, upTo
    <3>3. /\ Cardinality({events[j] : j \in below}) = Cardinality(below)
          /\ Cardinality({events[j] : j \in upTo}) = Cardinality(upTo)
      BY <3>2, CountPlaces
    <3> QED BY <3>1, <3>3 DEF below, upTo
  <2>9. \A a \in Int :
           /\ CountBefore(LessPairs, entry.ids, a) = Cardinality({e \in mine : e.id < a})
           /\ CountUpTo(LessPairs, entry.ids, a) = Cardinality({e \in mine : ~(a < e.id)})
    BY <2>6, <2>8
  <2>10. GathersAll(ToSet(events), x, entry)
    BY <2>4, <2>5, <2>6, <2>7, <2>9 DEF GathersAll, mine
  <2> QED BY <2>10 DEF entry
<1> QED BY <1>4, <1>5 DEF entries

\* The commitments do not depend on the order in which silver was listed.
LEMMA LedgersAlike ==
    ASSUME NEW S, \A e \in S : e.at \in Int /\ e.id \in Int,
           NEW s \in Seq(S), NEW t \in Seq(S), Distinct(s), Distinct(t), ToSet(s) = ToSet(t)
    PROVE  Ledger!LedgerRows(s) = Ledger!LedgerRows(t)
<1> DEFINE all == ToSet(s)
           x == Ledger!Curated(s)
           y == Ledger!Curated(t)
           row(z, h) == [hash |-> h, count |-> z[h].count, first |-> z[h].first,
                         last |-> z[h].last, systems |-> z[h].systems,
                         ids |-> Ledger!StableSort(z[h].ids, <)]
<1>1. DOMAIN x = {e.hash : e \in all} /\ \A h \in DOMAIN x : GathersAll(all, h, x[h])
  BY LedgerGathers
<1>2. DOMAIN y = {e.hash : e \in all} /\ \A h \in DOMAIN y : GathersAll(all, h, y[h])
  <2>1. DOMAIN y = {e.hash : e \in ToSet(t)} /\ \A h \in DOMAIN y : GathersAll(ToSet(t), h, y[h])
    BY LedgerGathers
  <2> QED BY <2>1
<1>3. /\ Ledger!LedgerRows(s) = {row(x, h) : h \in DOMAIN x}
      /\ Ledger!LedgerRows(t) = {row(y, h) : h \in DOMAIN y}
  BY Zenon DEF Ledger!LedgerRows
<1> HIDE DEF x, y, all
<1>4. ASSUME NEW h \in DOMAIN x PROVE row(x, h) = row(y, h)
  <2> DEFINE a == x[h]
             b == y[h]
             mine == {e \in all : e.hash = h}
  <2>1. GathersAll(all, h, a) /\ GathersAll(all, h, b)
    BY <1>1, <1>2
  <2> HIDE DEF a, b
  <2>2. a.count = b.count /\ a.systems = b.systems
    BY <2>1 DEF GathersAll
  <2>3. a.first = b.first /\ a.last = b.last
    <3>1. /\ a.first \in Int /\ b.first \in Int /\ a.last \in Int /\ b.last \in Int
          /\ \A e \in mine : a.first <= e.at /\ e.at <= a.last /\ b.first <= e.at /\ e.at <= b.last
          /\ \E e \in mine : e.at = a.first
          /\ \E e \in mine : e.at = b.first
          /\ \E e \in mine : e.at = a.last
          /\ \E e \in mine : e.at = b.last
      BY <2>1 DEF GathersAll
    <3> HIDE DEF mine
    <3>2. a.first <= b.first /\ b.first <= a.first /\ a.last <= b.last /\ b.last <= a.last
      BY <3>1
    <3> QED BY <3>1, <3>2
  <2>4. Ledger!StableSort(a.ids, <) = Ledger!StableSort(b.ids, <)
    <3>1. /\ a.ids \in Seq(Int) /\ b.ids \in Seq(Int) /\ Len(a.ids) = Len(b.ids)
          /\ \A c \in Int : /\ CountBefore(LessPairs, a.ids, c) = CountBefore(LessPairs, b.ids, c)
                            /\ CountUpTo(LessPairs, a.ids, c) = CountUpTo(LessPairs, b.ids, c)
      BY <2>1 DEF GathersAll
    <3> QED BY <3>1, IdsAlike
  <2> QED BY <2>2, <2>3, <2>4 DEF a, b
<1> HIDE DEF row
<1> QED BY <1>1, <1>2, <1>3, <1>4

-----------------------------------------------------------------------------
(* Geofence summaries. *)

\* The loop sights row by row.
LEMMA SightingsSteps ==
    ASSUME NEW inside, NEW events, Len(events) \in Nat
    PROVE  \E h : /\ h[0] = <<>>
                  /\ \A i \in 1 .. Len(events) : h[i] = Fence!Sight(inside, h[i - 1], events[i])
                  /\ Fence!Sightings(inside, events) = h[Len(events)]
<1> DEFINE n == Len(events)
           Turn(v, i) == Fence!Sight(inside, v, events[i])
           Defines(f, m) == f = [i \in 0 .. m |-> IF i = 0 THEN <<>> ELSE Turn(f[i - 1], i)]
           T == {m \in 0 .. n : \E f : Defines(f, m)}
<1> HIDE DEF n, Turn
<1>1. n \in Nat
  BY DEF n
<1>2. 0 \in T
  <2>1. Defines([i \in 0 .. 0 |-> <<>>], 0)
    OBVIOUS
  <2> HIDE DEF Defines
  <2> QED BY <1>1, <2>1
<1>3. ASSUME NEW m \in 1 .. n, m - 1 \in T PROVE m \in T
  <2>1. PICK f : Defines(f, m - 1)
    BY <1>3
  <2> DEFINE g == [i \in 0 .. m |-> IF i = m THEN Turn(f[m - 1], m) ELSE f[i]]
  <2>2. \A i \in 0 .. m - 1 : f[i] = IF i = 0 THEN <<>> ELSE Turn(f[i - 1], i)
    BY <2>1, Zenon
  <2>3. \A i \in 0 .. m : g[i] = IF i = 0 THEN <<>> ELSE Turn(g[i - 1], i)
    <3> SUFFICES ASSUME NEW i \in 0 .. m PROVE g[i] = IF i = 0 THEN <<>> ELSE Turn(g[i - 1], i)
      OBVIOUS
    <3>1. CASE i = 0
      BY <2>2, <3>1
    <3>2. CASE i \in 1 .. m - 1
      <4>1. i - 1 \in 0 .. m - 1 /\ i \in 0 .. m - 1 /\ i # 0
        BY <3>2
      <4>2. g[i] = f[i] /\ g[i - 1] = f[i - 1]
        BY <4>1
      <4> QED BY <2>2, <4>1, <4>2
    <3>3. CASE i = m
      <4>1. g[m] = Turn(f[m - 1], m) /\ g[m - 1] = f[m - 1] /\ m # 0
        OBVIOUS
      <4> QED BY <3>3, <4>1
    <3> QED BY <3>1, <3>2, <3>3
  <2>4. Defines(g, m)
    BY <2>3, Zenon
  <2> HIDE DEF Defines, g
  <2> QED BY <2>4
<1>4. n \in T
  <2> HIDE DEF T
  <2>1. \A i \in 0 .. n : i \in T
    BY <1>1, <1>2, <1>3, UpTo
  <2> QED BY <1>1, <2>1
<1> DEFINE h == CHOOSE f : Defines(f, n)
<1>5. Defines(h, n)
  <2>1. \E f : Defines(f, n)
    BY <1>4
  <2> HIDE DEF Defines
  <2> QED BY <2>1
<1>6. Fence!Sightings(inside, events) = h[n]
  BY DEF Fence!Sightings, n, Turn
<1> HIDE DEF h
<1>7. h[0] = <<>> /\ \A i \in 1 .. n : h[i] = Turn(h[i - 1], i)
  <2>1. \A i \in 0 .. n : h[i] = IF i = 0 THEN <<>> ELSE Turn(h[i - 1], i)
    BY <1>5, Zenon
  <2> HIDE DEF Defines
  <2> QED BY <1>1, <2>1
<1> QED BY <1>6, <1>7 DEF n, Turn

\* The geofences and vessels of a row.
SightKeys(inside, e) == {<<f, e.vessel>> : f \in inside[e.position]}

\* The rows among the first i that are seen in this geofence.
SeenIn(inside, events, i, k) == {j \in 1 .. i : k \in SightKeys(inside, events[j])}

\* What a sighting tells of the first i rows.
Tells(inside, events, i, k, s) ==
    /\ s = [count |-> s.count, first |-> s.first, last |-> s.last,
            firstId |-> s.firstId, lastId |-> s.lastId]
    /\ s.count = Cardinality(SeenIn(inside, events, i, k))
    /\ s.first \in Int /\ s.last \in Int
    /\ \A j \in SeenIn(inside, events, i, k) : s.first <= events[j].at /\ events[j].at <= s.last
    /\ \E j \in SeenIn(inside, events, i, k) : events[j].at = s.first /\ events[j].id = s.firstId
    /\ \E j \in SeenIn(inside, events, i, k) : events[j].at = s.last /\ events[j].id = s.lastId

Told(inside, events, i, entries) ==
    /\ DOMAIN entries = UNION {SightKeys(inside, events[j]) : j \in 1 .. i}
    /\ \A k \in DOMAIN entries : Tells(inside, events, i, k, entries[k])

\* One turn of the loop tells of one row more.
LEMMA SightTells ==
    ASSUME NEW inside, NEW events, NEW i \in Nat \ {0}, NEW entries,
           Told(inside, events, i - 1, entries), \A j \in 1 .. i : events[j].at \in Int
    PROVE  Told(inside, events, i, Fence!Sight(inside, entries, events[i]))
<1> DEFINE e == events[i]
           keys == SightKeys(inside, e)
           next == Fence!Sight(inside, entries, e)
<1>1. 1 .. i = (1 .. (i - 1)) \cup {i} /\ i \notin 1 .. (i - 1) /\ e.at \in Int
  OBVIOUS
<1>2. /\ DOMAIN entries = UNION {SightKeys(inside, events[j]) : j \in 1 .. i - 1}
      /\ \A k \in DOMAIN entries : Tells(inside, events, i - 1, k, entries[k])
  BY DEF Told
<1>3. /\ DOMAIN next = DOMAIN entries \cup keys
      /\ \A k \in DOMAIN next : next[k] = IF k \notin keys THEN entries[k]
                                         ELSE IF k \notin DOMAIN entries THEN Fence!NewSighting(e)
                                         ELSE Fence!Sighted(entries[k], e)
  BY DEF Fence!Sight, SightKeys
<1> HIDE DEF next, e
<1>4. DOMAIN next = UNION {SightKeys(inside, events[j]) : j \in 1 .. i}
  BY <1>1, <1>2, <1>3 DEF e
<1>5. ASSUME NEW k \in DOMAIN next PROVE Tells(inside, events, i, k, next[k])
  <2> DEFINE K == SeenIn(inside, events, i - 1, k)
             J == SeenIn(inside, events, i, k)
             s == next[k]
             old == entries[k]
  <2>1. J = IF k \in keys THEN K \cup {i} ELSE K
    BY <1>1 DEF SeenIn, e
  <2>2. i \notin K /\ K \in SUBSET (1 .. (i - 1)) /\ \A j \in K : events[j].at \in Int
    BY <1>1 DEF SeenIn
  <2>3. IsFiniteSet(K)
    <3>1. IsFiniteSet(1 .. (i - 1))
      BY FS_Interval
    <3> HIDE DEF K
    <3> QED BY <2>2, <3>1, FS_Subset
  <2>4. k \in DOMAIN entries => Tells(inside, events, i - 1, k, old)
    BY <1>2
  <2>5. CASE k \notin keys
    <3>1. s = old /\ J = K /\ k \in DOMAIN entries
      BY <1>3, <2>1, <2>5
    <3> QED BY <2>4, <3>1 DEF Tells
  <2>6. CASE k \in keys /\ k \notin DOMAIN entries
    <3>1. s = Fence!NewSighting(e)
      BY <1>3, <2>6
    <3>2. K = {}
      BY <1>2, <2>6 DEF SeenIn
    <3>3. J = {i} /\ Cardinality(J) = 1
      <4>1. J = {i}
        BY <2>1, <2>6, <3>2
      <4> HIDE DEF J
      <4> QED BY <4>1, FS_Singleton
    <3>4. /\ s.count = 1 /\ s.first = e.at /\ s.last = e.at
          /\ s.firstId = e.id /\ s.lastId = e.id
          /\ s = [count |-> s.count, first |-> s.first, last |-> s.last,
                  firstId |-> s.firstId, lastId |-> s.lastId]
      BY <3>1 DEF Fence!NewSighting
    <3> HIDE DEF J, K, s
    <3>5. Tells(inside, events, i, k, s)
      BY <1>1, <3>3, <3>4 DEF Tells, J, e
    <3> QED BY <3>5 DEF s
  <2>7. CASE k \in keys /\ k \in DOMAIN entries
    <3>1. s = Fence!Sighted(old, e)
      BY <1>3, <2>7
    <3>2. J = K \cup {i}
      BY <2>1, <2>7
    <3> HIDE DEF J, s, old, K
    <3>3. /\ old.count = Cardinality(K)
          /\ old.first \in Int /\ old.last \in Int
          /\ \A j \in K : old.first <= events[j].at /\ events[j].at <= old.last
          /\ \E j \in K : events[j].at = old.first /\ events[j].id = old.firstId
          /\ \E j \in K : events[j].at = old.last /\ events[j].id = old.lastId
      BY <2>4, <2>7 DEF Tells, K
    <3>4. Cardinality(J) = old.count + 1
      BY <2>2, <2>3, <3>2, <3>3, FS_AddElement
    <3>5. /\ s.count = old.count + 1
          /\ s.first = IF e.at < old.first THEN e.at ELSE old.first
          /\ s.firstId = IF e.at < old.first THEN e.id ELSE old.firstId
          /\ s.last = IF e.at > old.last THEN e.at ELSE old.last
          /\ s.lastId = IF e.at > old.last THEN e.id ELSE old.lastId
          /\ s = [count |-> s.count, first |-> s.first, last |-> s.last,
                  firstId |-> s.firstId, lastId |-> s.lastId]
      BY <3>1 DEF Fence!Sighted
    <3>6. /\ s.first \in Int /\ s.last \in Int
          /\ \A j \in J : s.first <= events[j].at /\ events[j].at <= s.last
      BY <1>1, <2>2, <3>2, <3>3, <3>5 DEF e
    <3>7. \E j \in J : events[j].at = s.first /\ events[j].id = s.firstId
      BY <3>2, <3>3, <3>5 DEF e
    <3>8. \E j \in J : events[j].at = s.last /\ events[j].id = s.lastId
      BY <3>2, <3>3, <3>5 DEF e
    <3>9. Tells(inside, events, i, k, s)
      BY <3>4, <3>5, <3>6, <3>7, <3>8 DEF Tells, J
    <3> QED BY <3>9 DEF s
  <2> QED BY <2>5, <2>6, <2>7
<1> QED BY <1>4, <1>5 DEF Told, next, e

\* What the loop tells of all rows.
LEMMA SightingsTell ==
    ASSUME NEW inside, NEW events, Len(events) \in Nat,
           \A j \in 1 .. Len(events) : events[j].at \in Int
    PROVE  Told(inside, events, Len(events), Fence!Sightings(inside, events))
<1> DEFINE n == Len(events)
<1>1. PICK h : /\ h[0] = <<>>
               /\ \A i \in 1 .. n : h[i] = Fence!Sight(inside, h[i - 1], events[i])
               /\ Fence!Sightings(inside, events) = h[n]
  BY SightingsSteps
<1> DEFINE T == {i \in 0 .. n : Told(inside, events, i, h[i])}
<1> HIDE DEF n
<1>2. 0 \in T
  <2>1. Told(inside, events, 0, <<>>)
    BY DEF Told
  <2> QED BY <1>1, <2>1 DEF n
<1>3. ASSUME NEW i \in 1 .. n, i - 1 \in T PROVE i \in T
  <2>1. Told(inside, events, i - 1, h[i - 1]) /\ i \in Nat \ {0} /\ i \in 0 .. n
    BY <1>3 DEF n
  <2>2. \A j \in 1 .. i : events[j].at \in Int
    BY DEF n
  <2>3. Told(inside, events, i, h[i])
    BY <1>1, <2>1, <2>2, SightTells
  <2> QED BY <2>1, <2>3
<1>4. n \in T
  <2> HIDE DEF T
  <2>1. \A i \in 0 .. n : i \in T
    BY <1>2, <1>3, UpTo DEF n
  <2> QED BY <2>1 DEF n
<1> QED BY <1>1, <1>4 DEF n

\* The summaries account for the observations, in whatever order they are
\* listed.
LEMMA FenceBounds ==
    ASSUME NEW S, NEW events \in Seq(S), \A e \in S : e.at \in Int, Distinct(events),
           NEW inside, NEW all, Fence!ToSet(all) = ToSet(events)
    PROVE  Fence!Bounds(inside, all, Fence!SummaryRows(inside, events))
<1> DEFINE n == Len(events)
           entries == Fence!Sightings(inside, events)
           row(k) == [fence |-> k[1], vessel |-> k[2], seen |-> entries[k]]
<1>1. n \in Nat /\ DOMAIN events = 1 .. n /\ \A j \in 1 .. n : events[j] \in S
  OBVIOUS
<1>2. Told(inside, events, n, entries)
  BY <1>1, SightingsTell
<1>3. ToSet(events) = {events[j] : j \in 1 .. n}
  BY <1>1 DEF ToSet
<1>4. Fence!SummaryRows(inside, events) = {row(k) : k \in DOMAIN entries}
  BY Zenon DEF Fence!SummaryRows
<1> HIDE DEF n, entries
<1>5. DOMAIN entries = UNION {SightKeys(inside, e) : e \in ToSet(events)}
  BY <1>2, <1>3 DEF Told
<1>6. ASSUME NEW k \in DOMAIN entries PROVE k = <<k[1], k[2]>>
  BY <1>5 DEF SightKeys
<1>7. \A k : row(k).fence = k[1] /\ row(k).vessel = k[2] /\ row(k).seen = entries[k]
  OBVIOUS
<1> HIDE DEF row
<1>8. {<<r.fence, r.vessel>> : r \in {row(k) : k \in DOMAIN entries}} = DOMAIN entries
  <2>1. ASSUME NEW k \in DOMAIN entries PROVE <<row(k).fence, row(k).vessel>> = k
    <3>1. k = <<k[1], k[2]>>
      BY <1>6
    <3> QED BY <1>7, <3>1, Zenon
  <2> QED BY <2>1
<1> DEFINE Right(r) ==
               LET mine == {e \in ToSet(events) :
                              e.vessel = r.vessel /\ r.fence \in inside[e.position]} IN
               /\ r.seen.count = Cardinality(mine)
               /\ \A e \in mine : r.seen.first <= e.at /\ e.at <= r.seen.last
               /\ \E e \in mine : e.at = r.seen.first /\ e.id = r.seen.firstId
               /\ \E e \in mine : e.at = r.seen.last /\ e.id = r.seen.lastId
<1>9. ASSUME NEW k \in DOMAIN entries PROVE Right(row(k))
  <2> DEFINE J == SeenIn(inside, events, n, k)
             mine == {e \in ToSet(events) : e.vessel = k[2] /\ k[1] \in inside[e.position]}
  <2>1. \A e : k \in SightKeys(inside, e) <=> e.vessel = k[2] /\ k[1] \in inside[e.position]
    BY <1>6 DEF SightKeys
  <2>2. mine = {events[j] : j \in J}
    BY <1>3, <2>1 DEF SeenIn
  <2>3. J \subseteq 1 .. n
    BY DEF SeenIn
  <2>4. Tells(inside, events, n, k, entries[k])
    BY <1>2 DEF Told
  <2> HIDE DEF J, mine
  <2>5. Cardinality(mine) = Cardinality(J)
    BY <2>2, <2>3, CountPlaces DEF n
  <2>6. /\ entries[k].count = Cardinality(J)
        /\ \A j \in J : entries[k].first <= events[j].at /\ events[j].at <= entries[k].last
        /\ \E j \in J : events[j].at = entries[k].first /\ events[j].id = entries[k].firstId
        /\ \E j \in J : events[j].at = entries[k].last /\ events[j].id = entries[k].lastId
    BY <2>4 DEF Tells, J
  <2>7. /\ entries[k].count = Cardinality(mine)
        /\ \A e \in mine : entries[k].first <= e.at /\ e.at <= entries[k].last
        /\ \E e \in mine : e.at = entries[k].first /\ e.id = entries[k].firstId
        /\ \E e \in mine : e.at = entries[k].last /\ e.id = entries[k].lastId
    BY <2>2, <2>5, <2>6
  <2> QED BY <1>7, <2>7 DEF mine
<1>10. \A M : Fence!Cardinality(M) = Cardinality(M)
  BY DEF Fence!Cardinality, Cardinality
<1>11. {<<r.fence, r.vessel>> : r \in Fence!SummaryRows(inside, events)} =
          UNION {{<<f, e.vessel>> : f \in inside[e.position]} : e \in Fence!ToSet(all)}
  BY <1>4, <1>5, <1>8 DEF SightKeys
<1>12. \A r \in Fence!SummaryRows(inside, events) : Right(r)
  <2> HIDE DEF Right
  <2> QED BY <1>4, <1>9
<1> QED BY <1>10, <1>11, <1>12 DEF Fence!Bounds

\* What the sightings tell of a set of observations, however it was listed.
SeenBy(inside, all, k) == {e \in all : k \in SightKeys(inside, e)}

TellsAll(inside, all, k, s) ==
    /\ s = [count |-> s.count, first |-> s.first, last |-> s.last,
            firstId |-> s.firstId, lastId |-> s.lastId]
    /\ s.count = Cardinality(SeenBy(inside, all, k))
    /\ s.first \in Int /\ s.last \in Int
    /\ \A e \in SeenBy(inside, all, k) : s.first <= e.at /\ e.at <= s.last
    /\ \E e \in SeenBy(inside, all, k) : e.at = s.first /\ e.id = s.firstId
    /\ \E e \in SeenBy(inside, all, k) : e.at = s.last /\ e.id = s.lastId

LEMMA FenceTells ==
    ASSUME NEW S, NEW events \in Seq(S), \A e \in S : e.at \in Int, Distinct(events), NEW inside
    PROVE  LET entries == Fence!Sightings(inside, events) IN
           /\ DOMAIN entries = UNION {SightKeys(inside, e) : e \in ToSet(events)}
           /\ \A k \in DOMAIN entries : TellsAll(inside, ToSet(events), k, entries[k])
<1> DEFINE n == Len(events)
           entries == Fence!Sightings(inside, events)
<1>1. n \in Nat /\ DOMAIN events = 1 .. n /\ \A j \in 1 .. n : events[j] \in S
  OBVIOUS
<1>2. Told(inside, events, n, entries)
  BY <1>1, SightingsTell
<1>3. ToSet(events) = {events[j] : j \in 1 .. n}
  BY <1>1 DEF ToSet
<1> HIDE DEF n, entries
<1>4. DOMAIN entries = UNION {SightKeys(inside, e) : e \in ToSet(events)}
  BY <1>2, <1>3 DEF Told
<1>5. ASSUME NEW k \in DOMAIN entries PROVE TellsAll(inside, ToSet(events), k, entries[k])
  <2> DEFINE J == SeenIn(inside, events, n, k)
             mine == SeenBy(inside, ToSet(events), k)
             s == entries[k]
  <2>1. mine = {events[j] : j \in J}
    BY <1>3 DEF SeenIn, SeenBy
  <2>2. J \subseteq 1 .. n
    BY DEF SeenIn
  <2>3. Tells(inside, events, n, k, s)
    BY <1>2 DEF Told
  <2> HIDE DEF J, mine, s
  <2>4. Cardinality(mine) = Cardinality(J)
    BY <2>1, <2>2, CountPlaces DEF n
  <2>5. /\ s = [count |-> s.count, first |-> s.first, last |-> s.last,
                firstId |-> s.firstId, lastId |-> s.lastId]
        /\ s.count = Cardinality(J) /\ s.first \in Int /\ s.last \in Int
        /\ \A j \in J : s.first <= events[j].at /\ events[j].at <= s.last
        /\ \E j \in J : events[j].at = s.first /\ events[j].id = s.firstId
        /\ \E j \in J : events[j].at = s.last /\ events[j].id = s.lastId
    BY <2>3 DEF Tells, J
  <2>6. /\ \A e \in mine : s.first <= e.at /\ e.at <= s.last
        /\ \E e \in mine : e.at = s.first /\ e.id = s.firstId
        /\ \E e \in mine : e.at = s.last /\ e.id = s.lastId
    BY <2>1, <2>5
  <2>7. TellsAll(inside, ToSet(events), k, s)
    BY <2>4, <2>5, <2>6 DEF TellsAll, mine
  <2> QED BY <2>7 DEF s
<1> QED BY <1>4, <1>5 DEF entries

\* Unless a vessel was observed twice at one instant, the summaries do not
\* depend on the order in which bronze was listed.
LEMMA FencesAlike ==
    ASSUME NEW S, \A e \in S : e.at \in Int,
           NEW s \in Seq(S), NEW t \in Seq(S), Distinct(s), Distinct(t), ToSet(s) = ToSet(t),
           \A e, f \in ToSet(s) : e.vessel = f.vessel /\ e.at = f.at => e.id = f.id,
           NEW inside
    PROVE  Fence!SummaryRows(inside, s) = Fence!SummaryRows(inside, t)
<1> DEFINE all == ToSet(s)
           x == Fence!Sightings(inside, s)
           y == Fence!Sightings(inside, t)
           row(z, k) == [fence |-> k[1], vessel |-> k[2], seen |-> z[k]]
<1>1. /\ DOMAIN x = UNION {SightKeys(inside, e) : e \in all}
      /\ \A k \in DOMAIN x : TellsAll(inside, all, k, x[k])
  BY FenceTells
<1>2. /\ DOMAIN y = UNION {SightKeys(inside, e) : e \in all}
      /\ \A k \in DOMAIN y : TellsAll(inside, all, k, y[k])
  <2>1. /\ DOMAIN y = UNION {SightKeys(inside, e) : e \in ToSet(t)}
        /\ \A k \in DOMAIN y : TellsAll(inside, ToSet(t), k, y[k])
    BY FenceTells
  <2> QED BY <2>1
<1>3. /\ Fence!SummaryRows(inside, s) = {row(x, k) : k \in DOMAIN x}
      /\ Fence!SummaryRows(inside, t) = {row(y, k) : k \in DOMAIN y}
  BY Zenon DEF Fence!SummaryRows
<1>4. \A e \in all : e.at \in Int
  BY DEF ToSet
<1>5. \A e, f \in all : e.vessel = f.vessel /\ e.at = f.at => e.id = f.id
  OBVIOUS
<1> HIDE DEF x, y, all
<1>6. ASSUME NEW k \in DOMAIN x PROVE x[k] = y[k]
  <2> DEFINE mine == SeenBy(inside, all, k)
             a == x[k]
             b == y[k]
  <2>1. TellsAll(inside, all, k, a) /\ TellsAll(inside, all, k, b)
    BY <1>1, <1>2
  <2>2. \A e, f \in mine : e.vessel = f.vessel
    BY DEF SeenBy, SightKeys
  <2>3. \A e \in mine : e \in all
    BY DEF SeenBy
  <2> HIDE DEF mine, a, b
  <2>4. a.count = b.count
    BY <2>1 DEF TellsAll
  <2>5. /\ a.first \in Int /\ a.last \in Int /\ b.first \in Int /\ b.last \in Int
        /\ \A e \in mine : a.first <= e.at /\ e.at <= a.last /\ b.first <= e.at /\ e.at <= b.last
    BY <2>1 DEF TellsAll, mine
  <2>6. PICK e \in mine : e.at = a.first /\ e.id = a.firstId
    BY <2>1 DEF TellsAll, mine
  <2>7. PICK f \in mine : f.at = b.first /\ f.id = b.firstId
    BY <2>1 DEF TellsAll, mine
  <2>8. PICK g \in mine : g.at = a.last /\ g.id = a.lastId
    BY <2>1 DEF TellsAll, mine
  <2>9. PICK h \in mine : h.at = b.last /\ h.id = b.lastId
    BY <2>1 DEF TellsAll, mine
  <2>10. a.first = b.first /\ a.last = b.last
    <3>1. a.first <= b.first /\ b.first <= a.first /\ a.last <= b.last /\ b.last <= a.last
      BY <2>5, <2>6, <2>7, <2>8, <2>9
    <3> QED BY <2>5, <3>1
  <2>11. a.firstId = b.firstId /\ a.lastId = b.lastId
    BY <1>5, <2>2, <2>3, <2>6, <2>7, <2>8, <2>9, <2>10
  <2>12. /\ a = [count |-> a.count, first |-> a.first, last |-> a.last,
                 firstId |-> a.firstId, lastId |-> a.lastId]
         /\ b = [count |-> b.count, first |-> b.first, last |-> b.last,
                 firstId |-> b.firstId, lastId |-> b.lastId]
    BY <2>1 DEF TellsAll
  <2>13. a = b
    BY <2>4, <2>10, <2>11, <2>12
  <2> QED BY <2>13 DEF a, b
<1>7. \A k \in DOMAIN x : row(x, k) = row(y, k)
  BY <1>6
<1> HIDE DEF row
<1> QED BY <1>1, <1>2, <1>3, <1>7

-----------------------------------------------------------------------------
(* The latest event of each key. *)

\* The values of the loop: it looks at each chosen event.
LatestLoop(events, chosen, key, h) ==
    /\ h[0] = <<>>
    /\ \A i \in 1 .. Len(events) :
          h[i] = (IF i \in chosen THEN Order!KeepLatest(h[i - 1], key[i], events[i]) ELSE h[i - 1])
    /\ Order!LatestPerKey(events, chosen, key) = h[Len(events)]

LEMMA LatestSteps ==
    ASSUME NEW events, NEW chosen, NEW key, Len(events) \in Nat
    PROVE  \E h : LatestLoop(events, chosen, key, h)
<1> DEFINE n == Len(events)
           Turn(v, i) == (IF i \in chosen THEN Order!KeepLatest(v, key[i], events[i]) ELSE v)
           Defines(f, m) == f = [i \in 0 .. m |-> IF i = 0 THEN <<>> ELSE Turn(f[i - 1], i)]
           T == {m \in 0 .. n : \E f : Defines(f, m)}
<1> HIDE DEF n, Turn
<1>1. n \in Nat
  BY DEF n
<1>2. 0 \in T
  <2>1. Defines([i \in 0 .. 0 |-> <<>>], 0)
    OBVIOUS
  <2> HIDE DEF Defines
  <2> QED BY <1>1, <2>1
<1>3. ASSUME NEW m \in 1 .. n, m - 1 \in T PROVE m \in T
  <2>1. PICK f : Defines(f, m - 1)
    BY <1>3
  <2> DEFINE g == [i \in 0 .. m |-> IF i = m THEN Turn(f[m - 1], m) ELSE f[i]]
  <2>2. \A i \in 0 .. m - 1 : f[i] = IF i = 0 THEN <<>> ELSE Turn(f[i - 1], i)
    BY <2>1, Zenon
  <2>3. \A i \in 0 .. m : g[i] = IF i = 0 THEN <<>> ELSE Turn(g[i - 1], i)
    <3> SUFFICES ASSUME NEW i \in 0 .. m PROVE g[i] = IF i = 0 THEN <<>> ELSE Turn(g[i - 1], i)
      OBVIOUS
    <3>1. CASE i = 0
      BY <2>2, <3>1
    <3>2. CASE i \in 1 .. m - 1
      <4>1. i - 1 \in 0 .. m - 1 /\ i \in 0 .. m - 1 /\ i # 0
        BY <3>2
      <4>2. g[i] = f[i] /\ g[i - 1] = f[i - 1]
        BY <4>1
      <4> QED BY <2>2, <4>1, <4>2
    <3>3. CASE i = m
      <4>1. g[m] = Turn(f[m - 1], m) /\ g[m - 1] = f[m - 1] /\ m # 0
        OBVIOUS
      <4> QED BY <3>3, <4>1
    <3> QED BY <3>1, <3>2, <3>3
  <2>4. Defines(g, m)
    BY <2>3, Zenon
  <2> HIDE DEF Defines, g
  <2> QED BY <2>4
<1>4. n \in T
  <2> HIDE DEF T
  <2>1. \A i \in 0 .. n : i \in T
    BY <1>1, <1>2, <1>3, UpTo
  <2> QED BY <1>1, <2>1
<1> DEFINE h == CHOOSE f : Defines(f, n)
<1>5. Defines(h, n)
  <2>1. \E f : Defines(f, n)
    BY <1>4
  <2> HIDE DEF Defines
  <2> QED BY <2>1
<1>6. Order!LatestPerKey(events, chosen, key) = h[n]
  BY DEF Order!LatestPerKey, n, Turn
<1> HIDE DEF h
<1>7. h[0] = <<>> /\ \A i \in 1 .. n : h[i] = Turn(h[i - 1], i)
  <2>1. \A i \in 0 .. n : h[i] = IF i = 0 THEN <<>> ELSE Turn(h[i - 1], i)
    BY <1>5, Zenon
  <2> HIDE DEF Defines
  <2> QED BY <1>1, <2>1
<1>8. LatestLoop(events, chosen, key, h)
  BY <1>6, <1>7 DEF LatestLoop, n, Turn
<1> QED BY <1>8

\* The chosen places with this key.
OfKey(chosen, key, i, k) == {j \in chosen \cap (1 .. i) : key[j] = k}

\* The entry is one of these events, and none of them is later.
IsLatest(events, places, entry) ==
    /\ \E j \in places : entry = events[j]
    /\ \A j \in places : ~Order!Later(events[j], entry)

\* What the loop knows after the first i events.
Knows(events, chosen, key, i, entries) ==
    /\ DOMAIN entries = {key[j] : j \in chosen \cap (1 .. i)}
    /\ \A k \in DOMAIN entries : IsLatest(events, OfKey(chosen, key, i, k), entries[k])

\* Events are later than one another in a total order of instants and ids.
LEMMA LaterOrder ==
    ASSUME NEW e, NEW f, NEW g, e.at \in Int, e.id \in Int, f.at \in Int, f.id \in Int,
           g.at \in Int, g.id \in Int
    PROVE  /\ ~Order!Later(e, e)
           /\ Order!Later(e, f) /\ ~Order!Later(g, f) => ~Order!Later(g, e)
           /\ ~Order!Later(e, f) /\ ~Order!Later(f, e) => e.id = f.id
BY DEF Order!Later

\* One turn of the loop.
Turned(events, chosen, key, i, entries) ==
    IF i \in chosen THEN Order!KeepLatest(entries, key[i], events[i]) ELSE entries

LEMMA KeepKnows ==
    ASSUME NEW events, NEW chosen, NEW key, NEW i \in Nat \ {0}, NEW entries,
           Knows(events, chosen, key, i - 1, entries),
           \A j \in 1 .. i : events[j].at \in Int /\ events[j].id \in Int
    PROVE  Knows(events, chosen, key, i, Turned(events, chosen, key, i, entries))
<1> DEFINE e == events[i]
<1>1. 1 .. i = (1 .. (i - 1)) \cup {i} /\ i \notin 1 .. (i - 1)
  OBVIOUS
<1>2. /\ DOMAIN entries = {key[j] : j \in chosen \cap (1 .. (i - 1))}
      /\ \A k \in DOMAIN entries : IsLatest(events, OfKey(chosen, key, i - 1, k), entries[k])
  BY DEF Knows
<1>3. CASE i \notin chosen
  <2>1. chosen \cap (1 .. i) = chosen \cap (1 .. (i - 1))
    BY <1>1, <1>3
  <2>2. \A k : OfKey(chosen, key, i, k) = OfKey(chosen, key, i - 1, k)
    BY <2>1 DEF OfKey
  <2>3. Knows(events, chosen, key, i, entries)
    BY <1>2, <2>1, <2>2 DEF Knows
  <2> QED BY <1>3, <2>3 DEF Turned
<1>4. CASE i \in chosen
  <2> DEFINE next == Order!KeepLatest(entries, key[i], e)
             K(k) == OfKey(chosen, key, i - 1, k)
             J(k) == OfKey(chosen, key, i, k)
  <2>1. chosen \cap (1 .. i) = (chosen \cap (1 .. (i - 1))) \cup {i}
    BY <1>1, <1>4
  <2>2. \A k : J(k) = IF k = key[i] THEN K(k) \cup {i} ELSE K(k)
    BY <2>1 DEF OfKey
  <2>3. {key[j] : j \in chosen \cap (1 .. i)} = DOMAIN entries \cup {key[i]}
    BY <1>2, <2>1
  <2>4. i \in 1 .. i /\ \A k : \A j \in K(k) : j \in 1 .. i
    BY <1>1 DEF OfKey
  <2>5. key[i] \notin DOMAIN entries => K(key[i]) = {}
    BY <1>2 DEF OfKey
  <2> HIDE DEF K, J
  <2>6. CASE key[i] \in DOMAIN entries /\ ~Order!Later(e, entries[key[i]])
    <3>1. next = entries
      BY <2>6 DEF Order!KeepLatest
    <3>2. ASSUME NEW k \in DOMAIN entries PROVE IsLatest(events, J(k), entries[k])
      <4>1. IsLatest(events, K(k), entries[k])
        BY <1>2 DEF K
      <4> QED BY <2>2, <2>6, <4>1 DEF IsLatest
    <3>3. Knows(events, chosen, key, i, entries)
      BY <2>3, <2>6, <3>2 DEF Knows, J
    <3>4. Turned(events, chosen, key, i, entries) = entries
      BY <1>4, <3>1 DEF Turned
    <3> QED BY <3>3, <3>4
  <2>7. CASE ~(key[i] \in DOMAIN entries /\ ~Order!Later(e, entries[key[i]]))
    <3>1. next = Order!Put(entries, key[i], e)
      BY <2>7 DEF Order!KeepLatest
    <3>2. /\ DOMAIN next = DOMAIN entries \cup {key[i]}
          /\ next[key[i]] = e
          /\ \A k \in DOMAIN entries : k # key[i] => next[k] = entries[k]
      BY <3>1 DEF Order!Put
    <3> HIDE DEF next
    <3>3. ASSUME NEW k \in DOMAIN entries, k # key[i] PROVE IsLatest(events, J(k), next[k])
      BY <1>2, <2>2, <3>2, <3>3 DEF K
    <3>4. IsLatest(events, J(key[i]), e)
      <4>1. J(key[i]) = K(key[i]) \cup {i} /\ e = events[i]
        BY <2>2
      <4>2. ASSUME NEW j \in J(key[i]) PROVE ~Order!Later(events[j], e)
        <5>1. CASE j = i
          BY <2>4, <5>1, LaterOrder
        <5>2. CASE j \in K(key[i])
          <6>1. key[i] \in DOMAIN entries
            BY <2>5, <5>2
          <6>2. IsLatest(events, K(key[i]), entries[key[i]])
            BY <1>2, <6>1 DEF K
          <6>3. PICK l \in K(key[i]) : entries[key[i]] = events[l]
            BY <6>2 DEF IsLatest
          <6>4. Order!Later(e, events[l]) /\ ~Order!Later(events[j], events[l])
            BY <2>7, <5>2, <6>1, <6>2, <6>3 DEF IsLatest
          <6> QED BY <2>4, <5>2, <6>4, LaterOrder
        <5> QED BY <4>1, <5>1, <5>2
      <4> QED BY <4>1, <4>2 DEF IsLatest
    <3>5. Knows(events, chosen, key, i, next)
      BY <2>3, <3>2, <3>3, <3>4 DEF Knows, J
    <3>6. Turned(events, chosen, key, i, entries) = next
      BY <1>4 DEF Turned, next
    <3> QED BY <3>5, <3>6
  <2> QED BY <2>6, <2>7
<1> QED BY <1>3, <1>4

\* An entry for each key, and no chosen event of the key is later.
LatestOf(events, chosen, key, entries) ==
    /\ \A k : k \in DOMAIN entries <=> \E j \in chosen : key[j] = k
    /\ \A k \in DOMAIN entries : IsLatest(events, {j \in chosen : key[j] = k}, entries[k])

\* That is what the loop knows in the end.
LEMMA LatestKnows ==
    ASSUME NEW events, Len(events) \in Nat, NEW chosen \in SUBSET (1 .. Len(events)), NEW key,
           \A j \in 1 .. Len(events) : events[j].at \in Int /\ events[j].id \in Int
    PROVE  LatestOf(events, chosen, key, Order!LatestPerKey(events, chosen, key))
<1> DEFINE n == Len(events)
           Turn(v, i) == Turned(events, chosen, key, i, v)
           entries == Order!LatestPerKey(events, chosen, key)
<1>0. PICK h : LatestLoop(events, chosen, key, h)
  BY LatestSteps
<1>1. /\ h[0] = <<>>
      /\ \A i \in 1 .. n : h[i] = Turn(h[i - 1], i)
      /\ entries = h[n]
  BY <1>0 DEF LatestLoop, n, entries, Turn, Turned
<1> DEFINE T == {i \in 0 .. n : Knows(events, chosen, key, i, h[i])}
<1> HIDE DEF n, entries, Turn
<1>2. 0 \in T
  <2>1. Knows(events, chosen, key, 0, <<>>)
    BY DEF Knows
  <2> QED BY <1>1, <2>1 DEF n
<1>3. ASSUME NEW i \in 1 .. n, i - 1 \in T PROVE i \in T
  <2>1. Knows(events, chosen, key, i - 1, h[i - 1]) /\ i \in Nat \ {0} /\ i \in 0 .. n
    BY <1>3 DEF n
  <2>2. \A j \in 1 .. i : events[j].at \in Int /\ events[j].id \in Int
    BY DEF n
  <2>3. Knows(events, chosen, key, i, Turn(h[i - 1], i))
    <3> DEFINE v == h[i - 1]
    <3>1. Knows(events, chosen, key, i - 1, v)
      BY <2>1
    <3> HIDE DEF T, v
    <3>2. Knows(events, chosen, key, i, Turned(events, chosen, key, i, v))
      BY <2>1, <2>2, <3>1, KeepKnows
    <3> QED BY <3>2 DEF Turn, v
  <2>4. h[i] = Turn(h[i - 1], i)
    BY <1>1
  <2> QED BY <2>1, <2>3, <2>4
<1>4. n \in T
  <2> HIDE DEF T
  <2>1. \A i \in 0 .. n : i \in T
    BY <1>2, <1>3, UpTo DEF n
  <2> QED BY <2>1 DEF n
<1>5. Knows(events, chosen, key, n, entries)
  BY <1>1, <1>4
<1>6. chosen \cap (1 .. n) = chosen
  BY DEF n
<1>7. \A k : OfKey(chosen, key, n, k) = {j \in chosen : key[j] = k}
  BY <1>6 DEF OfKey
<1>8. LatestOf(events, chosen, key, entries)
  BY <1>5, <1>6, <1>7 DEF Knows, LatestOf
<1> QED BY <1>8 DEF entries

\* The same keys, and for each an event with the same id.
EntriesAlike(S, x, y) ==
    /\ DOMAIN x = DOMAIN y
    /\ \A k \in DOMAIN x : x[k] \in S /\ y[k] \in S /\ x[k].id = y[k].id

\* The latest event of each key does not depend on the order in which the
\* chosen events are listed.
LEMMA LatestAlike ==
    ASSUME NEW S, \A e \in S : e.at \in Int /\ e.id \in Int, NEW s \in Seq(S), NEW t \in Seq(S),
           NEW here \in SUBSET (1 .. Len(s)), NEW there \in SUBSET (1 .. Len(t)),
           NEW a, NEW b, {<<a[j], s[j]>> : j \in here} = {<<b[j], t[j]>> : j \in there}
    PROVE  EntriesAlike(S, Order!LatestPerKey(s, here, a), Order!LatestPerKey(t, there, b))
<1> DEFINE x == Order!LatestPerKey(s, here, a)
           y == Order!LatestPerKey(t, there, b)
<1>1. /\ Len(s) \in Nat /\ \A j \in 1 .. Len(s) : s[j] \in S
      /\ Len(t) \in Nat /\ \A j \in 1 .. Len(t) : t[j] \in S
  OBVIOUS
<1>2. LatestOf(s, here, a, x)
  BY <1>1, LatestKnows
<1>3. LatestOf(t, there, b, y)
  BY <1>1, LatestKnows
<1> HIDE DEF x, y
<1>4. /\ \A j \in here : \E l \in there : b[l] = a[j] /\ t[l] = s[j]
      /\ \A l \in there : \E j \in here : a[j] = b[l] /\ s[j] = t[l]
  <2>1. ASSUME NEW j \in here PROVE \E l \in there : b[l] = a[j] /\ t[l] = s[j]
    <3>1. <<a[j], s[j]>> \in {<<b[l], t[l]>> : l \in there}
      OBVIOUS
    <3> QED BY <3>1
  <2>2. ASSUME NEW l \in there PROVE \E j \in here : a[j] = b[l] /\ s[j] = t[l]
    <3>1. <<b[l], t[l]>> \in {<<a[j], s[j]>> : j \in here}
      OBVIOUS
    <3> QED BY <3>1
  <2> QED BY <2>1, <2>2
<1>5. DOMAIN x = DOMAIN y
  <2>1. \A k : k \in DOMAIN x <=> \E j \in here : a[j] = k
    BY <1>2 DEF LatestOf
  <2>2. \A k : k \in DOMAIN y <=> \E j \in there : b[j] = k
    BY <1>3 DEF LatestOf
  <2>3. \A k : k \in DOMAIN x <=> k \in DOMAIN y
    BY <1>4, <2>1, <2>2
  <2> QED BY <2>3
<1>6. ASSUME NEW k \in DOMAIN x PROVE x[k] \in S /\ y[k] \in S /\ x[k].id = y[k].id
  <2>1. IsLatest(s, {j \in here : a[j] = k}, x[k])
    BY <1>2 DEF LatestOf
  <2>2. IsLatest(t, {j \in there : b[j] = k}, y[k])
    BY <1>3, <1>5 DEF LatestOf
  <2>3. PICK j \in here : a[j] = k /\ x[k] = s[j]
    BY <2>1 DEF IsLatest
  <2>4. PICK l \in there : b[l] = k /\ y[k] = t[l]
    BY <2>2 DEF IsLatest
  <2>5. x[k] \in S /\ y[k] \in S
    BY <1>1, <2>3, <2>4
  <2>6. ~Order!Later(x[k], y[k])
    <3>1. PICK m \in there : b[m] = a[j] /\ t[m] = s[j]
      BY <1>4
    <3>2. m \in {i \in there : b[i] = k} /\ t[m] = x[k]
      BY <2>3, <3>1
    <3> QED BY <2>2, <3>2 DEF IsLatest
  <2>7. ~Order!Later(y[k], x[k])
    <3>1. PICK m \in here : a[m] = b[l] /\ s[m] = t[l]
      BY <1>4
    <3>2. m \in {i \in here : a[i] = k} /\ s[m] = y[k]
      BY <2>4, <3>1
    <3> QED BY <2>1, <3>2 DEF IsLatest
  <2> QED BY <2>5, <2>6, <2>7, LaterOrder
<1>7. EntriesAlike(S, x, y)
  BY <1>5, <1>6 DEF EntriesAlike
<1> QED BY <1>7 DEF x, y

-----------------------------------------------------------------------------
(* Events in the order in which they occurred. *)

EarlierPairs(S) == {p \in S \X S : Order!Later(p[2], p[1])}

LEMMA EarlierOrder ==
    ASSUME NEW S, \A e \in S : e.at \in Int /\ e.id \in Int
    PROVE  /\ KeyOrder(EarlierPairs(S), S)
           /\ \A e, f \in S : <<e, f>> \in EarlierPairs(S) <=> Order!Later(f, e)
<1> DEFINE P == EarlierPairs(S)
<1>1. \A e, f \in S : <<e, f>> \in P <=> Order!Later(f, e)
  BY DEF EarlierPairs
<1> HIDE DEF P
<1>2. \A e \in S : ~Order!Later(e, e)
  BY LaterOrder
<1>3. \A e, f, g \in S : Order!Later(f, e) /\ Order!Later(g, f) => Order!Later(g, e)
  BY DEF Order!Later
<1>4. \A e, f, g \in S : Order!Later(f, e) => Order!Later(g, e) \/ Order!Later(f, g)
  BY DEF Order!Later
<1>5. KeyOrder(P, S)
  BY <1>1, <1>2, <1>3, <1>4 DEF KeyOrder
<1> QED BY <1>1, <1>5 DEF P

LEMMA InOrderSorts ==
    ASSUME NEW S, NEW s \in Seq(S), \A e \in S : e.at \in Int /\ e.id \in Int
    PROVE  Order!InOrder(s) = SortedBy(EarlierPairs(S), s)
<1> DEFINE n == Len(s)
           P == EarlierPairs(S)
           R == StableOrder(P, s)
           Before(j, k) == Order!Later(s[k], s[j]) \/ (~Order!Later(s[j], s[k]) /\ j < k)
<1>1. n \in Nat /\ DOMAIN s = 1 .. n /\ \A i \in 1 .. n : s[i] \in S
  OBVIOUS
<1>2. \A j, k \in 1 .. n : <<j, k>> \in R <=> Before(j, k)
  <2>1. \A j, k \in 1 .. n : <<j, k>> \in R <=>
           (<<s[j], s[k]>> \in P \/ (<<s[k], s[j]>> \notin P /\ j < k))
    BY DEF StableOrder
  <2>2. \A j, k \in 1 .. n : <<s[j], s[k]>> \in P <=> Order!Later(s[k], s[j])
    BY <1>1, EarlierOrder
  <2> HIDE DEF P, R, n
  <2> QED BY <2>1, <2>2
<1>3. ASSUME NEW k \in 1 .. n
      PROVE  1 + Cardinality({j \in DOMAIN s : Before(j, k)}) = Rank(R, 1 .. n, k)
  <2> HIDE DEF n, R, Before
  <2>1. {j \in DOMAIN s : Before(j, k)} = {j \in 1 .. n : <<j, k>> \in R}
    BY <1>1, <1>2
  <2> QED BY <2>1 DEF Rank
<1>4. \A i \in 1 .. n :
         (CHOOSE k \in DOMAIN s : 1 + Cardinality({j \in DOMAIN s : Before(j, k)}) = i)
           = RankedAt(R, 1 .. n, i)
  <2> HIDE DEF n, R, Before
  <2> QED BY <1>1, <1>3, Zenon DEF RankedAt
<1>5. Order!InOrder(s) =
         [i \in DOMAIN s |->
            s[CHOOSE k \in DOMAIN s : 1 + Cardinality({j \in DOMAIN s : Before(j, k)}) = i]]
  BY Zenon DEF Order!InOrder, Order!StableSort, Order!Cardinality, Cardinality
<1>6. SortedBy(P, s) = [i \in DOMAIN s |-> s[RankedAt(R, 1 .. n, i)]]
  BY DEF SortedBy
<1> HIDE DEF n, R, Before, P
<1>7. Order!InOrder(s) = SortedBy(P, s)
  BY <1>1, <1>4, <1>5, <1>6
<1> QED BY <1>7 DEF P

\* Sorting keeps the events.
LEMMA InOrderKeeps ==
    ASSUME NEW S, NEW s \in Seq(S), \A e \in S : e.at \in Int /\ e.id \in Int
    PROVE  /\ Order!InOrder(s) \in Seq(S) /\ Len(Order!InOrder(s)) = Len(s)
           /\ ToSet(Order!InOrder(s)) = ToSet(s)
           /\ Distinct(s) => Distinct(Order!InOrder(s))
<1>1. TotalOrder(StableOrder(EarlierPairs(S), s), 1 .. Len(s))
  BY EarlierOrder, StableTotal
<1>2. /\ SortedBy(EarlierPairs(S), s) \in Seq(S) /\ Len(SortedBy(EarlierPairs(S), s)) = Len(s)
      /\ ToSet(SortedBy(EarlierPairs(S), s)) = ToSet(s)
      /\ Distinct(s) => Distinct(SortedBy(EarlierPairs(S), s))
  BY <1>1, SortKeeps DEF SortedBy
<1> QED BY <1>2, InOrderSorts

\* The two lists have the same length, and events with the same id at each
\* place.
Alike(s, t) ==
    /\ DOMAIN s = DOMAIN t
    /\ \A i \in DOMAIN s : s[i].id = t[i].id

\* In whatever order events were listed, they are sorted alike: of two that
\* neither occurred first nor have another id, it does not matter which.
LEMMA InOrderAlike ==
    ASSUME NEW S, NEW s \in Seq(S), NEW t \in Seq(S), \A e \in S : e.at \in Int /\ e.id \in Int,
           Distinct(s), Distinct(t), ToSet(s) = ToSet(t)
    PROVE  /\ Alike(Order!InOrder(s), Order!InOrder(t))
           /\ \A i \in DOMAIN Order!InOrder(s) :
                 Order!InOrder(s)[i] \in ToSet(s) /\ Order!InOrder(t)[i] \in ToSet(s)
<1> DEFINE P == EarlierPairs(S)
           x == SortedBy(P, s)
           y == SortedBy(P, t)
<1>1. KeyOrder(P, S) /\ \A e, f \in S : <<e, f>> \in P <=> Order!Later(f, e)
  BY EarlierOrder
<1>2. Order!InOrder(s) = x /\ Order!InOrder(t) = y
  BY InOrderSorts
<1> HIDE DEF P
<1>3. Len(s) = Len(t) /\ \A a \in S : /\ CountBefore(P, s, a) = CountBefore(P, t, a)
                                      /\ CountUpTo(P, s, a) = CountUpTo(P, t, a)
  BY ListingsAgree
<1>4. \A i \in 1 .. Len(s) : <<x[i], y[i]>> \notin P /\ <<y[i], x[i]>> \notin P
  BY <1>1, <1>3, SortedAgree
<1>5. \A i \in 1 .. Len(s) : x[i] \in ToSet(s) /\ y[i] \in ToSet(s)
  <2>1. \A i \in 1 .. Len(s) : x[i] \in ToSet(s)
    BY <1>1, SortedPlace
  <2>2. \A i \in 1 .. Len(t) : y[i] \in ToSet(t)
    BY <1>1, SortedPlace
  <2> QED BY <1>3, <2>1, <2>2
<1>6. ToSet(s) \subseteq S
  BY DEF ToSet
<1>7. DOMAIN x = 1 .. Len(s) /\ DOMAIN y = 1 .. Len(s)
  BY <1>3 DEF SortedBy
<1> HIDE DEF x, y
<1>8. \A i \in 1 .. Len(s) : x[i].id = y[i].id
  BY <1>1, <1>4, <1>5, <1>6, LaterOrder
<1> QED BY <1>2, <1>5, <1>7, <1>8 DEF Alike

-----------------------------------------------------------------------------
(* excise_stamp_facts and vessel trajectories: what is sorted first. *)

LEMMA StampOrder ==
    /\ \A s : Stamp!InOrder(s) = Order!InOrder(s)
    /\ \A s, places : Stamp!Chosen(s, places) = Chosen(s, places)
    /\ \A s : Stamp!ToSet(s) = ToSet(s)
<1>1. ASSUME NEW s PROVE Stamp!InOrder(s) = Order!InOrder(s)
  BY Zenon DEF Stamp!InOrder, Stamp!StableSort, Stamp!Cardinality, Stamp!Later,
               Order!InOrder, Order!StableSort, Order!Cardinality, Order!Later
<1>2. ASSUME NEW s, NEW places PROVE Stamp!Chosen(s, places) = Chosen(s, places)
  BY Zenon DEF Stamp!Chosen, Chosen
<1>3. ASSUME NEW s PROVE Stamp!ToSet(s) = ToSet(s)
  BY DEF Stamp!ToSet, ToSet
<1> QED BY <1>1, <1>2, <1>3

LEMMA StampsChosen ==
    ASSUME NEW S, NEW s \in Seq(S)
    PROVE  /\ Stamp!Stamps(s) \in Seq(S)
           /\ ToSet(Stamp!Stamps(s)) = {e \in ToSet(s) : e.type \in Stamp!StampTypes}
           /\ Distinct(s) => Distinct(Stamp!Stamps(s))
<1> DEFINE places == {i \in DOMAIN s : s[i].type \in Stamp!StampTypes}
<1>1. Stamp!Stamps(s) = Chosen(s, places)
  BY StampOrder, Zenon DEF Stamp!Stamps
<1>2. places \subseteq 1 .. Len(s)
  OBVIOUS
<1>3. {s[j] : j \in places} = {e \in ToSet(s) : e.type \in Stamp!StampTypes}
  BY DEF ToSet
<1> HIDE DEF places
<1>4. /\ Chosen(s, places) \in Seq(S)
      /\ ToSet(Chosen(s, places)) = {s[j] : j \in places}
      /\ Distinct(s) => Distinct(Chosen(s, places))
  BY <1>2, ChosenKeeps
<1> QED BY <1>1, <1>3, <1>4

\* The stamp facts do not depend on the order in which silver was listed.
LEMMA StampsAlike ==
    ASSUME NEW S, \A e \in S : e.at \in Int /\ e.id \in Int,
           \A e, f \in S :
              e.id = f.id => e.at = f.at /\ e.type = f.type /\ e.quantity = f.quantity,
           NEW s \in Seq(S), NEW t \in Seq(S), Distinct(s), Distinct(t), ToSet(s) = ToSet(t)
    PROVE  /\ Stamp!Malformed(s) <=> Stamp!Malformed(t)
           /\ Stamp!StampRows(s) = Stamp!StampRows(t)
<1> DEFINE x == Order!InOrder(Stamp!Stamps(s))
           y == Order!InOrder(Stamp!Stamps(t))
           fact(e) == [id |-> e.id, type |-> e.type, at |-> e.at,
                       quantity |-> IF e.type = "approved" THEN {} ELSE {e.quantity}]
<1>2. /\ Stamp!Stamps(s) \in Seq(S) /\ Stamp!Stamps(t) \in Seq(S)
      /\ Distinct(Stamp!Stamps(s)) /\ Distinct(Stamp!Stamps(t))
      /\ ToSet(Stamp!Stamps(s)) = ToSet(Stamp!Stamps(t)) /\ ToSet(Stamp!Stamps(s)) \subseteq S
  <2>1. ToSet(s) \subseteq S
    BY DEF ToSet
  <2> QED BY <2>1, StampsChosen
<1>3. Stamp!Malformed(s) <=> Stamp!Malformed(t)
  BY <1>2, StampOrder DEF Stamp!Malformed
<1>4. /\ Alike(x, y)
      /\ \A i \in DOMAIN x : x[i] \in ToSet(Stamp!Stamps(s)) /\ y[i] \in ToSet(Stamp!Stamps(s))
  BY <1>2, InOrderAlike
<1>5. /\ Stamp!StampRows(s) = [i \in DOMAIN x |-> fact(x[i])]
      /\ Stamp!StampRows(t) = [i \in DOMAIN y |-> fact(y[i])]
  BY StampOrder DEF Stamp!StampRows
<1> HIDE DEF x, y
<1>6. \A i \in DOMAIN x : fact(x[i]) = fact(y[i])
  BY <1>2, <1>4 DEF Alike
<1> HIDE DEF fact
<1>7. [i \in DOMAIN x |-> fact(x[i])] = [i \in DOMAIN y |-> fact(y[i])]
  BY <1>4, <1>6 DEF Alike
<1> QED BY <1>3, <1>5, <1>7

LEMMA TrackOrder ==
    /\ \A s : Track!InOrder(s) = Order!InOrder(s)
    /\ \A s, places : Track!Chosen(s, places) = Chosen(s, places)
    /\ \A s : Track!ToSet(s) = ToSet(s)
<1>1. ASSUME NEW s PROVE Track!InOrder(s) = Order!InOrder(s)
  BY Zenon DEF Track!InOrder, Track!StableSort, Track!Cardinality, Track!Later,
               Order!InOrder, Order!StableSort, Order!Cardinality, Order!Later
<1>2. ASSUME NEW s, NEW places PROVE Track!Chosen(s, places) = Chosen(s, places)
  BY Zenon DEF Track!Chosen, Chosen
<1>3. ASSUME NEW s PROVE Track!ToSet(s) = ToSet(s)
  BY DEF Track!ToSet, ToSet
<1> QED BY <1>1, <1>2, <1>3

\* The observations of a vessel, as they are listed.
OfVessel(s, v) == Chosen(s, {i \in DOMAIN s : s[i].vessel = v})

LEMMA TrackChosen ==
    ASSUME NEW S, NEW s \in Seq(S), NEW v
    PROVE  /\ Track!TrackOf(s, v) = Order!InOrder(OfVessel(s, v))
           /\ OfVessel(s, v) \in Seq(S)
           /\ ToSet(OfVessel(s, v)) = {e \in ToSet(s) : e.vessel = v}
           /\ Distinct(s) => Distinct(OfVessel(s, v))
<1> DEFINE places == {i \in DOMAIN s : s[i].vessel = v}
<1>1. Track!TrackOf(s, v) = Order!InOrder(OfVessel(s, v))
  <2>1. Track!TrackOf(s, v) = Track!InOrder(Track!Chosen(s, {i \in DOMAIN s : s[i].vessel = v}))
    BY Zenon DEF Track!TrackOf
  <2>2. Track!Chosen(s, {i \in DOMAIN s : s[i].vessel = v}) = OfVessel(s, v)
    BY TrackOrder DEF OfVessel
  <2> QED BY <2>1, <2>2, TrackOrder
<1>2. places \subseteq 1 .. Len(s)
  OBVIOUS
<1>3. {s[j] : j \in places} = {e \in ToSet(s) : e.vessel = v}
  BY DEF ToSet
<1>4. OfVessel(s, v) = Chosen(s, places)
  BY DEF OfVessel
<1> HIDE DEF places
<1>5. /\ Chosen(s, places) \in Seq(S)
      /\ ToSet(Chosen(s, places)) = {s[j] : j \in places}
      /\ Distinct(s) => Distinct(Chosen(s, places))
  BY <1>2, ChosenKeeps
<1> QED BY <1>1, <1>3, <1>4, <1>5

\* The trajectories do not depend on the order in which bronze was listed.
LEMMA TracksAlike ==
    ASSUME NEW S, \A e \in S : e.at \in Int /\ e.id \in Int,
           NEW s \in Seq(S), NEW t \in Seq(S), Distinct(s), Distinct(t), ToSet(s) = ToSet(t),
           \A e, f \in ToSet(s) : e.id = f.id => e = f,
           NEW threshold, NEW tolerance, NEW retries
    PROVE  Track!TrajectoryRows(threshold, tolerance, retries, s) =
              Track!TrajectoryRows(threshold, tolerance, retries, t)
<1>2. ASSUME NEW v PROVE Track!TrackOf(s, v) = Track!TrackOf(t, v)
  <2> DEFINE a == OfVessel(s, v)
             b == OfVessel(t, v)
             x == Order!InOrder(a)
             y == Order!InOrder(b)
  <2>1. /\ Track!TrackOf(s, v) = x /\ a \in Seq(S) /\ Distinct(a)
        /\ ToSet(a) = {e \in ToSet(s) : e.vessel = v}
    BY TrackChosen
  <2>2. /\ Track!TrackOf(t, v) = y /\ b \in Seq(S) /\ Distinct(b)
        /\ ToSet(b) = {e \in ToSet(t) : e.vessel = v}
    BY TrackChosen
  <2> HIDE DEF a, b
  <2>3. Alike(x, y) /\ \A i \in DOMAIN x : x[i] \in ToSet(a) /\ y[i] \in ToSet(a)
    BY <2>1, <2>2, InOrderAlike
  <2>4. x \in Seq(S) /\ y \in Seq(S)
    BY <2>1, <2>2, InOrderKeeps
  <2> HIDE DEF x, y
  <2>5. \A i \in DOMAIN x : x[i] = y[i]
    BY <2>1, <2>3 DEF Alike
  <2>6. x = y
    <3>1. x = [i \in DOMAIN x |-> x[i]] /\ y = [i \in DOMAIN y |-> y[i]]
      BY <2>4
    <3> QED BY <2>3, <2>5, <3>1 DEF Alike
  <2> QED BY <2>1, <2>2, <2>6
<1> DEFINE Of(track, v) ==
               LET segments == Track!Segments(threshold, Track!Deduplicated(track)) IN
               {Track!TrajectoryRow(v, i - 1, segments[i], tolerance, retries) :
                    i \in DOMAIN segments}
<1>3. \A r : Track!TrajectoryRows(threshold, tolerance, retries, r) =
                UNION {Of(Track!TrackOf(r, v), v) : v \in {e.vessel : e \in Track!ToSet(r)}}
  BY Zenon DEF Track!TrajectoryRows
<1> HIDE DEF Of
<1>4. {Of(Track!TrackOf(s, v), v) : v \in {e.vessel : e \in ToSet(s)}} =
         {Of(Track!TrackOf(t, v), v) : v \in {e.vessel : e \in ToSet(t)}}
  BY <1>2
<1> QED BY <1>3, <1>4, TrackOrder

-----------------------------------------------------------------------------
(* Export consignments. *)

\* Two listings of the same elements, none of them twice.
Listings(S, s, t) ==
    s \in Seq(S) /\ t \in Seq(S) /\ Distinct(s) /\ Distinct(t) /\ ToSet(s) = ToSet(t)

LEMMA ExportOrder ==
    /\ \A s : Export!InOrder(s) = Order!InOrder(s)
    /\ \A s, places : Export!Chosen(s, places) = Chosen(s, places)
    /\ \A s : Export!ToSet(s) = ToSet(s)
<1>1. ASSUME NEW s PROVE Export!InOrder(s) = Order!InOrder(s)
  BY Zenon DEF Export!InOrder, Export!StableSort, Export!Cardinality, Export!Later,
               Order!InOrder, Order!StableSort, Order!Cardinality, Order!Later
<1>2. ASSUME NEW s, NEW places PROVE Export!Chosen(s, places) = Chosen(s, places)
  BY Zenon DEF Export!Chosen, Chosen
<1>3. ASSUME NEW s PROVE Export!ToSet(s) = ToSet(s)
  BY DEF Export!ToSet, ToSet
<1> QED BY <1>1, <1>2, <1>3

LEMMA FamilyChosen ==
    ASSUME NEW S, NEW s \in Seq(S), NEW family
    PROVE  /\ Export!InFamily(s, family) \in Seq(S)
           /\ ToSet(Export!InFamily(s, family)) = {e \in ToSet(s) : e.type = family}
           /\ Distinct(s) => Distinct(Export!InFamily(s, family))
<1> DEFINE places == {i \in DOMAIN s : s[i].type = family}
<1>1. Export!InFamily(s, family) = Chosen(s, places)
  BY ExportOrder, Zenon DEF Export!InFamily
<1>2. places \subseteq 1 .. Len(s)
  OBVIOUS
<1>3. {s[j] : j \in places} = {e \in ToSet(s) : e.type = family}
  BY DEF ToSet
<1> HIDE DEF places
<1>4. /\ Chosen(s, places) \in Seq(S)
      /\ ToSet(Chosen(s, places)) = {s[j] : j \in places}
      /\ Distinct(s) => Distinct(Chosen(s, places))
  BY <1>2, ChosenKeeps
<1> QED BY <1>1, <1>3, <1>4

LEMMA ConsignmentChosen ==
    ASSUME NEW S, NEW s \in Seq(S), NEW c
    PROVE  /\ Export!OfConsignment(s, c) \in Seq(S)
           /\ ToSet(Export!OfConsignment(s, c)) = {e \in ToSet(s) : e.consignment = c}
           /\ Distinct(s) => Distinct(Export!OfConsignment(s, c))
<1> DEFINE places == {i \in DOMAIN s : s[i].consignment = c}
<1>1. Export!OfConsignment(s, c) = Chosen(s, places)
  BY ExportOrder, Zenon DEF Export!OfConsignment
<1>2. places \subseteq 1 .. Len(s)
  OBVIOUS
<1>3. {s[j] : j \in places} = {e \in ToSet(s) : e.consignment = c}
  BY DEF ToSet
<1> HIDE DEF places
<1>4. /\ Chosen(s, places) \in Seq(S)
      /\ ToSet(Chosen(s, places)) = {s[j] : j \in places}
      /\ Distinct(s) => Distinct(Chosen(s, places))
  BY <1>2, ChosenKeeps
<1> QED BY <1>1, <1>3, <1>4

\* What is selected of two listings are two listings.
LEMMA SelectedListings ==
    ASSUME NEW S, NEW s, NEW t, Listings(S, s, t), NEW c, NEW family
    PROVE  /\ Listings(S, Export!OfConsignment(s, c), Export!OfConsignment(t, c))
           /\ Listings(S, Export!InFamily(Export!OfConsignment(s, c), family),
                          Export!InFamily(Export!OfConsignment(t, c), family))
           /\ ToSet(Export!InFamily(Export!OfConsignment(s, c), family)) =
                 {e \in ToSet(s) : e.consignment = c /\ e.type = family}
<1> DEFINE a == Export!OfConsignment(s, c)
           b == Export!OfConsignment(t, c)
<1>1. /\ s \in Seq(S) /\ t \in Seq(S) /\ Distinct(s) /\ Distinct(t) /\ ToSet(s) = ToSet(t)
  BY DEF Listings
<1>2. a \in Seq(S) /\ ToSet(a) = {e \in ToSet(s) : e.consignment = c} /\ Distinct(a)
  BY <1>1, ConsignmentChosen
<1>3. b \in Seq(S) /\ ToSet(b) = {e \in ToSet(t) : e.consignment = c} /\ Distinct(b)
  BY <1>1, ConsignmentChosen
<1> HIDE DEF a, b
<1>4. /\ Export!InFamily(a, family) \in Seq(S) /\ Distinct(Export!InFamily(a, family))
      /\ ToSet(Export!InFamily(a, family)) = {e \in ToSet(a) : e.type = family}
  BY <1>2, FamilyChosen
<1>5. /\ Export!InFamily(b, family) \in Seq(S) /\ Distinct(Export!InFamily(b, family))
      /\ ToSet(Export!InFamily(b, family)) = {e \in ToSet(b) : e.type = family}
  BY <1>3, FamilyChosen
<1>6. Listings(S, a, b)
  BY <1>1, <1>2, <1>3 DEF Listings
<1>7. Listings(S, Export!InFamily(a, family), Export!InFamily(b, family))
  BY <1>1, <1>2, <1>3, <1>4, <1>5 DEF Listings
<1>8. ToSet(Export!InFamily(a, family)) = {e \in ToSet(s) : e.consignment = c /\ e.type = family}
  BY <1>2, <1>4
<1> QED BY <1>6, <1>7, <1>8 DEF a, b

LEMMA ListingsLength ==
    ASSUME NEW S, NEW s, NEW t, Listings(S, s, t)
    PROVE  /\ Len(s) = Len(t) /\ (s = <<>> <=> t = <<>>)
           /\ Len(s) = 1 => Head(s) = Head(t)
           /\ s # <<>> => Export!Last(s) \in ToSet(s) /\ Export!Last(t) \in ToSet(s)
<1>1. /\ s \in Seq(S) /\ t \in Seq(S) /\ Distinct(s) /\ Distinct(t) /\ ToSet(s) = ToSet(t)
  BY DEF Listings
<1>2. Len(s) = Len(t)
  BY <1>1, ListingsAgree
<1>3. s = <<>> <=> t = <<>>
  BY <1>1, <1>2
<1>4. ASSUME Len(s) = 1 PROVE Head(s) = Head(t)
  <2>1. ToSet(s) = {s[1]} /\ t[1] \in ToSet(t) /\ Head(s) = s[1] /\ Head(t) = t[1]
    BY <1>1, <1>2, <1>4 DEF ToSet
  <2> QED BY <1>1, <2>1
<1>5. ASSUME s # <<>> PROVE Export!Last(s) \in ToSet(s) /\ Export!Last(t) \in ToSet(s)
  <2>1. Len(s) \in DOMAIN s /\ Len(t) \in DOMAIN t
    BY <1>1, <1>3, <1>5
  <2>2. Export!Last(s) \in ToSet(s) /\ Export!Last(t) \in ToSet(t)
    BY <2>1 DEF Export!Last, ToSet
  <2> QED BY <1>1, <2>2
<1> QED BY <1>2, <1>3, <1>4, <1>5

LEMMA RefusalsAlike ==
    ASSUME NEW S, NEW s, NEW t, Listings(S, s, t)
    PROVE  Export!Refused(s) <=> Export!Refused(t)
<1>1. ToSet(s) = ToSet(t) /\ (s = <<>> <=> t = <<>>)
  BY ListingsLength DEF Listings
<1>2. \A c : Len(Export!InFamily(Export!OfConsignment(s, c), "catch")) =
                Len(Export!InFamily(Export!OfConsignment(t, c), "catch"))
  BY SelectedListings, ListingsLength
<1> QED BY <1>1, <1>2, ExportOrder DEF Export!Refused

\* Unless a consignment has several export declarations, the consignments do
\* not depend on the order in which bronze was listed.
LEMMA ConsignmentsAlike ==
    ASSUME NEW S, \A e \in S : e.at \in Int /\ e.id \in Int,
           NEW s, NEW t, Listings(S, s, t), ~Export!Refused(s),
           \A e, f \in ToSet(s) : e.id = f.id => e = f,
           \A e, f \in ToSet(s) :
              e.type = "export" /\ f.type = "export" /\ e.consignment = f.consignment => e = f
    PROVE  Export!ConsignmentRows(s) = Export!ConsignmentRows(t)
<1>1. ToSet(s) = ToSet(t) /\ \A e \in ToSet(s) : e \in S
  <2>1. s \in Seq(S) /\ ToSet(s) = ToSet(t)
    BY DEF Listings
  <2>2. ToSet(s) = {s[i] : i \in DOMAIN s}
    BY DEF ToSet
  <2>3. \A i \in DOMAIN s : s[i] \in S
    BY <2>1
  <2> QED BY <2>1, <2>2, <2>3
<1>2. ASSUME NEW c \in {e.consignment : e \in ToSet(s)}
      PROVE  Export!ConsignmentRow(s, c) = Export!ConsignmentRow(t, c)
  <2> DEFINE a == Export!OfConsignment(s, c)
             b == Export!OfConsignment(t, c)
             x == Order!InOrder(Export!InFamily(a, "coldchain"))
             y == Order!InOrder(Export!InFamily(b, "coldchain"))
  <2>1. Head(Export!InFamily(a, "catch")).id = Head(Export!InFamily(b, "catch")).id
    <3>1. Listings(S, Export!InFamily(a, "catch"), Export!InFamily(b, "catch"))
      BY SelectedListings
    <3>2. Len(Export!InFamily(a, "catch")) = 1
      BY <1>2, ExportOrder DEF Export!Refused
    <3> HIDE DEF a, b
    <3> QED BY <3>1, <3>2, ListingsLength
  <2>2. x = y
    <3> DEFINE u == Export!InFamily(a, "coldchain")
               w == Export!InFamily(b, "coldchain")
    <3>1. Listings(S, u, w) /\ \A e \in ToSet(u) : e \in ToSet(s)
      BY SelectedListings
    <3>2. u \in Seq(S) /\ w \in Seq(S) /\ Distinct(u) /\ Distinct(w) /\ ToSet(u) = ToSet(w)
      BY <3>1 DEF Listings
    <3> HIDE DEF u, w
    <3> DEFINE m == Order!InOrder(u)
               n == Order!InOrder(w)
    <3>3. Alike(m, n) /\ \A i \in DOMAIN m : m[i] \in ToSet(u) /\ n[i] \in ToSet(u)
      BY <3>2, InOrderAlike
    <3>4. m \in Seq(S) /\ n \in Seq(S)
      BY <3>2, InOrderKeeps
    <3> HIDE DEF m, n
    <3>5. \A i \in DOMAIN m : m[i] = n[i]
      BY <3>1, <3>3 DEF Alike
    <3>6. m = n
      <4>1. m = [i \in DOMAIN m |-> m[i]] /\ n = [i \in DOMAIN n |-> n[i]]
        BY <3>4
      <4> QED BY <3>3, <3>5, <4>1 DEF Alike
    <3> QED BY <3>6 DEF m, n, u, w
  <2>3. Export!ExportReference(a) = Export!ExportReference(b)
    <3> DEFINE u == Export!InFamily(a, "export")
               w == Export!InFamily(b, "export")
    <3>1. /\ Listings(S, u, w)
          /\ ToSet(u) = {e \in ToSet(s) : e.consignment = c /\ e.type = "export"}
      BY SelectedListings
    <3>2. /\ Export!ExportReference(a) = IF u = <<>> THEN {} ELSE {Export!Last(u).value}
          /\ Export!ExportReference(b) = IF w = <<>> THEN {} ELSE {Export!Last(w).value}
      BY DEF Export!ExportReference
    <3> HIDE DEF u, w
    <3>3. /\ u = <<>> <=> w = <<>>
          /\ u # <<>> => Export!Last(u) \in ToSet(u) /\ Export!Last(w) \in ToSet(u)
      BY <3>1, ListingsLength
    <3>4. u # <<>> => Export!Last(u) = Export!Last(w)
      BY <3>1, <3>3
    <3> QED BY <3>2, <3>3, <3>4
  <2> DEFINE row(r, catch, samples, reference) ==
                 LET sources == {e \in Export!ToSet(r) : e.consignment = c} IN
                 [consignment |-> c, catch |-> catch,
                  custody |-> Export!Ids({e \in sources : e.type = "custody"}),
                  samples |-> [i \in DOMAIN samples |->
                                  <<samples[i].id, samples[i].at, samples[i].value>>],
                  reference |-> reference,
                  floor |-> Export!Max({Export!EventFloor(e) : e \in sources}),
                  sources |-> Export!Ids(sources)]
  <2>4. /\ Export!ConsignmentRow(s, c) =
              row(s, Head(Export!InFamily(a, "catch")).id,
                  Export!InOrder(Export!InFamily(a, "coldchain")), Export!ExportReference(a))
        /\ Export!ConsignmentRow(t, c) =
              row(t, Head(Export!InFamily(b, "catch")).id,
                  Export!InOrder(Export!InFamily(b, "coldchain")), Export!ExportReference(b))
    BY Zenon DEF Export!ConsignmentRow
  <2>5. \A p, q, r : row(s, p, q, r) = row(t, p, q, r)
    <3>1. Export!ToSet(s) = Export!ToSet(t)
      BY <1>1, ExportOrder
    <3> QED BY <3>1
  <2>6. /\ Export!InOrder(Export!InFamily(a, "coldchain")) = x
        /\ Export!InOrder(Export!InFamily(b, "coldchain")) = y
    BY ExportOrder
  <2> HIDE DEF row, a, b, x, y
  <2> QED BY <2>1, <2>2, <2>3, <2>4, <2>5, <2>6
<1>3. \A r : Export!ConsignmentRows(r) =
                {Export!ConsignmentRow(r, c) : c \in {e.consignment : e \in Export!ToSet(r)}}
  BY Zenon DEF Export!ConsignmentRows
<1>4. {Export!ConsignmentRow(s, c) : c \in {e.consignment : e \in ToSet(s)}} =
         {Export!ConsignmentRow(t, c) : c \in {e.consignment : e \in ToSet(t)}}
  BY <1>1, <1>2
<1> QED BY <1>3, <1>4, ExportOrder

-----------------------------------------------------------------------------
(* vessel_annual. *)

LEMMA AnnualOrder ==
    /\ \A e, f : Annual!Later(e, f) <=> Order!Later(e, f)
    /\ \A events, chosen, key :
          Annual!LatestPerKey(events, chosen, key) = Order!LatestPerKey(events, chosen, key)
<1>1. \A e, f : Annual!Later(e, f) <=> Order!Later(e, f)
  BY DEF Annual!Later, Order!Later
<1>2. \A entries, key, e : Annual!KeepLatest(entries, key, e) = Order!KeepLatest(entries, key, e)
  BY Zenon DEF Annual!KeepLatest, Order!KeepLatest, Annual!Put, Order!Put, Annual!Later, Order!Later
<1>3. ASSUME NEW events, NEW chosen, NEW key
      PROVE  Annual!LatestPerKey(events, chosen, key) = Order!LatestPerKey(events, chosen, key)
  BY Zenon DEF Annual!LatestPerKey, Order!LatestPerKey, Annual!KeepLatest, Order!KeepLatest,
               Annual!Put, Order!Put, Annual!Later, Order!Later
<1> QED BY <1>1, <1>3

\* The row of each vessel and year is that of its latest verified report, with
\* the latest statement about it, in whatever order the events are listed.
LEMMA AnnualLatest ==
    ASSUME NEW S, NEW events \in Seq(S), \A e \in S : e.at \in Int /\ e.id \in Int,
           \A e, f \in S : e.id = f.id => e.report = f.report /\ e.artifact = f.artifact,
           NEW all, Annual!ToSet(all) = ToSet(events)
    PROVE  Annual!LatestVerified(all, Annual!AnnualRows(events))
<1> DEFINE n == Len(events)
           Reports == {i \in DOMAIN events :
                         events[i].type = "report" /\ events[i].state = "VERIFIED"}
           Statements == {i \in DOMAIN events : events[i].type = "soc"}
           vessels == [i \in DOMAIN events |-> events[i].vessel]
           reports == [i \in DOMAIN events |-> events[i].report]
           verified == Annual!Verified(events)
           socs == Annual!SocByReport(events)
           soc(v) == {socs[r] : r \in DOMAIN socs \cap {verified[v].report}}
           row(v) == [vessel |-> v, report |-> verified[v].report,
                      artifact |-> {s.artifact : s \in soc(v)},
                      sources |-> {verified[v].id} \cup {s.id : s \in soc(v)}]
           About(r) == {e \in ToSet(events) : e.type = "soc" /\ e.report = r}
           All == {e \in ToSet(events) : e.type = "report" /\ e.state = "VERIFIED"}
<1>1. n \in Nat /\ DOMAIN events = 1 .. n /\ \A j \in 1 .. n : events[j] \in S
  OBVIOUS
<1>2. \A j \in 1 .. n : events[j].at \in Int /\ events[j].id \in Int
  BY <1>1
<1>3. /\ Reports \in SUBSET (1 .. n) /\ Statements \in SUBSET (1 .. n)
      /\ \A j \in 1 .. n : vessels[j] = events[j].vessel /\ reports[j] = events[j].report
  BY <1>1
<1>4. /\ verified = Order!LatestPerKey(events, Reports, vessels)
      /\ socs = Order!LatestPerKey(events, Statements, reports)
  BY AnnualOrder DEF Annual!Verified, Annual!SocByReport
<1>5. ToSet(events) = {events[j] : j \in 1 .. n}
  BY <1>1 DEF ToSet
<1>6. /\ \A j \in Reports : events[j] \in All
      /\ \A e \in All : \E j \in Reports : e = events[j]
  BY <1>1, <1>5
<1>7. /\ \A j \in Statements : events[j] \in About(events[j].report)
      /\ \A r : \A e \in About(r) : \E j \in Statements : e = events[j] /\ events[j].report = r
  BY <1>1, <1>5
<1>8. \A e \in ToSet(events) : e \in S
  BY <1>1, <1>5
<1>9. Annual!AnnualRows(events) = {row(v) : v \in DOMAIN verified}
  BY Zenon DEF Annual!AnnualRows
<1>10. /\ \A e \in All : e \in ToSet(events)
       /\ \A r : \A e \in About(r) : e \in ToSet(events) /\ e.report = r
  OBVIOUS
<1>11. /\ Len(events) \in Nat
       /\ Reports \in SUBSET (1 .. Len(events)) /\ Statements \in SUBSET (1 .. Len(events))
  BY <1>1, <1>3
<1>12. \A j \in 1 .. Len(events) : events[j].at \in Int /\ events[j].id \in Int
  BY <1>2
<1> HIDE DEF n, Reports, Statements, vessels, reports, verified, socs, All, About
<1>13. LatestOf(events, Reports, vessels, verified) /\ LatestOf(events, Statements, reports, socs)
  BY <1>4, <1>11, <1>12, LatestKnows
<1>14. ASSUME NEW v \in DOMAIN verified
       PROVE  /\ verified[v] \in All /\ verified[v].vessel = v
              /\ \A f \in All : f.vessel = v => ~Order!Later(f, verified[v])
  <2>1. IsLatest(events, {j \in Reports : vessels[j] = v}, verified[v])
    BY <1>13 DEF LatestOf
  <2> QED BY <1>3, <1>6, <2>1 DEF IsLatest
<1>15. \A e \in All : e.vessel \in DOMAIN verified
  <2>1. \A v : v \in DOMAIN verified <=> \E j \in Reports : vessels[j] = v
    BY <1>13 DEF LatestOf
  <2>2. ASSUME NEW e \in All PROVE \E j \in Reports : vessels[j] = e.vessel
    BY <1>3, <1>6
  <2> QED BY <2>1, <2>2
<1>16. ASSUME NEW r \in DOMAIN socs
       PROVE  /\ socs[r] \in About(r)
              /\ \A u \in About(r) : ~Order!Later(u, socs[r])
  <2>1. IsLatest(events, {j \in Statements : reports[j] = r}, socs[r])
    BY <1>13 DEF LatestOf
  <2>2. PICK j \in Statements : reports[j] = r /\ socs[r] = events[j]
    BY <2>1 DEF IsLatest
  <2>3. events[j].report = r
    BY <1>3, <2>2
  <2>4. socs[r] \in About(r)
    BY <1>7, <2>2, <2>3
  <2>5. ASSUME NEW u \in About(r) PROVE ~Order!Later(u, socs[r])
    <3>1. PICK l \in Statements : u = events[l] /\ events[l].report = r
      BY <1>7
    <3>2. reports[l] = r
      BY <1>3, <3>1
    <3> QED BY <2>1, <3>1, <3>2 DEF IsLatest
  <2> QED BY <2>4, <2>5
<1>17. \A r : About(r) # {} => r \in DOMAIN socs
  <2>1. \A r : r \in DOMAIN socs <=> \E j \in Statements : reports[j] = r
    BY <1>13 DEF LatestOf
  <2>2. ASSUME NEW r, NEW e \in About(r) PROVE r \in DOMAIN socs
    <3>1. PICK j \in Statements : events[j].report = r
      BY <1>7
    <3>2. reports[j] = r
      BY <1>3, <3>1
    <3> QED BY <2>1, <3>2
  <2> QED BY <2>2
<1>18. \A v : row(v).vessel = v /\ row(v).report = verified[v].report
              /\ row(v).artifact = {s.artifact : s \in soc(v)}
  OBVIOUS
<1> DEFINE latest == {e \in All : \A f \in All : f.vessel = e.vessel => ~Order!Later(f, e)}
<1>19. {<<r.vessel, r.report>> : r \in {row(v) : v \in DOMAIN verified}} =
          {<<e.vessel, e.report>> : e \in latest}
  <2> HIDE DEF row
  <2>1. ASSUME NEW v \in DOMAIN verified
        PROVE  \E e \in latest : <<row(v).vessel, row(v).report>> = <<e.vessel, e.report>>
    <3>1. verified[v] \in latest
      BY <1>14
    <3> QED BY <1>14, <1>18, <3>1
  <2>2. ASSUME NEW e \in latest
        PROVE  e.vessel \in DOMAIN verified /\ e.report = verified[e.vessel].report
    <3>1. e \in All /\ e.vessel \in DOMAIN verified
      BY <1>15
    <3> DEFINE f == verified[e.vessel]
    <3>2. f \in All /\ f.vessel = e.vessel /\ ~Order!Later(e, f)
      BY <1>14, <3>1
    <3>3. ~Order!Later(f, e)
      BY <3>2
    <3>4. e \in S /\ f \in S
      BY <1>8, <1>10, <3>1, <3>2
    <3> HIDE DEF f
    <3>5. e.id = f.id
      BY <3>2, <3>3, <3>4, LaterOrder
    <3>6. e.report = f.report
      BY <3>4, <3>5
    <3> QED BY <3>1, <3>6 DEF f
  <2> HIDE DEF latest
  <2>3. \A e \in latest : <<e.vessel, e.report>> = <<row(e.vessel).vessel, row(e.vessel).report>>
    BY <1>18, <2>2
  <2> QED BY <2>1, <2>2, <2>3
<1>20. ASSUME NEW v \in DOMAIN verified
       PROVE  {s.artifact : s \in soc(v)} =
                 {s.artifact : s \in {t \in About(verified[v].report) :
                    \A u \in About(verified[v].report) : ~Order!Later(u, t)}}
  <2> DEFINE r == verified[v].report
             most == {t \in About(r) : \A u \in About(r) : ~Order!Later(u, t)}
  <2>1. CASE r \notin DOMAIN socs
    <3>1. soc(v) = {} /\ About(r) = {}
      BY <1>17, <2>1
    <3> QED BY <3>1
  <2>2. CASE r \in DOMAIN socs
    <3> DEFINE s == socs[r]
    <3>1. soc(v) = {s}
      BY <2>2
    <3>2. s \in most
      BY <1>16, <2>2
    <3>3. ASSUME NEW t \in most PROVE t.artifact = s.artifact
      <4>1. ~Order!Later(s, t) /\ ~Order!Later(t, s) /\ t \in S /\ s \in S
        BY <1>8, <1>10, <3>2
      <4> HIDE DEF s
      <4>2. t.id = s.id
        BY <4>1, LaterOrder
      <4> QED BY <4>1, <4>2
    <3> HIDE DEF most, s
    <3>4. {u.artifact : u \in soc(v)} = {u.artifact : u \in most}
      BY <3>1, <3>2, <3>3
    <3> QED BY <3>4 DEF most
  <2> QED BY <2>1, <2>2
<1> DEFINE Most(r) == {s.artifact : s \in {t \in About(r) : \A u \in About(r) : ~Order!Later(u, t)}}
           Right(x) == x.artifact = Most(x.report)
<1>21. ASSUME NEW v \in DOMAIN verified PROVE Right(row(v))
  <2>1. {s.artifact : s \in soc(v)} = Most(verified[v].report)
    BY <1>20
  <2> HIDE DEF row, soc, Most
  <2> QED BY <1>18, <2>1
<1>22. \A x \in Annual!AnnualRows(events) : Right(x)
  <2> HIDE DEF Right, row
  <2> QED BY <1>9, <1>21
<1>23. {<<r.vessel, r.report>> : r \in Annual!AnnualRows(events)} =
          {<<e.vessel, e.report>> : e \in latest}
  BY <1>9, <1>19
<1>24. Annual!VerifiedReports(all) = All
  BY DEF Annual!VerifiedReports, All
<1>25. latest = {e \in All : \A f \in All : f.vessel = e.vessel => ~Annual!Later(f, e)}
  BY AnnualOrder
<1> HIDE DEF latest
<1> DEFINE about(r) == {e \in Annual!ToSet(all) : e.type = "soc" /\ e.report = r}
<1>26. \A r : Most(r) = {s.artifact : s \in {t \in about(r) : \A u \in about(r) : ~Annual!Later(u, t)}}
  <2>1. \A r : About(r) = about(r)
    BY DEF About
  <2> HIDE DEF about
  <2>2. \A r : {t \in About(r) : \A u \in About(r) : ~Order!Later(u, t)}
               = {t \in about(r) : \A u \in about(r) : ~Annual!Later(u, t)}
    BY <2>1, AnnualOrder
  <2> QED BY <2>2
<1> HIDE DEF Most
<1> QED BY <1>22, <1>23, <1>24, <1>25, <1>26 DEF Annual!LatestVerified

\* vessel_annual does not depend on the order in which silver was listed.
LEMMA AnnualsAlike ==
    ASSUME NEW S, \A e \in S : e.at \in Int /\ e.id \in Int,
           \A e, f \in S : e.id = f.id => e.report = f.report /\ e.artifact = f.artifact,
           NEW s \in Seq(S), NEW t \in Seq(S), ToSet(s) = ToSet(t)
    PROVE  /\ Annual!OrphanedSocs(s) = Annual!OrphanedSocs(t)
           /\ Annual!AnnualRows(s) = Annual!AnnualRows(t)
<1> DEFINE Reports(r) == {i \in DOMAIN r : r[i].type = "report" /\ r[i].state = "VERIFIED"}
           Statements(r) == {i \in DOMAIN r : r[i].type = "soc"}
           vessels(r) == [i \in DOMAIN r |-> r[i].vessel]
           reports(r) == [i \in DOMAIN r |-> r[i].report]
<1>1. ASSUME NEW r \in Seq(S)
      PROVE  /\ Reports(r) \in SUBSET (1 .. Len(r)) /\ Statements(r) \in SUBSET (1 .. Len(r))
             /\ {<<vessels(r)[j], r[j]>> : j \in Reports(r)} =
                   {<<e.vessel, e>> : e \in {f \in ToSet(r) : f.type = "report" /\ f.state = "VERIFIED"}}
             /\ {<<reports(r)[j], r[j]>> : j \in Statements(r)} =
                   {<<e.report, e>> : e \in {f \in ToSet(r) : f.type = "soc"}}
             /\ Annual!Verified(r) = Order!LatestPerKey(r, Reports(r), vessels(r))
             /\ Annual!SocByReport(r) = Order!LatestPerKey(r, Statements(r), reports(r))
  <2>1. Reports(r) \in SUBSET (1 .. Len(r)) /\ Statements(r) \in SUBSET (1 .. Len(r))
    OBVIOUS
  <2>2. {<<vessels(r)[j], r[j]>> : j \in Reports(r)} =
           {<<e.vessel, e>> : e \in {f \in ToSet(r) : f.type = "report" /\ f.state = "VERIFIED"}}
    <3>1. \A j \in Reports(r) : vessels(r)[j] = r[j].vessel
      OBVIOUS
    <3>2. {r[j] : j \in Reports(r)} = {f \in ToSet(r) : f.type = "report" /\ f.state = "VERIFIED"}
      BY DEF ToSet
    <3> HIDE DEF Reports, vessels
    <3>3. {<<vessels(r)[j], r[j]>> : j \in Reports(r)} =
             {<<e.vessel, e>> : e \in {r[j] : j \in Reports(r)}}
      <4>1. {<<vessels(r)[j], r[j]>> : j \in Reports(r)} =
               {<<r[j].vessel, r[j]>> : j \in Reports(r)}
        BY <3>1
      <4> QED BY <4>1
    <3> QED BY <3>2, <3>3
  <2>3. {<<reports(r)[j], r[j]>> : j \in Statements(r)} =
           {<<e.report, e>> : e \in {f \in ToSet(r) : f.type = "soc"}}
    <3>1. \A j \in Statements(r) : reports(r)[j] = r[j].report
      OBVIOUS
    <3>2. {r[j] : j \in Statements(r)} = {f \in ToSet(r) : f.type = "soc"}
      BY DEF ToSet
    <3> HIDE DEF Statements, reports
    <3>3. {<<reports(r)[j], r[j]>> : j \in Statements(r)} =
             {<<e.report, e>> : e \in {r[j] : j \in Statements(r)}}
      <4>1. {<<reports(r)[j], r[j]>> : j \in Statements(r)} =
               {<<r[j].report, r[j]>> : j \in Statements(r)}
        BY <3>1
      <4> QED BY <4>1
    <3> QED BY <3>2, <3>3
  <2>4. /\ Annual!Verified(r) = Order!LatestPerKey(r, Reports(r), vessels(r))
        /\ Annual!SocByReport(r) = Order!LatestPerKey(r, Statements(r), reports(r))
    BY AnnualOrder DEF Annual!Verified, Annual!SocByReport
  <2> QED BY <2>1, <2>2, <2>3, <2>4
<1> HIDE DEF Reports, Statements, vessels, reports
<1> DEFINE v == Annual!Verified(s)
           w == Annual!Verified(t)
           x == Annual!SocByReport(s)
           y == Annual!SocByReport(t)
<1>2. EntriesAlike(S, v, w)
  <2>1. /\ Reports(s) \in SUBSET (1 .. Len(s)) /\ Reports(t) \in SUBSET (1 .. Len(t))
        /\ {<<vessels(s)[j], s[j]>> : j \in Reports(s)} = {<<vessels(t)[j], t[j]>> : j \in Reports(t)}
    BY <1>1
  <2>2. EntriesAlike(S, Order!LatestPerKey(s, Reports(s), vessels(s)),
                        Order!LatestPerKey(t, Reports(t), vessels(t)))
    BY <2>1, LatestAlike
  <2> QED BY <1>1, <2>2
<1>3. EntriesAlike(S, x, y)
  <2>1. /\ Statements(s) \in SUBSET (1 .. Len(s)) /\ Statements(t) \in SUBSET (1 .. Len(t))
        /\ {<<reports(s)[j], s[j]>> : j \in Statements(s)} =
              {<<reports(t)[j], t[j]>> : j \in Statements(t)}
    BY <1>1
  <2>2. EntriesAlike(S, Order!LatestPerKey(s, Statements(s), reports(s)),
                        Order!LatestPerKey(t, Statements(t), reports(t)))
    BY <2>1, LatestAlike
  <2> QED BY <1>1, <2>2
<1> DEFINE soc(z, r) == {z[q] : q \in DOMAIN z \cap {r}}
           row(u, z, k) == [vessel |-> k, report |-> u[k].report,
                            artifact |-> {m.artifact : m \in soc(z, u[k].report)},
                            sources |-> {u[k].id} \cup {m.id : m \in soc(z, u[k].report)}]
<1>4. /\ Annual!OrphanedSocs(s) = DOMAIN x \ {v[k].report : k \in DOMAIN v}
      /\ Annual!OrphanedSocs(t) = DOMAIN y \ {w[k].report : k \in DOMAIN w}
  BY DEF Annual!OrphanedSocs
<1>5. /\ Annual!AnnualRows(s) = {row(v, x, k) : k \in DOMAIN v}
      /\ Annual!AnnualRows(t) = {row(w, y, k) : k \in DOMAIN w}
  BY Zenon DEF Annual!AnnualRows
<1> HIDE DEF v, w, x, y
<1>6. DOMAIN v = DOMAIN w /\ \A k \in DOMAIN v : v[k].id = w[k].id /\ v[k].report = w[k].report
  BY <1>2 DEF EntriesAlike
<1>7. /\ DOMAIN x = DOMAIN y
      /\ \A k \in DOMAIN x : x[k].id = y[k].id /\ x[k].artifact = y[k].artifact
  BY <1>3 DEF EntriesAlike
<1>8. Annual!OrphanedSocs(s) = Annual!OrphanedSocs(t)
  BY <1>4, <1>6, <1>7
<1>9. \A r : /\ {m.artifact : m \in soc(x, r)} = {m.artifact : m \in soc(y, r)}
             /\ {m.id : m \in soc(x, r)} = {m.id : m \in soc(y, r)}
  <2> SUFFICES ASSUME NEW r
               PROVE  /\ {m.artifact : m \in soc(x, r)} = {m.artifact : m \in soc(y, r)}
                      /\ {m.id : m \in soc(x, r)} = {m.id : m \in soc(y, r)}
    OBVIOUS
  <2>1. CASE r \in DOMAIN x
    <3>1. soc(x, r) = {x[r]} /\ soc(y, r) = {y[r]}
      BY <1>7, <2>1
    <3> HIDE DEF soc
    <3> QED BY <1>7, <2>1, <3>1
  <2>2. CASE r \notin DOMAIN x
    <3>1. soc(x, r) = {} /\ soc(y, r) = {}
      BY <1>7, <2>2
    <3> HIDE DEF soc
    <3> QED BY <3>1
  <2> QED BY <2>1, <2>2
<1> HIDE DEF soc
<1>10. ASSUME NEW k \in DOMAIN v PROVE row(v, x, k) = row(w, y, k)
  BY <1>6, <1>9
<1> HIDE DEF row
<1>11. Annual!AnnualRows(s) = Annual!AnnualRows(t)
  BY <1>5, <1>6, <1>10
<1> QED BY <1>8, <1>11

-----------------------------------------------------------------------------
(* The public registry. *)

LEMMA RegistryOrder ==
    /\ \A e, f : Registry!Later(e, f) <=> Order!Later(e, f)
    /\ \A events, chosen, key :
          Registry!LatestPerKey(events, chosen, key) = Order!LatestPerKey(events, chosen, key)
    /\ \A s, places : Registry!Chosen(s, places) = Chosen(s, places)
    /\ \A s : Registry!ToSet(s) = ToSet(s)
    /\ \A q : Registry!SumFunction(q) = SumFunction(q)
<1>1. \A e, f : Registry!Later(e, f) <=> Order!Later(e, f)
  BY DEF Registry!Later, Order!Later
<1>2. ASSUME NEW events, NEW chosen, NEW key
      PROVE  Registry!LatestPerKey(events, chosen, key) = Order!LatestPerKey(events, chosen, key)
  BY Zenon DEF Registry!LatestPerKey, Order!LatestPerKey, Registry!KeepLatest, Order!KeepLatest,
               Registry!Put, Order!Put, Registry!Later, Order!Later
<1>3. ASSUME NEW s, NEW places PROVE Registry!Chosen(s, places) = Chosen(s, places)
  BY Zenon DEF Registry!Chosen, Chosen
<1>4. ASSUME NEW s PROVE Registry!ToSet(s) = ToSet(s)
  BY DEF Registry!ToSet, ToSet
<1>5. ASSUME NEW q PROVE Registry!SumFunction(q) = SumFunction(q)
  BY Zenon DEF Registry!SumFunction, Registry!SumFunctionOnSet, Registry!FoldFunctionOnSet,
               Registry!MapThenFoldSet, SumFunction, SumFunctionOnSet, FoldFunctionOnSet,
               MapThenFoldSet
<1> QED BY <1>1, <1>2, <1>3, <1>4, <1>5

\* The sum of a function is what its fold computes.
LEMMA SumFunctionIs ==
    ASSUME NEW S, IsFiniteSet(S), NEW q \in [S -> Int]
    PROVE  SumFunction(q) = SumOf(q)
<1> DEFINE Iter(h) == h = [T \in SUBSET S |->
                             IF T = {} THEN 0
                             ELSE LET x == CHOOSE y \in T : TRUE IN q[x] + h[T \ {x}]]
<1>1. \A h : Iter(h) <=> Folds(h, q, S)
  BY Zenon DEF Folds, FoldStep
<1>2. \E h : Iter(h)
  <2> HIDE DEF Iter
  <2> QED BY <1>1, FoldExists
<1> DEFINE g == CHOOSE h : Iter(h)
<1>3. Iter(g)
  <2> HIDE DEF Iter
  <2> QED BY <1>2
<1>4. SumFunction(q) = g[S]
  <2>1. DOMAIN q = S
    OBVIOUS
  <2>2. SumFunction(q) = (CHOOSE h : h = [T \in SUBSET (DOMAIN q) |->
                             IF T = {} THEN 0
                             ELSE LET x == CHOOSE y \in T : TRUE IN q[x] + h[T \ {x}]])[DOMAIN q]
    BY Zenon DEF SumFunction, SumFunctionOnSet, FoldFunctionOnSet, MapThenFoldSet
  <2> QED BY <2>1, <2>2, Zenon
<1> HIDE DEF g, Iter
<1> QED BY <1>1, <1>3, <1>4, SumFolds

\* The entries are the latest events of this type, by key.
LatestOfType(s, type, entries) ==
    LET mine == {e \in ToSet(s) : e.type = type} IN
    /\ DOMAIN entries = {e.key : e \in mine} /\ IsFiniteSet(DOMAIN entries)
    /\ \A k \in DOMAIN entries :
          /\ entries[k] \in mine /\ entries[k].key = k
          /\ \A f \in mine : f.key = k => ~Order!Later(f, entries[k])

LEMMA RegistryLatest ==
    ASSUME NEW S, NEW s \in Seq(S), \A e \in S : e.at \in Int /\ e.id \in Int, NEW type
    PROVE  LatestOfType(s, type, Registry!Latest(s, type))
<1> DEFINE n == Len(s)
           places == {i \in DOMAIN s : s[i].type = type}
           keys == [i \in DOMAIN s |-> s[i].key]
           entries == Registry!Latest(s, type)
           mine == {e \in ToSet(s) : e.type = type}
<1>1. n \in Nat /\ DOMAIN s = 1 .. n /\ \A j \in 1 .. n : s[j] \in S
  OBVIOUS
<1>2. places \in SUBSET (1 .. n) /\ \A j \in 1 .. n : keys[j] = s[j].key
  BY <1>1
<1>3. entries = Order!LatestPerKey(s, places, keys)
  BY RegistryOrder, Zenon DEF Registry!Latest
<1>4. /\ \A j \in places : s[j] \in mine
      /\ \A e \in mine : \E j \in places : e = s[j]
  BY <1>1 DEF ToSet
<1> HIDE DEF places, keys, entries, mine, n
<1>5. LatestOf(s, places, keys, entries)
  <2>1. /\ Len(s) \in Nat /\ places \in SUBSET (1 .. Len(s))
        /\ \A j \in 1 .. Len(s) : s[j].at \in Int /\ s[j].id \in Int
    BY <1>1, <1>2 DEF n
  <2> QED BY <1>3, <2>1, LatestKnows
<1>6. \A j \in places : keys[j] = s[j].key
  BY <1>2
<1>7. DOMAIN entries = {e.key : e \in mine}
  <2>1. \A k : k \in DOMAIN entries <=> \E j \in places : s[j].key = k
    BY <1>5, <1>6 DEF LatestOf
  <2>2. \A k : k \in DOMAIN entries <=> \E e \in mine : e.key = k
    BY <1>4, <2>1
  <2> QED BY <2>2
<1>8. IsFiniteSet(DOMAIN entries)
  <2>1. IsFiniteSet(places)
    <3>1. IsFiniteSet(1 .. n)
      BY <1>1, FS_Interval
    <3> QED BY <1>2, <3>1, FS_Subset
  <2>2. DOMAIN entries = {keys[j] : j \in places}
    BY <1>5 DEF LatestOf
  <2> QED BY <2>1, <2>2, FiniteImage
<1>9. ASSUME NEW k \in DOMAIN entries
      PROVE  /\ entries[k] \in mine /\ entries[k].key = k
             /\ \A f \in mine : f.key = k => ~Order!Later(f, entries[k])
  <2>1. IsLatest(s, {j \in places : keys[j] = k}, entries[k])
    BY <1>5 DEF LatestOf
  <2>2. PICK j \in places : keys[j] = k /\ entries[k] = s[j]
    BY <2>1 DEF IsLatest
  <2>3. ASSUME NEW f \in mine, f.key = k PROVE ~Order!Later(f, entries[k])
    <3>1. PICK i \in places : f = s[i]
      BY <1>4
    <3>2. i \in {l \in places : keys[l] = k}
      BY <1>6, <2>3, <3>1
    <3> QED BY <2>1, <3>1, <3>2 DEF IsLatest
  <2> QED BY <1>4, <1>6, <2>2, <2>3
<1> QED BY <1>7, <1>8, <1>9 DEF LatestOfType, mine, entries

\* The quantity of the blocks with these keys.
LEMMA QuantityByKey ==
    ASSUME NEW entries, IsFiniteSet(DOMAIN entries), NEW K \in SUBSET DOMAIN entries,
           \A k \in DOMAIN entries : entries[k].key = k /\ entries[k].quantity \in Int
    PROVE  Registry!Quantity({entries[k] : k \in K}) = SumOf([k \in K |-> entries[k].quantity])
<1> DEFINE B == {entries[k] : k \in K}
           q == [b \in B |-> b.quantity]
           p == [k \in K |-> entries[k].quantity]
<1>1. Registry!Quantity(B) = SumFunction(q)
  BY RegistryOrder DEF Registry!Quantity
<1>2. IsFiniteSet(K)
  BY FS_Subset
<1>3. IsFiniteSet(B)
  BY <1>2, FiniteImage
<1>4. /\ q \in [B -> Int] /\ p \in [K -> Int]
      /\ \A k \in K : p[k] = q[entries[k]]
  OBVIOUS
<1>5. \A k, l \in K : entries[k] = entries[l] => k = l
  <2>1. \A k \in K : entries[k].key = k
    OBVIOUS
  <2> QED BY <2>1
<1>6. {entries[k] : k \in K} = B
  OBVIOUS
<1> HIDE DEF B, q, p
<1>7. SumOf(p) = SumOf(q)
  BY <1>2, <1>4, <1>5, <1>6, SumReindex
<1>8. SumFunction(q) = SumOf(q)
  BY <1>3, <1>4, SumFunctionIs
<1>9. Registry!Quantity(B) = SumOf(p)
  BY <1>1, <1>7, <1>8
<1> QED BY <1>9 DEF B, p

\* What an event of the topic is known by, but for its offset.
SameBlock(e, f) ==
    /\ e.id = f.id /\ e.key = f.key /\ e.project = f.project /\ e.vintage = f.vintage
    /\ e.status = f.status /\ e.quantity = f.quantity /\ e.buffer = f.buffer

\* The entries agree on the blocks, each under its key.
BlocksAlike(x, y) ==
    /\ DOMAIN x = DOMAIN y /\ IsFiniteSet(DOMAIN x)
    /\ \A k \in DOMAIN x : /\ x[k].key = k /\ y[k].key = k
                           /\ SameBlock(x[k], y[k]) /\ x[k].quantity \in Int

LEMMA QuantityAlike ==
    ASSUME NEW x, NEW y, BlocksAlike(x, y), NEW K \in SUBSET DOMAIN x
    PROVE  Registry!Quantity({x[k] : k \in K}) = Registry!Quantity({y[k] : k \in K})
<1>1. /\ IsFiniteSet(DOMAIN x) /\ IsFiniteSet(DOMAIN y) /\ K \in SUBSET DOMAIN y
      /\ \A k \in DOMAIN x : x[k].key = k /\ x[k].quantity \in Int
      /\ \A k \in DOMAIN y : y[k].key = k /\ y[k].quantity \in Int
      /\ \A k \in K : x[k].quantity = y[k].quantity
  BY DEF BlocksAlike, SameBlock
<1>2. Registry!Quantity({x[k] : k \in K}) = SumOf([k \in K |-> x[k].quantity])
  BY <1>1, QuantityByKey
<1>3. Registry!Quantity({y[k] : k \in K}) = SumOf([k \in K |-> y[k].quantity])
  BY <1>1, QuantityByKey
<1>4. [k \in K |-> x[k].quantity] = [k \in K |-> y[k].quantity]
  BY <1>1
<1> QED BY <1>2, <1>3, <1>4

\* The blocks of a project, by key.
KeysOf(x, p) == {k \in DOMAIN x : x[k].project = p}
BlocksOf(x, p) == {x[k] : k \in KeysOf(x, p)}

\* The totals and the buffer do not depend on which delivery of a block counts.
LEMMA TotalsAlike ==
    ASSUME NEW x, NEW y, BlocksAlike(x, y), NEW p
    PROVE  /\ Registry!VintageTotals(BlocksOf(x, p)) = Registry!VintageTotals(BlocksOf(y, p))
           /\ Registry!BufferBalance(BlocksOf(x, p)) = Registry!BufferBalance(BlocksOf(y, p))
           /\ {b.id : b \in BlocksOf(x, p)} = {b.id : b \in BlocksOf(y, p)}
<1> DEFINE K == KeysOf(x, p)
           Kv(v) == {k \in K : x[k].vintage = v}
           Kvs(v, status) == {k \in K : x[k].vintage = v /\ x[k].status = status}
           Kb == {k \in K : x[k].status = "ACTIVE" /\ x[k].buffer}
           Of(B, v) == LET mine == {b \in B : b.vintage = v} IN
                       [issued |-> Registry!Quantity(mine),
                        retired |-> Registry!Quantity(Registry!InStatus(mine, "RETIRED")),
                        cancelled |-> Registry!Quantity(Registry!InStatus(mine, "CANCELLED"))]
<1>1. /\ K \in SUBSET DOMAIN x /\ KeysOf(y, p) = K
      /\ \A k \in K : SameBlock(x[k], y[k])
  BY DEF BlocksAlike, SameBlock, KeysOf
<1> DEFINE X == BlocksOf(x, p)
           Y == BlocksOf(y, p)
<1>2. X = {x[k] : k \in K} /\ Y = {y[k] : k \in K}
  BY <1>1 DEF BlocksOf
<1> HIDE DEF K, X, Y
<1>3. ASSUME NEW v PROVE Of(X, v) = Of(Y, v)
  <2>1. /\ {b \in X : b.vintage = v} = {x[k] : k \in Kv(v)}
        /\ {b \in Y : b.vintage = v} = {y[k] : k \in Kv(v)}
    BY <1>1, <1>2 DEF SameBlock
  <2>2. ASSUME NEW status
        PROVE  /\ Registry!InStatus({b \in X : b.vintage = v}, status) = {x[k] : k \in Kvs(v, status)}
               /\ Registry!InStatus({b \in Y : b.vintage = v}, status) = {y[k] : k \in Kvs(v, status)}
    BY <1>1, <1>2 DEF SameBlock, Registry!InStatus
  <2>3. /\ Kv(v) \in SUBSET DOMAIN x /\ Kvs(v, "RETIRED") \in SUBSET DOMAIN x
        /\ Kvs(v, "CANCELLED") \in SUBSET DOMAIN x
    BY <1>1
  <2> HIDE DEF Kv, Kvs
  <2>4. /\ Registry!Quantity({x[k] : k \in Kv(v)}) = Registry!Quantity({y[k] : k \in Kv(v)})
        /\ \A status \in {"RETIRED", "CANCELLED"} :
              Registry!Quantity({x[k] : k \in Kvs(v, status)})
                 = Registry!Quantity({y[k] : k \in Kvs(v, status)})
    <3>1. Registry!Quantity({x[k] : k \in Kv(v)}) = Registry!Quantity({y[k] : k \in Kv(v)})
      BY <2>3, QuantityAlike
    <3>2. Registry!Quantity({x[k] : k \in Kvs(v, "RETIRED")})
             = Registry!Quantity({y[k] : k \in Kvs(v, "RETIRED")})
      BY <2>3, QuantityAlike
    <3>3. Registry!Quantity({x[k] : k \in Kvs(v, "CANCELLED")})
             = Registry!Quantity({y[k] : k \in Kvs(v, "CANCELLED")})
      BY <2>3, QuantityAlike
    <3> QED BY <3>1, <3>2, <3>3
  <2> QED BY <2>1, <2>2, <2>4
<1>4. {b.vintage : b \in X} = {b.vintage : b \in Y}
  BY <1>1, <1>2 DEF SameBlock
<1>5. \A B : Registry!VintageTotals(B) = [v \in {b.vintage : b \in B} |-> Of(B, v)]
  BY Zenon DEF Registry!VintageTotals
<1>6. Registry!VintageTotals(X) = Registry!VintageTotals(Y)
  <2> HIDE DEF Of
  <2> QED BY <1>3, <1>4, <1>5
<1>7. Registry!BufferBalance(X) = Registry!BufferBalance(Y)
  <2>1. /\ {b \in Registry!InStatus(X, "ACTIVE") : b.buffer} = {x[k] : k \in Kb}
        /\ {b \in Registry!InStatus(Y, "ACTIVE") : b.buffer} = {y[k] : k \in Kb}
    BY <1>1, <1>2 DEF SameBlock, Registry!InStatus
  <2>2. Kb \in SUBSET DOMAIN x
    BY <1>1
  <2> HIDE DEF Kb
  <2> QED BY <2>1, <2>2, QuantityAlike DEF Registry!BufferBalance
<1>8. {b.id : b \in X} = {b.id : b \in Y}
  BY <1>1, <1>2 DEF SameBlock
<1> QED BY <1>6, <1>7, <1>8 DEF X, Y

\* Retirements are sorted by their ids.
KeyPairs(S) == {r \in S \X S : r[1].key < r[2].key}

RetiredOf(s, p) == Chosen(s, {i \in DOMAIN s : s[i].type = "retirement" /\ s[i].project = p})

LEMMA RetirementsSort ==
    ASSUME NEW S, NEW s \in Seq(S), NEW p, NEW R,
           R = {e \in S : e.type = "retirement"}, \A e \in R : e.key \in Int
    PROVE  /\ RetiredOf(s, p) \in Seq(R)
           /\ ToSet(RetiredOf(s, p)) = {e \in ToSet(s) : e.type = "retirement" /\ e.project = p}
           /\ Distinct(s) => Distinct(RetiredOf(s, p))
           /\ Registry!Retirements(s, p) = SortedBy(KeyPairs(R), RetiredOf(s, p))
           /\ KeyOrder(KeyPairs(R), R)
<1> DEFINE places == {i \in DOMAIN s : s[i].type = "retirement" /\ s[i].project = p}
           mine == RetiredOf(s, p)
           P == KeyPairs(R)
<1>1. places \subseteq 1 .. Len(s)
  OBVIOUS
<1>2. {s[j] : j \in places} = {e \in ToSet(s) : e.type = "retirement" /\ e.project = p}
  BY DEF ToSet
<1>3. mine = Chosen(s, places)
  BY DEF RetiredOf
<1> HIDE DEF places, mine
<1>4. /\ mine \in Seq(S) /\ ToSet(mine) = {s[j] : j \in places}
      /\ Distinct(s) => Distinct(mine)
  BY <1>1, <1>3, ChosenKeeps
<1>5. mine \in Seq(R)
  <2>1. \A i \in DOMAIN mine : mine[i] \in ToSet(mine) /\ mine[i] \in S
    BY <1>4 DEF ToSet
  <2>2. \A i \in DOMAIN mine : mine[i] \in R
    BY <1>2, <1>4, <2>1
  <2> QED BY <1>4, <2>2
<1>6. /\ \A e, f \in R : <<e, f>> \in P <=> e.key < f.key
      /\ KeyOrder(P, R)
  <2>1. \A e, f \in R : <<e, f>> \in P <=> e.key < f.key
    BY DEF KeyPairs
  <2> HIDE DEF P
  <2>2. KeyOrder(P, R)
    BY <2>1 DEF KeyOrder
  <2> QED BY <2>1, <2>2
<1> DEFINE Q == StableOrder(P, mine)
           Before(j, k) == mine[j].key < mine[k].key \/ (~(mine[k].key < mine[j].key) /\ j < k)
<1>7. Len(mine) \in Nat /\ DOMAIN mine = 1 .. Len(mine) /\ \A i \in 1 .. Len(mine) : mine[i] \in R
  BY <1>5
<1> DEFINE n == Len(mine)
<1>8. \A j, k \in 1 .. n : <<j, k>> \in Q <=> Before(j, k)
  BY <1>6, <1>7 DEF StableOrder
<1>9. \A k \in 1 .. n : {j \in DOMAIN mine : Before(j, k)} = {j \in 1 .. n : <<j, k>> \in Q}
  BY <1>7, <1>8
<1> DEFINE place(m, k) == 1 + Cardinality({j \in DOMAIN m :
                               m[j].key < m[k].key \/ (~(m[k].key < m[j].key) /\ j < k)})
           sort(m) == [i \in DOMAIN m |-> m[CHOOSE k \in DOMAIN m : place(m, k) = i]]
<1>10. Registry!Retirements(s, p) =
          sort(Registry!Chosen(s, {i \in DOMAIN s : s[i].type = "retirement" /\ s[i].project = p}))
  BY Zenon DEF Registry!Retirements, Registry!StableSort, Registry!Cardinality, Cardinality
<1>11. Registry!Chosen(s, {i \in DOMAIN s : s[i].type = "retirement" /\ s[i].project = p}) = mine
  BY RegistryOrder DEF mine, RetiredOf
<1>12. Registry!Retirements(s, p) = sort(mine)
  <2> HIDE DEF sort
  <2> QED BY <1>10, <1>11
<1>13. ASSUME NEW k \in 1 .. n PROVE place(mine, k) = Rank(Q, 1 .. n, k)
  BY <1>9 DEF Rank
<1>14. \A i \in 1 .. n :
          (CHOOSE k \in DOMAIN mine : place(mine, k) = i) = RankedAt(Q, 1 .. n, i)
  <2> HIDE DEF n, Q, place
  <2>1. DOMAIN mine = 1 .. n
    BY <1>7 DEF n
  <2> QED BY <1>13, <2>1, Zenon DEF RankedAt
<1>15. SortedBy(P, mine) = [i \in DOMAIN mine |-> mine[RankedAt(Q, 1 .. n, i)]]
  BY DEF SortedBy
<1>16. sort(mine) = SortedBy(P, mine)
  <2>1. DOMAIN mine = 1 .. n
    BY <1>7
  <2> HIDE DEF n, Q, place, P
  <2> QED BY <1>14, <1>15, <2>1
<1>17. ToSet(mine) = {e \in ToSet(s) : e.type = "retirement" /\ e.project = p}
  BY <1>2, <1>4
<1> HIDE DEF sort, P, Q, n
<1>18. Registry!Retirements(s, p) = SortedBy(P, mine)
  BY <1>12, <1>16
<1> QED BY <1>4, <1>5, <1>6, <1>17, <1>18 DEF mine, P

SameRetirement(e, f) ==
    /\ e.type = "retirement" /\ f.type = "retirement"
    /\ e.project = f.project /\ e.key = f.key

\* Of listings of the same events, the retirements are listed alike.
LEMMA RetirementsAlike ==
    ASSUME NEW S, NEW s, NEW t, Listings(S, s, t), NEW p,
           \A e \in S : e.type = "retirement" => e.key \in Int,
           \A e, f \in ToSet(s) : SameRetirement(e, f) => e.id = f.id
    PROVE  LET x == Registry!Retirements(s, p)
               y == Registry!Retirements(t, p)
           IN Alike(x, y) /\ \A i \in DOMAIN x : x[i] \in S /\ y[i] \in S
<1> DEFINE R == {e \in S : e.type = "retirement"}
           P == KeyPairs(R)
           mine == {e \in ToSet(s) : e.type = "retirement" /\ e.project = p}
           u == RetiredOf(s, p)
           w == RetiredOf(t, p)
           x == SortedBy(P, u)
           y == SortedBy(P, w)
<1>1. s \in Seq(S) /\ t \in Seq(S) /\ Distinct(s) /\ Distinct(t) /\ ToSet(s) = ToSet(t)
  BY DEF Listings
<1>2. R = {e \in S : e.type = "retirement"} /\ \A e \in R : e.key \in Int
  OBVIOUS
<1> HIDE DEF R, P, mine, u, w, x, y
<1>3. /\ RetiredOf(s, p) \in Seq(R)
      /\ ToSet(RetiredOf(s, p)) = {e \in ToSet(s) : e.type = "retirement" /\ e.project = p}
      /\ Distinct(s) => Distinct(RetiredOf(s, p))
      /\ Registry!Retirements(s, p) = SortedBy(KeyPairs(R), RetiredOf(s, p))
      /\ KeyOrder(KeyPairs(R), R)
  BY <1>1, <1>2, RetirementsSort, SMTT(30)
<1>4. /\ RetiredOf(t, p) \in Seq(R)
      /\ ToSet(RetiredOf(t, p)) = {e \in ToSet(t) : e.type = "retirement" /\ e.project = p}
      /\ Distinct(t) => Distinct(RetiredOf(t, p))
      /\ Registry!Retirements(t, p) = SortedBy(KeyPairs(R), RetiredOf(t, p))
  BY <1>1, <1>2, RetirementsSort, SMTT(30)
<1> USE DEF P, mine, u, w, x, y
<1>5. /\ u \in Seq(R) /\ ToSet(u) = mine /\ Distinct(u)
      /\ Registry!Retirements(s, p) = x /\ KeyOrder(P, R)
  BY <1>1, <1>3
<1>6. /\ w \in Seq(R) /\ ToSet(w) = mine /\ Distinct(w)
      /\ Registry!Retirements(t, p) = y
  BY <1>1, <1>4
<1>7. \A e, f \in R : <<e, f>> \in P <=> e.key < f.key
  BY DEF KeyPairs
<1>8. \A e, f \in mine : e.key = f.key => e.id = f.id
  BY DEF SameRetirement
<1>9. mine \subseteq R
  BY <1>1, <1>2 DEF ToSet
<1> HIDE DEF P, mine, u, w
<1>10. Len(u) = Len(w) /\ \A a \in R : /\ CountBefore(P, u, a) = CountBefore(P, w, a)
                                      /\ CountUpTo(P, u, a) = CountUpTo(P, w, a)
  BY <1>5, <1>6, ListingsAgree
<1>11. \A i \in 1 .. Len(u) : <<x[i], y[i]>> \notin P /\ <<y[i], x[i]>> \notin P
  BY <1>5, <1>6, <1>10, SortedAgree
<1>12. \A i \in 1 .. Len(u) : x[i] \in mine /\ y[i] \in mine
  <2>1. \A i \in 1 .. Len(u) : x[i] \in ToSet(u)
    BY <1>5, SortedPlace
  <2>2. \A i \in 1 .. Len(w) : y[i] \in ToSet(w)
    BY <1>5, <1>6, SortedPlace
  <2> QED BY <1>5, <1>6, <1>10, <2>1, <2>2
<1>13. DOMAIN x = 1 .. Len(u) /\ DOMAIN y = 1 .. Len(u)
  <2>1. DOMAIN u = 1 .. Len(u) /\ DOMAIN w = 1 .. Len(u)
    BY <1>5, <1>6, <1>10
  <2> QED BY <2>1 DEF SortedBy
<1> HIDE DEF x, y
<1>14. ASSUME NEW i \in 1 .. Len(u)
       PROVE  x[i].id = y[i].id /\ x[i] \in S /\ y[i] \in S
  <2>1. x[i] \in mine /\ y[i] \in mine /\ x[i].key \in Int /\ y[i].key \in Int
    BY <1>2, <1>9, <1>12
  <2>2. ~(x[i].key < y[i].key) /\ ~(y[i].key < x[i].key)
    BY <1>7, <1>9, <1>11, <2>1
  <2>3. x[i].key = y[i].key
    BY <2>1, <2>2
  <2> QED BY <1>2, <1>8, <1>9, <2>1, <2>3
<1> QED BY <1>5, <1>6, <1>13, <1>14 DEF Alike

\* The latest events of a type do not depend on the order of the listing.
LEMMA LatestTypeAlike ==
    ASSUME NEW S, \A e \in S : e.at \in Int /\ e.id \in Int, NEW s, NEW t, Listings(S, s, t),
           NEW type
    PROVE  EntriesAlike(S, Registry!Latest(s, type), Registry!Latest(t, type))
<1> DEFINE here == {i \in DOMAIN s : s[i].type = type}
           there == {i \in DOMAIN t : t[i].type = type}
           a == [i \in DOMAIN s |-> s[i].key]
           b == [i \in DOMAIN t |-> t[i].key]
<1>1. s \in Seq(S) /\ t \in Seq(S) /\ ToSet(s) = ToSet(t)
  BY DEF Listings
<1>2. here \in SUBSET (1 .. Len(s)) /\ there \in SUBSET (1 .. Len(t))
  BY <1>1
<1>3. {<<a[j], s[j]>> : j \in here} = {<<b[j], t[j]>> : j \in there}
  <2>1. {<<a[j], s[j]>> : j \in here} = {<<e.key, e>> : e \in {f \in ToSet(s) : f.type = type}}
    BY DEF ToSet
  <2>2. {<<b[j], t[j]>> : j \in there} = {<<e.key, e>> : e \in {f \in ToSet(t) : f.type = type}}
    BY DEF ToSet
  <2> QED BY <1>1, <2>1, <2>2
<1>4. /\ Registry!Latest(s, type) = Order!LatestPerKey(s, here, a)
      /\ Registry!Latest(t, type) = Order!LatestPerKey(t, there, b)
  BY RegistryOrder, Zenon DEF Registry!Latest
<1> HIDE DEF here, there, a, b
<1>5. EntriesAlike(S, Order!LatestPerKey(s, here, a), Order!LatestPerKey(t, there, b))
  BY <1>1, <1>2, <1>3, LatestAlike
<1> QED BY <1>4, <1>5

\* The public registry does not depend on the order in which silver was
\* listed, where what a project has of one retirement is one event.
LEMMA RegistriesAlike ==
    ASSUME NEW S, \A e \in S : e.at \in Int /\ e.id \in Int,
           \A e, f \in S : e.id = f.id => SameBlock(e, f),
           \A e \in S : /\ e.type = "block" => e.quantity \in Int
                        /\ e.type = "retirement" => e.key \in Int,
           NEW s, NEW t, Listings(S, s, t),
           \A e, f \in ToSet(s) : SameRetirement(e, f) => e.id = f.id
    PROVE  /\ Registry!UnknownStatus(s) <=> Registry!UnknownStatus(t)
           /\ Registry!RegistryRows(s) = Registry!RegistryRows(t)
<1> DEFINE x == Registry!Latest(s, "block")
           y == Registry!Latest(t, "block")
           q == Registry!Latest(s, "project")
           r == Registry!Latest(t, "project")
<1>1. s \in Seq(S) /\ t \in Seq(S) /\ ToSet(s) = ToSet(t)
  BY DEF Listings
<1>2. EntriesAlike(S, x, y) /\ EntriesAlike(S, q, r)
  BY LatestTypeAlike
<1>3. LatestOfType(s, "block", x) /\ LatestOfType(t, "block", y)
  BY <1>1, RegistryLatest
<1>4. /\ Registry!Blocks(s) = {x[k] : k \in DOMAIN x}
      /\ Registry!Blocks(t) = {y[k] : k \in DOMAIN y}
  BY Zenon DEF Registry!Blocks, Registry!Range
<1> HIDE DEF x, y
<1>5. BlocksAlike(x, y)
  <2>1. DOMAIN x = DOMAIN y /\ IsFiniteSet(DOMAIN x)
    BY <1>2, <1>3 DEF EntriesAlike, LatestOfType
  <2>2. ASSUME NEW k \in DOMAIN x
        PROVE  /\ x[k].key = k /\ y[k].key = k
               /\ SameBlock(x[k], y[k]) /\ x[k].quantity \in Int
    <3>1. x[k].key = k /\ y[k].key = k /\ x[k].type = "block"
      BY <1>3, <2>1 DEF LatestOfType
    <3>2. x[k] \in S /\ y[k] \in S /\ x[k].id = y[k].id
      BY <1>2 DEF EntriesAlike
    <3>3. SameBlock(x[k], y[k])
      BY <3>2
    <3>4. x[k].quantity \in Int
      BY <3>1, <3>2
    <3> QED BY <3>1, <3>3, <3>4
  <2> QED BY <2>1, <2>2 DEF BlocksAlike
<1>6. Registry!UnknownStatus(s) <=> Registry!UnknownStatus(t)
  <2>1. DOMAIN x = DOMAIN y /\ \A k \in DOMAIN x : x[k].status = y[k].status
    BY <1>5 DEF BlocksAlike, SameBlock
  <2>2. /\ Registry!UnknownStatus(s) <=> \E k \in DOMAIN x : x[k].status \notin Registry!Statuses
        /\ Registry!UnknownStatus(t) <=> \E k \in DOMAIN y : y[k].status \notin Registry!Statuses
    BY <1>4 DEF Registry!UnknownStatus
  <2> QED BY <2>1, <2>2
<1>7. \A p : /\ {b \in Registry!Blocks(s) : b.project = p} = BlocksOf(x, p)
             /\ {b \in Registry!Blocks(t) : b.project = p} = BlocksOf(y, p)
  BY <1>4 DEF BlocksOf, KeysOf
<1> HIDE DEF q, r
<1>8. /\ DOMAIN q = DOMAIN r
      /\ \A p \in DOMAIN q : q[p].status = r[p].status /\ q[p].id = r[p].id
  BY <1>2 DEF EntriesAlike, SameBlock
<1> DEFINE row(p, e, blocks, list) ==
               [project |-> p, state |-> e.status,
                vintages |-> Registry!VintageTotals(blocks),
                buffer |-> Registry!BufferBalance(blocks),
                retirements |-> [i \in DOMAIN list |-> <<list[i].key, list[i].quantity>>],
                sources |-> {e.id} \cup {b.id : b \in blocks}
                              \cup {f.id : f \in Registry!ToSet(list)}]
<1>9. /\ Registry!RegistryRows(s) =
            {row(p, q[p], {b \in Registry!Blocks(s) : b.project = p},
                 Registry!Retirements(s, p)) : p \in DOMAIN q}
      /\ Registry!RegistryRows(t) =
            {row(p, r[p], {b \in Registry!Blocks(t) : b.project = p},
                 Registry!Retirements(t, p)) : p \in DOMAIN r}
  BY Zenon DEF Registry!RegistryRows, q, r
<1>10. ASSUME NEW p \in DOMAIN q
       PROVE  row(p, q[p], BlocksOf(x, p), Registry!Retirements(s, p))
                 = row(p, r[p], BlocksOf(y, p), Registry!Retirements(t, p))
  <2>1. /\ Registry!VintageTotals(BlocksOf(x, p)) = Registry!VintageTotals(BlocksOf(y, p))
        /\ Registry!BufferBalance(BlocksOf(x, p)) = Registry!BufferBalance(BlocksOf(y, p))
        /\ {b.id : b \in BlocksOf(x, p)} = {b.id : b \in BlocksOf(y, p)}
    BY <1>5, TotalsAlike
  <2> DEFINE m == Registry!Retirements(s, p)
             n == Registry!Retirements(t, p)
  <2>2. Alike(m, n) /\ \A i \in DOMAIN m : m[i] \in S /\ n[i] \in S
    BY RetirementsAlike
  <2> HIDE DEF m, n
  <2>3. /\ DOMAIN m = DOMAIN n
        /\ \A i \in DOMAIN m : m[i].id = n[i].id /\ m[i].key = n[i].key
                               /\ m[i].quantity = n[i].quantity
    BY <2>2 DEF Alike, SameBlock
  <2>4. [i \in DOMAIN m |-> <<m[i].key, m[i].quantity>>]
           = [i \in DOMAIN n |-> <<n[i].key, n[i].quantity>>]
    BY <2>3
  <2>5. {f.id : f \in Registry!ToSet(m)} = {f.id : f \in Registry!ToSet(n)}
    <3>1. /\ {f.id : f \in Registry!ToSet(m)} = {m[i].id : i \in DOMAIN m}
          /\ {f.id : f \in Registry!ToSet(n)} = {n[i].id : i \in DOMAIN n}
      BY DEF Registry!ToSet
    <3>2. {m[i].id : i \in DOMAIN m} = {n[i].id : i \in DOMAIN n}
      BY <2>3
    <3> QED BY <3>1, <3>2, Zenon
  <2>6. row(p, q[p], BlocksOf(x, p), m) = row(p, r[p], BlocksOf(y, p), n)
    BY <1>8, <2>1, <2>4, <2>5
  <2> QED BY <2>6 DEF m, n
<1> HIDE DEF row
<1> DEFINE one(p) == row(p, q[p], {b \in Registry!Blocks(s) : b.project = p},
                         Registry!Retirements(s, p))
           other(p) == row(p, r[p], {b \in Registry!Blocks(t) : b.project = p},
                           Registry!Retirements(t, p))
<1>11. ASSUME NEW p \in DOMAIN q PROVE one(p) = other(p)
  <2>1. /\ {b \in Registry!Blocks(s) : b.project = p} = BlocksOf(x, p)
        /\ {b \in Registry!Blocks(t) : b.project = p} = BlocksOf(y, p)
    BY <1>7
  <2> QED BY <1>10, <2>1
<1>12. /\ Registry!RegistryRows(s) = {one(p) : p \in DOMAIN q}
       /\ Registry!RegistryRows(t) = {other(p) : p \in DOMAIN r}
  BY <1>9, Zenon
<1> HIDE DEF one, other
<1>13. Registry!RegistryRows(s) = Registry!RegistryRows(t)
  BY <1>8, <1>11, <1>12
<1> QED BY <1>6, <1>13

\* The quantities of the blocks with these keys.
Worth(x, K) == SumOf([k \in K |-> x[k].quantity])

LEMMA SumsOfKeys ==
    ASSUME NEW x, IsFiniteSet(DOMAIN x), \A k \in DOMAIN x : x[k].quantity \in Nat
    PROVE  /\ \A K \in SUBSET DOMAIN x : Worth(x, K) \in Int
           /\ \A K, L \in SUBSET DOMAIN x : K \cap L = {} =>
                 Worth(x, K \cup L) = Worth(x, K) + Worth(x, L)
           /\ \A K, L \in SUBSET DOMAIN x : K \subseteq L => Worth(x, K) <= Worth(x, L)
<1> DEFINE q == [k \in DOMAIN x |-> x[k].quantity]
           D == DOMAIN x
<1>1. q \in [D -> Int] /\ IsFiniteSet(D)
  OBVIOUS
<1>2. \A K \in SUBSET D : Worth(x, K) = SumOf(Only(q, K))
  <2> SUFFICES ASSUME NEW K \in SUBSET D PROVE Worth(x, K) = SumOf(Only(q, K))
    OBVIOUS
  <2>1. [k \in K |-> x[k].quantity] = Only(q, K)
    BY DEF Only
  <2> QED BY <2>1 DEF Worth
<1>3. \A K \in SUBSET D : \A k \in K : q[k] >= 0
  OBVIOUS
<1> HIDE DEF q, D
<1>4. \A K \in SUBSET D : SumOf(Only(q, K)) \in Int
  BY <1>1, SumParts
<1>5. \A K, L \in SUBSET D : K \cap L = {} =>
         SumOf(Only(q, K \cup L)) = SumOf(Only(q, K)) + SumOf(Only(q, L))
  BY <1>1, SumSplit
<1>6. \A K, L \in SUBSET D : K \cap L = {} => Worth(x, K \cup L) = Worth(x, K) + Worth(x, L)
  BY <1>2, <1>5
<1>7. \A K \in SUBSET D : Worth(x, K) >= 0
  <2> SUFFICES ASSUME NEW K \in SUBSET D PROVE SumOf(Only(q, K)) >= 0
    BY <1>2
  <2>1. IsFiniteSet(K)
    BY <1>1, FS_Subset
  <2>2. Only(q, K) \in [K -> Int] /\ \A k \in K : Only(q, K)[k] >= 0
    BY <1>1, <1>3 DEF Only
  <2> QED BY <2>1, <2>2, SumNatural
<1>8. \A K \in SUBSET D : Worth(x, K) \in Int
  BY <1>2, <1>4
<1>9. ASSUME NEW K \in SUBSET D, NEW L \in SUBSET D, K \subseteq L PROVE Worth(x, K) <= Worth(x, L)
  <2>1. L = K \cup (L \ K) /\ K \cap (L \ K) = {} /\ L \ K \in SUBSET D
    BY <1>9
  <2>2. Worth(x, L) = Worth(x, K) + Worth(x, L \ K)
    BY <1>6, <2>1
  <2>3. Worth(x, L \ K) >= 0 /\ Worth(x, L \ K) \in Int /\ Worth(x, K) \in Int
    BY <1>7, <1>8, <2>1
  <2> QED BY <2>2, <2>3
<1> QED BY <1>6, <1>8, <1>9 DEF D

\* Summed by vintage and then over the vintages.
LEMMA SumsOfVintages ==
    ASSUME NEW x, IsFiniteSet(DOMAIN x), \A k \in DOMAIN x : x[k].quantity \in Int,
           NEW K \in SUBSET DOMAIN x, NEW V, IsFiniteSet(V), \A k \in K : x[k].vintage \in V
    PROVE  /\ [v \in V |-> Worth(x, {k \in K : x[k].vintage = v})] \in [V -> Int]
           /\ SumOf([v \in V |-> Worth(x, {k \in K : x[k].vintage = v})]) = Worth(x, K)
<1> DEFINE q == [k \in K |-> x[k].quantity]
           c == [k \in K |-> x[k].vintage]
           G(v) == {k \in K : c[k] = v}
           H(v) == {k \in K : x[k].vintage = v}
<1>1. q \in [K -> Int] /\ IsFiniteSet(K) /\ \A k \in K : c[k] \in V
  BY FS_Subset
<1>2. ASSUME NEW v \in V PROVE Worth(x, H(v)) = SumOf(Only(q, G(v)))
  <2>1. G(v) = H(v) /\ H(v) \subseteq K
    OBVIOUS
  <2> HIDE DEF G, H
  <2>2. [k \in H(v) |-> x[k].quantity] = Only(q, H(v))
    BY <2>1 DEF Only
  <2> QED BY <2>1, <2>2 DEF Worth
<1>3. Worth(x, K) = SumOf(q)
  BY DEF Worth
<1> HIDE DEF q
<1>4. \A v \in V : SumOf(Only(q, G(v))) \in Int
  <2>1. \A A \in SUBSET K : SumOf(Only(q, A)) \in Int
    BY <1>1, SumParts
  <2>2. \A v \in V : G(v) \in SUBSET K
    OBVIOUS
  <2> HIDE DEF G
  <2> QED BY <2>1, <2>2
<1>5. SumOf([v \in V |-> SumOf(Only(q, G(v)))]) = SumOf(q)
  <2> HIDE DEF c
  <2> QED BY <1>1, SumGroups
<1>6. [v \in V |-> Worth(x, H(v))] = [v \in V |-> SumOf(Only(q, G(v)))]
  <2> HIDE DEF G, H
  <2> QED BY <1>2
<1>7. [v \in V |-> Worth(x, H(v))] \in [V -> Int]
  <2> HIDE DEF G, H
  <2> QED BY <1>2, <1>4
<1>8. SumOf([v \in V |-> Worth(x, H(v))]) = Worth(x, K)
  <2> HIDE DEF G, H
  <2> QED BY <1>3, <1>5, <1>6
<1> QED BY <1>7, <1>8

\* The totals of the row of a project are those of its blocks.
RowSums(x, p, r) ==
    LET K == KeysOf(x, p) IN
    /\ Registry!Total(r, "issued") = Worth(x, K)
    /\ Registry!Total(r, "retired") = Worth(x, {k \in K : x[k].status = "RETIRED"})
    /\ Registry!Total(r, "cancelled") = Worth(x, {k \in K : x[k].status = "CANCELLED"})
    /\ r.buffer = Worth(x, {k \in K : x[k].status = "ACTIVE" /\ x[k].buffer})

LEMMA RowTotals ==
    ASSUME NEW x, IsFiniteSet(DOMAIN x),
           \A k \in DOMAIN x : x[k].key = k /\ x[k].quantity \in Int, NEW p, NEW r,
           r.vintages = Registry!VintageTotals(BlocksOf(x, p)),
           r.buffer = Registry!BufferBalance(BlocksOf(x, p))
    PROVE  RowSums(x, p, r)
<1> DEFINE K == KeysOf(x, p)
           X == BlocksOf(x, p)
           V == {b.vintage : b \in X}
           In(L, v) == {k \in L : x[k].vintage = v}
           Ks(status) == {k \in K : x[k].status = status}
           Kb == {k \in K : x[k].status = "ACTIVE" /\ x[k].buffer}
           at(v) == {b \in X : b.vintage = v}
           Of(v, field) == r.vintages[v][field]
<1>1. K \in SUBSET DOMAIN x /\ X = {x[k] : k \in K}
  BY DEF KeysOf, BlocksOf
<1> HIDE DEF K, X
<1>2. \A L \in SUBSET K : Registry!Quantity({x[k] : k \in L}) = Worth(x, L)
  <2> SUFFICES ASSUME NEW L \in SUBSET K
               PROVE  Registry!Quantity({x[k] : k \in L}) = Worth(x, L)
    OBVIOUS
  <2> QED BY <1>1, QuantityByKey DEF Worth
<1>3. \A k \in K : x[k].vintage \in V
  BY <1>1
<1>4. IsFiniteSet(V)
  <2>1. IsFiniteSet(K)
    BY <1>1, FS_Subset
  <2> DEFINE g == [k \in K |-> x[k].vintage]
  <2>2. V = {g[k] : k \in K}
    BY <1>1
  <2> HIDE DEF g, V
  <2> QED BY <2>1, <2>2, FiniteImage
<1>5. /\ Kb \in SUBSET K /\ \A status : Ks(status) \in SUBSET K
      /\ \A L \in SUBSET K : \A v : In(L, v) \in SUBSET K
  OBVIOUS
<1>6. ASSUME NEW v
      PROVE  /\ at(v) = {x[k] : k \in In(K, v)}
             /\ \A status : Registry!InStatus(at(v), status) = {x[k] : k \in In(Ks(status), v)}
  BY <1>1 DEF Registry!InStatus
<1>7. {b \in Registry!InStatus(X, "ACTIVE") : b.buffer} = {x[k] : k \in Kb}
  BY <1>1 DEF Registry!InStatus
<1>8. r.vintages = [v \in V |->
                      [issued |-> Registry!Quantity(at(v)),
                       retired |-> Registry!Quantity(Registry!InStatus(at(v), "RETIRED")),
                       cancelled |-> Registry!Quantity(Registry!InStatus(at(v), "CANCELLED"))]]
  BY Zenon DEF Registry!VintageTotals, X
<1>9. r.buffer = Registry!Quantity({b \in Registry!InStatus(X, "ACTIVE") : b.buffer})
  BY Zenon DEF Registry!BufferBalance, X
<1> HIDE DEF V, Kb, at
<1>10. DOMAIN r.vintages = V
  BY <1>8
<1>11. ASSUME NEW v \in V
       PROVE  /\ Of(v, "issued") = Worth(x, In(K, v))
              /\ Of(v, "retired") = Worth(x, In(Ks("RETIRED"), v))
              /\ Of(v, "cancelled") = Worth(x, In(Ks("CANCELLED"), v))
  <2>1. /\ Of(v, "issued") = Registry!Quantity(at(v))
        /\ Of(v, "retired") = Registry!Quantity(Registry!InStatus(at(v), "RETIRED"))
        /\ Of(v, "cancelled") = Registry!Quantity(Registry!InStatus(at(v), "CANCELLED"))
    BY <1>8
  <2>2. /\ at(v) = {x[k] : k \in In(K, v)}
        /\ Registry!InStatus(at(v), "RETIRED") = {x[k] : k \in In(Ks("RETIRED"), v)}
        /\ Registry!InStatus(at(v), "CANCELLED") = {x[k] : k \in In(Ks("CANCELLED"), v)}
    BY <1>6
  <2>3. /\ In(K, v) \in SUBSET K /\ In(Ks("RETIRED"), v) \in SUBSET K
        /\ In(Ks("CANCELLED"), v) \in SUBSET K
    BY <1>5
  <2> HIDE DEF In, Ks, Of
  <2> QED BY <1>2, <2>1, <2>2, <2>3
<1> HIDE DEF Ks
<1>12. ASSUME NEW field, NEW L \in SUBSET K,
              \A v \in V : Of(v, field) = Worth(x, In(L, v))
       PROVE  Registry!Total(r, field) = Worth(x, L)
  <2> DEFINE f == [v \in V |-> Worth(x, In(L, v))]
             of == [v \in DOMAIN r.vintages |-> r.vintages[v][field]]
  <2>1. L \in SUBSET DOMAIN x /\ \A k \in L : x[k].vintage \in V
    BY <1>1, <1>3
  <2>2. f \in [V -> Int] /\ SumOf(f) = Worth(x, L)
    BY <1>4, <2>1, SumsOfVintages
  <2>3. of = f
    BY <1>10, <1>12
  <2>4. Registry!Total(r, field) = SumFunction(of)
    BY RegistryOrder, Zenon DEF Registry!Total
  <2> HIDE DEF f, of
  <2> QED BY <1>4, <2>2, <2>3, <2>4, SumFunctionIs
<1> HIDE DEF Of, In
<1>13. Registry!Total(r, "issued") = Worth(x, K)
  BY <1>11, <1>12
<1>14. Registry!Total(r, "retired") = Worth(x, Ks("RETIRED"))
  BY <1>5, <1>11, <1>12
<1>15. Registry!Total(r, "cancelled") = Worth(x, Ks("CANCELLED"))
  BY <1>5, <1>11, <1>12
<1>16. r.buffer = Worth(x, Kb)
  BY <1>2, <1>5, <1>7, <1>9
<1> QED BY <1>13, <1>14, <1>15, <1>16 DEF RowSums, K, Ks, Kb

\* What events count of their blocks.
LEMMA CreditsSum ==
    ASSUME NEW x, IsFiniteSet(DOMAIN x), \A k \in DOMAIN x : x[k].quantity \in Int,
           NEW M, NEW K \in SUBSET DOMAIN x, K = {e.key : e \in M},
           \A e \in M : e.quantity = x[e.key].quantity
    PROVE  Registry!Credits(M) = Worth(x, K)
<1> DEFINE f == [k \in K |-> (CHOOSE e \in M : e.key = k).quantity]
           q == [k \in K |-> x[k].quantity]
<1>1. \A k \in K : (CHOOSE e \in M : e.key = k).quantity = x[k].quantity
  <2> SUFFICES ASSUME NEW k \in K
               PROVE  (CHOOSE e \in M : e.key = k).quantity = x[k].quantity
    OBVIOUS
  <2>1. \E e \in M : e.key = k
    OBVIOUS
  <2> DEFINE e == CHOOSE e \in M : e.key = k
  <2>2. e \in M /\ e.key = k
    BY <2>1
  <2> HIDE DEF e
  <2>3. e.quantity = x[k].quantity
    BY <2>2
  <2> QED BY <2>3 DEF e
<1>2. f = q
  BY <1>1
<1>3. q \in [K -> Int] /\ IsFiniteSet(K)
  BY FS_Subset
<1>4. Registry!Credits(M) = SumFunction(f)
  BY RegistryOrder, Zenon DEF Registry!Credits
<1>5. Worth(x, K) = SumOf(q)
  BY DEF Worth
<1> HIDE DEF f, q
<1> QED BY <1>2, <1>3, <1>4, <1>5, SumFunctionIs

\* The credits of the registry account for the blocks, in whatever order the
\* events are read.
LEMMA RegistryAccounts ==
    ASSUME NEW S, \A e \in S : e.at \in Int /\ e.id \in Int,
           \A e, f \in S : e.id = f.id => SameBlock(e, f),
           \A e \in S : e.type = "block" => e.quantity \in Nat,
           NEW s \in Seq(S), NEW t, ToSet(s) = ToSet(t), ~Registry!UnknownStatus(s)
    PROVE  Registry!Balances(t, Registry!RegistryRows(s))
<1> DEFINE x == Registry!Latest(s, "block")
           all == {e \in ToSet(t) : e.type = "block"}
           now == {e \in all : \A f \in all : f.key = e.key => ~Registry!Later(f, e)}
           mine(p) == {e \in now : e.project = p}
           inUse(p) == {e \in mine(p) : e.status = "ACTIVE"}
           Ks(p, status) == {k \in KeysOf(x, p) : x[k].status = status}
           Kb(p) == {k \in KeysOf(x, p) : x[k].status = "ACTIVE" /\ x[k].buffer}
<1>1. \A e \in all : e \in S
  <2>1. \A e \in ToSet(s) : e \in S
    BY DEF ToSet
  <2> QED BY <2>1
<1>2. LatestOfType(s, "block", x)
  BY RegistryLatest
<1>3. Registry!Blocks(s) = {x[k] : k \in DOMAIN x}
  BY Zenon DEF Registry!Blocks, Registry!Range
<1>4. all = {e \in ToSet(s) : e.type = "block"}
  OBVIOUS
<1> HIDE DEF x, all
<1>5. /\ DOMAIN x = {e.key : e \in all} /\ IsFiniteSet(DOMAIN x)
      /\ \A k \in DOMAIN x :
            /\ x[k] \in all /\ x[k].key = k
            /\ \A f \in all : f.key = k => ~Order!Later(f, x[k])
  BY <1>2, <1>4 DEF LatestOfType
<1>6. \A k \in DOMAIN x : x[k].quantity \in Nat /\ x[k].quantity \in Int
  BY <1>1, <1>5 DEF all
<1>7. \A k \in DOMAIN x : x[k] \in now
  BY <1>5, RegistryOrder
<1>8. ASSUME NEW e \in now
      PROVE  e.key \in DOMAIN x /\ SameBlock(e, x[e.key])
  <2>1. e \in all /\ e.key \in DOMAIN x
    BY <1>5
  <2>2. /\ x[e.key] \in all /\ x[e.key].key = e.key
        /\ ~Order!Later(e, x[e.key]) /\ ~Order!Later(x[e.key], e)
    BY <1>5, <2>1, RegistryOrder
  <2>3. e \in S /\ x[e.key] \in S
    BY <1>1, <2>1, <2>2
  <2>4. e.id = x[e.key].id
    BY <2>2, <2>3, LaterOrder
  <2> QED BY <2>1, <2>3, <2>4
<1>9. \A k \in DOMAIN x : x[k].status \in {"ACTIVE", "RETIRED", "CANCELLED"}
  BY <1>3 DEF Registry!UnknownStatus, Registry!Statuses
<1> HIDE DEF now
<1>10. ASSUME NEW p
       PROVE  /\ KeysOf(x, p) = {e.key : e \in mine(p)}
              /\ Ks(p, "ACTIVE") = {e.key : e \in inUse(p)}
              /\ \A e \in mine(p) : e.quantity = x[e.key].quantity
  <2>1. /\ \A k \in KeysOf(x, p) : x[k] \in mine(p) /\ x[k].key = k
        /\ \A e \in mine(p) : e.key \in KeysOf(x, p)
        /\ \A e \in mine(p) : e.quantity = x[e.key].quantity /\ e.status = x[e.key].status
    BY <1>5, <1>7, <1>8 DEF KeysOf, SameBlock
  <2>2. KeysOf(x, p) = {e.key : e \in mine(p)}
    <3> HIDE DEF mine
    <3> QED BY <2>1
  <2>3. Ks(p, "ACTIVE") = {e.key : e \in inUse(p)}
    <3> HIDE DEF mine
    <3> QED BY <2>1
  <2> QED BY <2>1, <2>2, <2>3
<1> HIDE DEF mine
<1>11. \A p : /\ KeysOf(x, p) \in SUBSET DOMAIN x /\ Kb(p) \in SUBSET DOMAIN x
              /\ \A status : Ks(p, status) \in SUBSET DOMAIN x
              /\ Kb(p) \subseteq Ks(p, "ACTIVE")
  BY DEF KeysOf
<1>12. ASSUME NEW p
       PROVE  /\ Registry!Credits(mine(p)) = Worth(x, KeysOf(x, p))
              /\ Registry!Credits(inUse(p)) = Worth(x, Ks(p, "ACTIVE"))
  <2>1. \A e \in inUse(p) : e.quantity = x[e.key].quantity
    BY <1>10
  <2>2. Ks(p, "ACTIVE") \in SUBSET DOMAIN x /\ KeysOf(x, p) \in SUBSET DOMAIN x
    BY <1>11
  <2>3. /\ KeysOf(x, p) = {e.key : e \in mine(p)} /\ Ks(p, "ACTIVE") = {e.key : e \in inUse(p)}
        /\ \A e \in mine(p) : e.quantity = x[e.key].quantity
    BY <1>10
  <2> HIDE DEF inUse, Ks
  <2>4. Registry!Credits(mine(p)) = Worth(x, KeysOf(x, p))
    BY <1>5, <1>6, <2>2, <2>3, CreditsSum
  <2>5. Registry!Credits(inUse(p)) = Worth(x, Ks(p, "ACTIVE"))
    BY <1>5, <1>6, <2>1, <2>2, <2>3, CreditsSum
  <2> QED BY <2>4, <2>5
<1>13. ASSUME NEW p
       PROVE  /\ Worth(x, KeysOf(x, p)) \in Int
              /\ \A status \in {"ACTIVE", "RETIRED", "CANCELLED"} : Worth(x, Ks(p, status)) \in Int
              /\ Worth(x, KeysOf(x, p)) = Worth(x, Ks(p, "ACTIVE"))
                                            + (Worth(x, Ks(p, "RETIRED")) + Worth(x, Ks(p, "CANCELLED")))
              /\ Worth(x, Kb(p)) <= Worth(x, Ks(p, "ACTIVE"))
  <2> DEFINE K == KeysOf(x, p)
             A == Ks(p, "ACTIVE")
             R == Ks(p, "RETIRED")
             C == Ks(p, "CANCELLED")
             B == Kb(p)
  <2>1. K = A \cup (R \cup C) /\ A \cap (R \cup C) = {} /\ R \cap C = {}
    BY <1>9 DEF KeysOf
  <2>2. /\ K \in SUBSET DOMAIN x /\ A \in SUBSET DOMAIN x /\ R \in SUBSET DOMAIN x
        /\ C \in SUBSET DOMAIN x /\ B \in SUBSET DOMAIN x /\ R \cup C \in SUBSET DOMAIN x
        /\ B \subseteq A
    BY <1>11
  <2> HIDE DEF K, A, R, C, B
  <2>3. /\ \A L \in SUBSET DOMAIN x : Worth(x, L) \in Int
        /\ \A L, M \in SUBSET DOMAIN x : L \cap M = {} =>
              Worth(x, L \cup M) = Worth(x, L) + Worth(x, M)
        /\ \A L, M \in SUBSET DOMAIN x : L \subseteq M => Worth(x, L) <= Worth(x, M)
    BY <1>5, <1>6, SumsOfKeys
  <2>4. Worth(x, K) = Worth(x, A) + Worth(x, R \cup C)
    BY <2>1, <2>2, <2>3
  <2>5. Worth(x, R \cup C) = Worth(x, R) + Worth(x, C)
    BY <2>1, <2>2, <2>3
  <2>6. Worth(x, B) <= Worth(x, A)
    BY <2>2, <2>3
  <2>7. /\ Worth(x, K) \in Int /\ Worth(x, A) \in Int /\ Worth(x, R) \in Int
        /\ Worth(x, C) \in Int
    BY <2>2, <2>3
  <2>8. Worth(x, K) = Worth(x, A) + (Worth(x, R) + Worth(x, C))
    BY <2>4, <2>5
  <2> QED BY <2>6, <2>7, <2>8 DEF K, A, R, C, B
<1>14. ASSUME NEW r \in Registry!RegistryRows(s)
       PROVE  LET active == Registry!Total(r, "issued") - Registry!Total(r, "retired")
                                - Registry!Total(r, "cancelled")
              IN /\ Registry!Total(r, "issued") = Registry!Credits(mine(r.project))
                 /\ active = Registry!Credits(inUse(r.project))
                 /\ r.buffer <= active
  <2>1. PICK p : /\ r.project = p
                 /\ r.vintages = Registry!VintageTotals({b \in Registry!Blocks(s) : b.project = p})
                 /\ r.buffer = Registry!BufferBalance({b \in Registry!Blocks(s) : b.project = p})
    <3> DEFINE q == Registry!Latest(s, "project")
               row(p, e, blocks, list) ==
                   [project |-> p, state |-> e.status,
                    vintages |-> Registry!VintageTotals(blocks),
                    buffer |-> Registry!BufferBalance(blocks),
                    retirements |-> [i \in DOMAIN list |-> <<list[i].key, list[i].quantity>>],
                    sources |-> {e.id} \cup {b.id : b \in blocks}
                                  \cup {f.id : f \in Registry!ToSet(list)}]
    <3>1. Registry!RegistryRows(s) =
             {row(p, q[p], {b \in Registry!Blocks(s) : b.project = p},
                  Registry!Retirements(s, p)) : p \in DOMAIN q}
      BY Zenon DEF Registry!RegistryRows
    <3>2. \A p, e, blocks, list :
             /\ row(p, e, blocks, list).project = p
             /\ row(p, e, blocks, list).vintages = Registry!VintageTotals(blocks)
             /\ row(p, e, blocks, list).buffer = Registry!BufferBalance(blocks)
      OBVIOUS
    <3> HIDE DEF row, q
    <3>3. PICK p \in DOMAIN q :
             r = row(p, q[p], {b \in Registry!Blocks(s) : b.project = p},
                     Registry!Retirements(s, p))
      BY <3>1
    <3> DEFINE blocks == {b \in Registry!Blocks(s) : b.project = p}
    <3>4. \E e, list : r = row(p, e, blocks, list)
      BY <3>3
    <3> HIDE DEF blocks
    <3>5. /\ r.project = p /\ r.vintages = Registry!VintageTotals(blocks)
          /\ r.buffer = Registry!BufferBalance(blocks)
      BY <3>2, <3>4
    <3> QED BY <3>5 DEF blocks
  <2>2. {b \in Registry!Blocks(s) : b.project = p} = BlocksOf(x, p)
    BY <1>3 DEF BlocksOf, KeysOf
  <2>3. /\ r.vintages = Registry!VintageTotals(BlocksOf(x, p))
        /\ r.buffer = Registry!BufferBalance(BlocksOf(x, p))
    BY <2>1, <2>2
  <2>4. /\ Registry!Total(r, "issued") = Worth(x, KeysOf(x, p))
        /\ Registry!Total(r, "retired") = Worth(x, Ks(p, "RETIRED"))
        /\ Registry!Total(r, "cancelled") = Worth(x, Ks(p, "CANCELLED"))
        /\ r.buffer = Worth(x, Kb(p))
    <3>1. RowSums(x, p, r)
      <4>1. /\ IsFiniteSet(DOMAIN x)
            /\ \A k \in DOMAIN x : x[k].key = k /\ x[k].quantity \in Int
        BY <1>5, <1>6
      <4> HIDE DEF Ks, Kb, inUse
      <4> QED BY <2>3, <4>1, RowTotals
    <3> QED BY <3>1 DEF RowSums
  <2>5. /\ Worth(x, KeysOf(x, p)) \in Int
        /\ Worth(x, Ks(p, "ACTIVE")) \in Int /\ Worth(x, Ks(p, "RETIRED")) \in Int
        /\ Worth(x, Ks(p, "CANCELLED")) \in Int
        /\ Worth(x, KeysOf(x, p)) = Worth(x, Ks(p, "ACTIVE"))
                                      + (Worth(x, Ks(p, "RETIRED")) + Worth(x, Ks(p, "CANCELLED")))
        /\ Worth(x, Kb(p)) <= Worth(x, Ks(p, "ACTIVE"))
    BY <1>13
  <2>6. /\ Registry!Credits(mine(p)) = Worth(x, KeysOf(x, p))
        /\ Registry!Credits(inUse(p)) = Worth(x, Ks(p, "ACTIVE"))
    BY <1>12
  <2> HIDE DEF Ks, Kb, inUse
  <2>7. Worth(x, KeysOf(x, p)) - Worth(x, Ks(p, "RETIRED")) - Worth(x, Ks(p, "CANCELLED"))
           = Worth(x, Ks(p, "ACTIVE"))
    BY <2>5
  <2> QED BY <2>1, <2>4, <2>5, <2>6, <2>7
<1>15. Registry!Balances(t, Registry!RegistryRows(s)) <=>
          \A r \in Registry!RegistryRows(s) :
             LET active == Registry!Total(r, "issued") - Registry!Total(r, "retired")
                              - Registry!Total(r, "cancelled")
             IN /\ Registry!Total(r, "issued") = Registry!Credits(mine(r.project))
                /\ active = Registry!Credits(inUse(r.project))
                /\ r.buffer <= active
  BY RegistryOrder, Zenon DEF Registry!Balances, mine, now, all, Registry!ToSet, ToSet
<1> QED BY <1>14, <1>15, Zenon

-----------------------------------------------------------------------------
(* The simplification of tracks. *)

Points == Int \X Int

\* Squared distances from one line are natural numbers with one denominator.
LEMMA DistanceSquare ==
    ASSUME NEW a \in Points, NEW b \in Points
    PROVE  \E den \in Nat : \A p \in Points :
              Track!Distance(p, a, b).num \in Nat /\ Track!Distance(p, a, b).den = den
<1> DEFINE dx == b[1] - a[1]
           dy == b[2] - a[2]
           den == IF dx = 0 /\ dy = 0 THEN 1 ELSE Track!Square(dx) + Track!Square(dy)
<1>1. /\ a[1] \in Int /\ a[2] \in Int /\ b[1] \in Int /\ b[2] \in Int
      /\ \A p \in Points : p[1] \in Int /\ p[2] \in Int
  BY DEF Points
<1>2. \A n \in Int : Track!Square(n) \in Nat
  <2> SUFFICES ASSUME NEW n \in Int PROVE Track!Square(n) \in Nat
    OBVIOUS
  <2>1. n * n \in Int /\ n * n >= 0
    OBVIOUS
  <2> QED BY <2>1 DEF Track!Square
<1>3. den \in Nat
  <2>1. dx \in Int /\ dy \in Int
    BY <1>1
  <2> HIDE DEF dx, dy
  <2>2. Track!Square(dx) \in Nat /\ Track!Square(dy) \in Nat
    BY <1>2, <2>1
  <2> QED BY <2>2
<1>4. ASSUME NEW p \in Points
      PROVE  Track!Distance(p, a, b).num \in Nat /\ Track!Distance(p, a, b).den = den
  <2> DEFINE line == dy * p[1] - dx * p[2] + b[1] * a[2] - b[2] * a[1]
  <2>1. /\ p[1] - a[1] \in Int /\ p[2] - a[2] \in Int
        /\ line \in Int
    BY <1>1
  <2> HIDE DEF line
  <2>2. /\ Track!Square(p[1] - a[1]) \in Nat /\ Track!Square(p[2] - a[2]) \in Nat
        /\ Track!Square(line) \in Nat
    BY <1>2, <2>1
  <2>3. Track!Distance(p, a, b) =
           IF dx = 0 /\ dy = 0
           THEN [num |-> Track!Square(p[1] - a[1]) + Track!Square(p[2] - a[2]), den |-> 1]
           ELSE [num |-> Track!Square(line), den |-> Track!Square(dx) + Track!Square(dy)]
    BY Zenon DEF Track!Distance, line
  <2> HIDE DEF dx, dy
  <2> QED BY <2>2, <2>3
<1> HIDE DEF den
<1> QED BY <1>3, <1>4

\* How far a point is from the line between two places.
Off(line, i, j, m) == Track!Distance(line[m], line[i], line[j]).num

\* The farthest point lies between the two and is as far as any there.
LEMMA FarthestKnown ==
    ASSUME NEW line \in Seq(Points), NEW i \in 1 .. Len(line), NEW j \in 1 .. Len(line),
           i + 2 <= j
    PROVE  LET m == Track!Farthest(line, i, j) IN
           /\ m \in i + 1 .. j - 1
           /\ \A o \in i + 1 .. j - 1 : Off(line, i, j, o) <= Off(line, i, j, m)
<1> DEFINE S == i + 1 .. j - 1
           f == [m \in S |-> Off(line, i, j, m)]
           T == {m \in S : \A o \in S : Off(line, i, j, o) <= Off(line, i, j, m)}
<1>1. /\ S \subseteq Nat /\ S \subseteq 1 .. Len(line) /\ i + 1 \in S
      /\ \A m \in 1 .. Len(line) : line[m] \in Points
  OBVIOUS
<1>2. IsFiniteSet(S)
  <2>1. i + 1 \in Int /\ j - 1 \in Int
    OBVIOUS
  <2> QED BY <2>1, FS_Interval
<1>3. \A m \in S : Off(line, i, j, m) \in Int
  <2>1. line[i] \in Points /\ line[j] \in Points
    BY <1>1
  <2>2. PICK den \in Nat : \A p \in Points :
           Track!Distance(p, line[i], line[j]).num \in Nat /\ Track!Distance(p, line[i], line[j]).den = den
    BY <2>1, DistanceSquare
  <2>3. \A m \in S : line[m] \in Points
    BY <1>1
  <2> QED BY <2>2, <2>3 DEF Off
<1>4. Track!Farthest(line, i, j) = Track!Min(T)
  BY Zenon DEF Track!Farthest, Off
<1> HIDE DEF S
<1>5. \E d \in S : \A e \in S : f[e] <= f[d]
  <2>1. S # {} /\ \A d \in S : f[d] \in Int
    BY <1>1, <1>3
  <2> HIDE DEF f
  <2> QED BY <1>2, <2>1, Topmost
<1>6. T \subseteq Nat /\ T # {}
  BY <1>1, <1>5
<1> HIDE DEF T
<1>7. \E m \in T : \A n \in T : m <= n
  BY <1>6, Least
<1>8. Track!Min(T) \in T
  BY <1>7 DEF Track!Min
<1> QED BY <1>4, <1>8 DEF S, T

\* What is kept between two places, given what is kept in shorter spans.
KeptIn(h, line, tolerance, scale, i, j) ==
    LET m == Track!Farthest(line, i, j) IN
    IF j < i + 2 \/ ~Track!Exceeds(Track!Distance(line[m], line[i], line[j]), tolerance, scale)
    THEN {}
    ELSE {m} \cup h[<<i, m>>] \cup h[<<m, j>>]

\* The recursion of rdp_simplify, on the spans of a line.
KeepsLoop(h, line, tolerance, scale) ==
    \A i, j \in 1 .. Len(line) : h[<<i, j>>] = KeptIn(h, line, tolerance, scale, i, j)

\* Two functions that agree on shorter spans keep the same.
LEMMA ShorterSpans ==
    ASSUME NEW line \in Seq(Points), NEW i \in 1 .. Len(line), NEW j \in 1 .. Len(line),
           NEW tolerance, NEW scale, NEW f, NEW g,
           \A k, l \in 1 .. Len(line) : l - k < j - i => f[<<k, l>>] = g[<<k, l>>]
    PROVE  KeptIn(f, line, tolerance, scale, i, j) = KeptIn(g, line, tolerance, scale, i, j)
<1> DEFINE m == Track!Farthest(line, i, j)
<1>1. CASE j < i + 2
  BY <1>1 DEF KeptIn
<1>2. CASE ~(j < i + 2)
  <2>1. m \in i + 1 .. j - 1
    BY <1>2, FarthestKnown
  <2> HIDE DEF m
  <2>2. m \in 1 .. Len(line) /\ m - i < j - i /\ j - m < j - i
    BY <2>1
  <2>3. f[<<i, m>>] = g[<<i, m>>] /\ f[<<m, j>>] = g[<<m, j>>]
    BY <2>2
  <2> QED BY <2>3 DEF KeptIn, m
<1> QED BY <1>1, <1>2

\* The recursion ends, and rdp_simplify follows it.
LEMMA KeptSteps ==
    ASSUME NEW line \in Seq(Points), NEW tolerance, NEW scale
    PROVE  \E h : /\ KeepsLoop(h, line, tolerance, scale)
                  /\ Track!Kept(line, tolerance, scale) = h[<<1, Len(line)>>]
<1> DEFINE n == Len(line)
           spans == (1 .. n) \X (1 .. n)
           Turn(f, i, j) == KeptIn(f, line, tolerance, scale, i, j)
           Solves(f, d) == \A i, j \in 1 .. n : j - i <= d => f[<<i, j>>] = Turn(f, i, j)
           T == {d \in 0 .. n : \E f : Solves(f, d)}
           Defines(f) == f = [span \in spans |-> Turn(f, span[1], span[2])]
<1>1. n \in Nat
  OBVIOUS
<1>2. 0 \in T
  <2> DEFINE f == [span \in spans |-> {}]
  <2>1. ASSUME NEW i \in 1 .. n, NEW j \in 1 .. n, j - i <= 0
        PROVE  f[<<i, j>>] = Turn(f, i, j)
    <3>1. j < i + 2
      BY <2>1
    <3>2. Turn(f, i, j) = {}
      BY <3>1 DEF KeptIn
    <3> QED BY <3>2
  <2> HIDE DEF f, Turn
  <2>2. Solves(f, 0)
    BY <2>1
  <2> HIDE DEF Solves
  <2> QED BY <1>1, <2>2
<1>3. ASSUME NEW d \in 1 .. n, d - 1 \in T PROVE d \in T
  <2>1. PICK f : Solves(f, d - 1)
    BY <1>3
  <2> DEFINE g == [span \in spans |-> Turn(f, span[1], span[2])]
  <2>2. \A i, j \in 1 .. n : g[<<i, j>>] = Turn(f, i, j)
    OBVIOUS
  <2> HIDE DEF g
  <2>3. ASSUME NEW i \in 1 .. n, NEW j \in 1 .. n, j - i <= d
        PROVE  Turn(f, i, j) = Turn(g, i, j)
    <3>1. ASSUME NEW k \in 1 .. n, NEW l \in 1 .. n, l - k < j - i
          PROVE  f[<<k, l>>] = g[<<k, l>>]
      <4>1. l - k <= d - 1
        BY <1>1, <2>3, <3>1
      <4>2. f[<<k, l>>] = Turn(f, k, l)
        BY <2>1, <4>1
      <4> QED BY <2>2, <4>2
    <3> QED BY <3>1, ShorterSpans
  <2> HIDE DEF Turn
  <2>4. Solves(g, d)
    BY <2>2, <2>3
  <2> HIDE DEF Solves
  <2> QED BY <2>4
<1>4. n \in T
  <2> HIDE DEF T
  <2>1. \A i \in 0 .. n : i \in T
    BY <1>1, <1>2, <1>3, UpTo
  <2> HIDE DEF n
  <2> QED BY <1>1, <2>1
<1>5. \E f : Defines(f)
  <2>1. PICK f : Solves(f, n)
    BY <1>4
  <2> DEFINE g == [span \in spans |-> Turn(f, span[1], span[2])]
  <2>2. ASSUME NEW span \in spans PROVE Turn(f, span[1], span[2]) = Turn(g, span[1], span[2])
    <3>1. \A k, l \in 1 .. n : f[<<k, l>>] = Turn(f, k, l)
      <4>1. \A k, l \in 1 .. n : l - k <= n
        OBVIOUS
      <4> HIDE DEF n, Turn
      <4> QED BY <2>1, <4>1
    <3>2. \A k, l \in 1 .. n : f[<<k, l>>] = g[<<k, l>>]
      <4> HIDE DEF n, Turn
      <4> QED BY <3>1
    <3>3. span[1] \in 1 .. n /\ span[2] \in 1 .. n
      BY Zenon
    <3> HIDE DEF g
    <3> QED BY <3>2, <3>3, ShorterSpans
  <2> HIDE DEF spans, Turn
  <2>3. g = [span \in spans |-> Turn(g, span[1], span[2])]
    <3>1. \A span \in spans : Turn(f, span[1], span[2]) = Turn(g, span[1], span[2])
      BY <2>2
    <3> QED BY <3>1, Zenon
  <2>4. Defines(g)
    BY <2>3, Zenon
  <2> QED BY <2>4, Zenon
<1> DEFINE h == CHOOSE f : Defines(f)
<1>6. Defines(h)
  <2> HIDE DEF Defines
  <2> QED BY <1>5
<1>7. Track!Kept(line, tolerance, scale) = h[<<1, n>>]
  BY Zenon DEF Track!Kept, KeptIn
<1> HIDE DEF h
<1>8. KeepsLoop(h, line, tolerance, scale)
  <2>1. ASSUME NEW i \in 1 .. n, NEW j \in 1 .. n PROVE h[<<i, j>>] = Turn(h, i, j)
    <3>1. <<i, j>> \in spans /\ <<i, j>>[1] = i /\ <<i, j>>[2] = j
      OBVIOUS
    <3> HIDE DEF Turn, spans
    <3>2. h[<<i, j>>] = Turn(h, <<i, j>>[1], <<i, j>>[2])
      BY <1>6, <3>1, Zenon
    <3> QED BY <3>1, <3>2
  <2> QED BY <2>1 DEF KeepsLoop
<1> QED BY <1>7, <1>8

\* All points between two places are within the tolerance of their line.
Within(line, tolerance, a, b) ==
    \A m \in a + 1 .. b - 1 :
        ~Track!Exceeds(Track!Distance(line[m], line[a], line[b]), tolerance, 1)

\* What is kept between two places leaves out only points within the tolerance.
Covers(line, tolerance, i, j, K) ==
    /\ K \subseteq i + 1 .. j - 1
    /\ \A a, b \in {i, j} \cup K :
          a < b /\ (a + 1 .. b - 1) \cap K = {} => Within(line, tolerance, a, b)

\* If the farthest point does not exceed the tolerance, however much it was
\* divided, no point does.
LEMMA NoneExceeds ==
    ASSUME NEW line \in Seq(Points), NEW tolerance \in Int, NEW scale \in Nat \ {0},
           NEW i \in 1 .. Len(line), NEW j \in 1 .. Len(line), i + 2 <= j,
           LET m == Track!Farthest(line, i, j) IN
           ~Track!Exceeds(Track!Distance(line[m], line[i], line[j]), tolerance, scale)
    PROVE  Within(line, tolerance, i, j)
<1> DEFINE m == Track!Farthest(line, i, j)
           dist(o) == Track!Distance(line[o], line[i], line[j])
<1>1. line[i] \in Points /\ line[j] \in Points /\ \A o \in i + 1 .. j - 1 : line[o] \in Points
  OBVIOUS
<1>2. PICK den \in Nat : \A p \in Points :
         Track!Distance(p, line[i], line[j]).num \in Nat
         /\ Track!Distance(p, line[i], line[j]).den = den
  BY <1>1, DistanceSquare
<1>3. /\ m \in i + 1 .. j - 1
      /\ \A o \in i + 1 .. j - 1 : Off(line, i, j, o) <= Off(line, i, j, m)
  BY FarthestKnown
<1> HIDE DEF m
<1>4. \A o \in i + 1 .. j - 1 : dist(o).num \in Nat /\ dist(o).den = den
  BY <1>1, <1>2
<1>5. \A o \in i + 1 .. j - 1 : dist(o).num <= dist(m).num
  BY <1>3 DEF Off
<1>6. ~Track!Exceeds(dist(m), tolerance, scale)
  BY DEF m
<1> HIDE DEF dist
<1> DEFINE far == dist(m).num
           limit == Track!Square(tolerance) * den
<1>7. far \in Nat /\ far * scale \in Nat /\ far <= far * scale
  <2>1. far \in Nat
    BY <1>3, <1>4
  <2> HIDE DEF far
  <2> QED BY <2>1
<1>8. limit \in Int
  <2>1. tolerance * tolerance \in Int
    OBVIOUS
  <2> QED BY <2>1 DEF Track!Square
<1>9. ~(far * scale > limit)
  BY <1>3, <1>4, <1>6 DEF Track!Exceeds
<1> HIDE DEF far, limit
<1>10. far <= limit
  BY <1>7, <1>8, <1>9
<1>11. ASSUME NEW o \in i + 1 .. j - 1 PROVE ~Track!Exceeds(dist(o), tolerance, 1)
  <2>1. dist(o).num \in Nat /\ dist(o).num <= far /\ dist(o).num * 1 = dist(o).num
    BY <1>4, <1>5 DEF far
  <2>2. ~(dist(o).num * 1 > limit)
    BY <1>7, <1>8, <1>10, <2>1
  <2>3. dist(o).den = den
    BY <1>4
  <2> QED BY <2>2, <2>3 DEF Track!Exceeds, limit
<1> QED BY <1>11 DEF Within, dist

\* What covers two adjoining spans covers both together.
LEMMA CoversJoin ==
    ASSUME NEW line, NEW tolerance, NEW i \in Nat, NEW m \in Nat, NEW j \in Nat, i < m, m < j,
           NEW K, NEW L, Covers(line, tolerance, i, m, K), Covers(line, tolerance, m, j, L)
    PROVE  Covers(line, tolerance, i, j, {m} \cup K \cup L)
<1> DEFINE J == {m} \cup K \cup L
<1>1. K \subseteq i + 1 .. m - 1 /\ L \subseteq m + 1 .. j - 1
  BY DEF Covers
<1>2. J \subseteq i + 1 .. j - 1
  BY <1>1
<1>3. ASSUME NEW a \in {i, j} \cup J, NEW b \in {i, j} \cup J, a < b, (a + 1 .. b - 1) \cap J = {}
      PROVE  Within(line, tolerance, a, b)
  <2>1. a \in Nat /\ b \in Nat /\ (b <= m \/ m <= a)
    <3>1. a \in Nat /\ b \in Nat
      BY <1>2
    <3>2. m \notin a + 1 .. b - 1
      BY <1>3
    <3> QED BY <3>1, <3>2
  <2>2. CASE b <= m
    <3>1. a \in {i, m} \cup K /\ b \in {i, m} \cup K
      BY <1>1, <1>3, <2>1, <2>2
    <3>2. (a + 1 .. b - 1) \cap K = {}
      BY <1>3
    <3> QED BY <1>3, <3>1, <3>2 DEF Covers
  <2>3. CASE m <= a
    <3>1. a \in {m, j} \cup L /\ b \in {m, j} \cup L
      BY <1>1, <1>3, <2>1, <2>3
    <3>2. (a + 1 .. b - 1) \cap L = {}
      BY <1>3
    <3> QED BY <1>3, <3>1, <3>2 DEF Covers
  <2> QED BY <2>1, <2>2, <2>3
<1> QED BY <1>2, <1>3 DEF Covers

\* Every span is covered by what rdp_simplify keeps of it.
LEMMA KeptCovers ==
    ASSUME NEW line \in Seq(Points), NEW tolerance \in Int, NEW scale \in Nat \ {0},
           NEW h, KeepsLoop(h, line, tolerance, scale),
           NEW i \in 1 .. Len(line), NEW j \in 1 .. Len(line), i <= j
    PROVE  Covers(line, tolerance, i, j, h[<<i, j>>])
<1> DEFINE n == Len(line)
           Covered(d) == \A k, l \in 1 .. n :
                            k <= l /\ l - k <= d => Covers(line, tolerance, k, l, h[<<k, l>>])
           T == {d \in 0 .. n : Covered(d)}
<1>1. n \in Nat
  OBVIOUS
<1>2. ASSUME NEW k \in 1 .. n, NEW l \in 1 .. n, k <= l, l < k + 2
      PROVE  Covers(line, tolerance, k, l, h[<<k, l>>])
  <2>1. h[<<k, l>>] = {}
    BY <1>2 DEF KeepsLoop, KeptIn
  <2>2. Covers(line, tolerance, k, l, {})
    <3> SUFFICES ASSUME NEW a \in {k, l}, NEW b \in {k, l}, a < b
                 PROVE  Within(line, tolerance, a, b)
      BY DEF Covers
    <3>1. a + 1 .. b - 1 = {}
      BY <1>2
    <3> QED BY <3>1 DEF Within
  <2> QED BY <2>1, <2>2
<1>3. 0 \in T
  <2>1. \A k, l \in 1 .. n : k <= l /\ l - k <= 0 => l < k + 2
    OBVIOUS
  <2> HIDE DEF n
  <2> QED BY <1>1, <1>2, <2>1
<1>4. ASSUME NEW d \in 1 .. n, d - 1 \in T PROVE d \in T
  <2>1. Covered(d - 1)
    BY <1>4
  <2>2. ASSUME NEW k \in 1 .. n, NEW l \in 1 .. n, k <= l, l - k <= d
        PROVE  Covers(line, tolerance, k, l, h[<<k, l>>])
    <3> DEFINE m == Track!Farthest(line, k, l)
               far == Track!Exceeds(Track!Distance(line[m], line[k], line[l]), tolerance, scale)
    <3>1. CASE l < k + 2
      BY <1>2, <2>2, <3>1
    <3>2. CASE ~(l < k + 2) /\ ~far
      <4>1. h[<<k, l>>] = {}
        BY <3>2 DEF KeepsLoop, KeptIn
      <4>2. Within(line, tolerance, k, l)
        BY <3>2, NoneExceeds
      <4>3. Covers(line, tolerance, k, l, {})
        <5> SUFFICES ASSUME NEW a \in {k, l}, NEW b \in {k, l}, a < b
                     PROVE  Within(line, tolerance, a, b)
          BY DEF Covers
        <5>1. a = k /\ b = l
          BY <2>2
        <5> QED BY <4>2, <5>1
      <4> QED BY <4>1, <4>3
    <3>3. CASE ~(l < k + 2) /\ far
      <4>1. h[<<k, l>>] = {m} \cup h[<<k, m>>] \cup h[<<m, l>>]
        BY <3>3 DEF KeepsLoop, KeptIn
      <4>2. m \in k + 1 .. l - 1
        BY <3>3, FarthestKnown
      <4> HIDE DEF m
      <4>3. /\ m \in 1 .. n /\ k <= m /\ m <= l /\ k < m /\ m < l
            /\ m - k <= d - 1 /\ l - m <= d - 1
        BY <2>2, <4>2
      <4>4. Covers(line, tolerance, k, m, h[<<k, m>>]) /\ Covers(line, tolerance, m, l, h[<<m, l>>])
        <5> HIDE DEF n
        <5> QED BY <2>1, <4>3
      <4>5. k \in Nat /\ m \in Nat /\ l \in Nat
        BY <4>3
      <4> HIDE DEF n
      <4>6. Covers(line, tolerance, k, l, {m} \cup h[<<k, m>>] \cup h[<<m, l>>])
        BY <4>3, <4>4, <4>5, CoversJoin
      <4> QED BY <4>1, <4>6
    <3> QED BY <3>1, <3>2, <3>3
  <2> HIDE DEF n
  <2> QED BY <2>2
<1>5. n \in T
  <2> HIDE DEF T
  <2>1. \A d \in 0 .. n : d \in T
    BY <1>1, <1>3, <1>4, UpTo
  <2> HIDE DEF n
  <2> QED BY <1>1, <2>1
<1>6. j - i <= n
  OBVIOUS
<1> QED BY <1>5, <1>6

\* Which side of a line a point is on.
LEMMA OrientationInt ==
    ASSUME NEW a \in Points, NEW b \in Points, NEW c \in Points
    PROVE  Track!Orientation(a, b, c) \in Int
<1>1. /\ a[1] \in Int /\ a[2] \in Int /\ b[1] \in Int /\ b[2] \in Int
      /\ c[1] \in Int /\ c[2] \in Int
  BY DEF Points
<1> QED BY <1>1 DEF Track!Orientation

\* A line that is_simple_line accepts does not cross itself: segments that
\* share a point have no inner point in common that is not on the line of both.
LEMMA SimpleLine ==
    ASSUME NEW line \in Seq(Points), Len(line) <= 2 \/ Track!IsSimpleLine(line)
    PROVE  ~Track!CrossesItself(line)
<1> SUFFICES ASSUME NEW i \in 1 .. Len(line) - 1, NEW j \in 1 .. Len(line) - 1, i < j,
                    Track!Crosses(line[i], line[i + 1], line[j], line[j + 1])
             PROVE  FALSE
  BY DEF Track!CrossesItself
<1>1. \A m \in 1 .. Len(line) : line[m] \in Points
  OBVIOUS
<1>2. Track!IsSimpleLine(line)
  OBVIOUS
<1>3. CASE j = i + 1
  <2> DEFINE q == line[j]
             r == line[j + 1]
  <2>1. /\ i + 1 = j /\ j \in 1 .. Len(line) /\ j + 1 \in 1 .. Len(line)
    BY <1>3
  <2>2. q[1] \in Int /\ q[2] \in Int /\ r[1] \in Int /\ r[2] \in Int
    <3>1. q \in Points /\ r \in Points
      BY <1>1, <2>1
    <3> HIDE DEF q, r
    <3> QED BY <3>1 DEF Points
  <2> HIDE DEF q, r
  <2>3. Track!Orientation(q, r, q) = 0
    BY <2>2 DEF Track!Orientation
  <2>4. line[i + 1] = q /\ line[j] = q /\ line[j + 1] = r
    BY <2>1 DEF q, r
  <2>5. Track!Orientation(q, r, line[i]) * Track!Orientation(q, r, q) < 0
    BY <2>4 DEF Track!Crosses
  <2>6. Track!Orientation(q, r, line[i]) \in Int
    <3>1. line[i] \in Points /\ line[j] \in Points /\ line[j + 1] \in Points
      BY <1>1, <2>1
    <3> QED BY <3>1, OrientationInt DEF q, r
  <2> QED BY <2>3, <2>5, <2>6
<1>4. CASE j >= i + 2
  <2> DEFINE a == Track!Orientation(line[j], line[j + 1], line[i])
             b == Track!Orientation(line[j], line[j + 1], line[i + 1])
             c == Track!Orientation(line[i], line[i + 1], line[j])
             d == Track!Orientation(line[i], line[i + 1], line[j + 1])
  <2>1. a \in Int /\ b \in Int /\ c \in Int /\ d \in Int
    <3>1. /\ i \in 1 .. Len(line) /\ i + 1 \in 1 .. Len(line)
          /\ j \in 1 .. Len(line) /\ j + 1 \in 1 .. Len(line)
      OBVIOUS
    <3> QED BY <1>1, <3>1, OrientationInt
  <2>2. a * b < 0 /\ c * d < 0
    BY DEF Track!Crosses
  <2>3. ~((a > 0) # (b > 0) /\ (c > 0) # (d > 0))
    BY <1>2, <1>4 DEF Track!IsSimpleLine, Track!SegmentsIntersect
  <2> HIDE DEF a, b, c, d
  <2>4. (a > 0) # (b > 0)
    BY <2>1, <2>2
  <2>5. (c > 0) # (d > 0)
    BY <2>1, <2>2
  <2> QED BY <2>3, <2>4, <2>5
<1> QED BY <1>3, <1>4

\* A track is faithful to itself.
LEMMA LineFaithful ==
    ASSUME NEW line \in Seq(Points), line # <<>>, NEW tolerance
    PROVE  Track!Faithful(line, line, tolerance)
<1> DEFINE keep == 1 .. Len(line)
<1>1. keep \in SUBSET DOMAIN line /\ {1, Len(line)} \subseteq keep
  OBVIOUS
<1>2. line = Track!Chosen(line, keep)
  BY ChosenAll, TrackOrder
<1>3. ASSUME NEW i \in keep, NEW j \in keep, i < j, (i + 1 .. j - 1) \cap keep = {},
             NEW m \in i + 1 .. j - 1
      PROVE  FALSE
  <2>1. m \in keep
    OBVIOUS
  <2> QED BY <1>3, <2>1
<1> HIDE DEF keep
<1> QED BY <1>1, <1>2, <1>3 DEF Track!Faithful

\* What rdp_simplify returns is faithful to the track, unless it crosses itself.
LEMMA RdpFaithful ==
    ASSUME NEW line \in Seq(Points), line # <<>>, NEW tolerance \in Int, NEW scale \in Nat \ {0},
           NEW result, result = Track!RdpSimplify(line, tolerance, scale),
           Len(result) <= 2 \/ Track!IsSimpleLine(result)
    PROVE  Track!Faithful(line, result, tolerance)
<1> DEFINE n == Len(line)
           K == Track!Kept(line, tolerance, scale)
           keep == {1, n} \cup K
<1>1. n \in Nat \ {0} /\ DOMAIN line = 1 .. n
  OBVIOUS
<1>2. Covers(line, tolerance, 1, n, K)
  <2>1. PICK h : /\ KeepsLoop(h, line, tolerance, scale)
                 /\ Track!Kept(line, tolerance, scale) = h[<<1, n>>]
    BY KeptSteps
  <2>2. 1 \in 1 .. Len(line) /\ n \in 1 .. Len(line) /\ 1 <= n
    BY <1>1
  <2>3. Covers(line, tolerance, 1, n, h[<<1, n>>])
    BY <2>1, <2>2, KeptCovers
  <2> QED BY <2>1, <2>3
<1>3. result = Track!Chosen(line, keep)
  BY Zenon DEF Track!RdpSimplify
<1> HIDE DEF K, n
<1>4. keep \subseteq 1 .. n
  BY <1>1, <1>2 DEF Covers
<1>5. result \in Seq(Points)
  <2> HIDE DEF keep
  <2>1. Chosen(line, keep) \in Seq(Points)
    BY <1>1, <1>4, ChosenKeeps DEF n
  <2> QED BY <1>3, <2>1, TrackOrder
<1>6. ~Track!CrossesItself(result)
  BY <1>5, SimpleLine
<1>7. \A i, j \in keep :
         i < j /\ (i + 1 .. j - 1) \cap keep = {} => Within(line, tolerance, i, j)
  BY <1>2 DEF Covers
<1>8. {1, n} \subseteq keep
  OBVIOUS
<1> HIDE DEF keep
<1>9. \E k \in SUBSET DOMAIN line :
         /\ {1, Len(line)} \subseteq k
         /\ result = Track!Chosen(line, k)
         /\ \A i, j \in k :
               i < j /\ (i + 1 .. j - 1) \cap k = {} =>
                   \A m \in i + 1 .. j - 1 :
                       ~Track!Exceeds(Track!Distance(line[m], line[i], line[j]), tolerance, 1)
  <2>1. keep \in SUBSET DOMAIN line /\ {1, Len(line)} \subseteq keep
    BY <1>1, <1>4, <1>8 DEF n
  <2> QED BY <1>3, <1>7, <2>1, Zenon DEF Within
<1> QED BY <1>6, <1>9, Zenon DEF Track!Faithful

\* What simplify_preserving_topology returns is faithful to the track.
LEMMA SimplifyFaithful ==
    ASSUME NEW line \in Seq(Points), line # <<>>, NEW tolerance \in Int, NEW retries \in Nat
    PROVE  Track!Faithful(line, Track!SimplifyPreservingTopology(line, tolerance, retries), tolerance)
<1> DEFINE Scales(f) == f = [h \in 0 .. retries |-> IF h = 0 THEN 1 ELSE 4 * f[h - 1]]
           scale == CHOOSE f : Scales(f)
<1>1. \E f : Scales(f)
  <2> DEFINE step == [i \in 1 .. retries |-> [v \in Nat \ {0} |-> 4 * v]]
  <2>1. step \in [1 .. retries -> [Nat \ {0} -> Nat \ {0}]]
    OBVIOUS
  <2>2. \A i \in 1 .. retries : \A v \in Nat \ {0} : step[i][v] = 4 * v
    OBVIOUS
  <2> HIDE DEF step
  <2>3. 1 \in Nat \ {0}
    OBVIOUS
  <2>4. PICK f : Follows(f, retries, Nat \ {0}, 1, step)
    BY <2>1, <2>3, Recursion
  <2>5. f = [h \in 0 .. retries |-> IF h = 0 THEN 1 ELSE 4 * f[h - 1]]
    <3>1. /\ f \in [0 .. retries -> Nat \ {0}] /\ f[0] = 1
          /\ \A i \in 1 .. retries : f[i] = step[i][f[i - 1]]
      BY <2>4 DEF Follows
    <3>2. \A i \in 1 .. retries : f[i] = 4 * f[i - 1]
      <4> TAKE i \in 1 .. retries
      <4>1. f[i - 1] \in Nat \ {0}
        BY <3>1
      <4> QED BY <2>2, <3>1, <4>1
    <3> QED BY <3>1, <3>2
  <2> QED BY <2>5
<1>2. Scales(scale)
  <2> HIDE DEF Scales
  <2> QED BY <1>1
<1> HIDE DEF scale
<1>3. \A h \in 0 .. retries : scale[h] \in Nat \ {0}
  <2> DEFINE T == {h \in 0 .. retries : scale[h] \in Nat \ {0}}
  <2>1. \A h \in 0 .. retries : scale[h] = IF h = 0 THEN 1 ELSE 4 * scale[h - 1]
    BY <1>2, Zenon
  <2> HIDE DEF Scales
  <2>2. 0 \in T
    BY <2>1
  <2>3. ASSUME NEW h \in 1 .. retries, h - 1 \in T PROVE h \in T
    <3>1. scale[h - 1] \in Nat \ {0} /\ scale[h] = 4 * scale[h - 1]
      BY <2>1, <2>3
    <3> QED BY <3>1
  <2>4. \A h \in 0 .. retries : h \in T
    <3> HIDE DEF T
    <3> QED BY <2>2, <2>3, UpTo
  <2> QED BY <2>4
<1> DEFINE Result(left) == Track!RdpSimplify(line, tolerance, scale[retries - left])
           Good(x) == Len(x) <= 2 \/ Track!IsSimpleLine(x)
           Turn(v, left) == (IF Good(Result(left)) THEN Result(left) ELSE v)
           Attempts(f) == f = [left \in 0 .. retries |->
                                  IF left = 0 THEN line ELSE Turn(f[left - 1], left)]
           attempt == CHOOSE f : Attempts(f)
<1>4. Track!SimplifyPreservingTopology(line, tolerance, retries) =
         IF Len(line) <= 2 THEN line ELSE attempt[retries]
  BY Zenon DEF Track!SimplifyPreservingTopology, scale
<1>5. \A left \in 1 .. retries :
         Good(Result(left)) => Track!Faithful(line, Result(left), tolerance)
  <2> TAKE left \in 1 .. retries
  <2>1. retries - left \in 0 .. retries
    OBVIOUS
  <2>2. scale[retries - left] \in Nat \ {0}
    BY <1>3, <2>1
  <2> QED BY <2>2, RdpFaithful
<1> HIDE DEF Result, Good, Scales
<1>6. \E f : Attempts(f)
  <2> DEFINE V == {line} \cup {Result(left) : left \in 1 .. retries}
             step == [i \in 1 .. retries |-> [v \in V |-> Turn(v, i)]]
  <2>1. step \in [1 .. retries -> [V -> V]]
    OBVIOUS
  <2>2. \A i \in 1 .. retries : \A v \in V : step[i][v] = Turn(v, i)
    OBVIOUS
  <2>3. line \in V
    OBVIOUS
  <2> HIDE DEF step, V
  <2>4. PICK f : Follows(f, retries, V, line, step)
    BY <2>1, <2>3, Recursion
  <2>5. f = [left \in 0 .. retries |-> IF left = 0 THEN line ELSE Turn(f[left - 1], left)]
    <3>1. /\ f \in [0 .. retries -> V] /\ f[0] = line
          /\ \A i \in 1 .. retries : f[i] = step[i][f[i - 1]]
      BY <2>4 DEF Follows
    <3> HIDE DEF Turn
    <3>2. \A i \in 1 .. retries : f[i] = Turn(f[i - 1], i)
      <4> TAKE i \in 1 .. retries
      <4>1. f[i - 1] \in V
        BY <3>1
      <4> QED BY <2>2, <3>1, <4>1
    <3>3. \A left \in 0 .. retries :
             f[left] = IF left = 0 THEN line ELSE Turn(f[left - 1], left)
      <4> TAKE left \in 0 .. retries
      <4>1. left = 0 \/ left \in 1 .. retries
        OBVIOUS
      <4> QED BY <3>1, <3>2, <4>1
    <3>4. f = [left \in 0 .. retries |-> f[left]]
      BY <3>1
    <3> QED BY <3>3, <3>4, Zenon
  <2> QED BY <2>5
<1>7. Attempts(attempt)
  <2> HIDE DEF Attempts
  <2> QED BY <1>6
<1> HIDE DEF attempt
<1>8. Track!Faithful(line, line, tolerance)
  BY LineFaithful
<1>9. Track!Faithful(line, attempt[retries], tolerance)
  <2> DEFINE T == {left \in 0 .. retries : Track!Faithful(line, attempt[left], tolerance)}
  <2>1. \A left \in 0 .. retries :
           attempt[left] = IF left = 0 THEN line ELSE Turn(attempt[left - 1], left)
    <3> HIDE DEF Turn
    <3> QED BY <1>7, Zenon
  <2> HIDE DEF Attempts
  <2>2. 0 \in T
    BY <1>8, <2>1
  <2>3. ASSUME NEW left \in 1 .. retries, left - 1 \in T PROVE left \in T
    <3>1. attempt[left] = Turn(attempt[left - 1], left)
      BY <2>1
    <3>2. Track!Faithful(line, attempt[left - 1], tolerance)
      BY <2>3
    <3>3. Track!Faithful(line, attempt[left], tolerance)
      BY <1>5, <3>1, <3>2
    <3> QED BY <3>3
  <2>4. \A left \in 0 .. retries : left \in T
    <3> HIDE DEF T, Turn
    <3> QED BY <2>2, <2>3, UpTo
  <2> QED BY <2>4
<1> QED BY <1>4, <1>8, <1>9

-----------------------------------------------------------------------------
(* Vessel trajectories. *)

\* Where a vessel was, and when.
Spot(e) == [at |-> e.at, position |-> e.position]
Spots(events) == {Spot(e) : e \in events}

\* Points are in the order in which they were observed.
Ascending(s) == \A i \in 1 .. Len(s) - 1 : s[i].at <= s[i + 1].at

\* Neighbours are not the same.
Apart(s) == \A i \in 1 .. Len(s) - 1 : ~Track!Same(s[i], s[i + 1])

\* Sorting by time puts what was observed first first.
LEMMA InOrderAscends ==
    ASSUME NEW S, NEW s \in Seq(S), \A e \in S : e.at \in Int /\ e.id \in Int
    PROVE  Ascending(Order!InOrder(s))
<1> DEFINE P == EarlierPairs(S)
           n == Len(s)
           R == StableOrder(P, s)
           at(i) == RankedAt(R, 1 .. n, i)
           t == SortedBy(P, s)
<1>1. KeyOrder(P, S) /\ \A e, f \in S : <<e, f>> \in P <=> Order!Later(f, e)
  BY EarlierOrder
<1>2. Order!InOrder(s) = t
  BY InOrderSorts
<1> HIDE DEF P
<1>3. TotalOrder(R, 1 .. n)
  BY <1>1, StableTotal
<1>4. n \in Nat /\ DOMAIN s = 1 .. n /\ \A i \in 1 .. n : s[i] \in S
  OBVIOUS
<1> HIDE DEF n
<1>5. IsFiniteSet(1 .. n) /\ Cardinality(1 .. n) = n
  BY <1>4, FS_Interval
<1>6. DOMAIN t = 1 .. n /\ \A i \in 1 .. n : t[i] = s[at(i)]
  BY <1>4 DEF SortedBy, n
<1> HIDE DEF t
<1>7. Len(t) = n
  <2>1. t = SortedBy(P, s)
    BY DEF t
  <2>2. SortedBy(P, s) = [i \in 1 .. n |-> s[at(i)]]
    BY <1>4 DEF SortedBy, n
  <2> QED BY <1>4, <2>1, <2>2
<1>8. \A j, k \in 1 .. n : <<j, k>> \in R => <<s[k], s[j]>> \notin P
  <2> TAKE j, k \in 1 .. n
  <2>1. <<s[j], s[k]>> \in P => <<s[k], s[j]>> \notin P
    BY <1>1, <1>4 DEF KeyOrder
  <2> QED BY <2>1 DEF StableOrder
<1> HIDE DEF R
<1>9. \A i \in 1 .. n : at(i) \in 1 .. n
  BY <1>3, <1>5, Sorts
<1>10. \A i, j \in 1 .. n : i < j <=> <<at(i), at(j)>> \in R
  BY <1>3, <1>5, Sorts
<1> HIDE DEF at
<1>11. ASSUME NEW i \in 1 .. n - 1 PROVE t[i].at <= t[i + 1].at
  <2>1. i \in 1 .. n /\ i + 1 \in 1 .. n /\ i < i + 1
    BY <1>4
  <2> DEFINE j == i + 1
  <2>2. <<at(i), at(j)>> \in R
    BY <1>10, <2>1
  <2>3. <<t[j], t[i]>> \notin P /\ t[i] \in S /\ t[j] \in S
    BY <1>4, <1>6, <1>8, <1>9, <2>1, <2>2
  <2> HIDE DEF j
  <2>4. ~Order!Later(t[i], t[j]) /\ t[i].at \in Int /\ t[j].at \in Int
    BY <1>1, <2>3
  <2> QED BY <2>4 DEF Order!Later, j
<1> QED BY <1>2, <1>7, <1>11 DEF Ascending

\* What appending does to a list of points.
LEMMA AppendPoint ==
    ASSUME NEW S, \A e \in S : e.at \in Int, NEW s \in Seq(S), NEW p \in S,
           s # <<>> => s[Len(s)].at <= p.at /\ ~Track!Same(s[Len(s)], p),
           Ascending(s), Apart(s)
    PROVE  Ascending(Append(s, p)) /\ Apart(Append(s, p))
<1> DEFINE t == Append(s, p)
           n == Len(s)
<1>1. /\ n \in Nat /\ Len(t) = n + 1 /\ t[n + 1] = p
      /\ \A i \in 1 .. n : t[i] = s[i]
      /\ s # <<>> <=> n # 0
  OBVIOUS
<1> HIDE DEF t, n
<1>2. ASSUME NEW i \in 1 .. n PROVE t[i].at <= t[i + 1].at /\ ~Track!Same(t[i], t[i + 1])
  <2>1. CASE i = n
    BY <1>1, <2>1 DEF n
  <2>2. CASE i \in 1 .. n - 1
    <3>1. t[i] = s[i] /\ t[i + 1] = s[i + 1]
      BY <1>1, <2>2
    <3>2. s[i].at <= s[i + 1].at /\ ~Track!Same(s[i], s[i + 1])
      BY <2>2 DEF Ascending, Apart, n
    <3> QED BY <3>1, <3>2
  <2> QED BY <1>1, <2>1, <2>2
<1>3. Len(t) - 1 = n
  BY <1>1
<1>4. Ascending(t) /\ Apart(t)
  BY <1>2, <1>3 DEF Ascending, Apart
<1> QED BY <1>4 DEF t

\* The loop that drops repeated points.
LEMMA DeduplicatedSteps ==
    ASSUME NEW S, NEW s \in Seq(S)
    PROVE  \E h : /\ h[0] = <<>>
                  /\ \A i \in 1 .. Len(s) :
                        h[i] = Track!Joined(h[i - 1], s[i])
                  /\ Track!Deduplicated(s) = h[Len(s)]
<1> DEFINE n == Len(s)
           Turn(v, i) == Track!Joined(v, s[i])
           Loop(f) == f = [i \in 0 .. n |-> IF i = 0 THEN <<>> ELSE Turn(f[i - 1], i)]
           h == CHOOSE f : Loop(f)
<1>1. n \in Nat /\ \A i \in 1 .. n : s[i] \in S
  OBVIOUS
<1>2. Track!Deduplicated(s) = h[n]
  BY Zenon DEF Track!Deduplicated
<1>3. \A i \in 1 .. n : \A v \in Seq(S) : Turn(v, i) \in Seq(S)
  BY <1>1 DEF Track!Joined
<1> HIDE DEF n, Turn
<1>4. \E f : Loop(f)
  <2> DEFINE step == [i \in 1 .. n |-> [v \in Seq(S) |-> Turn(v, i)]]
  <2>1. step \in [1 .. n -> [Seq(S) -> Seq(S)]]
    BY <1>3
  <2>2. \A i \in 1 .. n : \A v \in Seq(S) : step[i][v] = Turn(v, i)
    OBVIOUS
  <2>3. <<>> \in Seq(S)
    OBVIOUS
  <2> HIDE DEF step
  <2>4. PICK f : Follows(f, n, Seq(S), <<>>, step)
    BY <1>1, <2>1, <2>3, Recursion
  <2>5. /\ f \in [0 .. n -> Seq(S)] /\ f[0] = <<>>
        /\ \A i \in 1 .. n : f[i] = step[i][f[i - 1]]
    BY <2>4 DEF Follows
  <2>6. \A i \in 1 .. n : f[i] = Turn(f[i - 1], i)
    <3> TAKE i \in 1 .. n
    <3>1. f[i - 1] \in Seq(S)
      BY <1>1, <2>5
    <3> QED BY <2>2, <2>5, <3>1
  <2>7. \A i \in 0 .. n : f[i] = IF i = 0 THEN <<>> ELSE Turn(f[i - 1], i)
    <3> TAKE i \in 0 .. n
    <3>1. i = 0 \/ i \in 1 .. n
      BY <1>1
    <3> QED BY <2>5, <2>6, <3>1
  <2>8. f = [i \in 0 .. n |-> f[i]]
    BY <2>5
  <2> QED BY <2>7, <2>8, Zenon
<1>5. Loop(h)
  <2> HIDE DEF Loop
  <2> QED BY <1>4
<1> HIDE DEF h
<1>6. \A i \in 0 .. n : h[i] = IF i = 0 THEN <<>> ELSE Turn(h[i - 1], i)
  BY <1>5, Zenon
<1> HIDE DEF Loop
<1>7. h[0] = <<>> /\ \A i \in 1 .. n : h[i] = Turn(h[i - 1], i)
  BY <1>1, <1>6
<1> QED BY <1>2, <1>7 DEF n, Turn

\* What the first i points of a track became once repeated points are dropped.
Gathering(S, s, i, kept) ==
    /\ kept \in Seq(S)
    /\ kept = <<>> <=> i = 0
    /\ i # 0 => kept[Len(kept)].at = s[i].at
    /\ Ascending(kept) /\ Apart(kept)
    /\ Spots(ToSet(kept)) = {Spot(s[k]) : k \in 1 .. i}

\* A track without repeated points has the spots of the track.
LEMMA DeduplicatedKeeps ==
    ASSUME NEW S, \A e \in S : e.at \in Int, NEW s \in Seq(S), Ascending(s)
    PROVE  Gathering(S, s, Len(s), Track!Deduplicated(s))
<1> DEFINE n == Len(s)
<1>1. n \in Nat /\ \A i \in 1 .. n : s[i] \in S /\ s[i].at \in Int
  OBVIOUS
<1>2. PICK h : /\ h[0] = <<>>
               /\ \A i \in 1 .. n :
                     h[i] = Track!Joined(h[i - 1], s[i])
               /\ Track!Deduplicated(s) = h[n]
  BY DeduplicatedSteps
<1> HIDE DEF n
<1> DEFINE T == {i \in 0 .. n : Gathering(S, s, i, h[i])}
<1>3. 0 \in T
  <2>1. Gathering(S, s, 0, <<>>)
    <3>1. ToSet(<<>>) = {} /\ {Spot(s[k]) : k \in 1 .. 0} = {}
      BY DEF ToSet
    <3>2. Spots({}) = {}
      BY DEF Spots
    <3>3. <<>> \in Seq(S) /\ Len(<<>>) - 1 = -1
      OBVIOUS
    <3>4. Ascending(<<>>) /\ Apart(<<>>)
      BY <3>3 DEF Ascending, Apart
    <3>5. Spots(ToSet(<<>>)) = {Spot(s[k]) : k \in 1 .. 0}
      BY <3>1, <3>2
    <3> QED BY <3>3, <3>4, <3>5 DEF Gathering
  <2> QED BY <1>1, <1>2, <2>1
<1>4. ASSUME NEW i \in 1 .. n, i - 1 \in T PROVE i \in T
  <2> DEFINE v == h[i - 1]
             p == s[i]
  <2>1. Gathering(S, s, i - 1, v) /\ p \in S
    BY <1>1, <1>4
  <2>2. h[i] = IF v # <<>> /\ Track!Same(Track!Last(v), p) THEN v ELSE Append(v, p)
    BY <1>2 DEF Track!Joined
  <2>3. v \in Seq(S) /\ (v = <<>> <=> i - 1 = 0)
    BY <2>1 DEF Gathering
  <2>4. v # <<>> => Track!Last(v) = v[Len(v)] /\ v[Len(v)] \in ToSet(v) /\ v[Len(v)] \in S
    BY <2>3 DEF Track!Last, ToSet
  <2>5. {Spot(s[k]) : k \in 1 .. i} = {Spot(s[k]) : k \in 1 .. i - 1} \cup {Spot(p)}
    <3>1. 1 .. i = (1 .. i - 1) \cup {i}
      OBVIOUS
    <3> HIDE DEF v
    <3> QED BY <3>1
  <2>6. Spots(ToSet(v)) = {Spot(s[k]) : k \in 1 .. i - 1}
    BY <2>1 DEF Gathering
  <2>7. v # <<>> => v[Len(v)].at <= p.at
    <3> SUFFICES ASSUME v # <<>> PROVE v[Len(v)].at <= p.at
      OBVIOUS
    <3>1. i - 1 \in 1 .. n - 1 /\ i - 1 # 0 /\ (i - 1) + 1 = i
      BY <1>1, <2>3
    <3>2. v[Len(v)].at = s[i - 1].at
      BY <2>1, <3>1 DEF Gathering
    <3>3. s[i - 1].at <= s[(i - 1) + 1].at
      BY <3>1 DEF Ascending, n
    <3> QED BY <3>1, <3>2, <3>3
  <2>8. Ascending(v) /\ Apart(v)
    BY <2>1 DEF Gathering
  <2>9. CASE v # <<>> /\ Track!Same(Track!Last(v), p)
    <3>1. h[i] = v
      BY <2>2, <2>9
    <3>2. v[Len(v)].at = p.at /\ Spot(v[Len(v)]) = Spot(p)
      BY <2>4, <2>9 DEF Track!Same, Spot
    <3>3. Spot(p) \in Spots(ToSet(v))
      BY <2>4, <2>9, <3>2 DEF Spots
    <3>4. {Spot(s[k]) : k \in 1 .. i} = Spots(ToSet(v))
      BY <2>5, <2>6, <3>3
    <3> HIDE DEF v
    <3>5. Gathering(S, s, i, v)
      BY <2>3, <2>8, <2>9, <3>2, <3>4 DEF Gathering, p
    <3> QED BY <3>1, <3>5
  <2>10. CASE ~(v # <<>> /\ Track!Same(Track!Last(v), p))
    <3>1. h[i] = Append(v, p)
      BY <2>2, <2>10
    <3>2. Ascending(Append(v, p)) /\ Apart(Append(v, p))
      <4>1. v # <<>> => v[Len(v)].at <= p.at /\ ~Track!Same(v[Len(v)], p)
        BY <2>4, <2>7, <2>10
      <4> HIDE DEF v, p
      <4> QED BY <2>1, <2>3, <2>8, <4>1, AppendPoint
    <3> HIDE DEF v
    <3>3. ToSet(Append(v, p)) = ToSet(v) \cup {p}
      BY <2>1, <2>3, AppendElements
    <3>4. Spots(ToSet(v) \cup {p}) = Spots(ToSet(v)) \cup {Spot(p)}
      BY DEF Spots
    <3>5. Spots(ToSet(Append(v, p))) = {Spot(s[k]) : k \in 1 .. i}
      BY <2>5, <2>6, <3>3, <3>4
    <3>6. /\ Append(v, p) \in Seq(S) /\ Append(v, p) # <<>>
          /\ Append(v, p)[Len(Append(v, p))] = p
      BY <2>1, <2>3
    <3>7. Gathering(S, s, i, Append(v, p))
      BY <3>2, <3>5, <3>6 DEF Gathering, p
    <3> HIDE DEF p
    <3>8. Gathering(S, s, i, h[i])
      BY <3>1, <3>7
    <3> QED BY <1>1, <3>8
  <2> QED BY <2>9, <2>10
<1>5. n \in T
  <2> HIDE DEF T
  <2>1. \A i \in 0 .. n : i \in T
    BY <1>1, <1>3, <1>4, UpTo
  <2> QED BY <1>1, <2>1
<1> QED BY <1>2, <1>5 DEF n

\* The loop of segment_track.
LEMMA SegmentsSteps ==
    ASSUME NEW S, NEW s \in Seq(S), NEW threshold
    PROVE  \E h : /\ h[0] = <<>>
                  /\ \A i \in 1 .. Len(s) : h[i] = Track!Extended(threshold, h[i - 1], s[i])
                  /\ Track!Segments(threshold, s) = h[Len(s)]
<1> DEFINE n == Len(s)
           V == Seq(Seq(S))
           Turn(v, i) == Track!Extended(threshold, v, s[i])
           Loop(f) == f = [i \in 0 .. n |-> IF i = 0 THEN <<>> ELSE Turn(f[i - 1], i)]
           h == CHOOSE f : Loop(f)
<1>1. n \in Nat /\ \A i \in 1 .. n : s[i] \in S
  OBVIOUS
<1>2. Track!Segments(threshold, s) = h[n]
  BY Zenon DEF Track!Segments
<1>3. ASSUME NEW i \in 1 .. n, NEW v \in V PROVE Turn(v, i) \in V
  <2> DEFINE p == s[i]
             k == Len(v)
  <2>1. p \in S
    BY <1>1
  <2> HIDE DEF p
  <2>2. Append(v, <<p>>) \in V
    BY <2>1
  <2>3. v # <<>> => [v EXCEPT ![k] = Append(@, p)] \in V
    <3> SUFFICES ASSUME v # <<>> PROVE [v EXCEPT ![k] = Append(@, p)] \in V
      OBVIOUS
    <3>1. k \in 1 .. k /\ v \in [1 .. k -> Seq(S)] /\ k \in Nat
      OBVIOUS
    <3> HIDE DEF k
    <3>2. [v EXCEPT ![k] = Append(@, p)] \in [1 .. k -> Seq(S)]
      BY <2>1, <3>1
    <3> QED BY <3>1, <3>2
  <2>4. Turn(v, i) = IF v = <<>> \/ Track!Gap(threshold, Track!Last(Track!Last(v)), p)
                     THEN Append(v, <<p>>)
                     ELSE [v EXCEPT ![k] = Append(@, p)]
    BY Zenon DEF Track!Extended, p
  <2> HIDE DEF Turn, k, V
  <2> QED BY <2>2, <2>3, <2>4
<1> HIDE DEF n, Turn
<1>4. \E f : Loop(f)
  <2> DEFINE step == [i \in 1 .. n |-> [v \in V |-> Turn(v, i)]]
  <2>1. step \in [1 .. n -> [V -> V]]
    BY <1>3
  <2>2. \A i \in 1 .. n : \A v \in V : step[i][v] = Turn(v, i)
    OBVIOUS
  <2>3. <<>> \in V
    OBVIOUS
  <2> HIDE DEF step, V
  <2>4. PICK f : Follows(f, n, V, <<>>, step)
    BY <1>1, <2>1, <2>3, Recursion
  <2>5. /\ f \in [0 .. n -> V] /\ f[0] = <<>>
        /\ \A i \in 1 .. n : f[i] = step[i][f[i - 1]]
    BY <2>4 DEF Follows
  <2>6. \A i \in 1 .. n : f[i] = Turn(f[i - 1], i)
    <3> TAKE i \in 1 .. n
    <3>1. f[i - 1] \in V
      BY <1>1, <2>5
    <3> QED BY <2>2, <2>5, <3>1
  <2>7. \A i \in 0 .. n : f[i] = IF i = 0 THEN <<>> ELSE Turn(f[i - 1], i)
    <3> TAKE i \in 0 .. n
    <3>1. i = 0 \/ i \in 1 .. n
      BY <1>1
    <3> QED BY <2>5, <2>6, <3>1
  <2>8. f = [i \in 0 .. n |-> f[i]]
    BY <2>5
  <2> QED BY <2>7, <2>8, Zenon
<1>5. Loop(h)
  <2> HIDE DEF Loop
  <2> QED BY <1>4
<1> HIDE DEF h
<1>6. \A i \in 0 .. n : h[i] = IF i = 0 THEN <<>> ELSE Turn(h[i - 1], i)
  BY <1>5, Zenon
<1> HIDE DEF Loop
<1>7. h[0] = <<>> /\ \A i \in 1 .. n : h[i] = Turn(h[i - 1], i)
  BY <1>1, <1>6
<1> QED BY <1>2, <1>7 DEF n, Turn

\* A segment: points in order, without repetition and without a gap.
Smooth(threshold, g) ==
    /\ g # <<>> /\ Ascending(g) /\ Apart(g)
    /\ \A m \in 1 .. Len(g) - 1 : ~Track!Gap(threshold, g[m], g[m + 1])

LastOf(s) == s[Len(s)]

\* What the first i points of a track were cut into.
Cut(S, threshold, s, i, segments) ==
    /\ segments \in Seq(Seq(S))
    /\ segments = <<>> <=> i = 0
    /\ Elements(segments) = {s[k] : k \in 1 .. i}
    /\ \A k \in 1 .. Len(segments) : Smooth(threshold, segments[k])
    /\ \A k \in 1 .. Len(segments) - 1 :
          Track!Gap(threshold, LastOf(segments[k]), segments[k + 1][1])
    /\ i # 0 => LastOf(LastOf(segments)) = s[i]

\* A segment grows by a point that is not too late.
LEMMA SmoothGrows ==
    ASSUME NEW S, \A e \in S : e.at \in Int, NEW threshold, NEW g \in Seq(S), NEW p \in S,
           Smooth(threshold, g), LastOf(g).at <= p.at, ~Track!Same(LastOf(g), p),
           ~Track!Gap(threshold, LastOf(g), p)
    PROVE  Smooth(threshold, Append(g, p))
<1> DEFINE t == Append(g, p)
           n == Len(g)
<1>1. Ascending(t) /\ Apart(t)
  BY AppendPoint DEF Smooth, LastOf
<1>2. /\ n \in Nat /\ Len(t) = n + 1 /\ t[n + 1] = p /\ t # <<>>
      /\ \A i \in 1 .. n : t[i] = g[i]
  OBVIOUS
<1>3. LastOf(g) = g[n]
  BY DEF LastOf
<1> HIDE DEF t, n
<1>4. ASSUME NEW m \in 1 .. n PROVE ~Track!Gap(threshold, t[m], t[m + 1])
  <2>1. CASE m = n
    BY <1>2, <1>3, <2>1
  <2>2. CASE m \in 1 .. n - 1
    <3>1. t[m] = g[m] /\ t[m + 1] = g[m + 1]
      BY <1>2, <2>2
    <3> QED BY <2>2, <3>1 DEF Smooth, n
  <2> QED BY <1>2, <2>1, <2>2
<1>5. Len(t) - 1 = n
  BY <1>2
<1>6. Smooth(threshold, t)
  BY <1>1, <1>2, <1>4, <1>5 DEF Smooth
<1> QED BY <1>6 DEF t

\* A new segment is cut off at a gap.
LEMMA CutOff ==
    ASSUME NEW S, NEW threshold, NEW s, NEW i \in Nat \ {0}, NEW x, Cut(S, threshold, s, i - 1, x),
           NEW p \in S, p = s[i],
           x # <<>> => Track!Gap(threshold, LastOf(LastOf(x)), p)
    PROVE  Cut(S, threshold, s, i, Append(x, <<p>>))
<1> DEFINE one == <<p>>
           y == Append(x, one)
           n == Len(x)
<1>1. x \in Seq(Seq(S))
  BY DEF Cut
<1>2. one \in Seq(S) /\ one # <<>> /\ Len(one) = 1 /\ one[1] = p /\ ToSet(one) = {p}
  BY DEF ToSet
<1> HIDE DEF one
<1>3. /\ n \in Nat /\ y \in Seq(Seq(S)) /\ Len(y) = n + 1 /\ y[n + 1] = one /\ y # <<>>
      /\ \A k \in 1 .. n : y[k] = x[k]
  <2> DEFINE W == Seq(S)
  <2> HIDE DEF W
  <2>1. x \in Seq(W) /\ one \in W
    BY <1>1, <1>2 DEF W
  <2>2. /\ n \in Nat /\ y \in Seq(W) /\ Len(y) = n + 1 /\ y[n + 1] = one /\ y # <<>>
        /\ \A k \in 1 .. n : y[k] = x[k]
    BY <2>1
  <2> QED BY <2>2 DEF W
<1> HIDE DEF y, n
<1>4. Elements(y) = {s[k] : k \in 1 .. i}
  <2>1. Elements(y) = Elements(x) \cup ToSet(one)
    <3>1. 1 .. n + 1 = (1 .. n) \cup {n + 1}
      BY <1>3
    <3>2. Elements(x) = UNION {ToSet(x[k]) : k \in 1 .. n}
      BY DEF Elements, n
    <3>3. Elements(y) = UNION {ToSet(y[k]) : k \in 1 .. n + 1}
      BY <1>3 DEF Elements
    <3>4. Elements(y) = (UNION {ToSet(x[k]) : k \in 1 .. n}) \cup ToSet(one)
      BY <1>3, <3>1, <3>3
    <3> QED BY <3>2, <3>4
  <2>2. 1 .. i = (1 .. i - 1) \cup {i}
    OBVIOUS
  <2>3. Elements(x) = {s[k] : k \in 1 .. i - 1}
    BY DEF Cut
  <2> QED BY <1>2, <2>1, <2>2, <2>3
<1>5. Smooth(threshold, one)
  BY <1>2 DEF Smooth, Ascending, Apart
<1>6. \A k \in 1 .. Len(y) : Smooth(threshold, y[k])
  <2>1. \A k \in 1 .. n : Smooth(threshold, x[k])
    BY DEF Cut, n
  <2> QED BY <1>3, <1>5, <2>1
<1>7. ASSUME NEW k \in 1 .. Len(y) - 1
      PROVE  Track!Gap(threshold, LastOf(y[k]), y[k + 1][1])
  <2>1. CASE k = n
    <3>1. x # <<>> /\ LastOf(x) = x[n]
      BY <1>1, <1>3, <1>7, <2>1 DEF LastOf, n
    <3>2. y[k] = x[n] /\ y[k + 1] = one
      BY <1>3, <1>7, <2>1
    <3> QED BY <1>2, <3>1, <3>2
  <2>2. CASE k \in 1 .. n - 1
    <3>1. y[k] = x[k] /\ y[k + 1] = x[k + 1]
      BY <1>3, <2>2
    <3> QED BY <2>2, <3>1 DEF Cut, n
  <2> QED BY <1>3, <1>7, <2>1, <2>2
<1>8. LastOf(LastOf(y)) = s[i]
  BY <1>2, <1>3 DEF LastOf
<1>9. Cut(S, threshold, s, i, y)
  BY <1>3, <1>4, <1>6, <1>7, <1>8 DEF Cut
<1> QED BY <1>9 DEF y, one

\* The last segment grows otherwise.
LEMMA CutGrows ==
    ASSUME NEW S, \A e \in S : e.at \in Int, NEW threshold, NEW s, NEW i \in Nat \ {0}, NEW x,
           Cut(S, threshold, s, i - 1, x), x # <<>>, NEW p \in S, p = s[i],
           ~Track!Gap(threshold, LastOf(LastOf(x)), p),
           LastOf(LastOf(x)).at <= p.at, ~Track!Same(LastOf(LastOf(x)), p)
    PROVE  Cut(S, threshold, s, i, [x EXCEPT ![Len(x)] = Append(@, p)])
<1> DEFINE n == Len(x)
           g == x[n]
           t == Append(g, p)
           y == [x EXCEPT ![n] = Append(@, p)]
<1>1. x \in Seq(Seq(S)) /\ n \in Nat \ {0} /\ x \in [1 .. n -> Seq(S)] /\ LastOf(x) = g
  <2>1. x \in Seq(Seq(S))
    BY DEF Cut
  <2> QED BY <2>1 DEF LastOf
<1> HIDE DEF n
<1>2. g \in Seq(S) /\ Smooth(threshold, g) /\ g # <<>>
  BY <1>1 DEF Cut, n, Smooth
<1> HIDE DEF g
<1>3. /\ t \in Seq(S) /\ Len(t) = Len(g) + 1 /\ t[Len(t)] = p /\ t[1] = g[1]
  BY <1>2
<1>4. Smooth(threshold, t)
  BY <1>1, <1>2, SmoothGrows
<1>5. ToSet(t) = ToSet(g) \cup {p}
  BY <1>2, AppendElements
<1> HIDE DEF t
<1>6. y = [x EXCEPT ![n] = t]
  BY DEF t, g
<1>7. /\ y \in [1 .. n -> Seq(S)] /\ y[n] = t
      /\ \A k \in 1 .. n - 1 : y[k] = x[k]
  BY <1>1, <1>3, <1>6
<1> HIDE DEF y
<1>8. y \in Seq(Seq(S)) /\ Len(y) = n /\ y # <<>>
  <2> DEFINE W == Seq(S)
  <2> HIDE DEF W
  <2>1. y \in [1 .. n -> W] /\ n \in Nat \ {0}
    BY <1>1, <1>7 DEF W
  <2>2. y \in Seq(W) /\ Len(y) = n
    BY <2>1
  <2> QED BY <1>1, <2>2 DEF W
<1>9. Elements(y) = {s[k] : k \in 1 .. i}
  <2>1. 1 .. n = (1 .. n - 1) \cup {n} /\ n \notin 1 .. n - 1
    BY <1>1
  <2> DEFINE before == UNION {ToSet(x[k]) : k \in 1 .. n - 1}
  <2>2. Elements(x) = before \cup ToSet(g)
    BY <2>1 DEF Elements, n, g
  <2>3. Elements(y) = UNION {ToSet(y[k]) : k \in 1 .. n}
    BY <1>8 DEF Elements
  <2>4. Elements(y) = before \cup ToSet(t)
    BY <1>7, <2>1, <2>3
  <2>5. 1 .. i = (1 .. i - 1) \cup {i}
    OBVIOUS
  <2>6. Elements(x) = {s[k] : k \in 1 .. i - 1}
    BY DEF Cut
  <2>7. {s[k] : k \in 1 .. i} = Elements(x) \cup {p}
    BY <2>5, <2>6
  <2> HIDE DEF before
  <2> QED BY <1>5, <2>2, <2>4, <2>7
<1>10. \A k \in 1 .. Len(y) : Smooth(threshold, y[k])
  <2>1. \A k \in 1 .. n : Smooth(threshold, x[k])
    BY DEF Cut, n
  <2> QED BY <1>1, <1>4, <1>7, <1>8, <2>1
<1>11. ASSUME NEW k \in 1 .. Len(y) - 1
       PROVE  Track!Gap(threshold, LastOf(y[k]), y[k + 1][1])
  <2>1. k \in 1 .. n - 1 /\ y[k] = x[k]
    BY <1>7, <1>8
  <2>2. y[k + 1][1] = x[k + 1][1]
    <3>1. CASE k + 1 = n
      <4>1. y[k + 1] = t /\ x[k + 1] = g
        BY <1>7, <3>1 DEF g
      <4> QED BY <1>3, <4>1
    <3>2. CASE k + 1 # n
      <4>1. k + 1 \in 1 .. n - 1
        BY <1>1, <2>1, <3>2
      <4> QED BY <1>7, <4>1
    <3> QED BY <3>1, <3>2
  <2>3. Track!Gap(threshold, LastOf(x[k]), x[k + 1][1])
    BY <2>1 DEF Cut, n
  <2> QED BY <2>1, <2>2, <2>3
<1>12. LastOf(LastOf(y)) = s[i]
  BY <1>3, <1>7, <1>8 DEF LastOf
<1>13. Cut(S, threshold, s, i, y)
  BY <1>8, <1>9, <1>10, <1>11, <1>12 DEF Cut
<1> QED BY <1>13 DEF y, n

\* A track is cut at its gaps.
LEMMA SegmentsCut ==
    ASSUME NEW S, \A e \in S : e.at \in Int, NEW s \in Seq(S), Ascending(s), Apart(s),
           NEW threshold
    PROVE  Cut(S, threshold, s, Len(s), Track!Segments(threshold, s))
<1> DEFINE n == Len(s)
<1>1. n \in Nat /\ \A i \in 1 .. n : s[i] \in S
  OBVIOUS
<1>2. PICK h : /\ h[0] = <<>>
               /\ \A i \in 1 .. n : h[i] = Track!Extended(threshold, h[i - 1], s[i])
               /\ Track!Segments(threshold, s) = h[n]
  BY SegmentsSteps
<1> DEFINE T == {i \in 0 .. n : Cut(S, threshold, s, i, h[i])}
<1>3. 0 \in T
  <2>1. <<>> \in Seq(Seq(S)) /\ Len(<<>>) = 0
    OBVIOUS
  <2>2. Elements(<<>>) = {} /\ {s[k] : k \in 1 .. 0} = {}
    BY <2>1 DEF Elements
  <2>3. Cut(S, threshold, s, 0, <<>>)
    BY <2>1, <2>2 DEF Cut
  <2> HIDE DEF n
  <2> QED BY <1>1, <1>2, <2>3
<1>4. ASSUME NEW i \in 1 .. n, i - 1 \in T PROVE i \in T
  <2> DEFINE x == h[i - 1]
             p == s[i]
  <2>1. Cut(S, threshold, s, i - 1, x) /\ p \in S /\ i \in Nat \ {0}
    BY <1>1, <1>4
  <2>2. h[i] = Track!Extended(threshold, x, p)
    BY <1>2
  <2>3. x \in Seq(Seq(S)) /\ (x = <<>> <=> i - 1 = 0)
    BY <2>1 DEF Cut
  <2>4. x # <<>> => LastOf(LastOf(x)) = s[i - 1] /\ Track!Last(Track!Last(x)) = LastOf(LastOf(x))
    BY <2>1, <2>3 DEF Cut, LastOf, Track!Last
  <2>5. x # <<>> => s[i - 1].at <= p.at /\ ~Track!Same(s[i - 1], p)
    <3> SUFFICES ASSUME x # <<>> PROVE s[i - 1].at <= p.at /\ ~Track!Same(s[i - 1], p)
      OBVIOUS
    <3>1. i - 1 \in 1 .. n - 1 /\ (i - 1) + 1 = i
      BY <1>1, <2>3
    <3>2. s[i - 1].at <= s[(i - 1) + 1].at /\ ~Track!Same(s[i - 1], s[(i - 1) + 1])
      BY <3>1 DEF Ascending, Apart
    <3> QED BY <3>1, <3>2
  <2> HIDE DEF n, x, p
  <2>6. p = s[i]
    BY DEF p
  <2>7. CASE x = <<>> \/ Track!Gap(threshold, Track!Last(Track!Last(x)), p)
    <3>1. h[i] = Append(x, <<p>>)
      BY <2>2, <2>7 DEF Track!Extended
    <3>2. Cut(S, threshold, s, i, Append(x, <<p>>))
      BY <2>1, <2>4, <2>6, <2>7, CutOff
    <3>3. Cut(S, threshold, s, i, h[i])
      BY <3>1, <3>2
    <3> QED BY <1>1, <3>3
  <2>8. CASE ~(x = <<>> \/ Track!Gap(threshold, Track!Last(Track!Last(x)), p))
    <3>1. h[i] = [x EXCEPT ![Len(x)] = Append(@, p)]
      BY <2>2, <2>8 DEF Track!Extended
    <3>2. Cut(S, threshold, s, i, [x EXCEPT ![Len(x)] = Append(@, p)])
      <4>1. /\ x # <<>> /\ ~Track!Gap(threshold, LastOf(LastOf(x)), p)
            /\ LastOf(LastOf(x)).at <= p.at /\ ~Track!Same(LastOf(LastOf(x)), p)
        BY <2>4, <2>5, <2>8
      <4> QED BY <2>1, <2>6, <4>1, CutGrows
    <3>3. Cut(S, threshold, s, i, h[i])
      BY <3>1, <3>2
    <3> QED BY <1>1, <3>3
  <2> QED BY <2>7, <2>8
<1>5. n \in T
  <2> HIDE DEF T, n
  <2>1. \A i \in 0 .. n : i \in T
    BY <1>1, <1>3, <1>4, UpTo
  <2> QED BY <1>1, <2>1
<1> QED BY <1>2, <1>5

SegmentsOf(s, threshold, v) ==
    Track!Segments(threshold, Track!Deduplicated(Track!TrackOf(s, v)))

\* All that was observed is in segments, with a gap between any two.
CutUp(S, threshold, seen, segments) ==
    /\ segments \in Seq(Seq(S))
    /\ \A k \in 1 .. Len(segments) : Smooth(threshold, segments[k])
    /\ \A k \in 1 .. Len(segments) - 1 :
          Track!Gap(threshold, LastOf(segments[k]), segments[k + 1][1])
    /\ Spots(Elements(segments)) = Spots(seen)

\* The segments of a vessel.
LEMMA VesselCut ==
    ASSUME NEW S, \A e \in S : e.at \in Int /\ e.id \in Int, NEW s \in Seq(S),
           NEW threshold, NEW v, NEW x, x = SegmentsOf(s, threshold, v)
    PROVE  CutUp(S, threshold, {e \in ToSet(s) : e.vessel = v}, x)
<1> DEFINE u == OfVessel(s, v)
           t == Track!TrackOf(s, v)
           d == Track!Deduplicated(t)
<1>1. /\ t = Order!InOrder(u) /\ u \in Seq(S)
      /\ ToSet(u) = {e \in ToSet(s) : e.vessel = v}
  BY TrackChosen
<1>2. x = Track!Segments(threshold, d)
  BY DEF SegmentsOf
<1> HIDE DEF u, d
<1>3. t \in Seq(S) /\ ToSet(t) = ToSet(u) /\ Ascending(t)
  <2>1. Order!InOrder(u) \in Seq(S) /\ ToSet(Order!InOrder(u)) = ToSet(u)
    BY <1>1, InOrderKeeps
  <2>2. Ascending(Order!InOrder(u))
    BY <1>1, InOrderAscends
  <2> QED BY <1>1, <2>1, <2>2
<1> HIDE DEF t
<1>4. Gathering(S, t, Len(t), d)
  BY <1>3, DeduplicatedKeeps DEF d
<1>5. /\ d \in Seq(S) /\ Ascending(d) /\ Apart(d)
      /\ Spots(ToSet(d)) = {Spot(t[k]) : k \in 1 .. Len(t)}
  BY <1>4 DEF Gathering
<1>6. {Spot(t[k]) : k \in 1 .. Len(t)} = Spots(ToSet(t))
  <2>1. ToSet(t) = {t[k] : k \in 1 .. Len(t)}
    BY <1>3 DEF ToSet
  <2> QED BY <2>1 DEF Spots
<1>7. Cut(S, threshold, d, Len(d), x)
  BY <1>2, <1>5, SegmentsCut
<1>8. Elements(x) = ToSet(d)
  <2>1. ToSet(d) = {d[k] : k \in 1 .. Len(d)}
    BY <1>5 DEF ToSet
  <2> QED BY <1>7, <2>1 DEF Cut
<1>9. Spots(Elements(x)) = Spots({e \in ToSet(s) : e.vessel = v})
  BY <1>1, <1>3, <1>5, <1>6, <1>8
<1>10. /\ x \in Seq(Seq(S))
       /\ \A k \in 1 .. Len(x) : Smooth(threshold, x[k])
       /\ \A k \in 1 .. Len(x) - 1 : Track!Gap(threshold, LastOf(x[k]), x[k + 1][1])
  BY <1>7 DEF Cut
<1> QED BY <1>9, <1>10 DEF CutUp

\* What the row of a segment says of it.
RowTells(threshold, tolerance, g, r) ==
    /\ ToSet(r.points) = Spots(ToSet(g))
    /\ \A i \in 1 .. Len(r.points) - 1 :
          /\ r.points[i].at <= r.points[i + 1].at
          /\ r.points[i + 1].at - r.points[i].at <= threshold
          /\ r.points[i] # r.points[i + 1]
    /\ Head(r.points).at = g[1].at
    /\ Track!Last(r.points).at = LastOf(g).at
    /\ Track!Faithful(Track!Line(r.points), r.simplified, tolerance)

LEMMA SegmentRow ==
    ASSUME NEW S, \A e \in S : e.at \in Int /\ e.position \in Points,
           NEW threshold \in Int, NEW tolerance \in Int, NEW retries \in Nat,
           NEW g \in Seq(S), Smooth(threshold, g), NEW v, NEW index
    PROVE  LET r == Track!TrajectoryRow(v, index, g, tolerance, retries) IN
           RowTells(threshold, tolerance, g, r)
<1> DEFINE r == Track!TrajectoryRow(v, index, g, tolerance, retries)
           line == Track!Line(g)
           points == [i \in DOMAIN g |-> Spot(g[i])]
           n == Len(g)
<1>1. r = [vessel |-> v, index |-> index, first |-> Head(g).id, last |-> Track!Last(g).id,
           points |-> points,
           simplified |-> Track!SimplifyPreservingTopology(line, tolerance, retries)]
  BY Zenon DEF Track!TrajectoryRow, Spot
<1> HIDE DEF r, line, points
<1>2. /\ r.points = points
      /\ r.simplified = Track!SimplifyPreservingTopology(line, tolerance, retries)
  BY <1>1
<1>3. n \in Nat \ {0} /\ DOMAIN g = 1 .. n /\ \A i \in 1 .. n : g[i] \in S
  BY DEF Smooth
<1>4. points = [i \in 1 .. n |-> Spot(g[i])]
  BY <1>3 DEF points
<1> HIDE DEF n
<1>5. Len(points) = n /\ DOMAIN points = 1 .. n /\ \A i \in 1 .. n : points[i] = Spot(g[i])
  BY <1>3, <1>4
<1>6. \A i \in 1 .. n : points[i].at = g[i].at /\ points[i].position = g[i].position
  BY <1>5 DEF Spot
<1>7. ToSet(points) = Spots(ToSet(g))
  <2>1. ToSet(g) = {g[i] : i \in 1 .. n} /\ ToSet(points) = {points[i] : i \in 1 .. n}
    BY <1>3, <1>5 DEF ToSet
  <2> QED BY <1>5, <2>1 DEF Spots
<1>8. ASSUME NEW i \in 1 .. n - 1
      PROVE  /\ points[i].at <= points[i + 1].at
             /\ points[i + 1].at - points[i].at <= threshold
             /\ points[i] # points[i + 1]
  <2>1. i \in 1 .. n /\ i + 1 \in 1 .. n
    BY <1>3
  <2>2. /\ g[i].at <= g[i + 1].at
        /\ ~Track!Gap(threshold, g[i], g[i + 1])
        /\ ~Track!Same(g[i], g[i + 1])
    BY DEF Smooth, Ascending, Apart, n
  <2>3. g[i].at \in Int /\ g[i + 1].at \in Int
    BY <1>3, <2>1
  <2>4. g[i + 1].at - g[i].at <= threshold
    BY <2>2, <2>3 DEF Track!Gap
  <2>5. g[i].at # g[i + 1].at \/ g[i].position # g[i + 1].position
    BY <2>2 DEF Track!Same
  <2>6. points[i] # points[i + 1]
    BY <1>6, <2>1, <2>5
  <2> QED BY <1>6, <2>1, <2>2, <2>4, <2>6
<1>9. Head(points).at = g[1].at /\ Track!Last(points).at = LastOf(g).at
  <2>1. Head(points) = points[1] /\ Track!Last(points) = points[n]
    BY <1>5 DEF Track!Last
  <2>2. 1 \in 1 .. n /\ n \in 1 .. n /\ LastOf(g) = g[n]
    BY <1>3 DEF LastOf, n
  <2> QED BY <1>6, <2>1, <2>2
<1>10. Track!Line(points) = line /\ line \in Seq(Points) /\ line # <<>>
  <2>1. Track!Line(points) = [i \in 1 .. n |-> points[i].position]
    BY <1>5 DEF Track!Line
  <2>2. line = [i \in 1 .. n |-> g[i].position]
    BY <1>3 DEF Track!Line, line
  <2>3. \A i \in 1 .. n : g[i].position \in Points
    BY <1>3
  <2> HIDE DEF Points
  <2>4. line \in [1 .. n -> Points]
    BY <2>2, <2>3
  <2>5. line \in Seq(Points) /\ Len(line) = n
    BY <1>3, <2>4
  <2>6. line # <<>>
    BY <1>3, <2>5
  <2> QED BY <1>6, <2>1, <2>2, <2>5, <2>6
<1>11. Track!Faithful(line, r.simplified, tolerance)
  BY <1>2, <1>10, SimplifyFaithful
<1>12. RowTells(threshold, tolerance, g, r)
  BY <1>2, <1>5, <1>7, <1>8, <1>9, <1>10, <1>11 DEF RowTells
<1> QED BY <1>12 DEF r

\* The rows of one vessel partition what was observed of it.
PartOf(threshold, tolerance, seen, mine) ==
    /\ {r.index : r \in mine} = 0 .. Cardinality(mine) - 1
    /\ UNION {ToSet(r.points) : r \in mine} = Spots(seen)
    /\ \A r \in mine : \A i \in 1 .. Len(r.points) - 1 :
          /\ r.points[i].at <= r.points[i + 1].at
          /\ r.points[i + 1].at - r.points[i].at <= threshold
          /\ r.points[i] # r.points[i + 1]
    /\ \A r, s \in mine : s.index = r.index + 1 =>
          Head(s.points).at - Track!Last(r.points).at > threshold
    /\ \A r \in mine : Track!Faithful(Track!Line(r.points), r.simplified, tolerance)

LEMMA VesselPartition ==
    ASSUME NEW S, \A e \in S : e.at \in Int /\ e.id \in Int /\ e.position \in Points,
           NEW threshold \in Int, NEW tolerance \in Int, NEW retries \in Nat,
           NEW s \in Seq(S), NEW v, NEW x, x = SegmentsOf(s, threshold, v)
    PROVE  PartOf(threshold, tolerance, {e \in ToSet(s) : e.vessel = v},
                  {Track!TrajectoryRow(v, k - 1, x[k], tolerance, retries) : k \in DOMAIN x})
<1> DEFINE n == Len(x)
           row(k) == Track!TrajectoryRow(v, k - 1, x[k], tolerance, retries)
           mine == {row(k) : k \in DOMAIN x}
           seen == {e \in ToSet(s) : e.vessel = v}
<1>1. /\ x \in Seq(Seq(S))
      /\ \A k \in 1 .. n : Smooth(threshold, x[k])
      /\ \A k \in 1 .. n - 1 : Track!Gap(threshold, LastOf(x[k]), x[k + 1][1])
      /\ Spots(Elements(x)) = Spots(seen)
  <2>1. \A e \in S : e.at \in Int /\ e.id \in Int
    OBVIOUS
  <2> HIDE DEF mine, row, n
  <2>2. CutUp(S, threshold, seen, x)
    BY <2>1, VesselCut
  <2> QED BY <2>2 DEF CutUp, n
<1>2. n \in Nat /\ DOMAIN x = 1 .. n /\ \A k \in 1 .. n : x[k] \in Seq(S)
  BY <1>1
<1> HIDE DEF n, seen
<1>3. \A k \in 1 .. n : RowTells(threshold, tolerance, x[k], row(k))
  BY <1>1, <1>2, SegmentRow
<1>4. \A k \in 1 .. n : row(k).index = k - 1
  BY DEF Track!TrajectoryRow
<1> HIDE DEF row
<1>5. mine = {row(k) : k \in 1 .. n}
  BY <1>2
<1> HIDE DEF mine
<1>6. Cardinality(mine) = n
  <2> DEFINE list == [k \in 1 .. n |-> row(k)]
  <2>1. list \in [1 .. n -> mine] /\ \A k \in 1 .. n : list[k] = row(k)
    BY <1>5
  <2> HIDE DEF list
  <2>2. list \in Seq(mine) /\ Len(list) = n /\ DOMAIN list = 1 .. n
    BY <1>2, <2>1
  <2>3. Distinct(list)
    <3> SUFFICES ASSUME NEW k \in 1 .. n, NEW l \in 1 .. n, list[k] = list[l] PROVE k = l
      BY <2>2 DEF Distinct
    <3>1. k - 1 = l - 1
      BY <1>4, <2>1
    <3> QED BY <3>1
  <2>4. Cardinality({list[k] : k \in 1 .. n}) = Cardinality(1 .. n)
    <3>1. 1 .. n \subseteq 1 .. Len(list)
      BY <2>2
    <3> DEFINE J == 1 .. n
    <3> HIDE DEF J
    <3>2. J \subseteq 1 .. Len(list)
      BY <3>1 DEF J
    <3>3. Cardinality({list[j] : j \in J}) = Cardinality(J)
      BY <2>2, <2>3, <3>2, CountPlaces
    <3> QED BY <3>3 DEF J
  <2>5. {list[k] : k \in 1 .. n} = mine
    BY <1>5, <2>1
  <2>6. Cardinality(1 .. n) = n
    BY <1>2, FS_Interval
  <2> QED BY <2>4, <2>5, <2>6
<1>7. {r.index : r \in mine} = 0 .. n - 1
  <2>1. {r.index : r \in mine} = {k - 1 : k \in 1 .. n}
    BY <1>4, <1>5
  <2>2. ASSUME NEW i \in 0 .. n - 1 PROVE i \in {k - 1 : k \in 1 .. n}
    <3>1. i + 1 \in 1 .. n /\ i = (i + 1) - 1
      BY <1>2
    <3> QED BY <3>1
  <2>3. \A k \in 1 .. n : k - 1 \in 0 .. n - 1
    BY <1>2
  <2> QED BY <2>1, <2>2, <2>3
<1>8. UNION {ToSet(r.points) : r \in mine} = Spots(seen)
  <2>1. \A k \in 1 .. n : ToSet(row(k).points) = Spots(ToSet(x[k]))
    BY <1>3 DEF RowTells
  <2>2. UNION {ToSet(r.points) : r \in mine} = UNION {Spots(ToSet(x[k])) : k \in 1 .. n}
    BY <1>5, <2>1
  <2>3. Elements(x) = UNION {ToSet(x[k]) : k \in 1 .. n}
    BY DEF Elements, n
  <2>4. UNION {Spots(ToSet(x[k])) : k \in 1 .. n} = Spots(UNION {ToSet(x[k]) : k \in 1 .. n})
    BY DEF Spots
  <2> QED BY <1>1, <2>2, <2>3, <2>4
<1>9. ASSUME NEW r \in mine, NEW t \in mine, t.index = r.index + 1
      PROVE  Head(t.points).at - Track!Last(r.points).at > threshold
  <2>1. PICK k \in 1 .. n : r = row(k)
    BY <1>5
  <2>2. PICK l \in 1 .. n : t = row(l)
    BY <1>5
  <2>3. l = k + 1 /\ k \in 1 .. n - 1
    <3>1. r.index = k - 1 /\ t.index = l - 1
      BY <1>4, <2>1, <2>2
    <3> QED BY <1>2, <1>9, <3>1
  <2>4. Track!Gap(threshold, LastOf(x[k]), x[l][1])
    BY <1>1, <2>3
  <2>5. Head(t.points).at = x[l][1].at /\ Track!Last(r.points).at = LastOf(x[k]).at
    BY <1>3, <2>1, <2>2 DEF RowTells
  <2> QED BY <2>4, <2>5 DEF Track!Gap
<1>10. \A r \in mine : /\ Track!Faithful(Track!Line(r.points), r.simplified, tolerance)
                       /\ \A i \in 1 .. Len(r.points) - 1 :
                             /\ r.points[i].at <= r.points[i + 1].at
                             /\ r.points[i + 1].at - r.points[i].at <= threshold
                             /\ r.points[i] # r.points[i + 1]
  <2> TAKE r \in mine
  <2>1. PICK k \in 1 .. n : r = row(k)
    BY <1>5
  <2>2. RowTells(threshold, tolerance, x[k], r)
    BY <1>3, <2>1
  <2> QED BY <2>2, Zenon DEF RowTells
<1>11. PartOf(threshold, tolerance, seen, mine)
  BY <1>6, <1>7, <1>8, <1>9, <1>10, Zenon DEF PartOf
<1> QED BY <1>11 DEF seen, mine, row

\* The trajectories of any list of observations partition them.
LEMMA TracksPartitionRows ==
    ASSUME NEW S, \A e \in S : e.at \in Int /\ e.id \in Int /\ e.position \in Points,
           NEW threshold \in Int, NEW tolerance \in Int, NEW retries \in Nat,
           NEW s \in Seq(S), NEW all, ToSet(all) = ToSet(s)
    PROVE  Track!Partition(threshold, tolerance, all,
                           Track!TrajectoryRows(threshold, tolerance, retries, s))
<1> DEFINE segments(v) == SegmentsOf(s, threshold, v)
           rowsOf(v) == {Track!TrajectoryRow(v, k - 1, segments(v)[k], tolerance, retries) :
                            k \in DOMAIN segments(v)}
           V == {e.vessel : e \in ToSet(s)}
           rows == Track!TrajectoryRows(threshold, tolerance, retries, s)
<1>1. \A q : Track!ToSet(q) = ToSet(q)
  BY TrackOrder
<1>2. rows = UNION {rowsOf(v) : v \in V}
  BY <1>1, Zenon DEF Track!TrajectoryRows, SegmentsOf
<1>3. \A v : \A r \in rowsOf(v) : r.vessel = v
  BY DEF Track!TrajectoryRow
<1>4. \A v : PartOf(threshold, tolerance, {e \in ToSet(s) : e.vessel = v}, rowsOf(v))
  <2> TAKE v
  <2> DEFINE x == segments(v)
  <2> HIDE DEF x
  <2>1. x = SegmentsOf(s, threshold, v)
    BY DEF x
  <2>2. PartOf(threshold, tolerance, {e \in ToSet(s) : e.vessel = v},
               {Track!TrajectoryRow(v, k - 1, x[k], tolerance, retries) : k \in DOMAIN x})
    BY <2>1, VesselPartition
  <2> QED BY <2>2 DEF x
<1> HIDE DEF rowsOf, rows
<1>5. \A v \in V : {r \in rows : r.vessel = v} = rowsOf(v)
  BY <1>2, <1>3
<1>6. \A v \in V : PartOf(threshold, tolerance, {e \in ToSet(all) : e.vessel = v},
                          {r \in rows : r.vessel = v})
  BY <1>4, <1>5
<1>7. {e.vessel : e \in ToSet(all)} = V
  OBVIOUS
<1> HIDE DEF V
<1>8. Track!Partition(threshold, tolerance, all, rows)
  <2> DEFINE mine(v) == {r \in rows : r.vessel = v}
             seen(v) == {f \in Track!ToSet(all) : f.vessel = v}
  <2>1. \A v \in V : PartOf(threshold, tolerance, seen(v), mine(v))
    BY <1>1, <1>6
  <2>2. \A v \in V : UNION {Track!ToSet(r.points) : r \in mine(v)} = Spots(seen(v))
    <3> TAKE v \in V
    <3>1. UNION {ToSet(r.points) : r \in mine(v)} = Spots(seen(v))
      BY <2>1 DEF PartOf
    <3> HIDE DEF mine, seen
    <3> QED BY <1>1, <3>1
  <2>3. {e.vessel : e \in Track!ToSet(all)} = V
    BY <1>1, <1>7
  <2>4. \A M : Track!Cardinality(M) = Cardinality(M)
    BY DEF Track!Cardinality, Cardinality
  <2>5. \A v \in {e.vessel : e \in Track!ToSet(all)} :
           /\ {r.index : r \in mine(v)} = 0 .. Track!Cardinality(mine(v)) - 1
           /\ UNION {Track!ToSet(r.points) : r \in mine(v)} =
                 {[at |-> e.at, position |-> e.position] : e \in seen(v)}
           /\ \A r \in mine(v) : \A i \in 1 .. Len(r.points) - 1 :
                 /\ r.points[i].at <= r.points[i + 1].at
                 /\ r.points[i + 1].at - r.points[i].at <= threshold
                 /\ r.points[i] # r.points[i + 1]
           /\ \A r, t \in mine(v) : t.index = r.index + 1 =>
                 Head(t.points).at - Track!Last(r.points).at > threshold
           /\ \A r \in mine(v) : Track!Faithful(Track!Line(r.points), r.simplified, tolerance)
    BY <2>1, <2>2, <2>3, <2>4, Zenon DEF PartOf, Spots, Spot
  <2> QED BY <2>5, Zenon DEF Track!Partition
<1> QED BY <1>8 DEF rows
=============================================================================
