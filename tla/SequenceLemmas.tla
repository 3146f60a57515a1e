--------------------------- MODULE SequenceLemmas ---------------------------
(***************************************************************************)
(* Induction in a form without operator parameters, and what follows from  *)
(* it for functions defined by recursion along a sequence, for FlattenSeq, *)
(* for lists that are chosen from or sorted by rank, and for the sums of   *)
(* finite functions.                                                       *)
(***************************************************************************)
EXTENDS Collections, SequencesExt, WellFoundedInduction, FunctionTheorems, FiniteSetTheorems, TLAPS

\* A set of naturals that is not empty has a least element.
LEMMA Least ==
    ASSUME NEW S, S \subseteq Nat, S # {}
    PROVE  \E m \in S : \A n \in S : m <= n
<1> DEFINE R == OpToRel(<, Nat)
<1>1. IsWellFoundedOn(R, Nat)
  BY NatLessThanWellFounded, Zenon
<1>2. \A m, n \in Nat : <<m, n>> \in R <=> m < n
  BY DEF OpToRel
<1> HIDE DEF R
<1>3. PICK m \in S : \A n \in S : ~(<<n, m>> \in R)
  BY <1>1, WFMin
<1>4. ASSUME NEW n \in S PROVE m <= n
  <2>1. m \in Nat /\ n \in Nat /\ ~(n < m)
    BY <1>2, <1>3
  <2> QED BY <2>1
<1> QED BY <1>4

\* A set that has 0 and the successor of each of its elements below n has all
\* numbers up to n.
LEMMA UpTo ==
    ASSUME NEW n \in Nat, NEW S, 0 \in S, \A i \in 1 .. n : i - 1 \in S => i \in S
    PROVE  \A i \in 0 .. n : i \in S
<1> SUFFICES ASSUME (0 .. n) \ S # {} PROVE FALSE
  OBVIOUS
<1> DEFINE gaps == (0 .. n) \ S
<1>1. gaps \subseteq Nat
  OBVIOUS
<1>2. PICK m \in gaps : \A i \in gaps : m <= i
  BY <1>1, Least
<1>3. m \in 1 .. n /\ m \notin S
  BY <1>2
<1>4. m - 1 \in 0 .. n /\ m - 1 \notin gaps
  BY <1>2, <1>3
<1> QED BY <1>3, <1>4

\* The function f of 0 .. n follows the step function of each place.
Follows(f, n, V, v0, step) ==
    /\ f \in [0 .. n -> V]
    /\ f[0] = v0
    /\ \A i \in 1 .. n : f[i] = step[i][f[i - 1]]

\* Recursion along 1 .. n defines a function.
LEMMA Recursion ==
    ASSUME NEW V, NEW n \in Nat, NEW v0 \in V, NEW step \in [1 .. n -> [V -> V]]
    PROVE  \E f : Follows(f, n, V, v0, step)
<1> DEFINE S == {m \in 0 .. n : \E f : Follows(f, m, V, v0, step)}
<1>1. 0 \in S
  <2>1. Follows([i \in 0 .. 0 |-> v0], 0, V, v0, step)
    BY DEF Follows
  <2> QED BY <2>1
<1>2. ASSUME NEW m \in 1 .. n, m - 1 \in S PROVE m \in S
  <2>1. PICK f : Follows(f, m - 1, V, v0, step)
    BY <1>2
  <2> DEFINE g == [i \in 0 .. m |-> IF i = m THEN step[m][f[m - 1]] ELSE f[i]]
  <2>2. \A i \in 0 .. m - 1 : g[i] = f[i] /\ f[i] \in V
    BY <2>1 DEF Follows
  <2>3. g[m] = step[m][f[m - 1]] /\ step[m][f[m - 1]] \in V
    BY <2>1 DEF Follows
  <2>4. g \in [0 .. m -> V]
    <3>1. \A i \in 0 .. m : i = m \/ i \in 0 .. m - 1
      OBVIOUS
    <3>2. g = [i \in 0 .. m |-> g[i]]
      OBVIOUS
    <3> HIDE DEF g
    <3>3. \A i \in 0 .. m : g[i] \in V
      BY <2>2, <2>3, <3>1
    <3> QED BY <3>2, <3>3
  <2>5. g[0] = v0
    BY <2>1, <2>2 DEF Follows
  <2>6. ASSUME NEW i \in 1 .. m PROVE g[i] = step[i][g[i - 1]]
    <3>1. CASE i = m
      BY <2>2, <2>3, <3>1
    <3>2. CASE i # m
      <4>1. i \in 1 .. m - 1 /\ i - 1 \in 0 .. m - 1 /\ i \in 0 .. m - 1
        BY <3>2
      <4>2. f[i] = step[i][f[i - 1]]
        BY <2>1, <4>1 DEF Follows
      <4> QED BY <2>2, <4>1, <4>2
    <3> QED BY <3>1, <3>2
  <2> HIDE DEF g
  <2>7. Follows(g, m, V, v0, step)
    BY <2>4, <2>5, <2>6 DEF Follows
  <2> QED BY <2>7
<1> HIDE DEF S
<1>3. \A i \in 1 .. n : i - 1 \in S => i \in S
  BY <1>2
<1>4. n \in S
  <2>1. \A i \in 0 .. n : i \in S
    BY <1>1, <1>3, UpTo
  <2> QED BY <2>1
<1> QED BY <1>4 DEF S

-----------------------------------------------------------------------------
(* FlattenSeq. *)

\* The elements of a sequence of sequences.
Elements(seqs) == UNION {ToSet(seqs[i]) : i \in 1 .. Len(seqs)}

\* The function f has the beginnings of the flattened sequence.
Flattens(f, S, seqs) ==
    /\ f \in [1 .. Len(seqs) -> Seq(S)]
    /\ f[1] = seqs[1]
    /\ \A i \in 2 .. Len(seqs) : f[i] = f[i - 1] \o seqs[i]
    /\ FlattenSeq(seqs) = f[Len(seqs)]

\* The recursion of FlattenSeq defines such a function.
LEMMA FlattenSteps ==
    ASSUME NEW S, NEW seqs \in Seq(Seq(S)), seqs # <<>>
    PROVE  \E f : Flattens(f, S, seqs)
<1> DEFINE n == Len(seqs)
           Defines(f) == f = [i \in 1 .. n |-> IF i = 1 THEN seqs[i] ELSE f[i - 1] \o seqs[i]]
           step == [i \in 1 .. n |-> [v \in Seq(S) |-> v \o seqs[i]]]
<1>1. n \in Nat \ {0} /\ \A i \in 1 .. n : seqs[i] \in Seq(S)
  OBVIOUS
<1>2. step \in [1 .. n -> [Seq(S) -> Seq(S)]]
  BY <1>1
<1>3. <<>> \in Seq(S)
  OBVIOUS
<1> HIDE DEF n
<1>4. PICK g : Follows(g, n, Seq(S), <<>>, step)
  <2> HIDE DEF step
  <2> QED BY <1>1, <1>2, <1>3, Recursion
<1>5. g[0] = <<>> /\ \A i \in 1 .. n : g[i] \in Seq(S) /\ g[i] = g[i - 1] \o seqs[i]
  <2>1. \A i \in 1 .. n : i - 1 \in 0 .. n /\ i \in 0 .. n
    BY <1>1
  <2> QED BY <1>1, <1>4, <2>1 DEF Follows
<1> DEFINE h == [i \in 1 .. n |-> g[i]]
<1>6. Defines(h)
  <2>1. h[1] = seqs[1]
    <3>1. 1 \in 1 .. n /\ 1 - 1 = 0
      BY <1>1
    <3>2. g[1] = g[1 - 1] \o seqs[1]
      BY <1>5, <3>1, Zenon
    <3>3. g[1] = <<>> \o seqs[1]
      BY <1>5, <3>1, <3>2, Zenon
    <3> QED BY <1>1, <3>1, <3>3
  <2>2. ASSUME NEW i \in 1 .. n, i # 1 PROVE h[i] = h[i - 1] \o seqs[i]
    <3>1. i - 1 \in 1 .. n
      BY <1>1, <2>2
    <3>2. h[i] = g[i] /\ h[i - 1] = g[i - 1]
      BY <3>1
    <3> QED BY <1>5, <3>2
  <2>3. h = [i \in 1 .. n |-> h[i]]
    OBVIOUS
  <2> HIDE DEF h
  <2> QED BY <2>1, <2>2, <2>3
<1> DEFINE f == CHOOSE f : Defines(f)
<1>7. Defines(f)
  <2> HIDE DEF Defines, h
  <2> QED BY <1>6
<1>8. FlattenSeq(seqs) = f[n]
  BY <1>1 DEF FlattenSeq, n
<1> HIDE DEF f
<1>9. f[1] = seqs[1] /\ \A i \in 2 .. n : f[i] = f[i - 1] \o seqs[i]
  <2>1. \A i \in 1 .. n : f[i] = IF i = 1 THEN seqs[i] ELSE f[i - 1] \o seqs[i]
    BY <1>7, Zenon
  <2>2. 1 \in 1 .. n /\ \A i \in 2 .. n : i \in 1 .. n /\ i # 1
    BY <1>1
  <2> HIDE DEF Defines
  <2> QED BY <2>1, <2>2, Zenon
<1>10. \A i \in 1 .. n : f[i] \in Seq(S)
  <2> DEFINE T == {i \in 0 .. n : i = 0 \/ f[i] \in Seq(S)}
  <2>1. 0 \in T
    BY <1>1
  <2>2. ASSUME NEW i \in 1 .. n, i - 1 \in T PROVE i \in T
    <3>1. CASE i = 1
      BY <1>1, <1>9, <3>1
    <3>2. CASE i # 1
      <4>1. i \in 2 .. n /\ f[i - 1] \in Seq(S)
        BY <2>2, <3>2
      <4>2. f[i] = f[i - 1] \o seqs[i] /\ seqs[i] \in Seq(S)
        BY <1>1, <1>9, <4>1
      <4>3. f[i] \in Seq(S)
        BY <4>1, <4>2
      <4> QED BY <4>3
    <3> QED BY <3>1, <3>2
  <2> HIDE DEF T
  <2>3. \A i \in 1 .. n : i - 1 \in T => i \in T
    BY <2>2
  <2>4. \A i \in 0 .. n : i \in T
    BY <1>1, <2>1, <2>3, UpTo
  <2> QED BY <2>4 DEF T
<1>11. f \in [1 .. n -> Seq(S)]
  <2>1. f = [i \in 1 .. n |-> f[i]]
    BY <1>7
  <2> HIDE DEF Defines
  <2> QED BY <1>10, <2>1
<1> HIDE DEF Defines
<1>12. Flattens(f, S, seqs)
  BY <1>8, <1>9, <1>11 DEF Flattens, n
<1> QED BY <1>12

\* FlattenSeq of sequences is a sequence.
LEMMA FlattenType ==
    ASSUME NEW S, NEW seqs \in Seq(Seq(S))
    PROVE  FlattenSeq(seqs) \in Seq(S)
<1>1. CASE seqs = <<>>
  BY <1>1 DEF FlattenSeq
<1>2. CASE seqs # <<>>
  <2>1. Len(seqs) \in 1 .. Len(seqs)
    BY <1>2
  <2>2. PICK f : Flattens(f, S, seqs)
    BY <1>2, FlattenSteps
  <2> QED BY <2>1, <2>2 DEF Flattens
<1> QED BY <1>1, <1>2

\* A sequence more is flattened after the others.
LEMMA FlattenAppend ==
    ASSUME NEW S, NEW seqs \in Seq(Seq(S)), NEW s \in Seq(S)
    PROVE  FlattenSeq(Append(seqs, s)) = FlattenSeq(seqs) \o s
<1> DEFINE n == Len(seqs)
           more == Append(seqs, s)
<1>1. /\ n \in Nat /\ more \in Seq(Seq(S)) /\ more # <<>> /\ Len(more) = n + 1
      /\ more[n + 1] = s
      /\ \A i \in 1 .. n : more[i] = seqs[i]
  <2>1. n \in Nat /\ more \in Seq(Seq(S)) /\ Len(more) = n + 1
    OBVIOUS
  <2>2. more[n + 1] = s /\ \A i \in 1 .. n : more[i] = seqs[i]
    OBVIOUS
  <2> HIDE DEF n, more
  <2>3. more # <<>>
    BY <2>1
  <2> QED BY <2>1, <2>2, <2>3
<1> HIDE DEF n, more
<1>2. PICK g :
              /\ g \in [1 .. n + 1 -> Seq(S)]
              /\ g[1] = more[1]
              /\ \A i \in 2 .. n + 1 : g[i] = g[i - 1] \o more[i]
              /\ FlattenSeq(more) = g[n + 1]
  <2>1. PICK g : Flattens(g, S, more)
    BY <1>1, FlattenSteps
  <2> QED BY <1>1, <2>1 DEF Flattens
<1>3. CASE seqs = <<>>
  <2>1. n = 0 /\ FlattenSeq(seqs) = <<>>
    BY <1>3 DEF n, FlattenSeq
  <2>2. FlattenSeq(more) = s
    BY <1>1, <1>2, <2>1
  <2> QED BY <2>1, <2>2 DEF more
<1>4. CASE seqs # <<>>
  <2>1. PICK f :
              /\ f \in [1 .. n -> Seq(S)]
              /\ f[1] = seqs[1]
              /\ \A i \in 2 .. n : f[i] = f[i - 1] \o seqs[i]
              /\ FlattenSeq(seqs) = f[n]
    <3>1. PICK f : Flattens(f, S, seqs)
      BY <1>4, FlattenSteps
    <3> QED BY <3>1 DEF Flattens, n
  <2>2. n \in 1 .. n
    BY <1>1, <1>4 DEF n
  <2> DEFINE T == {i \in 0 .. n : i = 0 \/ g[i] = f[i]}
  <2>3. 0 \in T
    BY <1>1
  <2>4. ASSUME NEW i \in 1 .. n, i - 1 \in T PROVE i \in T
    <3>1. CASE i = 1
      BY <1>1, <1>2, <2>1, <2>2, <3>1
    <3>2. CASE i # 1
      <4>1. i \in 2 .. n /\ i \in 2 .. n + 1 /\ g[i - 1] = f[i - 1]
        BY <1>1, <2>4, <3>2
      <4>2. g[i] = g[i - 1] \o more[i] /\ f[i] = f[i - 1] \o seqs[i] /\ more[i] = seqs[i]
        BY <1>1, <1>2, <2>1, <4>1
      <4>3. g[i] = f[i]
        BY <4>1, <4>2
      <4> QED BY <4>3
    <3> QED BY <3>1, <3>2
  <2>5. \A i \in 1 .. n : i - 1 \in T => i \in T
    BY <2>4
  <2> HIDE DEF T
  <2>6. \A i \in 0 .. n : i \in T
    BY <1>1, <2>3, <2>5, UpTo
  <2>7. g[n] = f[n]
    BY <2>2, <2>6 DEF T
  <2>8. n + 1 \in 2 .. n + 1 /\ (n + 1) - 1 = n
    BY <1>1, <2>2
  <2>9. g[n + 1] = g[n] \o more[n + 1]
    BY <1>2, <2>8
  <2> QED BY <1>1, <1>2, <2>1, <2>7, <2>9 DEF more
<1> QED BY <1>3, <1>4

\* A concatenation has the elements of both parts.
LEMMA ConcatElements ==
    ASSUME NEW S, NEW s \in Seq(S), NEW t \in Seq(S)
    PROVE  ToSet(s \o t) = ToSet(s) \cup ToSet(t)
<1>1. /\ s \o t \in Seq(S) /\ Len(s \o t) = Len(s) + Len(t)
      /\ Len(s) \in Nat /\ Len(t) \in Nat
      /\ \A i \in 1 .. Len(s) : (s \o t)[i] = s[i]
      /\ \A i \in 1 .. Len(t) : (s \o t)[Len(s) + i] = t[i]
  OBVIOUS
<1>2. \A u \in Seq(S) : ToSet(u) = {u[i] : i \in 1 .. Len(u)}
  BY DEF ToSet
<1>3. ASSUME NEW e \in ToSet(s \o t) PROVE e \in ToSet(s) \cup ToSet(t)
  <2>1. ToSet(s \o t) = {(s \o t)[i] : i \in 1 .. Len(s \o t)}
    BY <1>1, <1>2, Zenon
  <2>2. PICK i \in 1 .. Len(s) + Len(t) : e = (s \o t)[i]
    BY <1>1, <2>1, Zenon
  <2>3. CASE i <= Len(s)
    BY <1>1, <1>2, <2>2, <2>3
  <2>4. CASE i > Len(s)
    <3>1. i - Len(s) \in 1 .. Len(t) /\ Len(s) + (i - Len(s)) = i
      BY <1>1, <2>4
    <3>2. e = t[i - Len(s)]
      BY <1>1, <2>2, <3>1
    <3> QED BY <1>2, <3>1, <3>2
  <2> QED BY <1>1, <2>3, <2>4
<1>4. ASSUME NEW e \in ToSet(s) PROVE e \in ToSet(s \o t)
  <2>1. PICK i \in 1 .. Len(s) : e = s[i]
    BY <1>2
  <2>2. i \in 1 .. Len(s \o t) /\ e = (s \o t)[i]
    BY <1>1, <2>1
  <2> QED BY <1>1, <1>2, <2>2
<1>5. ASSUME NEW e \in ToSet(t) PROVE e \in ToSet(s \o t)
  <2>1. PICK i \in 1 .. Len(t) : e = t[i]
    BY <1>2
  <2>2. Len(s) + i \in 1 .. Len(s \o t) /\ e = (s \o t)[Len(s) + i]
    BY <1>1, <2>1
  <2> QED BY <1>1, <1>2, <2>2
<1> QED BY <1>3, <1>4, <1>5

\* One element more.
LEMMA AppendElements ==
    ASSUME NEW S, NEW s \in Seq(S), NEW e \in S
    PROVE  ToSet(Append(s, e)) = ToSet(s) \cup {e}
<1>1. Append(s, e) = s \o <<e>> /\ <<e>> \in Seq(S)
  OBVIOUS
<1>2. ToSet(<<e>>) = {e}
  BY DEF ToSet
<1>3. ToSet(s \o <<e>>) = ToSet(s) \cup ToSet(<<e>>)
  BY <1>1, ConcatElements
<1> QED BY <1>1, <1>2, <1>3

\* FlattenSeq keeps all elements and adds none.
LEMMA FlattenElements ==
    ASSUME NEW S, NEW seqs \in Seq(Seq(S))
    PROVE  ToSet(FlattenSeq(seqs)) = Elements(seqs)
<1> DEFINE n == Len(seqs)
<1>1. n \in Nat /\ \A i \in 1 .. n : seqs[i] \in Seq(S)
  OBVIOUS
<1>2. CASE seqs = <<>>
  <2>1. FlattenSeq(seqs) = <<>> /\ n = 0
    BY <1>2 DEF FlattenSeq
  <2> QED BY <2>1 DEF ToSet, Elements
<1>3. CASE seqs # <<>>
  <2>1. PICK f :
              /\ f \in [1 .. n -> Seq(S)]
              /\ f[1] = seqs[1]
              /\ \A i \in 2 .. n : f[i] = f[i - 1] \o seqs[i]
              /\ FlattenSeq(seqs) = f[n]
    <3>1. PICK f : Flattens(f, S, seqs)
      BY <1>3, FlattenSteps
    <3> QED BY <3>1 DEF Flattens
  <2>2. n \in 1 .. n
    BY <1>1, <1>3
  <2> HIDE DEF n
  <2> DEFINE Below(i) == UNION {ToSet(seqs[j]) : j \in 1 .. i}
             T == {i \in 0 .. n : i = 0 \/ ToSet(f[i]) = Below(i)}
  <2>3. 0 \in T
    BY <1>1
  <2>4. ASSUME NEW i \in 1 .. n, i - 1 \in T PROVE i \in T
    <3>1. CASE i = 1
      <4>1. 1 .. 1 = {1}
        OBVIOUS
      <4>2. ToSet(f[1]) = Below(1)
        BY <2>1, <4>1
      <4> QED BY <3>1, <4>2
    <3>2. CASE i # 1
      <4>1. i \in 2 .. n /\ i - 1 \in 1 .. n /\ ToSet(f[i - 1]) = Below(i - 1)
        BY <2>4, <3>2
      <4>2. f[i] = f[i - 1] \o seqs[i] /\ f[i - 1] \in Seq(S) /\ seqs[i] \in Seq(S)
        BY <1>1, <2>1, <4>1
      <4>3. ToSet(f[i]) = ToSet(f[i - 1]) \cup ToSet(seqs[i])
        BY <4>2, ConcatElements
      <4>4. 1 .. i = (1 .. (i - 1)) \cup {i}
        BY <4>1
      <4>5. Below(i) = Below(i - 1) \cup ToSet(seqs[i])
        BY <4>4
      <4>6. ToSet(f[i]) = Below(i)
        BY <4>1, <4>3, <4>5
      <4> QED BY <4>6
    <3> QED BY <3>1, <3>2
  <2>5. \A i \in 1 .. n : i - 1 \in T => i \in T
    BY <2>4
  <2> HIDE DEF T
  <2>6. \A i \in 0 .. n : i \in T
    BY <1>1, <2>3, <2>5, UpTo
  <2> HIDE DEF Below
  <2>7. ToSet(f[n]) = Below(n)
    <3>1. n \in 0 .. n /\ n # 0
      BY <2>2
    <3> QED BY <2>6, <3>1, Zenon DEF T
  <2> QED BY <2>1, <2>7 DEF Elements, Below, n
<1> QED BY <1>2, <1>3
-----------------------------------------------------------------------------
(* Sorting by rank. *)

\* R orders the elements of S strictly and totally.
TotalOrder(R, S) ==
    /\ \A i \in S : <<i, i>> \notin R
    /\ \A i, j, k \in S : <<i, j>> \in R /\ <<j, k>> \in R => <<i, k>> \in R
    /\ \A i, j \in S : i # j => <<i, j>> \in R \/ <<j, i>> \in R

\* The place of k in the sorted list.
Rank(R, S, k) == 1 + Cardinality({j \in S : <<j, k>> \in R})

\* The element that is sorted to place i.
RankedAt(R, S, i) == CHOOSE k \in S : Rank(R, S, k) = i

\* Ranks are the places of a list of all elements, in the order R.
LEMMA Ranks ==
    ASSUME NEW S, IsFiniteSet(S), NEW R, TotalOrder(R, S)
    PROVE  /\ \A i \in S : Rank(R, S, i) \in 1 .. Cardinality(S)
           /\ \A i, j \in S : <<i, j>> \in R <=> Rank(R, S, i) < Rank(R, S, j)
           /\ \A i \in 1 .. Cardinality(S) : \E k \in S : Rank(R, S, k) = i
<1> DEFINE n == Cardinality(S)
           below(k) == {j \in S : <<j, k>> \in R}
           rank(k) == 1 + Cardinality(below(k))
<1>1. n \in Nat
  BY FS_CardinalityType
<1>2. ASSUME NEW k \in S
      PROVE  IsFiniteSet(below(k)) /\ rank(k) \in 1 .. n
  <2>1. below(k) \in SUBSET (S \ {k})
    BY DEF TotalOrder
  <2>2. IsFiniteSet(S \ {k}) /\ Cardinality(S \ {k}) = n - 1
    BY FS_RemoveElement
  <2>3. IsFiniteSet(below(k)) /\ Cardinality(below(k)) <= n - 1
    <3> HIDE DEF below
    <3> QED BY <2>1, <2>2, FS_Subset
  <2>4. Cardinality(below(k)) \in Nat
    BY <2>3, FS_CardinalityType
  <2> HIDE DEF n
  <2> QED BY <1>1, <2>3, <2>4
<1>3. ASSUME NEW i \in S, NEW j \in S, <<i, j>> \in R
      PROVE  rank(i) < rank(j)
  <2>1. below(i) \cup {i} \in SUBSET below(j) /\ i \notin below(i)
    BY <1>3 DEF TotalOrder
  <2>2. Cardinality(below(i) \cup {i}) <= Cardinality(below(j))
    BY <1>2, <2>1, FS_Subset
  <2>3. Cardinality(below(i) \cup {i}) = Cardinality(below(i)) + 1
    BY <1>2, <2>1, FS_AddElement
  <2>4. Cardinality(below(i)) \in Nat /\ Cardinality(below(j)) \in Nat
    BY <1>2, FS_CardinalityType
  <2> QED BY <2>2, <2>3, <2>4
<1> HIDE DEF below, rank
<1>4. \A k \in S : rank(k) \in 1 .. n /\ rank(k) \in Int
  BY <1>2
<1>5. ASSUME NEW i \in S, NEW j \in S PROVE <<i, j>> \in R <=> rank(i) < rank(j)
  <2>1. CASE i = j
    BY <1>4, <2>1 DEF TotalOrder
  <2>2. CASE i # j
    <3>1. <<i, j>> \in R \/ <<j, i>> \in R
      BY <2>2 DEF TotalOrder
    <3>2. ~(rank(i) < rank(j) /\ rank(j) < rank(i))
      BY <1>4
    <3> QED BY <1>3, <3>1, <3>2
  <2> QED BY <2>1, <2>2
<1>6. ASSUME NEW i \in 1 .. n PROVE \E k \in S : rank(k) = i
  <2> SUFFICES ASSUME \A k \in S : rank(k) # i PROVE FALSE
    OBVIOUS
  <2>1. IsFiniteSet(1 .. n) /\ Cardinality(1 .. n) = n
    BY <1>1, FS_Interval
  <2>2. IsFiniteSet((1 .. n) \ {i}) /\ Cardinality((1 .. n) \ {i}) = n - 1
    BY <2>1, FS_RemoveElement
  <2> DEFINE f == [k \in S |-> rank(k)]
  <2>3. f \in [S -> (1 .. n) \ {i}]
    BY <1>4
  <2>4. n - 1 < n
    BY <1>1
  <2> HIDE DEF f
  <2>5. PICK k, l \in S : k # l /\ f[k] = f[l]
    BY <2>2, <2>3, <2>4, FS_PigeonHole
  <2>6. rank(k) = rank(l)
    BY <2>5 DEF f
  <2>7. <<k, l>> \in R \/ <<l, k>> \in R
    BY <2>5 DEF TotalOrder
  <2> QED BY <1>3, <1>4, <2>6, <2>7
<1>7. \A k \in S : rank(k) = Rank(R, S, k)
  BY DEF Rank, rank, below
<1> QED BY <1>4, <1>5, <1>6, <1>7

\* So the list that is sorted by rank has each element where its rank says.
LEMMA Sorts ==
    ASSUME NEW S, IsFiniteSet(S), NEW R, TotalOrder(R, S)
    PROVE  /\ \A i \in 1 .. Cardinality(S) :
                 RankedAt(R, S, i) \in S /\ Rank(R, S, RankedAt(R, S, i)) = i
           /\ \A k \in S : RankedAt(R, S, Rank(R, S, k)) = k
           /\ \A i, j \in 1 .. Cardinality(S) :
                 i < j <=> <<RankedAt(R, S, i), RankedAt(R, S, j)>> \in R
<1>1. ASSUME NEW i \in 1 .. Cardinality(S)
      PROVE  RankedAt(R, S, i) \in S /\ Rank(R, S, RankedAt(R, S, i)) = i
  <2>1. \E k \in S : Rank(R, S, k) = i
    BY Ranks
  <2> QED BY <2>1 DEF RankedAt
<1>2. ASSUME NEW k \in S, NEW l \in S, Rank(R, S, k) = Rank(R, S, l) PROVE k = l
  <2>1. /\ Rank(R, S, k) \in 1 .. Cardinality(S)
        /\ <<k, l>> \in R => Rank(R, S, k) < Rank(R, S, l)
        /\ <<l, k>> \in R => Rank(R, S, l) < Rank(R, S, k)
    BY Ranks
  <2> QED BY <1>2, <2>1 DEF TotalOrder
<1>3. ASSUME NEW k \in S PROVE RankedAt(R, S, Rank(R, S, k)) = k
  <2>1. Rank(R, S, k) \in 1 .. Cardinality(S)
    BY Ranks
  <2> QED BY <1>1, <1>2, <2>1
<1>4. ASSUME NEW i \in 1 .. Cardinality(S), NEW j \in 1 .. Cardinality(S)
      PROVE  i < j <=> <<RankedAt(R, S, i), RankedAt(R, S, j)>> \in R
  BY <1>1, Ranks
<1> QED BY <1>1, <1>3, <1>4

\* No element is listed twice.
Distinct(s) == \A k, l \in DOMAIN s : s[k] = s[l] => k = l

\* Sorting keeps the elements.
LEMMA SortKeeps ==
    ASSUME NEW S, NEW s \in Seq(S), NEW R, TotalOrder(R, 1 .. Len(s))
    PROVE  LET t == [i \in DOMAIN s |-> s[RankedAt(R, 1 .. Len(s), i)]] IN
           /\ t \in Seq(S) /\ Len(t) = Len(s)
           /\ ToSet(t) = ToSet(s)
           /\ Distinct(s) => Distinct(t)
<1> DEFINE t == [i \in DOMAIN s |-> s[RankedAt(R, 1 .. Len(s), i)]]
           n == Len(s)
           at(i) == RankedAt(R, 1 .. n, i)
<1>1. n \in Nat /\ DOMAIN s = 1 .. n /\ \A i \in 1 .. n : s[i] \in S
  OBVIOUS
<1>2. /\ \A i \in 1 .. n : at(i) \in 1 .. n
      /\ \A k \in 1 .. n : \E i \in 1 .. n : at(i) = k
      /\ \A i, j \in 1 .. n : at(i) = at(j) => i = j
  <2> HIDE DEF n
  <2>1. TotalOrder(R, 1 .. n)
    BY DEF n
  <2>2. IsFiniteSet(1 .. n) /\ Cardinality(1 .. n) = n
    BY <1>1, FS_Interval
  <2> DEFINE rank(k) == Rank(R, 1 .. n, k)
  <2>3. /\ \A i \in 1 .. n : at(i) \in 1 .. n /\ rank(at(i)) = i
        /\ \A k \in 1 .. n : at(rank(k)) = k
    BY <2>1, <2>2, Sorts
  <2>4. \A k \in 1 .. n : rank(k) \in 1 .. n
    BY <2>1, <2>2, Ranks
  <2> HIDE DEF rank
  <2> HIDE DEF at
  <2> QED BY <2>3, <2>4
<1>3. t = [i \in 1 .. n |-> s[at(i)]]
  BY <1>1
<1> HIDE DEF n, at, t
<1>4. /\ t \in Seq(S) /\ Len(t) = n /\ DOMAIN t = 1 .. n
      /\ \A i \in 1 .. n : t[i] = s[at(i)]
  <2>1. \A i \in 1 .. n : s[at(i)] \in S
    BY <1>1, <1>2
  <2>2. t \in [1 .. n -> S]
    BY <1>3, <2>1, Zenon
  <2>3. \A i \in 1 .. n : t[i] = s[at(i)]
    BY <1>3, Zenon
  <2>4. t \in Seq(S) /\ Len(t) = n /\ DOMAIN t = 1 .. n
    BY <1>1, <2>2
  <2> QED BY <2>3, <2>4
<1>5. ToSet(t) = ToSet(s)
  <2>1. ToSet(t) = {t[i] : i \in 1 .. n} /\ ToSet(s) = {s[i] : i \in 1 .. n}
    BY <1>1, <1>4 DEF ToSet
  <2>2. ASSUME NEW e \in ToSet(s) PROVE e \in ToSet(t)
    <3>1. PICK k \in 1 .. n : e = s[k]
      BY <2>1, <2>2, Zenon
    <3>2. PICK i \in 1 .. n : at(i) = k
      BY <1>2, Zenon
    <3> QED BY <1>4, <2>1, <3>1, <3>2, Zenon
  <2>3. ASSUME NEW e \in ToSet(t) PROVE e \in ToSet(s)
    <3>1. PICK i \in 1 .. n : e = t[i]
      BY <2>1, <2>3, Zenon
    <3>2. e = s[at(i)] /\ at(i) \in 1 .. n
      BY <1>2, <1>4, <3>1
    <3> QED BY <2>1, <3>2, Zenon
  <2> QED BY <2>2, <2>3
<1>6. ASSUME Distinct(s), NEW i \in 1 .. n, NEW j \in 1 .. n, t[i] = t[j] PROVE i = j
  <2> DEFINE k == at(i)
             l == at(j)
  <2>1. k \in 1 .. n /\ l \in 1 .. n /\ s[k] = s[l]
    BY <1>2, <1>4, <1>6
  <2> HIDE DEF k, l
  <2>2. k = l
    BY <1>1, <1>6, <2>1 DEF Distinct
  <2>3. at(i) = at(j)
    BY <2>2 DEF k, l
  <2> QED BY <1>2, <2>3, Zenon
<1>7. Distinct(s) => Distinct(t)
  BY <1>4, <1>6, Zenon DEF Distinct
<1> QED BY <1>4, <1>5, <1>7 DEF n, t

\* Such a list has as many elements as places.
LEMMA CountPlaces ==
    ASSUME NEW S, NEW s \in Seq(S), Distinct(s), NEW J, J \subseteq 1 .. Len(s)
    PROVE  /\ IsFiniteSet(J) /\ IsFiniteSet({s[j] : j \in J})
           /\ Cardinality({s[j] : j \in J}) = Cardinality(J)
<1> DEFINE f == [j \in J |-> s[j]]
           M == {s[j] : j \in J}
<1>1. IsFiniteSet(J)
  <2>1. Len(s) \in Nat
    OBVIOUS
  <2>2. IsFiniteSet(1 .. Len(s))
    BY <2>1, FS_Interval
  <2> QED BY <2>2, FS_Subset
<1>2. f \in Bijection(J, M)
  <2>1. f \in [J -> M] /\ \A m \in M : \E j \in J : f[j] = m
    OBVIOUS
  <2>2. \A j, k \in J : f[j] = f[k] => j = k
    <3>1. DOMAIN s = 1 .. Len(s)
      OBVIOUS
    <3> QED BY <3>1 DEF Distinct
  <2> HIDE DEF f, M
  <2> QED BY <2>1, <2>2, Fun_IsBij
<1>3. ExistsBijection(J, M)
  BY <1>2 DEF ExistsBijection
<1> QED BY <1>1, <1>3, FS_Bijection

-----------------------------------------------------------------------------
(* Sorting by a key: the places in the sorted list are those of the keys,  *)
(* in whatever order the elements were listed.                             *)

\* What precedes by a key: of two with one key, neither.
KeyOrder(P, S) ==
    /\ \A x \in S : <<x, x>> \notin P
    /\ \A x, y, z \in S : <<x, y>> \in P /\ <<y, z>> \in P => <<x, z>> \in P
    /\ \A x, y, z \in S : <<x, y>> \in P => <<x, z>> \in P \/ <<z, y>> \in P

\* The order of a stable sort on the places of s.
StableOrder(P, s) ==
    {p \in (1 .. Len(s)) \X (1 .. Len(s)) :
        \/ <<s[p[1]], s[p[2]]>> \in P
        \/ <<s[p[2]], s[p[1]]>> \notin P /\ p[1] < p[2]}

SortedBy(P, s) == [i \in DOMAIN s |-> s[RankedAt(StableOrder(P, s), 1 .. Len(s), i)]]

\* The elements of s before a, and those not after it.
CountBefore(P, s, a) == Cardinality({j \in 1 .. Len(s) : <<s[j], a>> \in P})
CountUpTo(P, s, a) == Cardinality({j \in 1 .. Len(s) : <<a, s[j]>> \notin P})

LEMMA StableTotal ==
    ASSUME NEW S, NEW s \in Seq(S), NEW P, KeyOrder(P, S)
    PROVE  TotalOrder(StableOrder(P, s), 1 .. Len(s))
<1> DEFINE n == Len(s)
           R == StableOrder(P, s)
           Before(j, k) == <<s[j], s[k]>> \in P \/ (<<s[k], s[j]>> \notin P /\ j < k)
<1>1. n \in Nat /\ \A i \in 1 .. n : s[i] \in S
  OBVIOUS
<1>2. \A j, k \in 1 .. n : <<j, k>> \in R <=> Before(j, k)
  BY DEF StableOrder
<1> HIDE DEF n, R
<1>3. \A i \in 1 .. n : ~Before(i, i)
  BY <1>1 DEF KeyOrder
<1>4. ASSUME NEW i \in 1 .. n, NEW j \in 1 .. n, NEW k \in 1 .. n, Before(i, j), Before(j, k)
      PROVE  Before(i, k)
  <2>1. s[i] \in S /\ s[j] \in S /\ s[k] \in S /\ i \in Int /\ j \in Int /\ k \in Int
    BY <1>1
  <2>2. CASE <<s[i], s[j]>> \in P
    BY <1>4, <2>1, <2>2 DEF KeyOrder
  <2>3. CASE <<s[i], s[j]>> \notin P
    <3>1. <<s[j], s[i]>> \notin P /\ i < j
      BY <1>4, <2>3
    <3>2. CASE <<s[j], s[k]>> \in P
      BY <2>1, <3>1, <3>2 DEF KeyOrder
    <3>3. CASE <<s[j], s[k]>> \notin P
      <4>1. <<s[k], s[j]>> \notin P /\ j < k
        BY <1>4, <3>3
      <4>2. <<s[k], s[i]>> \notin P
        BY <2>1, <3>1, <4>1 DEF KeyOrder
      <4> QED BY <2>1, <3>1, <4>1, <4>2
    <3> QED BY <3>2, <3>3
  <2> QED BY <2>2, <2>3
<1>5. \A i, j \in 1 .. n : i # j => Before(i, j) \/ Before(j, i)
  BY <1>1
<1> HIDE DEF Before
<1>6. TotalOrder(R, 1 .. n)
  BY <1>2, <1>3, <1>4, <1>5 DEF TotalOrder
<1> QED BY <1>6 DEF n, R

\* What is sorted to place i has less than i elements before it, and at least
\* i that are not after it.
LEMMA SortedPlace ==
    ASSUME NEW S, NEW s \in Seq(S), NEW P, KeyOrder(P, S), NEW i \in 1 .. Len(s)
    PROVE  LET x == SortedBy(P, s)[i] IN
           /\ x \in ToSet(s)
           /\ CountBefore(P, s, x) \in Int /\ CountBefore(P, s, x) < i
           /\ CountUpTo(P, s, x) \in Int /\ i <= CountUpTo(P, s, x)
<1> DEFINE n == Len(s)
           R == StableOrder(P, s)
           k == RankedAt(R, 1 .. n, i)
           less == {j \in 1 .. n : <<j, k>> \in R}
           before == {j \in 1 .. n : <<s[j], s[k]>> \in P}
           upTo == {j \in 1 .. n : <<s[k], s[j]>> \notin P}
<1>1. /\ n \in Nat /\ DOMAIN s = 1 .. n /\ \A j \in 1 .. n : s[j] \in S
      /\ IsFiniteSet(1 .. n) /\ Cardinality(1 .. n) = n
  <2>1. n \in Nat /\ DOMAIN s = 1 .. n /\ \A j \in 1 .. n : s[j] \in S
    OBVIOUS
  <2> HIDE DEF n
  <2>2. IsFiniteSet(1 .. n) /\ Cardinality(1 .. n) = n
    BY <2>1, FS_Interval
  <2> QED BY <2>1, <2>2
<1>2. TotalOrder(R, 1 .. n)
  BY StableTotal
<1>3. SortedBy(P, s)[i] = s[k]
  BY <1>1 DEF SortedBy
<1>4. \A j, l \in 1 .. n : <<j, l>> \in R <=>
         (<<s[j], s[l]>> \in P \/ (<<s[l], s[j]>> \notin P /\ j < l))
  BY DEF StableOrder
<1> HIDE DEF R
<1>5. k \in 1 .. n /\ Rank(R, 1 .. n, k) = i
  <2> HIDE DEF n
  <2> QED BY <1>1, <1>2, Sorts DEF n
<1> HIDE DEF n, k
<1>6. IsFiniteSet(less) /\ IsFiniteSet(before) /\ IsFiniteSet(upTo)
  <2>1. less \subseteq 1 .. n /\ before \subseteq 1 .. n /\ upTo \subseteq 1 .. n
    OBVIOUS
  <2> HIDE DEF less, before, upTo
  <2> QED BY <1>1, <2>1, FS_Subset
<1>7. before \subseteq less
  BY <1>4, <1>5
<1>8. less \cup {k} \subseteq upTo /\ k \notin less
  <2>1. k \notin less /\ k \in upTo
    BY <1>1, <1>2, <1>5 DEF TotalOrder, KeyOrder
  <2>2. ASSUME NEW j \in less PROVE j \in upTo
    <3>1. <<s[j], s[k]>> \in P \/ <<s[k], s[j]>> \notin P
      BY <1>4, <1>5
    <3> QED BY <1>1, <1>5, <3>1 DEF KeyOrder
  <2> QED BY <2>1, <2>2
<1>9. i = 1 + Cardinality(less)
  BY <1>5 DEF Rank
<1> HIDE DEF less, before, upTo
<1>10. /\ Cardinality(before) <= Cardinality(less)
       /\ Cardinality(less \cup {k}) <= Cardinality(upTo)
       /\ Cardinality(less \cup {k}) = Cardinality(less) + 1
       /\ Cardinality(before) \in Nat /\ Cardinality(less) \in Nat /\ Cardinality(upTo) \in Nat
  BY <1>6, <1>7, <1>8, FS_Subset, FS_AddElement, FS_CardinalityType
<1>11. s[k] \in ToSet(s)
  BY <1>1, <1>5 DEF ToSet
<1>12. CountBefore(P, s, s[k]) = Cardinality(before) /\ CountUpTo(P, s, s[k]) = Cardinality(upTo)
  BY DEF CountBefore, CountUpTo, before, upTo, n
<1> QED BY <1>3, <1>9, <1>10, <1>11, <1>12

\* Two lists with as many elements for each key are sorted alike.
LEMMA SortedAgree ==
    ASSUME NEW S, NEW s \in Seq(S), NEW t \in Seq(S), NEW P, KeyOrder(P, S), Len(s) = Len(t),
           \A a \in S : /\ CountBefore(P, s, a) = CountBefore(P, t, a)
                        /\ CountUpTo(P, s, a) = CountUpTo(P, t, a),
           NEW i \in 1 .. Len(s)
    PROVE  LET x == SortedBy(P, s)[i]
               y == SortedBy(P, t)[i]
           IN <<x, y>> \notin P /\ <<y, x>> \notin P
<1> DEFINE x == SortedBy(P, s)[i]
           y == SortedBy(P, t)[i]
<1>1. /\ x \in ToSet(s)
      /\ CountBefore(P, s, x) \in Int /\ CountBefore(P, s, x) < i
      /\ CountUpTo(P, s, x) \in Int /\ i <= CountUpTo(P, s, x)
  BY SortedPlace
<1>2. /\ y \in ToSet(t)
      /\ CountBefore(P, t, y) \in Int /\ CountBefore(P, t, y) < i
      /\ CountUpTo(P, t, y) \in Int /\ i <= CountUpTo(P, t, y)
  BY SortedPlace
<1>3. x \in S /\ y \in S
  BY <1>1, <1>2 DEF ToSet
<1> HIDE DEF x, y
<1>4. ASSUME NEW r \in Seq(S), NEW a \in S, NEW b \in S, <<a, b>> \in P
      PROVE  CountUpTo(P, r, a) <= CountBefore(P, r, b)
  <2> DEFINE upTo == {j \in 1 .. Len(r) : <<a, r[j]>> \notin P}
             before == {j \in 1 .. Len(r) : <<r[j], b>> \in P}
  <2>1. \A j \in 1 .. Len(r) : r[j] \in S
    OBVIOUS
  <2>2. upTo \subseteq before
    BY <1>4, <2>1 DEF KeyOrder
  <2>3. IsFiniteSet(before)
    <3>1. IsFiniteSet(1 .. Len(r)) /\ before \subseteq 1 .. Len(r)
      <4>1. Len(r) \in Nat
        OBVIOUS
      <4> QED BY <4>1, FS_Interval
    <3> HIDE DEF before
    <3> QED BY <3>1, FS_Subset
  <2> HIDE DEF upTo, before
  <2>4. Cardinality(upTo) <= Cardinality(before)
    BY <2>2, <2>3, FS_Subset
  <2> QED BY <2>4 DEF CountUpTo, CountBefore, upTo, before
<1>5. <<x, y>> \notin P
  <2> SUFFICES ASSUME <<x, y>> \in P PROVE FALSE
    OBVIOUS
  <2>1. CountUpTo(P, s, x) <= CountBefore(P, s, y)
    BY <1>3, <1>4
  <2>2. CountBefore(P, s, y) = CountBefore(P, t, y)
    BY <1>3
  <2> QED BY <1>1, <1>2, <2>1, <2>2
<1>6. <<y, x>> \notin P
  <2> SUFFICES ASSUME <<y, x>> \in P PROVE FALSE
    OBVIOUS
  <2>1. CountUpTo(P, t, y) <= CountBefore(P, t, x)
    BY <1>3, <1>4
  <2>2. CountBefore(P, s, x) = CountBefore(P, t, x)
    BY <1>3
  <2> QED BY <1>1, <1>2, <2>1, <2>2
<1> QED BY <1>5, <1>6 DEF x, y

\* The counts when an element is appended.
CountsOneMore(P, s, e, a) ==
    /\ CountBefore(P, Append(s, e), a) =
          CountBefore(P, s, a) + (IF <<e, a>> \in P THEN 1 ELSE 0)
    /\ CountUpTo(P, Append(s, e), a) =
          CountUpTo(P, s, a) + (IF <<a, e>> \notin P THEN 1 ELSE 0)

LEMMA CountAppend ==
    ASSUME NEW S, NEW s \in Seq(S), NEW e \in S, NEW P, NEW a
    PROVE  CountsOneMore(P, s, e, a)
<1> DEFINE n == Len(s)
           t == Append(s, e)
           before == {j \in 1 .. n : <<s[j], a>> \in P}
           upTo == {j \in 1 .. n : <<a, s[j]>> \notin P}
<1>1. /\ n \in Nat /\ Len(t) = n + 1 /\ t[n + 1] = e /\ \A j \in 1 .. n : t[j] = s[j]
  OBVIOUS
<1> HIDE DEF n, t
<1>2. 1 .. n + 1 = (1 .. n) \cup {n + 1} /\ n + 1 \notin 1 .. n
  BY <1>1
<1>3. {j \in 1 .. n + 1 : <<t[j], a>> \in P} =
         IF <<e, a>> \in P THEN before \cup {n + 1} ELSE before
  BY <1>1, <1>2
<1>4. {j \in 1 .. n + 1 : <<a, t[j]>> \notin P} =
         IF <<a, e>> \notin P THEN upTo \cup {n + 1} ELSE upTo
  BY <1>1, <1>2
<1>5. n + 1 \notin before /\ n + 1 \notin upTo
  BY <1>2
<1>6. IsFiniteSet(before) /\ IsFiniteSet(upTo)
  <2>1. before \subseteq 1 .. n /\ upTo \subseteq 1 .. n
    OBVIOUS
  <2>2. IsFiniteSet(1 .. n)
    BY <1>1, FS_Interval
  <2> HIDE DEF before, upTo
  <2> QED BY <2>1, <2>2, FS_Subset
<1> HIDE DEF before, upTo
<1>7. /\ Cardinality(before \cup {n + 1}) = Cardinality(before) + 1
      /\ Cardinality(upTo \cup {n + 1}) = Cardinality(upTo) + 1
      /\ Cardinality(before) \in Nat /\ Cardinality(upTo) \in Nat
  BY <1>5, <1>6, FS_AddElement, FS_CardinalityType
<1>8. CountBefore(P, s, a) = Cardinality(before) /\ CountUpTo(P, s, a) = Cardinality(upTo)
  BY DEF CountBefore, CountUpTo, before, upTo, n
<1>9. /\ CountBefore(P, t, a) = Cardinality(IF <<e, a>> \in P THEN before \cup {n + 1} ELSE before)
      /\ CountUpTo(P, t, a) = Cardinality(IF <<a, e>> \notin P THEN upTo \cup {n + 1} ELSE upTo)
  BY <1>1, <1>3, <1>4 DEF CountBefore, CountUpTo
<1>10. CountBefore(P, t, a) = CountBefore(P, s, a) + (IF <<e, a>> \in P THEN 1 ELSE 0)
  BY <1>7, <1>8, <1>9
<1>11. CountUpTo(P, t, a) = CountUpTo(P, s, a) + (IF <<a, e>> \notin P THEN 1 ELSE 0)
  BY <1>7, <1>8, <1>9
<1> QED BY <1>10, <1>11 DEF t, CountsOneMore

\* The places of the elements of M in a listing without repetition are as many
\* as there are in M.
LEMMA CountListed ==
    ASSUME NEW S, NEW s \in Seq(S), Distinct(s), NEW M, M \subseteq ToSet(s)
    PROVE  Cardinality({j \in 1 .. Len(s) : s[j] \in M}) = Cardinality(M)
<1> DEFINE J == {j \in 1 .. Len(s) : s[j] \in M}
<1>1. {s[j] : j \in J} = M
  <2>1. \A m \in M : \E j \in 1 .. Len(s) : s[j] = m
    BY DEF ToSet
  <2> QED BY <2>1
<1>2. J \subseteq 1 .. Len(s)
  OBVIOUS
<1> HIDE DEF J
<1>3. Cardinality({s[j] : j \in J}) = Cardinality(J)
  BY <1>2, CountPlaces
<1> QED BY <1>1, <1>3 DEF J

\* Two listings of one set without repetition have as many elements for each
\* key.
LEMMA ListingsAgree ==
    ASSUME NEW S, NEW s \in Seq(S), NEW t \in Seq(S), Distinct(s), Distinct(t),
           ToSet(s) = ToSet(t), NEW P
    PROVE  /\ Len(s) = Len(t)
           /\ \A a \in S : /\ CountBefore(P, s, a) = CountBefore(P, t, a)
                           /\ CountUpTo(P, s, a) = CountUpTo(P, t, a)
<1>1. ASSUME NEW r \in Seq(S), Distinct(r), ToSet(r) = ToSet(s)
      PROVE  /\ Len(r) = Cardinality(ToSet(s))
             /\ \A a \in S :
                  /\ CountBefore(P, r, a) = Cardinality({x \in ToSet(s) : <<x, a>> \in P})
                  /\ CountUpTo(P, r, a) = Cardinality({x \in ToSet(s) : <<a, x>> \notin P})
  <2>1. \A j \in 1 .. Len(r) : r[j] \in ToSet(s)
    <3>1. \A j \in 1 .. Len(r) : r[j] \in ToSet(r)
      BY DEF ToSet
    <3> QED BY <1>1, <3>1
  <2>2. Len(r) = Cardinality(ToSet(s))
    <3>1. {j \in 1 .. Len(r) : r[j] \in ToSet(s)} = 1 .. Len(r) /\ Len(r) \in Nat
      BY <2>1
    <3>2. Cardinality(1 .. Len(r)) = Len(r)
      <4>1. \A m \in Nat : Cardinality(1 .. m) = m
        BY FS_Interval
      <4> QED BY <3>1, <4>1
    <3>3. Cardinality({j \in 1 .. Len(r) : r[j] \in ToSet(s)}) = Cardinality(ToSet(s))
      BY <1>1, CountListed
    <3> QED BY <3>1, <3>2, <3>3
  <2>3. ASSUME NEW a \in S
        PROVE  CountBefore(P, r, a) = Cardinality({x \in ToSet(s) : <<x, a>> \in P})
    <3> DEFINE M == {x \in ToSet(s) : <<x, a>> \in P}
    <3>1. {j \in 1 .. Len(r) : r[j] \in M} = {j \in 1 .. Len(r) : <<r[j], a>> \in P}
      BY <2>1
    <3>2. M \subseteq ToSet(r)
      BY <1>1
    <3> HIDE DEF M
    <3>3. Cardinality({j \in 1 .. Len(r) : r[j] \in M}) = Cardinality(M)
      BY <1>1, <3>2, CountListed
    <3> QED BY <3>1, <3>3 DEF CountBefore, M
  <2>4. ASSUME NEW a \in S
        PROVE  CountUpTo(P, r, a) = Cardinality({x \in ToSet(s) : <<a, x>> \notin P})
    <3> DEFINE M == {x \in ToSet(s) : <<a, x>> \notin P}
    <3>1. {j \in 1 .. Len(r) : r[j] \in M} = {j \in 1 .. Len(r) : <<a, r[j]>> \notin P}
      BY <2>1
    <3>2. M \subseteq ToSet(r)
      BY <1>1
    <3> HIDE DEF M
    <3>3. Cardinality({j \in 1 .. Len(r) : r[j] \in M}) = Cardinality(M)
      BY <1>1, <3>2, CountListed
    <3> QED BY <3>1, <3>3 DEF CountUpTo, M
  <2> QED BY <2>2, <2>3, <2>4
<1>2. ToSet(s) = ToSet(s)
  OBVIOUS
<1> QED BY <1>1, <1>2

-----------------------------------------------------------------------------
(* The elements of a list at some of its places. *)

\* The values of the loop of Chosen.
ChosenLoop(s, places, h) ==
    /\ h[0] = <<>>
    /\ \A i \in 1 .. Len(s) :
          h[i] = (IF i \in places THEN Append(h[i - 1], s[i]) ELSE h[i - 1])
    /\ Chosen(s, places) = h[Len(s)]

LEMMA ChosenSteps ==
    ASSUME NEW s, NEW places, Len(s) \in Nat
    PROVE  \E h : ChosenLoop(s, places, h)
<1> DEFINE n == Len(s)
           Turn(v, i) == (IF i \in places THEN Append(v, s[i]) ELSE v)
           Defines(f, m) == f = [i \in 0 .. m |-> IF i = 0 THEN <<>> ELSE Turn(f[i - 1], i)]
           T == {m \in 0 .. n : \E f : Defines(f, m)}
<1> HIDE DEF n, Turn
<1>1. n \in Nat
  BY DEF n
<1>2. 0 \in T
  <2>1. Defines([i \in 0 .. 0 |-> <<>>], 0)
    OBVIOUS
  <2> HIDE DEF Defines
  <2> QED BY <1>1, <2>1
<1>3. ASSUME NEW m \in 1 .. n, m - 1 \in T PROVE m \in T
  <2>1. PICK f : Defines(f, m - 1)
    BY <1>3
  <2> DEFINE g == [i \in 0 .. m |-> IF i = m THEN Turn(f[m - 1], m) ELSE f[i]]
  <2>2. \A i \in 0 .. m - 1 : f[i] = IF i = 0 THEN <<>> ELSE Turn(f[i - 1], i)
    BY <2>1, Zenon
  <2>3. \A i \in 0 .. m : g[i] = IF i = 0 THEN <<>> ELSE Turn(g[i - 1], i)
    <3> SUFFICES ASSUME NEW i \in 0 .. m PROVE g[i] = IF i = 0 THEN <<>> ELSE Turn(g[i - 1], i)
      OBVIOUS
    <3>1. CASE i = 0
      BY <2>2, <3>1
    <3>2. CASE i \in 1 .. m - 1
      <4>1. i - 1 \in 0 .. m - 1 /\ i \in 0 .. m - 1 /\ i # 0
        BY <3>2
      <4>2. g[i] = f[i] /\ g[i - 1] = f[i - 1]
        BY <4>1
      <4> QED BY <2>2, <4>1, <4>2
    <3>3. CASE i = m
      <4>1. g[m] = Turn(f[m - 1], m) /\ g[m - 1] = f[m - 1] /\ m # 0
        OBVIOUS
      <4> QED BY <3>3, <4>1
    <3> QED BY <3>1, <3>2, <3>3
  <2>4. Defines(g, m)
    BY <2>3, Zenon
  <2> HIDE DEF Defines, g
  <2> QED BY <2>4
<1>4. n \in T
  <2> HIDE DEF T
  <2>1. \A i \in 0 .. n : i \in T
    BY <1>1, <1>2, <1>3, UpTo
  <2> QED BY <1>1, <2>1
<1> DEFINE h == CHOOSE f : Defines(f, n)
<1>5. Defines(h, n)
  <2>1. \E f : Defines(f, n)
    BY <1>4
  <2> HIDE DEF Defines
  <2> QED BY <2>1
<1>6. Chosen(s, places) = h[n]
  BY DEF Chosen, n, Turn
<1> HIDE DEF h
<1>7. h[0] = <<>> /\ \A i \in 1 .. n : h[i] = Turn(h[i - 1], i)
  <2>1. \A i \in 0 .. n : h[i] = IF i = 0 THEN <<>> ELSE Turn(h[i - 1], i)
    BY <1>5, Zenon
  <2> HIDE DEF Defines
  <2> QED BY <1>1, <2>1
<1>8. ChosenLoop(s, places, h)
  BY <1>6, <1>7 DEF ChosenLoop, n, Turn
<1> QED BY <1>8

\* Choosing every place gives the list.
LEMMA ChosenAll ==
    ASSUME NEW S, NEW s \in Seq(S)
    PROVE  Chosen(s, 1 .. Len(s)) = s
<1> DEFINE n == Len(s)
<1>1. n \in Nat /\ s \in [1 .. n -> S] /\ \A i \in 1 .. n : s[i] \in S
  OBVIOUS
<1>2. PICK h : ChosenLoop(s, 1 .. n, h)
  BY <1>1, ChosenSteps
<1> DEFINE Copied(i) == h[i] \in Seq(S) /\ Len(h[i]) = i /\ \A k \in 1 .. i : h[i][k] = s[k]
           T == {i \in 0 .. n : Copied(i)}
<1>3. 0 \in T
  <2>1. h[0] = <<>>
    BY <1>2 DEF ChosenLoop
  <2>2. Copied(0)
    BY <2>1
  <2> HIDE DEF Copied
  <2> QED BY <1>1, <2>2
<1>4. ASSUME NEW i \in 1 .. n, i - 1 \in T PROVE i \in T
  <2>1. h[i] = Append(h[i - 1], s[i]) /\ Copied(i - 1)
    BY <1>2, <1>4 DEF ChosenLoop
  <2>2. s[i] \in S
    BY <1>1
  <2>3. Copied(i)
    BY <2>1, <2>2
  <2> QED BY <2>3
<1>5. n \in T
  <2> HIDE DEF T
  <2>1. \A i \in 0 .. n : i \in T
    BY <1>1, <1>3, <1>4, UpTo
  <2> HIDE DEF n
  <2> QED BY <1>1, <2>1
<1>6. h[n] = s
  BY <1>1, <1>5
<1> QED BY <1>2, <1>6 DEF ChosenLoop

\* A list without repetition stays so when a new element is appended.
LEMMA AppendDistinct ==
    ASSUME NEW S, NEW s \in Seq(S), Distinct(s), NEW e \in S, e \notin ToSet(s)
    PROVE  Distinct(Append(s, e))
<1> DEFINE t == Append(s, e)
           n == Len(s)
<1>1. /\ n \in Nat /\ DOMAIN s = 1 .. n /\ DOMAIN t = 1 .. n + 1 /\ t[n + 1] = e
      /\ \A i \in 1 .. n : t[i] = s[i]
  OBVIOUS
<1>2. \A i \in 1 .. n : s[i] # e
  BY <1>1 DEF ToSet
<1> HIDE DEF t, n
<1>3. ASSUME NEW k \in DOMAIN t, NEW l \in DOMAIN t, t[k] = t[l] PROVE k = l
  <2>1. (k \in 1 .. n \/ k = n + 1) /\ (l \in 1 .. n \/ l = n + 1)
    BY <1>1
  <2> QED BY <1>1, <1>2, <1>3, <2>1 DEF Distinct
<1>4. Distinct(t)
  BY <1>3 DEF Distinct
<1> QED BY <1>4 DEF t

\* They are listed, none of them twice unless the list repeats it.
LEMMA ChosenKeeps ==
    ASSUME NEW S, NEW s \in Seq(S), NEW places, places \subseteq 1 .. Len(s)
    PROVE  /\ Chosen(s, places) \in Seq(S)
           /\ ToSet(Chosen(s, places)) = {s[j] : j \in places}
           /\ Distinct(s) => Distinct(Chosen(s, places))
<1> DEFINE n == Len(s)
           Right(i, v) == /\ v \in Seq(S)
                          /\ ToSet(v) = {s[j] : j \in places \cap (1 .. i)}
                          /\ Distinct(s) => Distinct(v)
<1>1. n \in Nat /\ DOMAIN s = 1 .. n /\ \A i \in 1 .. n : s[i] \in S
  OBVIOUS
<1>2. PICK h : ChosenLoop(s, places, h)
  BY <1>1, ChosenSteps
<1>3. /\ h[0] = <<>>
      /\ \A i \in 1 .. n : h[i] = (IF i \in places THEN Append(h[i - 1], s[i]) ELSE h[i - 1])
      /\ Chosen(s, places) = h[n]
  BY <1>2 DEF ChosenLoop
<1> DEFINE T == {i \in 0 .. n : Right(i, h[i])}
<1> HIDE DEF n
<1>4. Right(0, <<>>)
  <2>1. <<>> \in Seq(S) /\ ToSet(<<>>) = {} /\ Distinct(<<>>)
    BY DEF ToSet, Distinct
  <2>2. {s[j] : j \in places \cap (1 .. 0)} = {}
    OBVIOUS
  <2> QED BY <2>1, <2>2
<1>5. ASSUME NEW i \in 1 .. n, NEW v, Right(i - 1, v)
      PROVE  Right(i, IF i \in places THEN Append(v, s[i]) ELSE v)
  <2>1. 1 .. i = (1 .. (i - 1)) \cup {i} /\ i \notin 1 .. (i - 1) /\ i \in 1 .. n /\ s[i] \in S
        /\ 1 .. (i - 1) \subseteq 1 .. n
    BY <1>1
  <2>2. CASE i \notin places
    <3>1. places \cap (1 .. i) = places \cap (1 .. (i - 1))
      BY <2>1, <2>2
    <3> QED BY <1>5, <2>2, <3>1
  <2>3. CASE i \in places
    <3>1. places \cap (1 .. i) = (places \cap (1 .. (i - 1))) \cup {i}
      BY <2>1, <2>3
    <3>2. v \in Seq(S) /\ ToSet(v) = {s[j] : j \in places \cap (1 .. (i - 1))}
      BY <1>5
    <3>3. Append(v, s[i]) \in Seq(S)
      BY <2>1, <3>2
    <3>4. ToSet(Append(v, s[i])) = ToSet(v) \cup {s[i]}
      BY <2>1, <3>2, AppendElements
    <3>5. ToSet(Append(v, s[i])) = {s[j] : j \in places \cap (1 .. i)}
      BY <3>1, <3>2, <3>4
    <3>6. ASSUME Distinct(s) PROVE Distinct(Append(v, s[i]))
      <4>1. s[i] \notin ToSet(v)
        <5>1. \A j \in 1 .. (i - 1) : j # i /\ j \in DOMAIN s /\ i \in DOMAIN s
          BY <1>1, <2>1
        <5> QED BY <3>2, <3>6, <5>1 DEF Distinct
      <4> QED BY <1>5, <2>1, <3>2, <3>6, <4>1, AppendDistinct
    <3> QED BY <2>3, <3>3, <3>5, <3>6
  <2> QED BY <2>2, <2>3
<1> HIDE DEF Right
<1>6. 0 \in T
  BY <1>1, <1>3, <1>4
<1>7. ASSUME NEW i \in 1 .. n, i - 1 \in T PROVE i \in T
  <2>1. Right(i - 1, h[i - 1]) /\ i \in 0 .. n
    BY <1>1, <1>7
  <2>2. Right(i, h[i])
    BY <1>3, <1>5, <2>1
  <2> QED BY <2>1, <2>2
<1>8. n \in T
  <2> HIDE DEF T
  <2>1. \A i \in 0 .. n : i \in T
    BY <1>1, <1>6, <1>7, UpTo
  <2> QED BY <1>1, <2>1
<1>9. Right(n, Chosen(s, places))
  BY <1>3, <1>8
<1>10. places \cap (1 .. n) = places
  BY DEF n
<1> QED BY <1>9, <1>10 DEF Right

-----------------------------------------------------------------------------
\* A finite set has an element with the highest value.
LEMMA Topmost ==
    ASSUME NEW S, IsFiniteSet(S), S # {}, NEW f, \A d \in S : f[d] \in Int
    PROVE  \E d \in S : \A e \in S : f[e] <= f[d]
<1> DEFINE n == Cardinality(S)
           below(d) == {e \in S : f[e] <= f[d]}
           above(d) == n - Cardinality(below(d))
           N == {above(d) : d \in S}
<1>1. n \in Nat
  BY FS_CardinalityType
<1>2. ASSUME NEW d \in S
      PROVE  IsFiniteSet(below(d)) /\ Cardinality(below(d)) \in Nat /\ above(d) \in Nat
  <2>1. IsFiniteSet(below(d)) /\ Cardinality(below(d)) <= n
    BY FS_Subset
  <2>2. Cardinality(below(d)) \in Nat
    BY <2>1, FS_CardinalityType
  <2> HIDE DEF below, n
  <2> QED BY <1>1, <2>1, <2>2
<1>3. PICK m \in N : \A k \in N : m <= k
  <2>1. N \subseteq Nat /\ N # {}
    BY <1>2, Zenon
  <2> HIDE DEF N
  <2> QED BY <2>1, Least
<1>4. PICK d \in S : m = above(d)
  OBVIOUS
<1>5. ASSUME NEW e \in S PROVE f[e] <= f[d]
  <2> SUFFICES ASSUME f[d] < f[e] PROVE FALSE
    OBVIOUS
  <2>1. below(d) \cup {e} \subseteq below(e) /\ e \notin below(d)
    <3>1. f[d] \in Int /\ f[e] \in Int /\ \A x \in below(d) : f[x] \in Int
      OBVIOUS
    <3> QED BY <3>1
  <2>2. Cardinality(below(d) \cup {e}) = Cardinality(below(d)) + 1
    BY <1>2, <2>1, FS_AddElement
  <2>3. Cardinality(below(d) \cup {e}) <= Cardinality(below(e))
    BY <1>2, <2>1, FS_Subset
  <2>4. above(d) <= above(e)
    BY <1>3, <1>4
  <2>5. Cardinality(below(d)) \in Nat /\ Cardinality(below(e)) \in Nat
    BY <1>2
  <2> HIDE DEF below, n
  <2> QED BY <1>1, <2>2, <2>3, <2>4, <2>5
<1> QED BY <1>5

-----------------------------------------------------------------------------
(* Sums over finite sets. *)

\* The function h is, for every subset of S, the sum of q over it, whichever
\* element is added last.
Adds(h, q, S) ==
    /\ h \in [SUBSET S -> Int]
    /\ h[{}] = 0
    /\ \A T \in SUBSET S : \A x \in T : h[T] = q[x] + h[T \ {x}]

\* The function h folds q over every subset of S, an arbitrary element first.
FoldStep(h, q, T) ==
    IF T = {} THEN 0 ELSE q[CHOOSE x \in T : TRUE] + h[T \ {CHOOSE x \in T : TRUE}]
Folds(h, q, S) == h = [T \in SUBSET S |-> FoldStep(h, q, T)]

\* The subsets of S with at most n elements.
UpToSize(S, n) == {T \in SUBSET S : Cardinality(T) <= n}

\* Less an element a set has one element less.
LEMMA SmallerSet ==
    ASSUME NEW S, IsFiniteSet(S), NEW T \in SUBSET S
    PROVE  /\ IsFiniteSet(T) /\ Cardinality(T) \in Nat /\ Cardinality(T) <= Cardinality(S)
           /\ \A x \in T : T \ {x} \in SUBSET S /\ Cardinality(T \ {x}) = Cardinality(T) - 1
           /\ T # {} => (CHOOSE x \in T : TRUE) \in T
           /\ T = {} <=> Cardinality(T) = 0
<1>1. IsFiniteSet(T) /\ Cardinality(T) \in Nat /\ Cardinality(T) <= Cardinality(S)
  BY FS_Subset, FS_CardinalityType
<1>2. \A x \in T : Cardinality(T \ {x}) = Cardinality(T) - 1
  BY <1>1, FS_RemoveElement
<1>3. T = {} <=> Cardinality(T) = 0
  BY <1>1, FS_EmptySet
<1> QED BY <1>1, <1>2, <1>3

\* There is such a fold.
LEMMA FoldExists ==
    ASSUME NEW S, IsFiniteSet(S), NEW q
    PROVE  \E h : Folds(h, q, S)
<1> DEFINE n == Cardinality(S)
           Begins(h, m) == h = [T \in UpToSize(S, m) |-> FoldStep(h, q, T)]
           M == {m \in 0 .. n : \E h : Begins(h, m)}
<1>1. n \in Nat /\ \A T \in SUBSET S : Cardinality(T) \in Nat /\ Cardinality(T) <= n
  BY FS_CardinalityType, SmallerSet
<1> HIDE DEF n
<1>2. 0 \in M
  <2> DEFINE h == [T \in UpToSize(S, 0) |-> 0]
  <2>1. \A T \in UpToSize(S, 0) : h[T] = FoldStep(h, q, T)
    BY <1>1, SmallerSet DEF UpToSize, FoldStep
  <2>2. h = [T \in UpToSize(S, 0) |-> h[T]]
    OBVIOUS
  <2> HIDE DEF h
  <2>3. Begins(h, 0)
    BY <2>1, <2>2
  <2> QED BY <1>1, <2>3
<1>3. ASSUME NEW m \in 1 .. n, m - 1 \in M PROVE m \in M
  <2>1. PICK f : Begins(f, m - 1)
    BY <1>3
  <2>2. \A T \in UpToSize(S, m - 1) : f[T] = FoldStep(f, q, T)
    BY <2>1, Zenon
  <2> DEFINE g == [T \in UpToSize(S, m) |-> FoldStep(f, q, T)]
  <2>3. \A T \in UpToSize(S, m - 1) : g[T] = f[T]
    <3>1. UpToSize(S, m - 1) \subseteq UpToSize(S, m)
      BY <1>1 DEF UpToSize
    <3> QED BY <2>2, <3>1
  <2>4. \A T \in UpToSize(S, m) : FoldStep(f, q, T) = FoldStep(g, q, T)
    <3> SUFFICES ASSUME NEW T \in UpToSize(S, m), T # {}
                 PROVE  FoldStep(f, q, T) = FoldStep(g, q, T)
      BY DEF FoldStep
    <3> DEFINE x == CHOOSE y \in T : TRUE
    <3>1. T \in SUBSET S /\ Cardinality(T) <= m
      BY DEF UpToSize
    <3>2. x \in T /\ T \ {x} \in SUBSET S /\ Cardinality(T \ {x}) = Cardinality(T) - 1
      BY <3>1, SmallerSet
    <3> HIDE DEF x
    <3>3. T \ {x} \in UpToSize(S, m - 1)
      BY <1>1, <3>1, <3>2 DEF UpToSize
    <3>4. f[T \ {x}] = g[T \ {x}]
      BY <2>3, <3>3
    <3> HIDE DEF g
    <3> QED BY <3>4 DEF FoldStep, x
  <2>5. g = [T \in UpToSize(S, m) |-> FoldStep(g, q, T)]
    <3>1. \A T \in UpToSize(S, m) : g[T] = FoldStep(g, q, T)
      BY <2>4
    <3>2. g = [T \in UpToSize(S, m) |-> g[T]]
      OBVIOUS
    <3> HIDE DEF g
    <3> QED BY <3>1, <3>2
  <2> HIDE DEF g
  <2> QED BY <2>5
<1>4. n \in M
  <2> HIDE DEF M
  <2>1. \A m \in 0 .. n : m \in M
    BY <1>1, <1>2, <1>3, UpTo
  <2> QED BY <1>1, <2>1
<1>5. PICK h : Begins(h, n)
  BY <1>4
<1>6. UpToSize(S, n) = SUBSET S
  BY <1>1 DEF UpToSize
<1>7. h = [T \in SUBSET S |-> FoldStep(h, q, T)]
  BY <1>5, <1>6
<1> QED BY <1>7 DEF Folds

\* The order in which a fold takes the elements does not matter.
LEMMA FoldAdds ==
    ASSUME NEW S, IsFiniteSet(S), NEW q, \A x \in S : q[x] \in Int, NEW h, Folds(h, q, S)
    PROVE  Adds(h, q, S)
<1> DEFINE n == Cardinality(S)
           Good(T) == /\ h[T] \in Int
                      /\ \A x \in T : h[T] = q[x] + h[T \ {x}]
           M == {m \in 0 .. n : \A T \in SUBSET S : Cardinality(T) <= m => Good(T)}
<1>1. n \in Nat /\ \A T \in SUBSET S : Cardinality(T) \in Nat /\ Cardinality(T) <= n
  BY FS_CardinalityType, SmallerSet
<1>2. \A T \in SUBSET S : h[T] = FoldStep(h, q, T)
  <2>1. h = [T \in SUBSET S |-> FoldStep(h, q, T)]
    BY DEF Folds
  <2> QED BY <2>1, Zenon
<1>3. h[{}] = 0
  BY <1>2 DEF FoldStep
<1> HIDE DEF n
<1>4. 0 \in M
  <2> SUFFICES ASSUME NEW T \in SUBSET S, Cardinality(T) <= 0 PROVE Good(T)
    BY <1>1
  <2>1. T = {}
    BY <1>1, SmallerSet
  <2> QED BY <1>3, <2>1
<1>5. ASSUME NEW m \in 1 .. n, m - 1 \in M PROVE m \in M
  <2>1. \A T \in SUBSET S : Cardinality(T) <= m - 1 => Good(T)
    BY <1>5
  <2> SUFFICES ASSUME NEW T \in SUBSET S, Cardinality(T) <= m PROVE Good(T)
    BY <1>1
  <2>2. CASE T = {}
    BY <1>3, <2>2
  <2>3. CASE T # {}
    <3> DEFINE c == CHOOSE y \in T : TRUE
    <3>1. /\ c \in T /\ Cardinality(T) \in Nat
          /\ \A x \in T : T \ {x} \in SUBSET S /\ Cardinality(T \ {x}) = Cardinality(T) - 1
      BY <2>3, SmallerSet
    <3>2. h[T] = q[c] + h[T \ {c}]
      BY <1>2, <2>3 DEF FoldStep
    <3> HIDE DEF c
    <3>3. ASSUME NEW x \in T PROVE Good(T \ {x})
      <4>1. T \ {x} \in SUBSET S /\ Cardinality(T \ {x}) <= m - 1
        BY <1>1, <3>1
      <4> HIDE DEF Good
      <4> QED BY <2>1, <4>1
    <3>4. h[T] \in Int
      BY <3>1, <3>2, <3>3
    <3>5. ASSUME NEW x \in T, x # c PROVE h[T] = q[x] + h[T \ {x}]
      <4>1. x \in T \ {c} /\ c \in T \ {x} /\ (T \ {c}) \ {x} = (T \ {x}) \ {c}
        BY <3>1, <3>5
      <4>2. h[T \ {c}] = q[x] + h[(T \ {c}) \ {x}] /\ h[T \ {c}] \in Int
        BY <3>1, <3>3, <4>1
      <4>3. h[T \ {x}] = q[c] + h[(T \ {x}) \ {c}] /\ h[T \ {x}] \in Int
        BY <3>3, <4>1
      <4>4. q[x] \in Int /\ q[c] \in Int /\ h[(T \ {c}) \ {x}] \in Int
        <5>1. (T \ {c}) \ {x} \in SUBSET S /\ Cardinality((T \ {c}) \ {x}) <= m - 1
          <6> DEFINE U == T \ {c}
          <6>1. U \in SUBSET S /\ Cardinality(U) = Cardinality(T) - 1 /\ x \in U
            BY <3>1, <4>1
          <6> HIDE DEF U
          <6>2. U \ {x} \in SUBSET S /\ Cardinality(U \ {x}) = Cardinality(U) - 1
            BY <6>1, SmallerSet
          <6>3. U \ {x} \in SUBSET S /\ Cardinality(U \ {x}) <= m - 1
            BY <1>1, <3>1, <6>1, <6>2
          <6> QED BY <6>3 DEF U
        <5> QED BY <2>1, <3>1, <5>1
      <4> DEFINE a == h[T \ {c}]
                 b == h[T \ {x}]
                 d == h[(T \ {c}) \ {x}]
      <4>5. /\ h[T] = q[c] + a /\ a = q[x] + d /\ b = q[c] + d
            /\ q[x] \in Int /\ q[c] \in Int /\ d \in Int
        BY <3>2, <4>1, <4>2, <4>3, <4>4
      <4> HIDE DEF a, b, d
      <4>6. h[T] = q[x] + b
        BY <4>5
      <4> QED BY <4>6 DEF b
    <3> QED BY <3>2, <3>4, <3>5
  <2> QED BY <2>2, <2>3
<1>6. n \in M
  <2> HIDE DEF M
  <2>1. \A m \in 0 .. n : m \in M
    BY <1>1, <1>4, <1>5, UpTo
  <2> QED BY <1>1, <2>1
<1>7. \A T \in SUBSET S : Good(T)
  BY <1>1, <1>6
<1>8. h \in [SUBSET S -> Int]
  <2>1. h = [T \in SUBSET S |-> FoldStep(h, q, T)]
    BY DEF Folds
  <2>2. \A T \in SUBSET S : FoldStep(h, q, T) \in Int
    BY <1>2, <1>7
  <2> QED BY <2>1, <2>2
<1> QED BY <1>3, <1>7, <1>8 DEF Adds

\* There is one sum over each finite set.
LEMMA AddsOnce ==
    ASSUME NEW S, IsFiniteSet(S), NEW q, NEW h, NEW g, Adds(h, q, S), Adds(g, q, S)
    PROVE  \A T \in SUBSET S : h[T] = g[T]
<1> DEFINE n == Cardinality(S)
           M == {m \in 0 .. n : \A T \in SUBSET S : Cardinality(T) <= m => h[T] = g[T]}
<1>1. n \in Nat /\ \A T \in SUBSET S : Cardinality(T) \in Nat /\ Cardinality(T) <= n
  BY FS_CardinalityType, SmallerSet
<1> HIDE DEF n
<1>2. 0 \in M
  <2>1. \A T \in SUBSET S : Cardinality(T) <= 0 => T = {}
    BY <1>1, SmallerSet
  <2>2. h[{}] = g[{}]
    BY DEF Adds
  <2>3. \A T \in SUBSET S : Cardinality(T) <= 0 => h[T] = g[T]
    BY <2>1, <2>2
  <2> QED BY <1>1, <2>3
<1>3. ASSUME NEW m \in 1 .. n, m - 1 \in M PROVE m \in M
  <2> SUFFICES ASSUME NEW T \in SUBSET S, Cardinality(T) <= m PROVE h[T] = g[T]
    BY <1>1
  <2>1. CASE T = {}
    BY <2>1 DEF Adds
  <2>2. CASE T # {}
    <3>1. PICK x : x \in T
      BY <2>2
    <3>2. T \ {x} \in SUBSET S /\ Cardinality(T \ {x}) = Cardinality(T) - 1
      BY <3>1, SmallerSet
    <3>3. h[T \ {x}] = g[T \ {x}]
      BY <1>1, <1>3, <3>2
    <3> QED BY <3>1, <3>3 DEF Adds
  <2> QED BY <2>1, <2>2
<1>4. n \in M
  <2> HIDE DEF M
  <2>1. \A m \in 0 .. n : m \in M
    BY <1>1, <1>2, <1>3, UpTo
  <2> QED BY <1>1, <2>1
<1> QED BY <1>1, <1>4

\* The sum of the values of q.
SumOf(q) == (CHOOSE h : Adds(h, q, DOMAIN q))[DOMAIN q]

\* It is an integer, and what a fold computes.
LEMMA SumFolds ==
    ASSUME NEW S, IsFiniteSet(S), NEW q \in [S -> Int]
    PROVE  /\ SumOf(q) \in Int
           /\ \A h : Adds(h, q, S) \/ Folds(h, q, S) => SumOf(q) = h[S]
<1>1. \A h : Folds(h, q, S) => Adds(h, q, S)
  <2>1. \A x \in S : q[x] \in Int
    OBVIOUS
  <2> QED BY <2>1, FoldAdds
<1>2. \E h : Adds(h, q, S)
  BY <1>1, FoldExists
<1> DEFINE g == CHOOSE h : Adds(h, q, S)
<1>3. Adds(g, q, S)
  BY <1>2
<1>4. SumOf(q) = g[S]
  BY DEF SumOf
<1> HIDE DEF g
<1>5. \A h : Adds(h, q, S) => h[S] = g[S]
  BY <1>3, AddsOnce
<1>6. g[S] \in Int
  BY <1>3 DEF Adds
<1> QED BY <1>1, <1>4, <1>5, <1>6

\* Nothing sums to 0, and any element can be added last.
LEMMA SumSteps ==
    ASSUME NEW S, IsFiniteSet(S), NEW q \in [S -> Int]
    PROVE  /\ S = {} => SumOf(q) = 0
           /\ \A x \in S : /\ SumOf([y \in S \ {x} |-> q[y]]) \in Int
                           /\ SumOf(q) = q[x] + SumOf([y \in S \ {x} |-> q[y]])
<1>1. PICK h : Adds(h, q, S)
  <2>1. PICK h : Folds(h, q, S)
    BY FoldExists
  <2>2. \A x \in S : q[x] \in Int
    OBVIOUS
  <2> QED BY <2>1, <2>2, FoldAdds
<1>2. SumOf(q) = h[S]
  BY <1>1, SumFolds
<1>3. ASSUME NEW x \in S
      PROVE  /\ SumOf([y \in S \ {x} |-> q[y]]) \in Int
             /\ SumOf(q) = q[x] + SumOf([y \in S \ {x} |-> q[y]])
  <2> DEFINE R == S \ {x}
             p == [y \in R |-> q[y]]
             g == [T \in SUBSET R |-> h[T]]
  <2>1. IsFiniteSet(R) /\ R \subseteq S
    BY FS_Subset
  <2>2. p \in [R -> Int] /\ \A y \in R : p[y] = q[y]
    OBVIOUS
  <2>3. \A T \in SUBSET R : T \in SUBSET S /\ g[T] = h[T] /\ h[T] \in Int
    BY <1>1 DEF Adds
  <2>4. g \in [SUBSET R -> Int]
    BY <2>3
  <2> HIDE DEF p, g
  <2>5. ASSUME NEW T \in SUBSET R, NEW y \in T PROVE g[T] = p[y] + g[T \ {y}]
    <3>1. h[T] = q[y] + h[T \ {y}]
      BY <1>1, <2>3 DEF Adds
    <3>2. T \ {y} \in SUBSET R /\ y \in R
      OBVIOUS
    <3> QED BY <2>2, <2>3, <3>1, <3>2
  <2>6. {} \in SUBSET R /\ g[{}] = 0
    BY <1>1, <2>3 DEF Adds
  <2>7. Adds(g, p, R)
    BY <2>4, <2>5, <2>6 DEF Adds
  <2>8. SumOf(p) = g[R] /\ SumOf(p) \in Int
    BY <2>1, <2>2, <2>7, SumFolds
  <2>9. g[R] = h[R] /\ h[S] = q[x] + h[R]
    BY <1>1, <2>3 DEF Adds
  <2> QED BY <1>2, <2>8, <2>9 DEF p
<1>4. S = {} => SumOf(q) = 0
  BY <1>1, <1>2 DEF Adds
<1> QED BY <1>3, <1>4

\* Induction on the subsets of a finite set.
LEMMA SubsetInduction ==
    ASSUME NEW S, IsFiniteSet(S), NEW M, {} \in M,
           \A T \in SUBSET S : \A x \in T : T \ {x} \in M => T \in M
    PROVE  \A T \in SUBSET S : T \in M
<1> DEFINE n == Cardinality(S)
           N == {m \in 0 .. n : \A T \in SUBSET S : Cardinality(T) <= m => T \in M}
<1>1. n \in Nat /\ \A T \in SUBSET S : Cardinality(T) \in Nat /\ Cardinality(T) <= n
  BY FS_CardinalityType, SmallerSet
<1> HIDE DEF n
<1>2. 0 \in N
  <2>1. \A T \in SUBSET S : Cardinality(T) <= 0 => T = {}
    BY <1>1, SmallerSet
  <2>2. \A T \in SUBSET S : Cardinality(T) <= 0 => T \in M
    BY <2>1
  <2> QED BY <1>1, <2>2
<1>3. ASSUME NEW m \in 1 .. n, m - 1 \in N PROVE m \in N
  <2> SUFFICES ASSUME NEW T \in SUBSET S, Cardinality(T) <= m PROVE T \in M
    BY <1>1
  <2>1. CASE T = {}
    BY <2>1
  <2>2. CASE T # {}
    <3>1. PICK x : x \in T
      BY <2>2
    <3>2. T \ {x} \in SUBSET S /\ Cardinality(T \ {x}) = Cardinality(T) - 1
      BY <3>1, SmallerSet
    <3>3. T \ {x} \in M
      BY <1>1, <1>3, <3>2
    <3> QED BY <3>1, <3>3
  <2> QED BY <2>1, <2>2
<1>4. n \in N
  <2> HIDE DEF N
  <2>1. \A m \in 0 .. n : m \in N
    BY <1>1, <1>2, <1>3, UpTo
  <2> QED BY <1>1, <2>1
<1> QED BY <1>1, <1>4

\* The part of q on A.
Only(q, A) == [x \in A |-> q[x]]

\* Sums over the parts of a finite function.
LEMMA SumParts ==
    ASSUME NEW S, IsFiniteSet(S), NEW q \in [S -> Int]
    PROVE  /\ SumOf(Only(q, {})) = 0
           /\ \A A \in SUBSET S :
                 /\ SumOf(Only(q, A)) \in Int
                 /\ \A x \in A : SumOf(Only(q, A)) = q[x] + SumOf(Only(q, A \ {x}))
           /\ Only(q, S) = q
<1>1. ASSUME NEW A \in SUBSET S
      PROVE  /\ SumOf(Only(q, A)) \in Int
             /\ A = {} => SumOf(Only(q, A)) = 0
             /\ \A x \in A : SumOf(Only(q, A)) = q[x] + SumOf(Only(q, A \ {x}))
  <2> DEFINE p == Only(q, A)
  <2>1. IsFiniteSet(A)
    BY FS_Subset
  <2>2. p \in [A -> Int] /\ \A x \in A : p[x] = q[x]
    BY DEF Only
  <2>3. \A x \in A : [y \in A \ {x} |-> p[y]] = Only(q, A \ {x})
    BY <2>2 DEF Only
  <2> HIDE DEF p
  <2>4. /\ SumOf(p) \in Int
        /\ A = {} => SumOf(p) = 0
        /\ \A x \in A : SumOf(p) = p[x] + SumOf([y \in A \ {x} |-> p[y]])
    <3>1. SumOf(p) \in Int
      BY <2>1, <2>2, SumFolds
    <3>2. /\ A = {} => SumOf(p) = 0
          /\ \A x \in A : SumOf(p) = p[x] + SumOf([y \in A \ {x} |-> p[y]])
      BY <2>1, <2>2, SumSteps
    <3> QED BY <3>1, <3>2
  <2>5. \A x \in A : SumOf(p) = q[x] + SumOf(Only(q, A \ {x}))
    BY <2>2, <2>3, <2>4
  <2> QED BY <2>4, <2>5 DEF p
<1>2. Only(q, S) = q
  BY DEF Only
<1> QED BY <1>1, <1>2

\* The sum over two parts is that of their sums.
LEMMA SumSplit ==
    ASSUME NEW S, IsFiniteSet(S), NEW q \in [S -> Int],
           NEW A \in SUBSET S, NEW B \in SUBSET S, A \cap B = {}
    PROVE  SumOf(Only(q, A \cup B)) = SumOf(Only(q, A)) + SumOf(Only(q, B))
<1> DEFINE M == {T \in SUBSET B : SumOf(Only(q, A \cup T)) = SumOf(Only(q, A)) + SumOf(Only(q, T))}
<1>1. /\ SumOf(Only(q, {})) = 0
      /\ \A T \in SUBSET S :
            /\ SumOf(Only(q, T)) \in Int
            /\ \A x \in T : SumOf(Only(q, T)) = q[x] + SumOf(Only(q, T \ {x}))
      /\ \A x \in S : q[x] \in Int
  BY SumParts
<1>2. {} \in M
  <2>1. A \cup {} = A
    OBVIOUS
  <2>2. SumOf(Only(q, A)) = SumOf(Only(q, A)) + 0
    BY <1>1
  <2> QED BY <1>1, <2>1, <2>2
<1>3. ASSUME NEW T \in SUBSET B, NEW x \in T, T \ {x} \in M PROVE T \in M
  <2>1. /\ A \cup T \in SUBSET S /\ x \in A \cup T /\ (A \cup T) \ {x} = A \cup (T \ {x})
        /\ T \in SUBSET S /\ T \ {x} \in SUBSET S
    OBVIOUS
  <2>2. SumOf(Only(q, A \cup T)) = q[x] + SumOf(Only(q, A \cup (T \ {x})))
    <3>1. SumOf(Only(q, A \cup T)) = q[x] + SumOf(Only(q, (A \cup T) \ {x}))
      BY <1>1, <2>1
    <3> QED BY <2>1, <3>1
  <2>3. SumOf(Only(q, A \cup (T \ {x}))) = SumOf(Only(q, A)) + SumOf(Only(q, T \ {x}))
    BY <1>3
  <2>4. SumOf(Only(q, T)) = q[x] + SumOf(Only(q, T \ {x}))
    BY <1>1, <2>1
  <2>5. SumOf(Only(q, A)) \in Int /\ SumOf(Only(q, T \ {x})) \in Int /\ q[x] \in Int
    BY <1>1, <2>1
  <2>6. SumOf(Only(q, A \cup T)) = SumOf(Only(q, A)) + SumOf(Only(q, T))
    BY <2>2, <2>3, <2>4, <2>5
  <2> QED BY <2>6
<1>4. IsFiniteSet(B)
  BY FS_Subset
<1> HIDE DEF M
<1>5. B \in M
  <2>1. \A T \in SUBSET B : T \in M
    BY <1>2, <1>3, <1>4, SubsetInduction
  <2> QED BY <2>1
<1> QED BY <1>5 DEF M

\* A sum without negative summands is not negative.
LEMMA SumNatural ==
    ASSUME NEW S, IsFiniteSet(S), NEW q \in [S -> Int], \A x \in S : q[x] >= 0
    PROVE  SumOf(q) >= 0
<1> DEFINE M == {T \in SUBSET S : SumOf(Only(q, T)) >= 0}
<1>1. /\ SumOf(Only(q, {})) = 0
      /\ \A T \in SUBSET S :
            /\ SumOf(Only(q, T)) \in Int
            /\ \A x \in T : SumOf(Only(q, T)) = q[x] + SumOf(Only(q, T \ {x}))
      /\ \A x \in S : q[x] \in Int
      /\ Only(q, S) = q
  BY SumParts
<1>2. {} \in M
  BY <1>1
<1>3. ASSUME NEW T \in SUBSET S, NEW x \in T, T \ {x} \in M PROVE T \in M
  <2>1. SumOf(Only(q, T)) = q[x] + SumOf(Only(q, T \ {x}))
    BY <1>1
  <2>2. SumOf(Only(q, T \ {x})) >= 0 /\ SumOf(Only(q, T \ {x})) \in Int /\ q[x] \in Int /\ q[x] >= 0
    BY <1>1, <1>3
  <2>3. SumOf(Only(q, T)) >= 0
    BY <2>1, <2>2
  <2> QED BY <2>3
<1> HIDE DEF M
<1>4. S \in M
  <2>1. \A T \in SUBSET S : T \in M
    BY <1>2, <1>3, SubsetInduction
  <2> QED BY <2>1
<1> QED BY <1>1, <1>4 DEF M

\* The values of a function of a finite set are finitely many.
LEMMA FiniteImage ==
    ASSUME NEW K, IsFiniteSet(K), NEW g
    PROVE  IsFiniteSet({g[k] : k \in K})
<1> DEFINE S == {g[k] : k \in K}
           f == [k \in K |-> g[k]]
<1>1. f \in [K -> S] /\ \A y \in S : \E k \in K : f[k] = y
  OBVIOUS
<1> HIDE DEF f, S
<1>2. f \in Surjection(K, S)
  BY <1>1 DEF Surjection
<1>3. IsFiniteSet(S)
  BY <1>2, FS_Surjection
<1> QED BY <1>3 DEF S

\* Names of the summands do not matter.
LEMMA SumReindex ==
    ASSUME NEW K, IsFiniteSet(K), NEW p \in [K -> Int], NEW S, NEW q \in [S -> Int], NEW g,
           {g[k] : k \in K} = S, \A k, l \in K : g[k] = g[l] => k = l,
           \A k \in K : p[k] = q[g[k]]
    PROVE  SumOf(p) = SumOf(q)
<1> DEFINE Of(T) == {g[k] : k \in T}
           M == {T \in SUBSET K : SumOf(Only(p, T)) = SumOf(Only(q, Of(T)))}
<1>1. IsFiniteSet(S)
  BY FiniteImage
<1>2. /\ SumOf(Only(p, {})) = 0
      /\ \A T \in SUBSET K : \A x \in T : SumOf(Only(p, T)) = p[x] + SumOf(Only(p, T \ {x}))
      /\ Only(p, K) = p
  BY SumParts
<1>3. /\ SumOf(Only(q, {})) = 0
      /\ \A T \in SUBSET S : \A x \in T : SumOf(Only(q, T)) = q[x] + SumOf(Only(q, T \ {x}))
      /\ Only(q, S) = q
  BY <1>1, SumParts
<1>4. {} \in M
  <2>1. Of({}) = {}
    OBVIOUS
  <2> QED BY <1>2, <1>3, <2>1
<1>5. ASSUME NEW T \in SUBSET K, NEW k \in T, T \ {k} \in M PROVE T \in M
  <2>1. Of(T) \in SUBSET S /\ g[k] \in Of(T)
    OBVIOUS
  <2>2. Of(T \ {k}) = Of(T) \ {g[k]}
    OBVIOUS
  <2> HIDE DEF Of
  <2>3. SumOf(Only(p, T)) = p[k] + SumOf(Only(p, T \ {k}))
    BY <1>2
  <2>4. SumOf(Only(q, Of(T))) = q[g[k]] + SumOf(Only(q, Of(T \ {k})))
    <3> DEFINE A == Of(T)
    <3>1. A \in SUBSET S /\ g[k] \in A
      BY <2>1
    <3> HIDE DEF A
    <3>2. SumOf(Only(q, A)) = q[g[k]] + SumOf(Only(q, A \ {g[k]}))
      BY <1>3, <3>1
    <3> QED BY <2>2, <3>2 DEF A
  <2>5. SumOf(Only(p, T \ {k})) = SumOf(Only(q, Of(T \ {k}))) /\ p[k] = q[g[k]]
    BY <1>5
  <2> QED BY <2>3, <2>4, <2>5
<1> HIDE DEF M, Of
<1>6. K \in M
  <2>1. \A T \in SUBSET K : T \in M
    BY <1>4, <1>5, SubsetInduction
  <2> QED BY <2>1
<1>7. Of(K) = S
  BY DEF Of
<1> QED BY <1>2, <1>3, <1>6, <1>7 DEF M

\* The sum of the sums of groups is that of all.
LEMMA SumGroups ==
    ASSUME NEW S, IsFiniteSet(S), NEW q \in [S -> Int], NEW c, NEW V, IsFiniteSet(V),
           \A x \in S : c[x] \in V
    PROVE  SumOf([v \in V |-> SumOf(Only(q, {x \in S : c[x] = v}))]) = SumOf(q)
<1> DEFINE Group(v) == {x \in S : c[x] = v}
           In(W) == {x \in S : c[x] \in W}
           p == [v \in V |-> SumOf(Only(q, Group(v)))]
           M == {W \in SUBSET V : SumOf(Only(p, W)) = SumOf(Only(q, In(W)))}
<1>1. /\ SumOf(Only(q, {})) = 0
      /\ \A T \in SUBSET S : SumOf(Only(q, T)) \in Int
      /\ Only(q, S) = q
  BY SumParts
<1>2. p \in [V -> Int] /\ \A v \in V : p[v] = SumOf(Only(q, Group(v)))
  BY <1>1
<1> HIDE DEF p
<1>3. /\ SumOf(Only(p, {})) = 0
      /\ \A W \in SUBSET V : \A v \in W : SumOf(Only(p, W)) = p[v] + SumOf(Only(p, W \ {v}))
      /\ Only(p, V) = p
  BY <1>2, SumParts
<1>4. {} \in M
  <2>1. In({}) = {}
    OBVIOUS
  <2> QED BY <1>1, <1>3, <2>1
<1>5. ASSUME NEW W \in SUBSET V, NEW v \in W, W \ {v} \in M PROVE W \in M
  <2>1. /\ In(W) = Group(v) \cup In(W \ {v}) /\ Group(v) \cap In(W \ {v}) = {}
        /\ Group(v) \in SUBSET S /\ In(W \ {v}) \in SUBSET S
    OBVIOUS
  <2> HIDE DEF Group, In
  <2>2. SumOf(Only(q, In(W))) = SumOf(Only(q, Group(v))) + SumOf(Only(q, In(W \ {v})))
    <3>1. SumOf(Only(q, Group(v) \cup In(W \ {v})))
             = SumOf(Only(q, Group(v))) + SumOf(Only(q, In(W \ {v})))
      <4> DEFINE A == Group(v)
                 B == In(W \ {v})
      <4>1. A \in SUBSET S /\ B \in SUBSET S /\ A \cap B = {}
        BY <2>1
      <4> HIDE DEF A, B
      <4>2. SumOf(Only(q, A \cup B)) = SumOf(Only(q, A)) + SumOf(Only(q, B))
        BY <4>1, SumSplit
      <4> QED BY <4>2 DEF A, B
    <3> QED BY <2>1, <3>1
  <2>3. SumOf(Only(p, W)) = p[v] + SumOf(Only(p, W \ {v}))
    BY <1>3
  <2>4. SumOf(Only(p, W \ {v})) = SumOf(Only(q, In(W \ {v})))
    BY <1>5
  <2>5. SumOf(Only(p, W)) = SumOf(Only(q, In(W)))
    BY <1>2, <2>2, <2>3, <2>4
  <2> QED BY <2>5
<1>6. In(V) = S
  OBVIOUS
<1> HIDE DEF M, In
<1>7. V \in M
  <2>1. \A W \in SUBSET V : W \in M
    BY <1>4, <1>5, SubsetInduction
  <2> QED BY <2>1
<1>8. SumOf(p) = SumOf(q)
  BY <1>1, <1>3, <1>6, <1>7 DEF M
<1> QED BY <1>8 DEF p
=============================================================================
