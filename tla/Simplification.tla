--------------------------- MODULE Simplification ---------------------------
(***************************************************************************)
(* The simplification of a track in vessel_lakehouse: rdp_simplify and     *)
(* simplify_preserving_topology.  A line is a sequence of points <<x, y>>  *)
(* with integer coordinates; distances are compared as exact fractions.    *)
(***************************************************************************)
EXTENDS Integers, Sequences, FiniteSets, FiniteSetsExt, Collections

Square(n) == n * n

\* _perpendicular_distance, squared, as a fraction: the distance from the line
\* through a and b, or from the point that both are.
Distance(p, a, b) ==
    LET dx == b[1] - a[1]
        dy == b[2] - a[2]
    IN IF dx = 0 /\ dy = 0
       THEN [num |-> Square(p[1] - a[1]) + Square(p[2] - a[2]), den |-> 1]
       ELSE [num |-> Square(dy * p[1] - dx * p[2] + b[1] * a[2] - b[2] * a[1]),
             den |-> Square(dx) + Square(dy)]

\* The distance, scaled up, is more than the tolerance: scale is the square of
\* what the tolerance was divided by.
Exceeds(distance, tolerance, scale) ==
    distance.num * scale > Square(tolerance) * distance.den

\* The point between two that is farthest from their line, the first of equals.
Farthest(line, i, j) ==
    LET distance(m) == Distance(line[m], line[i], line[j]).num
        between == i + 1 .. j - 1
    IN Min({m \in between : \A o \in between : distance(o) <= distance(m)})

\* rdp_simplify: between two points that are kept, the farthest one is kept if
\* it exceeds the tolerance.
Kept(line, tolerance, scale) ==
    LET places == 1 .. Len(line)
        kept[span \in places \X places] ==
            LET i == span[1]
                j == span[2]
                m == Farthest(line, i, j)
            IN IF j < i + 2 \/ ~Exceeds(Distance(line[m], line[i], line[j]), tolerance, scale)
               THEN {}
               ELSE {m} \cup kept[<<i, m>>] \cup kept[<<m, j>>]
    IN kept[<<1, Len(line)>>]

RdpSimplify(line, tolerance, scale) ==
    Chosen(line, {1, Len(line)} \cup Kept(line, tolerance, scale))

Orientation(a, b, c) == (b[1] - a[1]) * (c[2] - a[2]) - (b[2] - a[2]) * (c[1] - a[1])

SegmentsIntersect(p1, p2, q1, q2) ==
    /\ (Orientation(q1, q2, p1) > 0) # (Orientation(q1, q2, p2) > 0)
    /\ (Orientation(p1, p2, q1) > 0) # (Orientation(p1, p2, q2) > 0)

\* is_simple_line: segments with a common point are not compared.
IsSimpleLine(line) ==
    \A i, j \in 1 .. Len(line) - 1 :
        j >= i + 2 => ~SegmentsIntersect(line[i], line[i + 1], line[j], line[j + 1])

\* Mutant of SimplifyPreservingTopology: the first attempt is taken as it is.
SimplifyOnce(line, tolerance, retries) ==
    IF Len(line) <= 2 THEN line ELSE RdpSimplify(line, tolerance, 1)

\* The tolerance is halved until the result does not cross itself; the track
\* as it is when no attempt succeeds.
SimplifyPreservingTopology(line, tolerance, retries) ==
    LET scale[h \in 0 .. retries] == IF h = 0 THEN 1 ELSE 4 * scale[h - 1]
        attempt[left \in 0 .. retries] ==
            IF left = 0 THEN line
            ELSE LET result == RdpSimplify(line, tolerance, scale[retries - left]) IN
                 IF Len(result) <= 2 \/ IsSimpleLine(result) THEN result ELSE attempt[left - 1]
    IN IF Len(line) <= 2 THEN line ELSE attempt[retries]

-----------------------------------------------------------------------------
\* Two segments have an inner point of both in common, and only that.
Crosses(p1, p2, q1, q2) ==
    /\ Orientation(q1, q2, p1) * Orientation(q1, q2, p2) < 0
    /\ Orientation(p1, p2, q1) * Orientation(p1, p2, q2) < 0

CrossesItself(line) ==
    \E i, j \in 1 .. Len(line) - 1 :
        i < j /\ Crosses(line[i], line[i + 1], line[j], line[j + 1])

\* What the simplified line owes to the track: it runs from its first to its
\* last point, it takes its points from the track in their order, each point
\* it leaves out is within the tolerance of the line through the two between
\* which it was left out, and it crosses itself only where it is the track.
Faithful(line, simplified, tolerance) ==
    /\ simplified = line \/ ~CrossesItself(simplified)
    /\ \E keep \in SUBSET DOMAIN line :
          /\ {1, Len(line)} \subseteq keep
          /\ simplified = Chosen(line, keep)
          /\ \A i, j \in keep :
                i < j /\ (i + 1 .. j - 1) \cap keep = {} =>
                    \A m \in i + 1 .. j - 1 :
                        ~Exceeds(Distance(line[m], line[i], line[j]), tolerance, 1)
=============================================================================
