---------------------------- MODULE Trajectories ----------------------------
(***************************************************************************)
(* vessel_lakehouse.assemble_vessel_trajectories and segment_track.  An    *)
(* observation is [id, at, vessel, position] and a position a point        *)
(* <<x, y>>.                                                               *)
(***************************************************************************)
EXTENDS LatestEvents, Simplification

\* Two consecutive points too far apart in time for one segment.
Gap(threshold, p, q) == q.at - p.at > threshold

\* The same instant and place.
Same(p, q) == p.at = q.at /\ p.position = q.position

\* The points that are kept, with one more.
Joined(kept, p) ==
    IF kept # <<>> /\ Same(Last(kept), p) THEN kept ELSE Append(kept, p)

Deduplicated(points) ==
    LET kept[i \in 0 .. Len(points)] ==
            IF i = 0 THEN <<>> ELSE Joined(kept[i - 1], points[i])
    IN kept[Len(points)]

\* The segments with one more point.
Extended(threshold, segments, p) ==
    IF segments = <<>> \/ Gap(threshold, Last(Last(segments)), p)
    THEN Append(segments, <<p>>)
    ELSE [segments EXCEPT ![Len(segments)] = Append(@, p)]

\* segment_track: a new segment at each gap, otherwise the last one grows.
Segments(threshold, points) ==
    LET segments[i \in 0 .. Len(points)] ==
            IF i = 0 THEN <<>> ELSE Extended(threshold, segments[i - 1], points[i])
    IN segments[Len(points)]

TrackOf(events, v) ==
    InOrder(Chosen(events, {i \in DOMAIN events : events[i].vessel = v}))

Line(segment) == [i \in DOMAIN segment |-> segment[i].position]

TrajectoryRow(v, index, segment, tolerance, retries) ==
    [vessel |-> v, index |-> index, first |-> Head(segment).id, last |-> Last(segment).id,
     points |-> [i \in DOMAIN segment |->
                    [at |-> segment[i].at, position |-> segment[i].position]],
     simplified |-> SimplifyPreservingTopology(Line(segment), tolerance, retries)]

TrajectoryRows(threshold, tolerance, retries, events) ==
    UNION {LET segments == Segments(threshold, Deduplicated(TrackOf(events, v))) IN
           {TrajectoryRow(v, i - 1, segments[i], tolerance, retries) : i \in DOMAIN segments} :
              v \in {e.vessel : e \in ToSet(events)}}

-----------------------------------------------------------------------------
\* The segments of a vessel partition what was observed of it: every
\* observation is a point of one segment, points are in order, a segment has
\* no gap and two consecutive segments have one between them; and the
\* simplified line of a segment is faithful to it.
Partition(threshold, tolerance, events, rows) ==
    \A v \in {e.vessel : e \in ToSet(events)} :
        LET mine == {r \in rows : r.vessel = v}
            points(r) == ToSet(r.points)
        IN
        /\ {r.index : r \in mine} = 0 .. Cardinality(mine) - 1
        /\ UNION {points(r) : r \in mine} =
              {[at |-> e.at, position |-> e.position] : e \in {f \in ToSet(events) : f.vessel = v}}
        /\ \A r \in mine : \A i \in 1 .. Len(r.points) - 1 :
              /\ r.points[i].at <= r.points[i + 1].at
              /\ r.points[i + 1].at - r.points[i].at <= threshold
              /\ r.points[i] # r.points[i + 1]
        /\ \A r, s \in mine : s.index = r.index + 1 =>
              Head(s.points).at - Last(r.points).at > threshold
        /\ \A r \in mine : Faithful(Line(r.points), r.simplified, tolerance)
=============================================================================
