--------------------------- MODULE MCStatsPublish ---------------------------
(* Small instances of StatsPublish. *)
EXTENDS StatsPublish

CONSTANTS p1, p2, r1

Call(i, c, p, t, s, fields) ==
    [type |-> "call", id |-> i, call |-> c, port |-> p, at |-> t, status |-> s,
     fields |-> fields @@ NoFields]
Scan(i, t, truck, p, dir) ==
    [type |-> "scan", id |-> i, at |-> t, truck |-> truck, terminal |-> "T", port |-> p,
     dir |-> dir]
Booking(i, t, w, p, slots) ==
    [type |-> "booking", id |-> i, at |-> t, created |-> Null, window |-> w, port |-> p,
     slots |-> slots]

MCPeriod == <<1, 9>>

\* Calls that are reported once, of two ports and classes, one of them below
\* ACCEPTED, one of them of the next period.  The scans of a truck arrive out of
\* order, a gate-in and a gate-out are repeated, and so is a booking that was
\* delivered twice; a visit begins before the period.
SingleReports ==
    { << <<Call(1, "A", "LOS", 2, "ACCEPTED", [class |-> 1, arrived |-> 2, departed |-> 6]),
           Scan(3, 6, "X", "LOS", "out"), Scan(4, 2, "X", "LOS", "in"),
           Scan(7, 8, "X", "LOS", "out"), Scan(8, 3, "Y", "LOS", "in"),
           Scan(9, 4, "Y", "LOS", "out")>>,
         <<Call(2, "B", "PHC", 3, "SUBMITTED", [tonnage |-> 4]),
           Scan(5, 3, "X", "LOS", "in"), Booking(6, 4, 8, "LOS", <<1, 3>>),
           Booking(6, 4, 8, "LOS", <<1, 3>>)>> >>,
      << <<Call(1, "A", "LOS", 10, "ACCEPTED", [arrived |-> 9, tonnage |-> 5]),
           Scan(3, 0, "X", "PHC", "in"), Scan(4, 5, "X", "PHC", "out")>>,
         <<Call(2, "B", "LOS", 3, "ACCEPTED", [class |-> 2, arrived |-> 3, tonnage |-> 7]),
           Call(5, "C", "LOS", 4, "DEPARTED", [arrived |-> 4, berthed |-> 5, tonnage |-> 1]),
           Booking(6, 2, 5, NoPort, <<>>)>> >> }

\* A call with two events.
Lifecycles ==
    { << <<Call(1, "A", "LOS", 2, "SUBMITTED", [tonnage |-> 5])>>,
         <<Call(2, "A", "LOS", 3, "ACCEPTED", [arrived |-> 3])>> >> }

\* A call whose port changes; a call whose first event is late.
Irregular ==
    { << <<Call(1, "A", "LOS", 2, "ACCEPTED", [arrived |-> 2])>>,
         <<Call(2, "A", "PHC", 3, "ACCEPTED", [arrived |-> 2])>> >>,
      << <<Call(2, "A", "LOS", 3, "ACCEPTED", [arrived |-> 3, tonnage |-> 7])>>,
         <<Call(1, "A", "LOS", 2, "SUBMITTED", [tonnage |-> 5])>> >> }

AllSilvers == SingleReports \cup Irregular

Symmetry == Permutations({p1, p2})
=============================================================================
