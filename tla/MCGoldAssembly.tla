--------------------------- MODULE MCGoldAssembly ---------------------------
(* Instances of GoldAssembly for TLC: small topics, one or two per product. *)
EXTENDS GoldAssembly

CONSTANTS p1, p2

MCPasses == {p1, p2}
MCMaxCommits ==
    [p \in Products |-> IF p \in {"fisheries", "vessel", "geofence"} THEN 2 ELSE 3]
MCClearance == (p1 :> "RESTRICTED") @@ (p2 :> "SECRET")

\* cvff: two commitments, events that arrive late, a redelivery under a new
\* offset, a record without a ledger hash.
Silver(id, at, hash, system) == [id |-> id, at |-> at, hash |-> hash, system |-> system]
CvffLog ==
    [product |-> "cvff",
     events |-> <<Silver(1, 2, "h1", "a"), Silver(2, 1, "h1", "b"), Silver(3, 1, "h2", "a"),
                  Silver(1, 2, "h1", "a"), Silver(4, 3, "malformed", "a")>>]

\* mrv: a report verified twice, a draft, statements of compliance.
Report(id, at, report, vessel, state) ==
    [id |-> id, at |-> at, type |-> "report", report |-> report, vessel |-> vessel,
     state |-> state, artifact |-> 0]
Soc(id, at, report, artifact) ==
    [id |-> id, at |-> at, type |-> "soc", report |-> report, vessel |-> "none",
     state |-> "none", artifact |-> artifact]
MrvLog ==
    [product |-> "mrv",
     events |-> <<Report(1, 3, "r1", "v1", "VERIFIED"), Report(2, 1, "r0", "v1", "VERIFIED"),
                  Soc(3, 3, "r1", 7), Report(4, 4, "r2", "v1", "DRAFT"), Soc(5, 3, "r1", 8)>>]
\* A later verified report of the same vessel and year.
MrvSupersededLog ==
    [product |-> "mrv",
     events |-> <<Report(1, 1, "r1", "v1", "VERIFIED"), Soc(2, 1, "r1", 7),
                  Report(3, 2, "r2", "v1", "VERIFIED")>>]

\* bluecarbon: a block that is retired, one that moves to another vintage, one
\* in the buffer, a retirement that is delivered twice.
Event(id, at, type, key, project, vintage, status, quantity, buffer) ==
    [id |-> id, at |-> at, type |-> type, key |-> key, project |-> project,
     vintage |-> vintage, status |-> status, quantity |-> quantity, buffer |-> buffer]
Project == Event(1, 1, "project", "P", "P", 0, "LISTED", 0, FALSE)
BlueCarbonLogs ==
    {[product |-> "bluecarbon",
      events |-> <<Project,
                   Event(2, 1, "block", "b1", "P", 2020, "ACTIVE", 3, FALSE),
                   Event(3, 2, "block", "b1", "P", 2021, "RETIRED", 3, FALSE),
                   Event(4, 1, "block", "b2", "P", 2020, "ACTIVE", 2, TRUE),
                   Event(5, 2, "block", "b2", "P", 2020, "CANCELLED", 2, TRUE)>>],
     [product |-> "bluecarbon",
      events |-> <<Event(2, 1, "retirement", 9, "P", 0, "none", 3, FALSE),
                   Project,
                   Event(3, 1, "block", "b1", "P", 2020, "EXPIRED", 3, FALSE),
                   Event(4, 2, "block", "b1", "P", 2020, "ACTIVE", 3, TRUE),
                   Event(2, 1, "retirement", 9, "P", 0, "none", 3, FALSE)>>]}

\* stamps: events of one instant, an event of another kind; a malformed issue.
StampEvent(id, at, type, quantity) == [id |-> id, at |-> at, type |-> type, quantity |-> quantity]
StampLogs ==
    {[product |-> "stamps",
      events |-> <<StampEvent(2, 1, "assessed", 5), StampEvent(1, 1, "approved", 0),
                   StampEvent(3, 0, "other", 0), StampEvent(4, 2, "issued", last)>>] :
        last \in {0, 1}}

\* fisheries: labelled and unlabelled events of two consignments; a cold-chain
\* sample out of range.
Fish(id, at, type, consignment, label, valid) ==
    [id |-> id, at |-> at, type |-> type, consignment |-> consignment, label |-> label,
     value |-> id, valid |-> valid]
FisheriesLogs ==
    {[product |-> "fisheries",
      events |-> <<Fish(1, 1, "catch", "c1", "UNCLASSIFIED", TRUE),
                   Fish(2, 2, "coldchain", "c1", "none", TRUE),
                   Fish(3, 2, "catch", "c2", "RESTRICTED", TRUE),
                   Fish(4, 3, "export", "c2", last, TRUE)>>] :
        last \in {"CONFIDENTIAL", "RESTRICTED"}}
    \cup
    {[product |-> "fisheries",
      events |-> <<Fish(1, 1, "catch", "c1", "UNCLASSIFIED", TRUE),
                   Fish(3, 2, "coldchain", "c1", "RESTRICTED", TRUE),
                   Fish(2, 2, "coldchain", "c1", "RESTRICTED", TRUE),
                   Fish(4, 3, "coldchain", "c1", "RESTRICTED", FALSE)>>]}

\* vessel: two vessels, a fix that is repeated, one that arrives late.
Fix(id, at, vessel, position) == [id |-> id, at |-> at, vessel |-> vessel, position |-> position]
VesselLog ==
    [product |-> "vessel",
     events |-> <<Fix(1, 3, "v1", <<0, 3>>), Fix(2, 0, "v1", <<0, 0>>),
                  Fix(3, 3, "v1", <<0, 3>>), Fix(4, 1, "v2", <<0, 0>>)>>]

\* A track whose first simplification crosses itself.  While some of its
\* fixes are missing it has gaps of the threshold and beyond it, and crosses
\* its own wake.
TrackLog ==
    LET positions == <<<<3, 2>>, <<0, 2>>, <<2, 0>>, <<4, 3>>, <<3, 3>>>> IN
    [product |-> "vessel",
     events |-> [i \in 1 .. Len(positions) |-> Fix(i, i, "v1", positions[i])]]

\* geofence: two geofences that overlap, observations that arrive late.
MCInside == ("A" :> {"f1"}) @@ ("B" :> {"f1", "f2"}) @@ ("C" :> {})
GeofenceLog ==
    [product |-> "geofence",
     events |-> <<Fix(1, 3, "v1", "C"), Fix(2, 2, "v1", "A"), Fix(3, 4, "v1", "B"),
                  Fix(4, 1, "v2", "A")>>]

MCLogs ==
    {CvffLog, MrvLog, VesselLog, TrackLog, GeofenceLog} \cup BlueCarbonLogs
        \cup StampLogs \cup FisheriesLogs
SupersededLogs == {MrvLog, MrvSupersededLog}
=============================================================================
