---------------------------- MODULE Consignments ----------------------------
(***************************************************************************)
(* export_consignment.build_consignment_records and the reads by clearance.*)
(* An event is [id, at, type, consignment, label, value, valid]: type is   *)
(* the family of event_type, value what the family carries (a temperature, *)
(* a weight, a reference) and valid whether it passes the family's checks. *)
(***************************************************************************)
EXTENDS LatestEvents, FiniteSetsExt

Clearance == [UNCLASSIFIED |-> 0, RESTRICTED |-> 1, CONFIDENTIAL |-> 2, SECRET |-> 3]

Families == {"catch", "custody", "coldchain", "export"}

\* Mutant of EventFloor: an event without a label restricts nothing.
EventFloorOpen(e) ==
    IF e.label = "none" THEN Clearance["UNCLASSIFIED"] ELSE Clearance[e.label]

\* An event without a label is SECRET.
EventFloor(e) ==
    IF e.label = "none" THEN Clearance["SECRET"] ELSE Clearance[e.label]

InFamily(events, family) == Chosen(events, {i \in DOMAIN events : events[i].type = family})

OfConsignment(events, c) == Chosen(events, {i \in DOMAIN events : events[i].consignment = c})

Ids(events) == {e.id : e \in events}

\* The batch is refused as a whole.
Refused(events) ==
    \/ events = <<>>
    \/ \E e \in ToSet(events) :
          \/ e.type \notin Families
          \/ e.label \notin DOMAIN Clearance \cup {"none"}
          \/ e.type \in {"catch", "coldchain"} /\ ~e.valid
    \/ \E c \in {e.consignment : e \in ToSet(events)} :
          Len(InFamily(OfConsignment(events, c), "catch")) # 1

\* The reference of the export declaration read last, if there is one.
ExportReference(events) ==
    LET exports == InFamily(events, "export") IN
    IF exports = <<>> THEN {} ELSE {Last(exports).value}

ConsignmentRow(events, c) ==
    LET mine == OfConsignment(events, c)
        samples == InOrder(InFamily(mine, "coldchain"))
        sources == {e \in ToSet(events) : e.consignment = c}
    IN
    [consignment |-> c,
     catch |-> Head(InFamily(mine, "catch")).id,
     custody |-> Ids({e \in sources : e.type = "custody"}),
     samples |-> [i \in DOMAIN samples |-> <<samples[i].id, samples[i].at, samples[i].value>>],
     reference |-> ExportReference(mine),
     floor |-> Max({EventFloor(e) : e \in sources}),
     sources |-> Ids(sources)]

ConsignmentRows(events) ==
    {ConsignmentRow(events, c) : c \in {e.consignment : e \in ToSet(events)}}

\* read_export_consignments at a claimed clearance.
Visible(rows, clearance) == {r \in rows : Clearance[clearance] >= r.floor}

-----------------------------------------------------------------------------
\* The claim clears every event that a row is made of; nothing clears an
\* unlabelled event but the highest clearance.
Cleared(events, rows, clearance) ==
    \A r \in rows : \A e \in ToSet(events) :
        (e.consignment = r.consignment /\ e.id \in r.sources) =>
            \/ clearance = "SECRET"
            \/ e.label \in DOMAIN Clearance /\ Clearance[e.label] <= Clearance[clearance]
=============================================================================
