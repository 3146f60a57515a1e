--------------------------- MODULE PortCallFacts ---------------------------
(***************************************************************************)
(* The fact assembly of port_statistics.py: lifecycle events of port calls *)
(* are merged, in the order they are read from the silver table, into one  *)
(* fact per call and period.                                               *)
(*                                                                         *)
(* A port-call event is [type, id, call, port, at, status, fields]; fields *)
(* gives ship class, arrival, berthing, departure and tonnage, which are   *)
(* positive integers, Null where the event reports none.                   *)
(***************************************************************************)
EXTENDS Integers, FiniteSets, Sequences, SequencesExt, Collections

Null == 0
NoPort == "none"

\* ACCEPTED stands for itself and what follows it in the lifecycle, SUBMITTED
\* for what does not reach it.
AcceptedOrBeyond == {"ACCEPTED", "DEPARTED"}

FieldNames == {"class", "arrived", "berthed", "departed", "tonnage"}
NoFields == [k \in FieldNames |-> Null]

\* (occurred_at, event_id) >= entry["order"].
NotBefore(e, entry) ==
    \/ e.at > entry.at
    \/ e.at = entry.at /\ e.id >= entry.id

NewEntry(e) ==
    [port |-> e.port, at |-> e.at, id |-> e.id, status |-> e.status,
     fields |-> NoFields, events |-> <<>>]

\* A reported field overwrites what was read before it.
Reported(new, old) == [k \in FieldNames |-> IF new[k] # Null THEN new[k] ELSE old[k]]

\* Mutant of ApplyEvent: whatever is read last decides the status.
ApplyEventReadOrder(entries, e) ==
    LET entry == IF e.call \in DOMAIN entries THEN entries[e.call] ELSE NewEntry(e) IN
    Put(entries, e.call, [entry EXCEPT !.at = e.at, !.id = e.id, !.status = e.status,
                                       !.fields = Reported(e.fields, @),
                                       !.events = Append(@, e.id)])

\* One turn of the loop: the latest event decides the status.
ApplyEvent(entries, e) ==
    LET entry == IF e.call \in DOMAIN entries THEN entries[e.call] ELSE NewEntry(e)
        latest == NotBefore(e, entry)
    IN
    Put(entries, e.call, [entry EXCEPT !.at = IF latest THEN e.at ELSE @,
                                       !.id = IF latest THEN e.id ELSE @,
                                       !.status = IF latest THEN e.status ELSE @,
                                       !.fields = Reported(e.fields, @),
                                       !.events = Append(@, e.id)])

IsPortCall(e) == e.type = "call"

MergeEvents(events) ==
    LET entries[i \in 0 .. Len(events)] ==
            IF i = 0 THEN <<>>
            ELSE IF IsPortCall(events[i]) THEN ApplyEvent(entries[i - 1], events[i])
            ELSE entries[i - 1]
    IN entries[Len(events)]

PortCalls(events) == {e \in Range(events) : IsPortCall(e)}

\* A call that changes its port makes the assembly raise.
PortChanged(events) ==
    \E e, f \in PortCalls(events) : e.call = f.call /\ e.port # f.port

\* Arrival decides the period, else the latest event.
Attributable(entry) == IF entry.fields.arrived # Null THEN entry.fields.arrived ELSE entry.at

InPeriod(instant, period) == period[1] <= instant /\ instant < period[2]

\* assemble_port_call_facts for the period [start, end).
Facts(events, period) ==
    LET entries == MergeEvents(events) IN
    {[call |-> c, port |-> entries[c].port, status |-> entries[c].status,
      fields |-> entries[c].fields,
      events |-> StableSort(entries[c].events, <)] :
        c \in {d \in DOMAIN entries : InPeriod(Attributable(entries[d]), period)}}

-----------------------------------------------------------------------------
(* References the fold is compared with. *)

OfCall(events, c) == {e \in PortCalls(events) : e.call = c}

\* The event of E that is latest by (occurred_at, event_id).
LatestOf(E) == CHOOSE e \in E : \A f \in E : NotBefore(e, f)

\* The status of a call is the one of its latest event.
StatusOfLatest(events) ==
    LET entries == MergeEvents(events) IN
    \A c \in DOMAIN entries : entries[c].status = LatestOf(OfCall(events, c)).status
=============================================================================
