--------------------------- MODULE PortIndicators ---------------------------
(***************************************************************************)
(* The KPI computation of port_statistics.py: gate scans and bookings are  *)
(* taken from the silver events beside the port-call facts, observations   *)
(* are grouped per port, and one value row is emitted for each KPI, port   *)
(* and segment, also where there is nothing to report.                     *)
(*                                                                         *)
(* A gate scan is [type, id, at, truck, terminal, port, dir], a booking    *)
(* [type, id, at, created, window, port, slots]; the port of either may be *)
(* NoPort.  slots is <<booked, offered>>, or <<>> unless both are given.   *)
(* Durations and percentages are in tenths of the published unit, to which *)
(* they are rounded.                                                       *)
(***************************************************************************)
EXTENDS PortCallFacts, FiniteSetsExt

NoTruck == "none"
NoValue == -1

GapKpis == {"berth_occupancy_pct", "declaration_clearance_hours"}
AllKpis == GapKpis \cup
    {"vessel_calls", "vessel_turnaround_hours", "waiting_time_hours", "throughput_tonnes",
     "truck_gate_turnaround_minutes", "booking_lead_time_hours", "slot_utilisation_pct"}

-----------------------------------------------------------------------------
(* extract_gate_scans and extract_bookings. *)

\* The rows of the silver table with their place in it: an event that is
\* there twice counts twice.
Placed(events, type) ==
    {Put(events[i], "row", i) : i \in {j \in DOMAIN events : events[j].type = type}}

GateScans(events, period) == {s \in Placed(events, "scan") : InPeriod(s.at, period)}

\* A booking belongs to the period its slot window starts in; without a
\* window it is left out.
Bookings(events, period) ==
    {b \in Placed(events, "booking") : b.window # Null /\ InPeriod(b.window, period)}

CreatedAt(b) == IF b.created # Null THEN b.created ELSE b.at

\* The events of the period that make the computation raise.
Malformed(events, period) ==
    \/ PortChanged(events)
    \/ \E s \in GateScans(events, period) : s.truck = NoTruck
    \/ \E b \in Bookings(events, period) :
          \/ b.window < CreatedAt(b)
          \/ b.slots # <<>> /\ (b.slots[2] <= 0 \/ b.slots[1] < 0)

-----------------------------------------------------------------------------
(* An observation of a port is [port, id, v]. *)

\* The value at place k of the sorted observations.
Sorted(S, k) ==
    CHOOSE v \in {o.v : o \in S} :
        /\ Cardinality({o \in S : o.v < v}) < k
        /\ k <= Cardinality({o \in S : o.v <= v})

\* percentile_linear, for a quantile in tenths.
Percentile(S, q) ==
    LET n == Cardinality(S)
        rank == q * (n - 1)
        lower == rank \div 10
        upper == IF lower + 1 < n THEN lower + 1 ELSE n - 1
    IN 10 * Sorted(S, lower + 1) + (rank % 10) * (Sorted(S, upper + 1) - Sorted(S, lower + 1))

Visit(s) == <<s.truck, s.terminal>>

\* The order of a stable sort by (occurred_at, event_id).
Before(s, t) ==
    \/ s.at < t.at
    \/ s.at = t.at /\ s.id < t.id
    \/ s.at = t.at /\ s.id = t.id /\ s.row < t.row

\* Mutant of PairScan: a gate-out does not close the visit.
PairScanReopened(acc, s) ==
    IF s.dir = "in" THEN [acc EXCEPT !.open = {s}]
    ELSE [acc EXCEPT !.found = @ \cup {[port |-> s.port, id |-> s.row, v |-> s.at - i.at] :
                                          i \in acc.open}]

\* One turn of the pairing loop; open holds the unmatched gate-in, if any.
PairScan(acc, s) ==
    IF s.dir = "in" THEN [acc EXCEPT !.open = {s}]
    ELSE [open |-> {},
          found |-> acc.found \cup {[port |-> s.port, id |-> s.row, v |-> s.at - i.at] :
                                       i \in acc.open}]

\* The scans of a visit, sorted.
Ordered(scans) ==
    [i \in 1 .. Cardinality(scans) |->
        CHOOSE s \in scans : Cardinality({t \in scans : Before(t, s)}) = i - 1]

Paired(scans) ==
    LET acc[i \in 0 .. Len(scans)] ==
            IF i = 0 THEN [open |-> {}, found |-> {}] ELSE PairScan(acc[i - 1], scans[i])
    IN acc[Len(scans)]

\* _gate_durations_minutes, over all trucks and terminals.
GateDurations(scans) ==
    UNION {Paired(Ordered({s \in scans : Visit(s) = v})).found : v \in {Visit(s) : s \in scans}}

\* Time from field f to field g of the accepted calls that report both in order.
Spans(accepted, f, g) ==
    {[port |-> a.port, id |-> a.call, v |-> a.fields[g] - a.fields[f]] :
        a \in {b \in accepted : b.fields[f] # Null /\ b.fields[g] # Null
                                                   /\ b.fields[g] >= b.fields[f]}}

Tonnages(accepted) ==
    {[port |-> a.port, id |-> a.call, v |-> a.fields.tonnage] :
        a \in {b \in accepted : b.fields.tonnage # Null}}

LeadTimes(bookings) ==
    {[port |-> b.port, id |-> b.row, v |-> b.window - CreatedAt(b)] : b \in bookings}

PortsOf(S) == {o.port : o \in S}
AtPort(S, p) == {o \in S : o.port = p}
Total(S) == FoldSet(LAMBDA o, sum : o.v + sum, 0, S)

Observation(kpi, port, class, percentile, value, n) ==
    [kpi |-> kpi, port |-> port, class |-> class, percentile |-> percentile,
     value |-> value, n |-> n, note |-> "none"]

\* A KPI that publishes the quantiles Q of the observations S.
Quantiles(kpi, S, Q) ==
    {Observation(kpi, p, Null, q, Percentile(AtPort(S, p), q), Cardinality(AtPort(S, p))) :
        p \in PortsOf(S), q \in Q}

\* Calls per ship class, and all calls under the class Null.
VesselCalls(accepted) ==
    {LET calls == {a \in accepted : a.port = k[1] /\ k[2] \in {Null, a.fields.class}}
     IN Observation("vessel_calls", k[1], k[2], Null, Cardinality(calls), Cardinality(calls)) :
        k \in UNION {{<<a.port, a.fields.class>>, <<a.port, Null>>} : a \in accepted}}

Throughput(tonnages) ==
    {Observation("throughput_tonnes", p, Null, Null, Total(AtPort(tonnages, p)),
                 Cardinality(AtPort(tonnages, p))) : p \in PortsOf(tonnages)}

\* Booked slots of a hundred offered ones, in tenths, rounded.
SlotUtilisation(bookings) ==
    LET counted == {b \in bookings : b.slots # <<>>}
        booked(B) == FoldSet(LAMBDA b, sum : b.slots[1] + sum, 0, B)
        offered(B) == FoldSet(LAMBDA b, sum : b.slots[2] + sum, 0, B)
    IN {LET B == AtPort(counted, p)
        IN Observation("slot_utilisation_pct", p, Null, Null,
                       (1000 * booked(B) + offered(B) \div 2) \div offered(B), Cardinality(B)) :
           p \in PortsOf(counted)}

\* compute_kpi_observations.
Observations(facts, scans, bookings) ==
    LET accepted == {f \in facts : f.status \in AcceptedOrBeyond} IN
    UNION {VesselCalls(accepted),
           Quantiles("vessel_turnaround_hours", Spans(accepted, "arrived", "departed"), {5, 9}),
           Quantiles("waiting_time_hours", Spans(accepted, "arrived", "berthed"), {5, 9}),
           Throughput(Tonnages(accepted)),
           Quantiles("truck_gate_turnaround_minutes", GateDurations(scans), {5}),
           Quantiles("booking_lead_time_hours", LeadTimes(bookings), {5}),
           SlotUtilisation(bookings)}

-----------------------------------------------------------------------------
\* Mutant of DiscoverPorts: ports without a port call are overlooked.
DiscoverPortsOfCalls(facts, scans, bookings) ==
    IF facts = {} THEN {NoPort} ELSE PortsOf(facts)

\* The ports that are seen; NoPort when none is.
DiscoverPorts(facts, scans, bookings) ==
    LET ports == (PortsOf(facts) \cup PortsOf(scans) \cup PortsOf(bookings)) \ {NoPort}
    IN IF ports = {} THEN {NoPort} ELSE ports

EmptyRow(kpi, port, note) ==
    [Observation(kpi, port, Null, Null, NoValue, 0) EXCEPT !.note = note]

\* The rows of one KPI and port.
EmitFor(observations, kpi, port) ==
    LET emitted == {o \in observations : o.kpi = kpi /\ o.port = port} IN
    IF kpi \in GapKpis THEN {EmptyRow(kpi, port, "gap")}
    ELSE IF emitted = {} THEN {EmptyRow(kpi, port, "no data")}
    ELSE emitted

\* emit_value_rows over a registry of KPIs.
EmitValueRows(kpis, observations, ports) ==
    UNION {EmitFor(observations, k, p) : k \in kpis, p \in ports}

\* The fields value_row_key hashes, besides those all rows of a run share.
ValueKey(row) == <<row.kpi, row.port, row.class, row.percentile>>

\* All rows of a run.
ValueRows(kpis, events, period) ==
    LET facts == Facts(events, period)
        scans == GateScans(events, period)
        bookings == Bookings(events, period)
    IN EmitValueRows(kpis, Observations(facts, scans, bookings),
                     DiscoverPorts(facts, scans, bookings))

-----------------------------------------------------------------------------
(* References the computation is compared with. *)

\* A gate-out is paired exactly if the scan before it, of the same truck at the
\* same terminal, is a gate-in.
PairedScans(scans) ==
    {q \in scans \X scans :
        LET i == q[1]
            o == q[2]
        IN /\ i.dir = "in" /\ o.dir = "out" /\ Visit(i) = Visit(o) /\ Before(i, o)
           /\ ~\E s \in scans : Visit(s) = Visit(o) /\ Before(i, s) /\ Before(s, o)}

GatesAgree(scans) ==
    GateDurations(scans) =
        {[port |-> p[2].port, id |-> p[2].row, v |-> p[2].at - p[1].at] : p \in PairedScans(scans)}

\* At least half of the observations are on either side of the median, and the
\* P90 row of a port is not below its P50 row.
QuantilesOrdered(S) ==
    S # {} =>
        /\ 2 * Cardinality({o \in S : 10 * o.v <= Percentile(S, 5)}) >= Cardinality(S)
        /\ 2 * Cardinality({o \in S : 10 * o.v >= Percentile(S, 5)}) >= Cardinality(S)
        /\ Percentile(S, 5) <= Percentile(S, 9)
        /\ \E o \in S : Percentile(S, 9) <= 10 * o.v

\* Every KPI has a row for every port, a key has one row, and the calls of a
\* port are those of its classes and the unclassified ones.
SegmentsComplete(rows, facts, ports) ==
    LET calls(p) == {f \in facts : f.port = p /\ f.status \in AcceptedOrBeyond} IN
    /\ \A r, s \in rows : ValueKey(r) = ValueKey(s) => r = s
    /\ \A k \in AllKpis, p \in ports : \E r \in rows : r.kpi = k /\ r.port = p
    /\ \A p \in PortsOf(facts) : \E r \in rows :
          /\ ValueKey(r) = <<"vessel_calls", p, Null, Null>>
          /\ r.n = Cardinality(calls(p))

\* An observation is in a row, with its value and count.
Emitted(rows, o) ==
    \E r \in rows : ValueKey(r) = ValueKey(o) /\ r.value = o.value /\ r.n = o.n

\* The observations that name a port are all emitted, and so are all others if
\* there is no port among what was seen.
PortsEmitted(rows, observations, ports) ==
    \A o \in observations : o.port # NoPort \/ ports = {} => Emitted(rows, o)
=============================================================================
