------------------------- MODULE StatsPublishProofs -------------------------
(***************************************************************************)
(* The publication of port statistics is safe for any number of passes     *)
(* that overlap or stop between any two writes, and any number of readers: *)
(* the manifest comes before the values, the values before the report, a   *)
(* replayed version never conflicts with itself, and a response holds      *)
(* whole runs.  What emit_value_rows makes of every silver table and period*)
(* has one row for each KPI, port and segment, which append_rows relies on *)
(* when a run is replayed; every port call has the status of its latest    *)
(* event; gate turnaround is taken over the paired scans; and a torn       *)
(* report is completed by the pass that has it open.                       *)
(***************************************************************************)
EXTENDS StatsPublish, SequenceLemmas, FiniteSetTheorems, TLAPS

-----------------------------------------------------------------------------
(* The value rows. *)

\* A set of rows in which the hashed fields determine the row.
Keyed(rows) == \A a, b \in rows : ValueKey(a) = ValueKey(b) => a = b

\* A set of observations of one KPI.
OfKpi(rows, kpi) == \A a \in rows : a.kpi = kpi

\* A quantile of a port is one number.
LEMMA QuantilesKeyed ==
    ASSUME NEW kpi, NEW S, NEW Q
    PROVE  Keyed(Quantiles(kpi, S, Q)) /\ OfKpi(Quantiles(kpi, S, Q), kpi)
BY DEF Keyed, OfKpi, ValueKey, Quantiles, Observation

\* The calls of a port and class are counted once.
LEMMA VesselCallsKeyed ==
    ASSUME NEW S
    PROVE  Keyed(VesselCalls(S)) /\ OfKpi(VesselCalls(S), "vessel_calls")
<1> DEFINE calls(k) == {a \in S : a.port = k[1] /\ k[2] \in {Null, a.fields.class}}
           row(k) == Observation("vessel_calls", k[1], k[2], Null,
                                 Cardinality(calls(k)), Cardinality(calls(k)))
           keys == UNION {{<<a.port, a.fields.class>>, <<a.port, Null>>} : a \in S}
<1>1. ASSUME NEW a \in VesselCalls(S), NEW b \in VesselCalls(S), ValueKey(a) = ValueKey(b)
      PROVE  a = b
  <2>1. PICK k \in keys : a = row(k)
    BY DEF VesselCalls
  <2>2. PICK l \in keys : b = row(l)
    BY DEF VesselCalls
  <2>3. k[1] = l[1] /\ k[2] = l[2]
    BY <1>1, <2>1, <2>2 DEF ValueKey, Observation
  <2>4. calls(k) = calls(l)
    BY <2>3
  <2> QED BY <2>1, <2>2, <2>3, <2>4 DEF Observation
<1>2. OfKpi(VesselCalls(S), "vessel_calls")
  <2> SUFFICES ASSUME NEW a \in VesselCalls(S) PROVE a.kpi = "vessel_calls"
    BY DEF OfKpi
  <2>1. PICK k \in keys : a = row(k)
    BY DEF VesselCalls
  <2> QED BY <2>1 DEF Observation
<1> QED BY <1>1, <1>2 DEF Keyed

\* Tonnage is totalled once for each port.
LEMMA ThroughputKeyed ==
    ASSUME NEW S
    PROVE  Keyed(Throughput(S)) /\ OfKpi(Throughput(S), "throughput_tonnes")
BY DEF Keyed, OfKpi, ValueKey, Throughput, Observation

\* Slots are totalled once for each port.
LEMMA UtilisationKeyed ==
    ASSUME NEW S
    PROVE  /\ Keyed(SlotUtilisation(S)) /\ OfKpi(SlotUtilisation(S), "slot_utilisation_pct")
           /\ \A r \in SlotUtilisation(S) : \E b \in S : r.port = b.port
<1> DEFINE counted == {b \in S : b.slots # <<>>}
           booked(B) == FoldSet(LAMBDA b, sum : b.slots[1] + sum, 0, B)
           offered(B) == FoldSet(LAMBDA b, sum : b.slots[2] + sum, 0, B)
           share(B) == (1000 * booked(B) + offered(B) \div 2) \div offered(B)
           row(p) == Observation("slot_utilisation_pct", p, Null, Null,
                                 share(AtPort(counted, p)), Cardinality(AtPort(counted, p)))
<1>1. SlotUtilisation(S) = {row(p) : p \in PortsOf(counted)}
  BY DEF SlotUtilisation
<1> HIDE DEF booked, offered, share, counted
<1>2. \A p : /\ row(p).kpi = "slot_utilisation_pct" /\ row(p).port = p
            /\ ValueKey(row(p))[2] = p
  BY DEF ValueKey, Observation
<1>3. \A p \in PortsOf(counted) : \E b \in S : p = b.port
  BY DEF PortsOf, counted
<1> HIDE DEF row
<1> QED BY <1>1, <1>2, <1>3 DEF Keyed, OfKpi

-----------------------------------------------------------------------------
\* Two sets of rows about different KPIs have no key in common.
LEMMA UnionKeyed ==
    ASSUME NEW A, NEW B, Keyed(A), Keyed(B), \A a \in A, b \in B : a.kpi # b.kpi
    PROVE  Keyed(A \cup B)
<1>1. \A a \in A, b \in B : ValueKey(a) # ValueKey(b)
  BY DEF ValueKey
<1> QED BY <1>1 DEF Keyed

\* The KPIs compute_kpi_observations computes are those with a data source.
LEMMA ObservationsKeyed ==
    ASSUME NEW merged, NEW scans, NEW bookings
    PROVE  /\ Keyed(Observations(merged, scans, bookings))
           /\ \A o \in Observations(merged, scans, bookings) : o.kpi \in AllKpis \ GapKpis
<1> DEFINE accepted == {f \in merged : f.status \in AcceptedOrBeyond}
           calls == VesselCalls(accepted)
           turnaround == Quantiles("vessel_turnaround_hours",
                                   Spans(accepted, "arrived", "departed"), {5, 9})
           waiting == Quantiles("waiting_time_hours",
                                Spans(accepted, "arrived", "berthed"), {5, 9})
           tonnes == Throughput(Tonnages(accepted))
           gates == Quantiles("truck_gate_turnaround_minutes", GateDurations(scans), {5})
           leads == Quantiles("booking_lead_time_hours", LeadTimes(bookings), {5})
           slots == SlotUtilisation(bookings)
<1>1. Keyed(calls) /\ OfKpi(calls, "vessel_calls")
  BY VesselCallsKeyed
<1>2. Keyed(turnaround) /\ OfKpi(turnaround, "vessel_turnaround_hours")
  BY QuantilesKeyed
<1>3. Keyed(waiting) /\ OfKpi(waiting, "waiting_time_hours")
  BY QuantilesKeyed
<1>4. Keyed(tonnes) /\ OfKpi(tonnes, "throughput_tonnes")
  BY ThroughputKeyed
<1>5. Keyed(gates) /\ OfKpi(gates, "truck_gate_turnaround_minutes")
  BY QuantilesKeyed
<1>6. Keyed(leads) /\ OfKpi(leads, "booking_lead_time_hours")
  BY QuantilesKeyed
<1>7. Keyed(slots) /\ OfKpi(slots, "slot_utilisation_pct")
  BY UtilisationKeyed
<1>8. Observations(merged, scans, bookings) =
        calls \cup (turnaround \cup (waiting \cup (tonnes \cup (gates \cup (leads \cup slots)))))
  BY DEF Observations
<1> HIDE DEF calls, turnaround, waiting, tonnes, gates, leads, slots
<1>9. Keyed(leads \cup slots)
  BY <1>6, <1>7, UnionKeyed DEF OfKpi
<1>10. Keyed(gates \cup (leads \cup slots))
  BY <1>5, <1>6, <1>7, <1>9, UnionKeyed DEF OfKpi
<1>11. Keyed(tonnes \cup (gates \cup (leads \cup slots)))
  BY <1>4, <1>5, <1>6, <1>7, <1>10, UnionKeyed DEF OfKpi
<1>12. Keyed(waiting \cup (tonnes \cup (gates \cup (leads \cup slots))))
  BY <1>3, <1>4, <1>5, <1>6, <1>7, <1>11, UnionKeyed DEF OfKpi
<1>13. Keyed(turnaround \cup (waiting \cup (tonnes \cup (gates \cup (leads \cup slots)))))
  BY <1>2, <1>3, <1>4, <1>5, <1>6, <1>7, <1>12, UnionKeyed DEF OfKpi
<1>14. Keyed(Observations(merged, scans, bookings))
  BY <1>1, <1>2, <1>3, <1>4, <1>5, <1>6, <1>7, <1>8, <1>13, UnionKeyed DEF OfKpi
<1>15. \A o \in Observations(merged, scans, bookings) : o.kpi \in AllKpis \ GapKpis
  BY <1>1, <1>2, <1>3, <1>4, <1>5, <1>6, <1>7, <1>8 DEF OfKpi, AllKpis, GapKpis
<1> QED BY <1>14, <1>15

\* Each KPI and port has a row; its rows are its observations, or the one
\* that says there are none.
LEMMA EmittedRows ==
    ASSUME NEW observations, NEW k, NEW p, Keyed(observations)
    PROVE  /\ EmitFor(observations, k, p) # {}
           /\ Keyed(EmitFor(observations, k, p))
           /\ \A r \in EmitFor(observations, k, p) : r.kpi = k /\ r.port = p
<1>1. \A note : EmptyRow(k, p, note).kpi = k /\ EmptyRow(k, p, note).port = p
  BY DEF EmptyRow, Observation
<1>2. \A note : Keyed({EmptyRow(k, p, note)})
  BY DEF Keyed
<1> HIDE DEF EmptyRow
<1> QED BY <1>1, <1>2 DEF EmitFor, Keyed

\* emit_value_rows never publishes two rows under one key, so that the rows
\* of a replayed run are compared with themselves only (value_row_key).
THEOREM RowsKeyed ==
    ASSUME NEW kpis, NEW events, NEW period
    PROVE  \A r, s \in ValueRows(kpis, events, period) : ValueKey(r) = ValueKey(s) => r = s
<1> DEFINE merged == Facts(events, period)
           scans == GateScans(events, period)
           bookings == Bookings(events, period)
           observations == Observations(merged, scans, bookings)
           ports == DiscoverPorts(merged, scans, bookings)
<1>1. Keyed(observations)
  BY ObservationsKeyed
<1>2. ValueRows(kpis, events, period) =
         UNION {EmitFor(observations, k, p) : k \in kpis, p \in ports}
  BY DEF ValueRows, EmitValueRows
<1> HIDE DEF observations, ports
<1> TAKE r, s \in ValueRows(kpis, events, period)
<1> HAVE ValueKey(r) = ValueKey(s)
<1>3. PICK k \in kpis, p \in ports : r \in EmitFor(observations, k, p)
  BY <1>2
<1>4. PICK l \in kpis, q \in ports : s \in EmitFor(observations, l, q)
  BY <1>2
<1>5. r.kpi = s.kpi /\ r.port = s.port
  BY DEF ValueKey
<1>6. k = l /\ p = q
  BY <1>1, <1>3, <1>4, <1>5, EmittedRows
<1> QED BY <1>1, <1>3, <1>4, <1>6, EmittedRows DEF Keyed

\* The accepted calls of a port are all counted under the class Null; where
\* there are none, the row says 0.
LEMMA CallsCounted ==
    ASSUME NEW events, NEW period, NEW p,
           p \in DiscoverPorts(Facts(events, period), GateScans(events, period),
                               Bookings(events, period))
    PROVE  \E r \in ValueRows(AllKpis, events, period) :
              /\ ValueKey(r) = <<"vessel_calls", p, Null, Null>>
              /\ r.n = Cardinality({f \in Facts(events, period) :
                                       f.port = p /\ f.status \in AcceptedOrBeyond})
<1> DEFINE merged == Facts(events, period)
           scans == GateScans(events, period)
           bookings == Bookings(events, period)
           observations == Observations(merged, scans, bookings)
           ports == DiscoverPorts(merged, scans, bookings)
           accepted == {f \in merged : f.status \in AcceptedOrBeyond}
           calls == {f \in merged : f.port = p /\ f.status \in AcceptedOrBeyond}
           emitted == {o \in observations : o.kpi = "vessel_calls" /\ o.port = p}
           row(k) == LET counted == {a \in accepted : a.port = k[1]
                                                   /\ k[2] \in {Null, a.fields.class}}
                     IN Observation("vessel_calls", k[1], k[2], Null,
                                    Cardinality(counted), Cardinality(counted))
           keys == UNION {{<<a.port, a.fields.class>>, <<a.port, Null>>} : a \in accepted}
<1>1. EmitFor(observations, "vessel_calls", p) \subseteq ValueRows(AllKpis, events, period)
  BY DEF ValueRows, EmitValueRows, AllKpis
<1>2. VesselCalls(accepted) = {row(k) : k \in keys}
  BY DEF VesselCalls
<1>3. VesselCalls(accepted) \subseteq observations
  BY DEF Observations
<1>4. "vessel_calls" \notin GapKpis
  BY DEF GapKpis
<1>5. CASE calls # {}
  <2>1. <<p, Null>> \in keys
    BY <1>5
  <2>2. {a \in accepted : a.port = p /\ Null \in {Null, a.fields.class}} = calls
    OBVIOUS
  <2> DEFINE r == Observation("vessel_calls", p, Null, Null, Cardinality(calls),
                              Cardinality(calls))
  <2>3. row(<<p, Null>>) = r
    BY <2>2
  <2>4. r \in observations
    BY <1>2, <1>3, <2>1, <2>3
  <2>5. /\ r.kpi = "vessel_calls" /\ r.port = p /\ r.n = Cardinality(calls)
        /\ ValueKey(r) = <<"vessel_calls", p, Null, Null>>
    BY DEF Observation, ValueKey
  <2> HIDE DEF r, observations
  <2>6. r \in EmitFor(observations, "vessel_calls", p)
    BY <1>4, <2>4, <2>5 DEF EmitFor
  <2> QED BY <1>1, <2>5, <2>6
<1>6. CASE calls = {}
  <2>1. emitted = {}
    <3> SUFFICES ASSUME NEW o \in observations, o.kpi = "vessel_calls", o.port = p
                 PROVE  FALSE
      OBVIOUS
    <3>1. o \in VesselCalls(accepted)
      BY QuantilesKeyed, ThroughputKeyed, UtilisationKeyed DEF Observations, OfKpi
    <3>2. PICK k \in keys : o = row(k)
      BY <1>2, <3>1
    <3>3. k[1] = p
      BY <3>2 DEF Observation
    <3>4. PICK a \in accepted : k[1] = a.port
      OBVIOUS
    <3> QED BY <1>6, <3>3, <3>4
  <2> DEFINE r == EmptyRow("vessel_calls", p, "no data")
  <2>2. r.n = 0 /\ ValueKey(r) = <<"vessel_calls", p, Null, Null>>
    BY DEF EmptyRow, Observation, ValueKey
  <2> HIDE DEF r, observations
  <2>3. r \in EmitFor(observations, "vessel_calls", p)
    BY <1>4, <2>1 DEF EmitFor, r
  <2>4. Cardinality(calls) = 0
    BY <1>6, FS_EmptySet
  <2> QED BY <1>1, <2>2, <2>3, <2>4
<1> QED BY <1>5, <1>6

\* For every silver table: each KPI has a row for each port that is seen,
\* the gaps included, a key has one row, and the calls of a port are all
\* counted in its aggregate row.  The hypothesis is a check of the assembly:
\* a port call names its port.
THEOREM SegmentsAreComplete ==
    ASSUME NEW events, NEW period, NoPort \notin PortsOf(Facts(events, period))
    PROVE  LET merged == Facts(events, period)
               seenPorts == PortsOf(merged \cup GateScans(events, period)
                                          \cup Bookings(events, period)) \ {NoPort}
           IN SegmentsComplete(ValueRows(AllKpis, events, period), merged, seenPorts)
<1> DEFINE merged == Facts(events, period)
           scans == GateScans(events, period)
           bookings == Bookings(events, period)
           observations == Observations(merged, scans, bookings)
           ports == DiscoverPorts(merged, scans, bookings)
           seenPorts == PortsOf(merged \cup scans \cup bookings) \ {NoPort}
           rows == ValueRows(AllKpis, events, period)
<1>1. seenPorts \subseteq ports /\ PortsOf(merged) \subseteq ports
  BY DEF DiscoverPorts, PortsOf
<1>2. \A r, s \in rows : ValueKey(r) = ValueKey(s) => r = s
  BY RowsKeyed
<1>3. ASSUME NEW k \in AllKpis, NEW p \in seenPorts
      PROVE  \E r \in rows : r.kpi = k /\ r.port = p
  <2>1. p \in ports
    BY <1>1
  <2>2. EmitFor(observations, k, p) \subseteq rows
    BY <2>1 DEF ValueRows, EmitValueRows
  <2>3. Keyed(observations)
    BY ObservationsKeyed
  <2> HIDE DEF observations, rows
  <2> QED BY <2>2, <2>3, EmittedRows
<1>4. ASSUME NEW p \in PortsOf(merged)
      PROVE  \E r \in rows :
                /\ ValueKey(r) = <<"vessel_calls", p, Null, Null>>
                /\ r.n = Cardinality({f \in merged : f.port = p
                                                 /\ f.status \in AcceptedOrBeyond})
  BY <1>1, CallsCounted
<1> HIDE DEF rows, merged, seenPorts
<1>5. SegmentsComplete(rows, merged, seenPorts)
  BY <1>2, <1>3, <1>4 DEF SegmentsComplete
<1> QED BY <1>5 DEF rows, merged, seenPorts, scans, bookings

-----------------------------------------------------------------------------
(* What is read from the silver table. *)

\* Silver events as the assembly accepts them.
Sound(events) ==
    /\ Len(events) \in Nat /\ DOMAIN events = 1 .. Len(events)
    /\ \A i \in 1 .. Len(events) :
          /\ {"type", "id", "at"} \subseteq DOMAIN events[i]
          /\ events[i].id \in Int /\ events[i].at \in Int
          /\ events[i].type \in DOMAIN EventFields =>
                EventFields[events[i].type] \subseteq DOMAIN events[i]
          /\ events[i].type = "call" => events[i].port # NoPort
          /\ events[i].type = "scan" => events[i].dir \in {"in", "out"}
    /\ \A i, j \in 1 .. Len(events) : events[i].id = events[j].id => events[i] = events[j]

\* A version of a silver table is a sequence of its events.
LEMMA VersionSound ==
    ASSUME NEW s \in Silvers, NEW n \in 0 .. Len(s)
    PROVE  Sound(EventsUpTo(s, n))
<1> DEFINE first == SubSeq(s, 1, n)
           events == EventsUpTo(s, n)
<1>1. s \in Seq(Seq(EventsOf(s))) /\ Len(s) \in Nat
  BY EventsAssumption, SilversAssumption
<1>2. first \in Seq(Seq(EventsOf(s)))
  BY <1>1
<1>3. events \in Seq(EventsOf(s))
  <2> HIDE DEF first
  <2>1. events = FlattenSeq(first)
    BY DEF EventsUpTo, first
  <2> QED BY <1>2, <2>1, FlattenType
<1> HIDE DEF events
<1>4. /\ Len(events) \in Nat /\ DOMAIN events = 1 .. Len(events)
      /\ \A i \in 1 .. Len(events) : events[i] \in EventsOf(s)
  BY <1>3
<1> QED BY <1>4, EventsAssumption DEF Sound, events

-----------------------------------------------------------------------------
(* The merge of port-call events. *)

\* The loop of assemble_port_call_facts.
LEMMA MergeSteps ==
    ASSUME NEW events, Len(events) \in Nat
    PROVE  \E h : /\ h[0] = <<>>
                  /\ \A i \in 1 .. Len(events) : h[i] = IF IsPortCall(events[i]) THEN ApplyEvent(h[i - 1], events[i]) ELSE h[i - 1]
                  /\ MergeEvents(events) = h[Len(events)]
<1> DEFINE n == Len(events)
           Turn(v, i) == IF IsPortCall(events[i]) THEN ApplyEvent(v, events[i]) ELSE v
           Defines(f, m) == f = [i \in 0 .. m |-> IF i = 0 THEN <<>> ELSE Turn(f[i - 1], i)]
           T == {m \in 0 .. n : \E f : Defines(f, m)}
<1> HIDE DEF n, Turn
<1>1. n \in Nat
  BY DEF n
<1>2. 0 \in T
  <2>1. Defines([i \in 0 .. 0 |-> <<>>], 0)
    OBVIOUS
  <2> HIDE DEF Defines
  <2> QED BY <1>1, <2>1
<1>3. ASSUME NEW m \in 1 .. n, m - 1 \in T PROVE m \in T
  <2>1. PICK f : Defines(f, m - 1)
    BY <1>3
  <2> DEFINE g == [i \in 0 .. m |-> IF i = m THEN Turn(f[m - 1], m) ELSE f[i]]
  <2>2. \A i \in 0 .. m - 1 : f[i] = IF i = 0 THEN <<>> ELSE Turn(f[i - 1], i)
    BY <2>1, Zenon
  <2>3. \A i \in 0 .. m : g[i] = IF i = 0 THEN <<>> ELSE Turn(g[i - 1], i)
    <3> SUFFICES ASSUME NEW i \in 0 .. m PROVE g[i] = IF i = 0 THEN <<>> ELSE Turn(g[i - 1], i)
      OBVIOUS
    <3>1. CASE i = 0
      BY <2>2, <3>1
    <3>2. CASE i \in 1 .. m - 1
      <4>1. i - 1 \in 0 .. m - 1 /\ i \in 0 .. m - 1 /\ i # 0
        BY <3>2
      <4>2. g[i] = f[i] /\ g[i - 1] = f[i - 1]
        BY <4>1
      <4> QED BY <2>2, <4>1, <4>2
    <3>3. CASE i = m
      <4>1. g[m] = Turn(f[m - 1], m) /\ g[m - 1] = f[m - 1] /\ m # 0
        OBVIOUS
      <4> QED BY <3>3, <4>1
    <3> QED BY <3>1, <3>2, <3>3
  <2>4. Defines(g, m)
    BY <2>3, Zenon
  <2> HIDE DEF Defines, g
  <2> QED BY <2>4
<1>4. n \in T
  <2> HIDE DEF T
  <2>1. \A i \in 0 .. n : i \in T
    BY <1>1, <1>2, <1>3, UpTo
  <2> QED BY <1>1, <2>1
<1> DEFINE h == CHOOSE f : Defines(f, n)
<1>5. Defines(h, n)
  <2>1. \E f : Defines(f, n)
    BY <1>4
  <2> HIDE DEF Defines
  <2> QED BY <2>1
<1>6. MergeEvents(events) = h[n]
  BY DEF MergeEvents, n, Turn
<1> HIDE DEF h
<1>7. h[0] = <<>> /\ \A i \in 1 .. n : h[i] = Turn(h[i - 1], i)
  <2>1. \A i \in 0 .. n : h[i] = IF i = 0 THEN <<>> ELSE Turn(h[i - 1], i)
    BY <1>5, Zenon
  <2> HIDE DEF Defines
  <2> QED BY <1>1, <2>1
<1> QED BY <1>6, <1>7 DEF n, Turn

EntryFields == {"port", "at", "id", "status", "fields", "events"}

\* The entry shows the latest of the first i events of the call.
Shows(events, i, c, entry) ==
    /\ DOMAIN entry = EntryFields
    /\ \E k \in 1 .. i : IsPortCall(events[k]) /\ events[k].call = c /\ entry.port = events[k].port
    /\ \E k \in 1 .. i :
          /\ IsPortCall(events[k]) /\ events[k].call = c
          /\ entry.at = events[k].at /\ entry.id = events[k].id
          /\ entry.status = events[k].status
          /\ \A j \in 1 .. i : IsPortCall(events[j]) /\ events[j].call = c =>
                NotBefore(events[k], events[j])

\* The entries are those of the calls of the first i events.
Merged(events, i, entries) ==
    /\ \A j \in 1 .. i : IsPortCall(events[j]) => events[j].call \in DOMAIN entries
    /\ \A c \in DOMAIN entries : Shows(events, i, c, entries[c])

\* The order of events is total.
LEMMA NotBeforeOrder ==
    ASSUME NEW e, NEW f, NEW g, e.at \in Int, e.id \in Int, f.at \in Int, f.id \in Int,
           g.at \in Int, g.id \in Int
    PROVE  /\ NotBefore(e, e)
           /\ NotBefore(e, f) \/ NotBefore(f, e)
           /\ NotBefore(e, f) /\ NotBefore(f, g) => NotBefore(e, g)
           /\ NotBefore(e, f) /\ NotBefore(f, e) => e.id = f.id
BY DEF NotBefore

\* The entry of another call, or at another event, stays what it shows.
LEMMA ShowsStays ==
    ASSUME NEW events, NEW i \in Nat \ {0}, NEW c, NEW entry, Shows(events, i - 1, c, entry),
           ~(IsPortCall(events[i]) /\ events[i].call = c)
    PROVE  Shows(events, i, c, entry)
<1>1. 1 .. i = (1 .. i - 1) \cup {i}
  OBVIOUS
<1> QED BY <1>1 DEF Shows

\* The entry that a turn of the loop leaves.
Turned(entry, e) ==
    [entry EXCEPT !.at = IF NotBefore(e, entry) THEN e.at ELSE @,
                  !.id = IF NotBefore(e, entry) THEN e.id ELSE @,
                  !.status = IF NotBefore(e, entry) THEN e.status ELSE @,
                  !.fields = Reported(e.fields, @),
                  !.events = Append(@, e.id)]

LEMMA TurnedFields ==
    ASSUME NEW entry, DOMAIN entry = EntryFields, NEW e
    PROVE  /\ DOMAIN Turned(entry, e) = EntryFields
           /\ Turned(entry, e).port = entry.port
           /\ Turned(entry, e).at = IF NotBefore(e, entry) THEN e.at ELSE entry.at
           /\ Turned(entry, e).id = IF NotBefore(e, entry) THEN e.id ELSE entry.id
           /\ Turned(entry, e).status = IF NotBefore(e, entry) THEN e.status ELSE entry.status
BY DEF Turned, EntryFields

\* A further event of a call: the latest decides.
LEMMA ShowsFurther ==
    ASSUME NEW events, Sound(events), NEW i \in 1 .. Len(events), NEW entry,
           IsPortCall(events[i]), Shows(events, i - 1, events[i].call, entry)
    PROVE  Shows(events, i, events[i].call, Turned(entry, events[i]))
<1> DEFINE e == events[i]
           c == events[i].call
           new == Turned(entry, e)
<1>1. 1 .. i = (1 .. i - 1) \cup {i} /\ 1 .. i \subseteq 1 .. Len(events) /\ i \in 1 .. i
  BY DEF Sound
<1>2. PICK k \in 1 .. i - 1 :
         /\ IsPortCall(events[k]) /\ events[k].call = c
         /\ entry.at = events[k].at /\ entry.id = events[k].id
         /\ entry.status = events[k].status
         /\ \A j \in 1 .. i - 1 : IsPortCall(events[j]) /\ events[j].call = c =>
               NotBefore(events[k], events[j])
  BY DEF Shows
<1>3. \A j \in 1 .. i : events[j].at \in Int /\ events[j].id \in Int
  BY <1>1 DEF Sound
<1>4. NotBefore(e, entry) <=> NotBefore(e, events[k])
  BY <1>2 DEF NotBefore
<1>5. /\ DOMAIN new = EntryFields /\ new.port = entry.port
      /\ new.at = IF NotBefore(e, entry) THEN e.at ELSE entry.at
      /\ new.id = IF NotBefore(e, entry) THEN e.id ELSE entry.id
      /\ new.status = IF NotBefore(e, entry) THEN e.status ELSE entry.status
  BY TurnedFields DEF Shows
<1> HIDE DEF new
<1>6. \E l \in 1 .. i : IsPortCall(events[l]) /\ events[l].call = c /\ new.port = events[l].port
  BY <1>1, <1>5 DEF Shows
<1>7. ASSUME NotBefore(e, entry) PROVE Shows(events, i, c, new)
  <2>1. \A j \in 1 .. i : IsPortCall(events[j]) /\ events[j].call = c => NotBefore(e, events[j])
    <3> SUFFICES ASSUME NEW j \in 1 .. i, IsPortCall(events[j]), events[j].call = c
                 PROVE  NotBefore(e, events[j])
      OBVIOUS
    <3>1. CASE j = i
      BY <1>1, <1>3, <3>1, NotBeforeOrder
    <3>2. CASE j # i
      <4>1. NotBefore(events[k], events[j])
        BY <1>1, <1>2, <3>2
      <4> QED BY <1>1, <1>3, <1>4, <1>7, <4>1, NotBeforeOrder
    <3> QED BY <3>1, <3>2
  <2> QED BY <1>1, <1>5, <1>6, <1>7, <2>1 DEF Shows
<1>8. ASSUME ~NotBefore(e, entry) PROVE Shows(events, i, c, new)
  <2>1. \A j \in 1 .. i : IsPortCall(events[j]) /\ events[j].call = c =>
           NotBefore(events[k], events[j])
    BY <1>1, <1>2, <1>3, <1>4, <1>8, NotBeforeOrder
  <2> QED BY <1>1, <1>2, <1>5, <1>6, <1>8, <2>1 DEF Shows
<1> QED BY <1>7, <1>8 DEF new

\* The first event of a call.
LEMMA ShowsFirst ==
    ASSUME NEW events, Sound(events), NEW i \in 1 .. Len(events), IsPortCall(events[i]),
           \A j \in 1 .. i - 1 : IsPortCall(events[j]) => events[j].call # events[i].call
    PROVE  Shows(events, i, events[i].call, Turned(NewEntry(events[i]), events[i]))
<1> DEFINE e == events[i]
           entry == NewEntry(events[i])
           new == Turned(entry, e)
<1>1. /\ DOMAIN entry = EntryFields /\ entry.port = e.port /\ entry.at = e.at /\ entry.id = e.id
      /\ entry.status = e.status
  BY DEF NewEntry, EntryFields
<1>2. 1 .. i = (1 .. i - 1) \cup {i} /\ i \in 1 .. i
  BY DEF Sound
<1>3. NotBefore(e, e)
  BY NotBeforeOrder DEF Sound
<1> HIDE DEF entry
<1>4. DOMAIN new = EntryFields /\ new.port = e.port /\ new.at = e.at /\ new.id = e.id
      /\ new.status = e.status
  BY <1>1, TurnedFields
<1> HIDE DEF new
<1>5. \A j \in 1 .. i : IsPortCall(events[j]) /\ events[j].call = e.call => NotBefore(e, events[j])
  BY <1>2, <1>3
<1>6. Shows(events, i, e.call, new)
  BY <1>2, <1>4, <1>5 DEF Shows
<1> QED BY <1>6 DEF new, entry

\* What the loop has merged of all events.
LEMMA AllMerged ==
    ASSUME NEW events, Sound(events)
    PROVE  Merged(events, Len(events), MergeEvents(events))
<1> DEFINE n == Len(events)
<1>1. PICK h : /\ h[0] = <<>>
               /\ \A i \in 1 .. n :
                     h[i] = IF IsPortCall(events[i]) THEN ApplyEvent(h[i - 1], events[i])
                            ELSE h[i - 1]
               /\ MergeEvents(events) = h[n]
  BY MergeSteps DEF Sound
<1>2. n \in Nat
  BY DEF Sound
<1> DEFINE T == {i \in 0 .. n : Merged(events, i, h[i])}
<1>3. 0 \in T
  BY <1>1, <1>2 DEF Merged
<1>4. ASSUME NEW i \in 1 .. n, i - 1 \in T PROVE i \in T
  <2> DEFINE old == h[i - 1]
             e == events[i]
             entry == IF e.call \in DOMAIN old THEN old[e.call] ELSE NewEntry(e)
             new == Turned(entry, e)
  <2>1. 1 .. i = (1 .. i - 1) \cup {i} /\ i \in Nat \ {0}
    OBVIOUS
  <2>2. Merged(events, i - 1, old)
    BY <1>4
  <2>3. CASE ~IsPortCall(e)
    <3>1. h[i] = old
      BY <1>1, <2>3
    <3> HIDE DEF old
    <3>2. \A c \in DOMAIN old : Shows(events, i, c, old[c])
      BY <2>1, <2>2, <2>3, ShowsStays DEF Merged
    <3>3. Merged(events, i, old)
      BY <2>1, <2>2, <2>3, <3>2 DEF Merged
    <3> QED BY <3>1, <3>3
  <2>4. CASE IsPortCall(e)
    <3>1. h[i] = ApplyEvent(old, e)
      BY <1>1, <2>4
    <3>2. ApplyEvent(old, e) = Put(old, e.call, new)
      BY DEF ApplyEvent, Turned
    <3>3. Shows(events, i, e.call, new)
      <4>1. CASE e.call \in DOMAIN old
        <5>1. Shows(events, i - 1, e.call, old[e.call])
          BY <2>2, <4>1 DEF Merged
        <5> QED BY <2>4, <4>1, <5>1, ShowsFurther
      <4>2. CASE e.call \notin DOMAIN old
        <5>1. \A j \in 1 .. i - 1 : IsPortCall(events[j]) => events[j].call # e.call
          BY <2>2, <4>2 DEF Merged
        <5> QED BY <2>4, <4>2, <5>1, ShowsFirst
      <4> QED BY <4>1, <4>2
    <3> HIDE DEF old, new
    <3>4. ASSUME NEW c \in DOMAIN old, c # e.call PROVE Shows(events, i, c, old[c])
      BY <2>1, <2>2, <3>4, ShowsStays DEF Merged
    <3>5. /\ DOMAIN h[i] = DOMAIN old \cup {e.call}
          /\ \A c \in DOMAIN h[i] : h[i][c] = IF c = e.call THEN new ELSE old[c]
      BY <3>1, <3>2 DEF Put
    <3>6. Merged(events, i, h[i])
      BY <2>1, <2>2, <3>3, <3>4, <3>5 DEF Merged
    <3> QED BY <3>6
  <2> QED BY <2>3, <2>4
<1> HIDE DEF T
<1>5. \A i \in 0 .. n : i \in T
  BY <1>2, <1>3, <1>4, UpTo
<1> QED BY <1>1, <1>2, <1>5 DEF T

\* Whatever order the events of a call are read in, the latest of them decides
\* its status.
LEMMA LatestDecides ==
    ASSUME NEW events, Sound(events)
    PROVE  StatusOfLatest(events)
<1> DEFINE n == Len(events)
           entries == MergeEvents(events)
<1>1. Merged(events, n, entries)
  BY AllMerged
<1> HIDE DEF entries
<1>2. ASSUME NEW c \in DOMAIN entries
      PROVE  entries[c].status = LatestOf(OfCall(events, c)).status
  <2>1. PICK k \in 1 .. n :
           /\ IsPortCall(events[k]) /\ events[k].call = c
           /\ entries[c].status = events[k].status
           /\ \A j \in 1 .. n : IsPortCall(events[j]) /\ events[j].call = c =>
                 NotBefore(events[k], events[j])
    BY <1>1 DEF Merged, Shows
  <2> DEFINE E == OfCall(events, c)
  <2>2. E = {events[j] : j \in {l \in 1 .. n : IsPortCall(events[l]) /\ events[l].call = c}}
    <3>1. Range(events) = {events[j] : j \in 1 .. n}
      BY DEF Range, Sound
    <3> QED BY <3>1 DEF OfCall, PortCalls
  <2>3. events[k] \in E /\ \A f \in E : NotBefore(events[k], f)
    BY <2>1, <2>2
  <2> HIDE DEF E
  <2>4. LatestOf(E) \in E /\ \A f \in E : NotBefore(LatestOf(E), f)
    BY <2>3 DEF LatestOf
  <2>5. PICK j \in 1 .. n : LatestOf(E) = events[j]
    BY <2>2, <2>4
  <2>6. NotBefore(events[k], events[j]) /\ NotBefore(events[j], events[k])
    BY <2>3, <2>4, <2>5
  <2>7. events[k].id = events[j].id
    BY <2>6, NotBeforeOrder DEF Sound
  <2>8. events[k] = events[j]
    BY <2>7 DEF Sound
  <2> QED BY <2>1, <2>5, <2>8 DEF E
<1> QED BY <1>2 DEF StatusOfLatest, entries

-----------------------------------------------------------------------------
(* Quantiles. *)

\* The observations below a value, and those up to it.
Below(S, v) == {o \in S : o.v < v}
UpToValue(S, v) == {o \in S : o.v <= v}

\* Observations whose values can be counted.
Countable(S) == IsFiniteSet(S) /\ \A o \in S : o.v \in Int

LEMMA Counts ==
    ASSUME NEW S, Countable(S), NEW T, T \subseteq S
    PROVE  /\ IsFiniteSet(T) /\ Cardinality(T) \in Nat
           /\ Cardinality(T) <= Cardinality(S)
           /\ Cardinality(S \ T) = Cardinality(S) - Cardinality(T)
<1>1. IsFiniteSet(T) /\ Cardinality(T) <= Cardinality(S)
  BY FS_Subset DEF Countable
<1>2. Cardinality(S \ T) = Cardinality(S) - Cardinality(S \cap T)
  BY FS_Difference DEF Countable
<1>3. S \cap T = T
  OBVIOUS
<1> QED BY <1>1, <1>2, <1>3, FS_CardinalityType

\* Some of the observations have the highest value.
LEMMA HighestValue ==
    ASSUME NEW S, Countable(S), S # {}
    PROVE  \E o \in S : \A p \in S : p.v <= o.v
<1> DEFINE f == [o \in S |-> o.v]
<1>1. \A o \in S : f[o] = o.v /\ f[o] \in Int
  BY DEF Countable
<1> HIDE DEF f
<1>2. PICK o \in S : \A p \in S : f[p] <= f[o]
  BY <1>1, Topmost DEF Countable
<1> QED BY <1>1, <1>2

\* Some have the lowest.
LEMMA LowestValue ==
    ASSUME NEW S, Countable(S), S # {}
    PROVE  \E o \in S : \A p \in S : o.v <= p.v
<1> DEFINE f == [o \in S |-> - o.v]
<1>1. \A o \in S : f[o] = - o.v /\ f[o] \in Int /\ o.v \in Int
  BY DEF Countable
<1> HIDE DEF f
<1>2. PICK o \in S : \A p \in S : f[p] <= f[o]
  BY <1>1, Topmost DEF Countable
<1>3. ASSUME NEW p \in S PROVE o.v <= p.v
  <2>1. - p.v <= - o.v /\ p.v \in Int /\ o.v \in Int
    BY <1>1, <1>2
  <2> QED BY <2>1
<1> QED BY <1>3

\* Each place of the sorted observations has a value.
LEMMA SortedAt ==
    ASSUME NEW S, Countable(S), NEW k \in 1 .. Cardinality(S)
    PROVE  /\ \E o \in S : o.v = Sorted(S, k)
           /\ Sorted(S, k) \in Int
           /\ Cardinality(Below(S, Sorted(S, k))) < k
           /\ k <= Cardinality(UpToValue(S, Sorted(S, k)))
<1>1. \A T : T \subseteq S => Countable(T) /\ Cardinality(T) \in Nat
  BY Counts DEF Countable
<1>2. Cardinality(S) \in Nat /\ S # {}
  BY <1>1, FS_EmptySet
<1> DEFINE E == {o \in S : k <= Cardinality(UpToValue(S, o.v))}
<1>3. E # {}
  <2>1. PICK o \in S : \A p \in S : p.v <= o.v
    BY <1>2, HighestValue
  <2>2. UpToValue(S, o.v) = S
    BY <2>1 DEF UpToValue
  <2> QED BY <2>2
<1>4. PICK o \in E : \A p \in E : o.v <= p.v
  <2>1. Countable(E)
    BY <1>1
  <2> HIDE DEF E
  <2> QED BY <1>3, <2>1, LowestValue
<1>5. Cardinality(Below(S, o.v)) < k
  <2> DEFINE L == Below(S, o.v)
  <2>1. L \subseteq S /\ Countable(L) /\ Cardinality(L) \in Nat
    BY <1>1 DEF Below
  <2> SUFFICES ASSUME k <= Cardinality(L) PROVE FALSE
    BY <2>1
  <2>2. L # {}
    BY FS_EmptySet
  <2>3. PICK t \in L : \A p \in L : p.v <= t.v
    BY <2>1, <2>2, HighestValue
  <2>4. L \subseteq UpToValue(S, t.v) /\ UpToValue(S, t.v) \subseteq S
    BY <2>1, <2>3 DEF UpToValue
  <2>5. Cardinality(L) <= Cardinality(UpToValue(S, t.v)) /\ Cardinality(UpToValue(S, t.v)) \in Nat
    BY <1>1, <2>4, Counts
  <2>6. t \in E
    <3> HIDE DEF L
    <3> QED BY <2>1, <2>3, <2>5
  <2>7. t.v < o.v /\ t.v \in Int /\ o.v \in Int
    BY DEF Below, Countable
  <2>8. o.v <= t.v
    BY <1>4, <2>6
  <2> QED BY <2>7, <2>8
<1>6. \E v \in {p.v : p \in S} : /\ Cardinality({p \in S : p.v < v}) < k
                                 /\ k <= Cardinality({p \in S : p.v <= v})
  BY <1>4, <1>5 DEF Below, UpToValue
<1>7. /\ Sorted(S, k) \in {p.v : p \in S}
      /\ Cardinality({p \in S : p.v < Sorted(S, k)}) < k
      /\ k <= Cardinality({p \in S : p.v <= Sorted(S, k)})
  BY <1>6, Zenon DEF Sorted
<1> QED BY <1>7 DEF Below, UpToValue, Countable

\* A later place has no lower value.
LEMMA SortedOrder ==
    ASSUME NEW S, Countable(S), NEW k \in 1 .. Cardinality(S), NEW l \in 1 .. Cardinality(S), k <= l
    PROVE  Sorted(S, k) <= Sorted(S, l)
<1> DEFINE v == Sorted(S, k)
           w == Sorted(S, l)
<1>1. /\ v \in Int /\ w \in Int
      /\ Cardinality(Below(S, v)) < k /\ l <= Cardinality(UpToValue(S, w))
  BY SortedAt
<1> HIDE DEF v, w
<1> SUFFICES ASSUME w < v PROVE FALSE
  BY <1>1 DEF v, w
<1>2. UpToValue(S, w) \subseteq Below(S, v) /\ Below(S, v) \subseteq S
  BY <1>1 DEF UpToValue, Below, Countable
<1>3. Countable(Below(S, v)) /\ Cardinality(Below(S, v)) \in Nat
  BY <1>2, Counts DEF Countable
<1>4. Cardinality(UpToValue(S, w)) <= Cardinality(Below(S, v)) /\ Cardinality(UpToValue(S, w)) \in Nat
  BY <1>2, <1>3, Counts
<1> QED BY <1>1, <1>3, <1>4

\* A percentile is between two values that follow each other.
LEMMA Interpolated ==
    ASSUME NEW r \in 0 .. 9, NEW d \in Nat
    PROVE  /\ r * d \in Nat /\ r * d <= 10 * d
           /\ \A s \in 0 .. r : s * d <= r * d
<1>1. r \in {0, 1, 2, 3, 4, 5, 6, 7, 8, 9}
  OBVIOUS
<1>2. ASSUME NEW s \in 0 .. r PROVE s * d <= r * d
  <2>1. s \in {0, 1, 2, 3, 4, 5, 6, 7, 8, 9} /\ s <= r
    OBVIOUS
  <2> QED BY <1>1, <2>1
<1> QED BY <1>1, <1>2

LEMMA PercentileBetween ==
    ASSUME NEW S, Countable(S), S # {}, NEW q \in {5, 9}
    PROVE  \E lower \in 0 .. Cardinality(S) - 1, upper \in 0 .. Cardinality(S) - 1,
              r \in 0 .. 9, d \in Nat :
                /\ lower = (q * (Cardinality(S) - 1)) \div 10
                /\ r = (q * (Cardinality(S) - 1)) % 10
                /\ upper = (IF lower + 1 < Cardinality(S) THEN lower + 1 ELSE Cardinality(S) - 1)
                /\ d = Sorted(S, upper + 1) - Sorted(S, lower + 1)
                /\ Percentile(S, q) = 10 * Sorted(S, lower + 1) + r * d
<1> DEFINE n == Cardinality(S)
           lower == (q * (n - 1)) \div 10
           upper == IF lower + 1 < n THEN lower + 1 ELSE n - 1
           r == (q * (n - 1)) % 10
           d == Sorted(S, upper + 1) - Sorted(S, lower + 1)
<1>1. n \in Nat \ {0}
  BY FS_CardinalityType, FS_EmptySet DEF Countable
<1>2. Percentile(S, q) = 10 * Sorted(S, lower + 1) + r * d
  BY DEF Percentile
<1>3. lower \in 0 .. n - 1 /\ r \in 0 .. 9
  <2> HIDE DEF n
  <2>1. CASE q = 5
    BY <1>1, <2>1
  <2>2. CASE q = 9
    BY <1>1, <2>2
  <2> QED BY <2>1, <2>2
<1>4. /\ upper \in 0 .. n - 1 /\ lower <= upper
      /\ upper + 1 \in 1 .. n /\ lower + 1 \in 1 .. n /\ lower + 1 <= upper + 1
  <2> HIDE DEF n, lower
  <2> QED BY <1>1, <1>3
<1> HIDE DEF lower, upper
<1>5. /\ Sorted(S, upper + 1) \in Int /\ Sorted(S, lower + 1) \in Int
      /\ Sorted(S, lower + 1) <= Sorted(S, upper + 1)
  BY <1>4, SortedAt, SortedOrder
<1>6. d \in Nat
  BY <1>5
<1> HIDE DEF r, d
<1> QED BY <1>2, <1>3, <1>4, <1>6 DEF lower, upper, r, d

\* The median splits the observations, and the P90 is not below it
\* (percentile_linear).
LEMMA QuantilesSplit ==
    ASSUME NEW S, Countable(S)
    PROVE  QuantilesOrdered(S)
<1> SUFFICES ASSUME S # {}
             PROVE  /\ 2 * Cardinality({o \in S : 10 * o.v <= Percentile(S, 5)}) >= Cardinality(S)
                    /\ 2 * Cardinality({o \in S : 10 * o.v >= Percentile(S, 5)}) >= Cardinality(S)
                    /\ Percentile(S, 5) <= Percentile(S, 9)
                    /\ \E o \in S : Percentile(S, 9) <= 10 * o.v
  BY DEF QuantilesOrdered
<1> DEFINE n == Cardinality(S)
           at(k) == Sorted(S, k + 1)
           median == Percentile(S, 5)
           p90 == Percentile(S, 9)
<1>1. n \in Nat \ {0}
  BY FS_CardinalityType, FS_EmptySet DEF Countable
<1>2. PICK lower \in 0 .. n - 1, upper \in 0 .. n - 1, r \in 0 .. 9, d \in Nat :
         /\ lower = (5 * (n - 1)) \div 10
         /\ r = (5 * (n - 1)) % 10
         /\ upper = (IF lower + 1 < n THEN lower + 1 ELSE n - 1)
         /\ d = at(upper) - at(lower)
         /\ median = 10 * at(lower) + r * d
  BY PercentileBetween
<1>3. PICK lower9 \in 0 .. n - 1, upper9 \in 0 .. n - 1, r9 \in 0 .. 9, d9 \in Nat :
         /\ lower9 = (9 * (n - 1)) \div 10
         /\ r9 = (9 * (n - 1)) % 10
         /\ upper9 = (IF lower9 + 1 < n THEN lower9 + 1 ELSE n - 1)
         /\ d9 = at(upper9) - at(lower9)
         /\ p90 = 10 * at(lower9) + r9 * d9
  BY PercentileBetween
<1>4. ASSUME NEW k \in 0 .. n - 1
      PROVE  /\ \E o \in S : o.v = at(k)
             /\ at(k) \in Int
             /\ Cardinality(Below(S, at(k))) <= k /\ Cardinality(Below(S, at(k))) \in Nat
             /\ k + 1 <= Cardinality(UpToValue(S, at(k)))
             /\ Cardinality(UpToValue(S, at(k))) \in Nat
  <2>1. k + 1 \in 1 .. n
    BY <1>1
  <2>2. /\ \E o \in S : o.v = at(k)
        /\ at(k) \in Int
        /\ Cardinality(Below(S, at(k))) < k + 1
        /\ k + 1 <= Cardinality(UpToValue(S, at(k)))
    BY <2>1, SortedAt
  <2>3. Below(S, at(k)) \subseteq S /\ UpToValue(S, at(k)) \subseteq S
    BY DEF Below, UpToValue
  <2>4. Cardinality(Below(S, at(k))) \in Nat /\ Cardinality(UpToValue(S, at(k))) \in Nat
    BY <2>3, Counts
  <2> HIDE DEF at
  <2> QED BY <2>2, <2>4
<1>5. ASSUME NEW k \in 0 .. n - 1, NEW l \in 0 .. n - 1, k <= l PROVE at(k) <= at(l)
  <2>1. k + 1 \in 1 .. n /\ l + 1 \in 1 .. n /\ k + 1 <= l + 1
    BY <1>1, <1>5
  <2> QED BY <2>1, SortedOrder
<1> HIDE DEF at, n, median, p90
<1>6. /\ r * d \in Nat /\ r * d <= 10 * d /\ r9 * d9 \in Nat /\ r9 * d9 <= 10 * d9
      /\ \A s \in 0 .. r9 : s * d9 <= r9 * d9
  BY Interpolated
<1>7. /\ at(lower) \in Int /\ at(upper) \in Int /\ at(lower9) \in Int /\ at(upper9) \in Int
  BY <1>4
<1>8. /\ 10 * at(lower) <= median /\ median <= 10 * at(upper) /\ median \in Int
      /\ 10 * at(lower9) <= p90 /\ p90 <= 10 * at(upper9) /\ p90 \in Int
  <2> DEFINE x == r * d
             y == r9 * d9
  <2>1. /\ x \in Nat /\ x <= 10 * d /\ y \in Nat /\ y <= 10 * d9
        /\ median = 10 * at(lower) + x /\ d = at(upper) - at(lower)
        /\ p90 = 10 * at(lower9) + y /\ d9 = at(upper9) - at(lower9)
    BY <1>2, <1>3, <1>6
  <2> HIDE DEF x, y
  <2> QED BY <1>7, <2>1
<1>9. 2 * Cardinality({o \in S : 10 * o.v <= median}) >= n
  <2> DEFINE M == {o \in S : 10 * o.v <= median}
  <2>1. UpToValue(S, at(lower)) \subseteq M
    BY <1>7, <1>8 DEF UpToValue, Countable
  <2>2. Countable(M) /\ Cardinality(M) \in Nat
    BY Counts DEF Countable
  <2> HIDE DEF M
  <2>3. Cardinality(UpToValue(S, at(lower))) <= Cardinality(M)
    BY <2>1, <2>2, Counts
  <2>4. lower + 1 <= Cardinality(UpToValue(S, at(lower))) /\ Cardinality(UpToValue(S, at(lower))) \in Nat
    BY <1>4
  <2>5. lower + 1 <= Cardinality(M)
    BY <2>2, <2>3, <2>4
  <2>6. 2 * (lower + 1) >= n
    BY <1>1, <1>2
  <2>7. 2 * Cardinality(M) >= n
    BY <1>1, <2>2, <2>5, <2>6
  <2> QED BY <2>7 DEF M
<1>10. 2 * Cardinality({o \in S : 10 * o.v >= median}) >= n
  <2> DEFINE M == {o \in S : 10 * o.v >= median}
  <2>1. ASSUME NEW k \in 0 .. n - 1, median <= 10 * at(k), 2 * (n - k) >= n
        PROVE  2 * Cardinality(M) >= n
    <3>1. Below(S, at(k)) \subseteq S /\ M \subseteq S
      BY DEF Below
    <3>2. S \ Below(S, at(k)) \subseteq M
      <4> SUFFICES ASSUME NEW o \in S, ~(o.v < at(k)) PROVE 10 * o.v >= median
        BY DEF Below
      <4>1. o.v \in Int /\ at(k) \in Int /\ median \in Int
        BY <1>4, <1>8 DEF Countable
      <4> QED BY <2>1, <4>1
    <3>3. Countable(M) /\ Cardinality(M) \in Nat
      BY Counts DEF Countable
    <3> HIDE DEF M
    <3>4. Cardinality(S \ Below(S, at(k))) = n - Cardinality(Below(S, at(k)))
      BY <3>1, Counts DEF n
    <3>5. Cardinality(S \ Below(S, at(k))) <= Cardinality(M)
      BY <3>2, <3>3, Counts
    <3>6. Cardinality(Below(S, at(k))) <= k /\ Cardinality(Below(S, at(k))) \in Nat
      BY <1>4
    <3> QED BY <1>1, <2>1, <3>3, <3>4, <3>5, <3>6
  <2> HIDE DEF M
  <2>2. CASE r = 0
    <3>1. median = 10 * at(lower)
      BY <1>2, <1>7, <2>2
    <3>2. 2 * (n - lower) >= n
      BY <1>1, <1>2
    <3> QED BY <1>8, <2>1, <3>1, <3>2 DEF M
  <2>3. CASE r # 0
    <3>1. 2 * (n - upper) >= n
      BY <1>1, <1>2, <2>3
    <3> QED BY <1>8, <2>1, <3>1 DEF M
  <2> QED BY <2>2, <2>3
<1>11. median <= p90
  <2>1. lower <= lower9 /\ (lower = lower9 => r <= r9)
    BY <1>1, <1>2, <1>3
  <2>2. CASE lower = lower9
    <3>1. upper = upper9 /\ d = d9
      BY <1>2, <1>3, <2>2
    <3>2. r * d <= r9 * d9
      BY <1>6, <2>1, <2>2, <3>1
    <3> QED BY <1>2, <1>3, <1>6, <1>7, <2>2, <3>2
  <2>3. CASE lower < lower9
    <3>1. upper <= lower9
      BY <1>1, <1>2, <2>3
    <3>2. at(upper) <= at(lower9)
      BY <1>5, <3>1
    <3> QED BY <1>7, <1>8, <3>2
  <2> QED BY <2>1, <2>2, <2>3
<1>12. \E o \in S : p90 <= 10 * o.v
  <2>1. PICK o \in S : o.v = at(upper9)
    BY <1>4
  <2> QED BY <1>8, <2>1
<1> QED BY <1>9, <1>10, <1>11, <1>12 DEF n, median, p90

-----------------------------------------------------------------------------
(* Gate turnaround. *)

\* The pairing loop.
LEMMA PairedSteps ==
    ASSUME NEW scans, Len(scans) \in Nat
    PROVE  \E h : /\ h[0] = [open |-> {}, found |-> {}]
                  /\ \A i \in 1 .. Len(scans) : h[i] = PairScan(h[i - 1], scans[i])
                  /\ Paired(scans) = h[Len(scans)]
<1> DEFINE n == Len(scans)
           Turn(v, i) == PairScan(v, scans[i])
           Defines(f, m) == f = [i \in 0 .. m |-> IF i = 0 THEN [open |-> {}, found |-> {}] ELSE Turn(f[i - 1], i)]
           T == {m \in 0 .. n : \E f : Defines(f, m)}
<1> HIDE DEF n, Turn
<1>1. n \in Nat
  BY DEF n
<1>2. 0 \in T
  <2>1. Defines([i \in 0 .. 0 |-> [open |-> {}, found |-> {}]], 0)
    OBVIOUS
  <2> HIDE DEF Defines
  <2> QED BY <1>1, <2>1
<1>3. ASSUME NEW m \in 1 .. n, m - 1 \in T PROVE m \in T
  <2>1. PICK f : Defines(f, m - 1)
    BY <1>3
  <2> DEFINE g == [i \in 0 .. m |-> IF i = m THEN Turn(f[m - 1], m) ELSE f[i]]
  <2>2. \A i \in 0 .. m - 1 : f[i] = IF i = 0 THEN [open |-> {}, found |-> {}] ELSE Turn(f[i - 1], i)
    BY <2>1, Zenon
  <2>3. \A i \in 0 .. m : g[i] = IF i = 0 THEN [open |-> {}, found |-> {}] ELSE Turn(g[i - 1], i)
    <3> SUFFICES ASSUME NEW i \in 0 .. m PROVE g[i] = IF i = 0 THEN [open |-> {}, found |-> {}] ELSE Turn(g[i - 1], i)
      OBVIOUS
    <3>1. CASE i = 0
      BY <2>2, <3>1
    <3>2. CASE i \in 1 .. m - 1
      <4>1. i - 1 \in 0 .. m - 1 /\ i \in 0 .. m - 1 /\ i # 0
        BY <3>2
      <4>2. g[i] = f[i] /\ g[i - 1] = f[i - 1]
        BY <4>1
      <4> QED BY <2>2, <4>1, <4>2
    <3>3. CASE i = m
      <4>1. g[m] = Turn(f[m - 1], m) /\ g[m - 1] = f[m - 1] /\ m # 0
        OBVIOUS
      <4> QED BY <3>3, <4>1
    <3> QED BY <3>1, <3>2, <3>3
  <2>4. Defines(g, m)
    BY <2>3, Zenon
  <2> HIDE DEF Defines, g
  <2> QED BY <2>4
<1>4. n \in T
  <2> HIDE DEF T
  <2>1. \A i \in 0 .. n : i \in T
    BY <1>1, <1>2, <1>3, UpTo
  <2> QED BY <1>1, <2>1
<1> DEFINE h == CHOOSE f : Defines(f, n)
<1>5. Defines(h, n)
  <2>1. \E f : Defines(f, n)
    BY <1>4
  <2> HIDE DEF Defines
  <2> QED BY <2>1
<1>6. Paired(scans) = h[n]
  BY DEF Paired, n, Turn
<1> HIDE DEF h
<1>7. h[0] = [open |-> {}, found |-> {}] /\ \A i \in 1 .. n : h[i] = Turn(h[i - 1], i)
  <2>1. \A i \in 0 .. n : h[i] = IF i = 0 THEN [open |-> {}, found |-> {}] ELSE Turn(h[i - 1], i)
    BY <1>5, Zenon
  <2> HIDE DEF Defines
  <2> QED BY <1>1, <2>1
<1> QED BY <1>6, <1>7 DEF n, Turn

\* The duration that ends with scan o and began with scan i.
Duration(i, o) == [port |-> o.port, id |-> o.row, v |-> o.at - i.at]

\* Places of gate-outs that follow a gate-in.
Closings(scans, i) == {j \in 2 .. i : scans[j].dir # "in" /\ scans[j - 1].dir = "in"}

\* What the loop has after i scans.
Pairing(scans, i) ==
    [open |-> IF i # 0 /\ scans[i].dir = "in" THEN {scans[i]} ELSE {},
     found |-> {Duration(scans[j - 1], scans[j]) : j \in Closings(scans, i)}]

\* One turn of the loop.
LEMMA PairTurn ==
    ASSUME NEW scans, NEW i \in Nat \ {0}
    PROVE  PairScan(Pairing(scans, i - 1), scans[i]) = Pairing(scans, i)
<1> DEFINE s == scans[i]
           old == Pairing(scans, i - 1)
           durations(J) == {Duration(scans[j - 1], scans[j]) : j \in J}
<1>1. /\ old.open = IF i - 1 # 0 /\ scans[i - 1].dir = "in" THEN {scans[i - 1]} ELSE {}
      /\ old.found = durations(Closings(scans, i - 1))
      /\ old = [open |-> old.open, found |-> old.found]
  BY DEF Pairing
<1>2. 2 .. i = (2 .. i - 1) \cup (IF i - 1 # 0 THEN {i} ELSE {})
  OBVIOUS
<1> HIDE DEF old
<1>3. CASE s.dir = "in"
  <2>1. Closings(scans, i) = Closings(scans, i - 1)
    BY <1>2, <1>3 DEF Closings
  <2>2. PairScan(old, s) = [open |-> {s}, found |-> old.found]
    BY <1>1, <1>3 DEF PairScan
  <2> QED BY <1>1, <1>3, <2>1, <2>2 DEF Pairing, old
<1>4. CASE s.dir # "in" /\ i - 1 # 0 /\ scans[i - 1].dir = "in"
  <2>1. Closings(scans, i) = Closings(scans, i - 1) \cup {i}
    BY <1>2, <1>4 DEF Closings
  <2>2. durations(Closings(scans, i)) =
           durations(Closings(scans, i - 1)) \cup {Duration(scans[i - 1], scans[i])}
    BY <2>1
  <2>3. old.open = {scans[i - 1]}
    BY <1>1, <1>4
  <2>4. {[port |-> s.port, id |-> s.row, v |-> s.at - o.at] : o \in old.open} =
           {Duration(scans[i - 1], s)}
    BY <2>3 DEF Duration
  <2>5. PairScan(old, s) = [open |-> {}, found |-> old.found \cup {Duration(scans[i - 1], s)}]
    BY <1>4, <2>4 DEF PairScan
  <2> QED BY <1>1, <1>4, <2>2, <2>5 DEF Pairing, old
<1>5. CASE s.dir # "in" /\ ~(i - 1 # 0 /\ scans[i - 1].dir = "in")
  <2>1. Closings(scans, i) = Closings(scans, i - 1)
    BY <1>2, <1>5 DEF Closings
  <2>2. old.open = {}
    BY <1>1, <1>5
  <2>3. PairScan(old, s) = [open |-> {}, found |-> old.found]
    BY <1>5, <2>2 DEF PairScan
  <2> QED BY <1>1, <1>5, <2>1, <2>3 DEF Pairing, old
<1> QED BY <1>3, <1>4, <1>5

\* What the loop has found.
LEMMA PairedFinds ==
    ASSUME NEW scans, Len(scans) \in Nat
    PROVE  Paired(scans).found =
              {Duration(scans[j - 1], scans[j]) : j \in Closings(scans, Len(scans))}
<1> DEFINE n == Len(scans)
<1>1. PICK h : /\ h[0] = [open |-> {}, found |-> {}]
               /\ \A i \in 1 .. n : h[i] = PairScan(h[i - 1], scans[i])
               /\ Paired(scans) = h[n]
  BY PairedSteps
<1> DEFINE T == {i \in 0 .. n : h[i] = Pairing(scans, i)}
<1> HIDE DEF n
<1>2. n \in Nat
  BY DEF n
<1>3. 0 \in T
  <2>1. Closings(scans, 0) = {}
    BY DEF Closings
  <2>2. Pairing(scans, 0) = [open |-> {}, found |-> {}]
    BY <2>1 DEF Pairing
  <2>3. h[0] = Pairing(scans, 0)
    BY <1>1, <2>2
  <2>4. 0 \in 0 .. n
    BY <1>2
  <2> QED BY <2>3, <2>4, Zenon
<1>4. ASSUME NEW i \in 1 .. n, i - 1 \in T PROVE i \in T
  <2>1. h[i] = PairScan(Pairing(scans, i - 1), scans[i]) /\ i \in Nat \ {0}
    BY <1>1, <1>4
  <2> QED BY <2>1, PairTurn
<1> HIDE DEF T
<1>5. \A i \in 0 .. n : i \in T
  BY <1>2, <1>3, <1>4, UpTo
<1>6. Paired(scans) = Pairing(scans, n)
  BY <1>1, <1>2, <1>5 DEF T
<1> QED BY <1>6 DEF Pairing, n

\* Scans with an instant, an id, a place in the table and a direction.
ScanSet(S) ==
    /\ IsFiniteSet(S)
    /\ \A s \in S : s.at \in Int /\ s.id \in Int /\ s.row \in Int /\ s.dir \in {"in", "out"}
    /\ \A s, t \in S : s.row = t.row => s = t

\* Scans are sorted totally.
LEMMA OrderedScans ==
    ASSUME NEW S, ScanSet(S)
    PROVE  LET o == Ordered(S) IN
           /\ Len(o) = Cardinality(S) /\ Len(o) \in Nat
           /\ \A i \in 1 .. Len(o) : o[i] \in S
           /\ \A s \in S : \E i \in 1 .. Len(o) : o[i] = s
           /\ \A i, j \in 1 .. Len(o) : i < j <=> Before(o[i], o[j])
<1> DEFINE n == Cardinality(S)
           o == Ordered(S)
           R == {p \in S \X S : Before(p[1], p[2])}
<1>1. n \in Nat
  BY FS_CardinalityType DEF ScanSet
<1>2. \A s, t \in S : <<s, t>> \in R <=> Before(s, t)
  OBVIOUS
<1>3. TotalOrder(R, S)
  <2>1. \A s \in S : ~Before(s, s)
    BY DEF Before, ScanSet
  <2>2. \A s, t, u \in S : Before(s, t) /\ Before(t, u) => Before(s, u)
    <3> SUFFICES ASSUME NEW s \in S, NEW t \in S, NEW u \in S, Before(s, t), Before(t, u)
                 PROVE  Before(s, u)
      OBVIOUS
    <3>1. /\ s.at \in Int /\ s.id \in Int /\ s.row \in Int
          /\ t.at \in Int /\ t.id \in Int /\ t.row \in Int
          /\ u.at \in Int /\ u.id \in Int /\ u.row \in Int
      BY DEF ScanSet
    <3> QED BY <3>1 DEF Before
  <2>3. \A s, t \in S : s # t => Before(s, t) \/ Before(t, s)
    BY DEF Before, ScanSet
  <2> HIDE DEF R
  <2> QED BY <1>2, <2>1, <2>2, <2>3 DEF TotalOrder
<1>4. /\ \A i \in 1 .. n : RankedAt(R, S, i) \in S /\ Rank(R, S, RankedAt(R, S, i)) = i
      /\ \A k \in S : RankedAt(R, S, Rank(R, S, k)) = k
      /\ \A i, j \in 1 .. n : i < j <=> <<RankedAt(R, S, i), RankedAt(R, S, j)>> \in R
  <2> HIDE DEF R
  <2> QED BY <1>3, Sorts DEF ScanSet
<1>5. \A k \in S : Rank(R, S, k) \in 1 .. n
  <2> HIDE DEF R
  <2> QED BY <1>3, Ranks DEF ScanSet
<1>6. ASSUME NEW i \in 1 .. n
      PROVE  (CHOOSE s \in S : Cardinality({t \in S : Before(t, s)}) = i - 1) = RankedAt(R, S, i)
  <2>1. ASSUME NEW s \in S
        PROVE  Cardinality({t \in S : Before(t, s)}) = i - 1 <=> Rank(R, S, s) = i
    <3> DEFINE B == {t \in S : Before(t, s)}
    <3>1. Rank(R, S, s) = 1 + Cardinality(B)
      <4>1. B = {t \in S : <<t, s>> \in R}
        BY <1>2
      <4> HIDE DEF B, R
      <4> QED BY <4>1 DEF Rank
    <3>2. IsFiniteSet(B)
      BY FS_Subset DEF ScanSet
    <3>3. Cardinality(B) \in Nat
      BY <3>2, FS_CardinalityType
    <3> HIDE DEF B
    <3>4. Cardinality(B) = i - 1 <=> Rank(R, S, s) = i
      BY <1>1, <3>1, <3>3
    <3> QED BY <3>4 DEF B
  <2> HIDE DEF R
  <2> QED BY <2>1, Zenon DEF RankedAt
<1>7. o = [i \in 1 .. n |-> RankedAt(R, S, i)]
  <2> HIDE DEF R
  <2> QED BY <1>6, Zenon DEF Ordered
<1> HIDE DEF R, o, n
<1>8. o \in Seq(S) /\ Len(o) = n /\ \A i \in 1 .. n : o[i] = RankedAt(R, S, i)
  <2>1. o \in [1 .. n -> S]
    BY <1>4, <1>7
  <2> QED BY <1>1, <1>7, <2>1
<1>9. ASSUME NEW s \in S PROVE \E i \in 1 .. n : o[i] = s
  BY <1>4, <1>5, <1>8
<1>10. ASSUME NEW i \in 1 .. n, NEW j \in 1 .. n PROVE i < j <=> Before(o[i], o[j])
  <2>1. o[i] \in S /\ o[j] \in S
    BY <1>4, <1>8
  <2> QED BY <1>2, <1>4, <1>8, <2>1
<1> QED BY <1>1, <1>4, <1>8, <1>9, <1>10 DEF o, n

\* The scan before a gate-out of the same visit is a gate-in.
Closes(S, i, o) ==
    /\ i.dir = "in" /\ o.dir = "out" /\ Before(i, o)
    /\ ~\E s \in S : Before(i, s) /\ Before(s, o)

\* The loop pairs the gate-outs of a visit that follow a gate-in.
LEMMA VisitPairs ==
    ASSUME NEW S, ScanSet(S)
    PROVE  Paired(Ordered(S)).found =
              {Duration(q[1], q[2]) : q \in {p \in S \X S : Closes(S, p[1], p[2])}}
<1> DEFINE o == Ordered(S)
           n == Len(o)
           P == {p \in S \X S : Closes(S, p[1], p[2])}
<1>1. /\ n \in Nat
      /\ \A i \in 1 .. n : o[i] \in S
      /\ \A s \in S : \E i \in 1 .. n : o[i] = s
      /\ \A i, j \in 1 .. n : i < j <=> Before(o[i], o[j])
  BY OrderedScans
<1>2. Paired(o).found = {Duration(o[j - 1], o[j]) : j \in Closings(o, n)}
  BY <1>1, PairedFinds
<1> HIDE DEF o, n
<1>3. ASSUME NEW j \in Closings(o, n) PROVE <<o[j - 1], o[j]>> \in P
  <2>1. j \in 1 .. n /\ j - 1 \in 1 .. n /\ j - 1 < j /\ o[j].dir # "in" /\ o[j - 1].dir = "in"
    BY <1>1 DEF Closings
  <2>2. o[j - 1] \in S /\ o[j] \in S /\ o[j].dir = "out" /\ Before(o[j - 1], o[j])
    BY <1>1, <2>1 DEF ScanSet
  <2>3. ASSUME NEW s \in S, Before(o[j - 1], s), Before(s, o[j]) PROVE FALSE
    <3>1. PICK k \in 1 .. n : o[k] = s
      BY <1>1
    <3>2. j - 1 < k /\ k < j
      BY <1>1, <2>1, <2>3, <3>1
    <3> QED BY <2>1, <3>2
  <2> QED BY <2>1, <2>2, <2>3 DEF Closes
<1>4. ASSUME NEW p \in P PROVE \E j \in Closings(o, n) : p[1] = o[j - 1] /\ p[2] = o[j]
  <2>1. /\ p[1] \in S /\ p[2] \in S /\ p[1].dir = "in" /\ p[2].dir = "out" /\ Before(p[1], p[2])
        /\ \A s \in S : ~(Before(p[1], s) /\ Before(s, p[2]))
    BY DEF Closes
  <2>2. PICK i \in 1 .. n : o[i] = p[1]
    BY <1>1, <2>1
  <2>3. PICK j \in 1 .. n : o[j] = p[2]
    BY <1>1, <2>1
  <2>4. i < j
    BY <1>1, <2>1, <2>2, <2>3
  <2>5. CASE i = j - 1
    BY <1>1, <2>1, <2>2, <2>3, <2>4, <2>5 DEF Closings
  <2>6. CASE i # j - 1
    <3>1. j - 1 \in 1 .. n /\ i < j - 1 /\ j - 1 < j
      BY <1>1, <2>4, <2>6
    <3>2. o[j - 1] \in S /\ Before(o[i], o[j - 1]) /\ Before(o[j - 1], o[j])
      BY <1>1, <3>1
    <3> QED BY <2>1, <2>2, <2>3, <3>2
  <2> QED BY <2>5, <2>6
<1> DEFINE Found == {Duration(o[j - 1], o[j]) : j \in Closings(o, n)}
           Wanted == {Duration(q[1], q[2]) : q \in P}
<1>5. Found \subseteq Wanted
  <2> HIDE DEF P
  <2> SUFFICES ASSUME NEW j \in Closings(o, n) PROVE Duration(o[j - 1], o[j]) \in Wanted
    OBVIOUS
  <2>1. PICK q \in P : q[1] = o[j - 1] /\ q[2] = o[j]
    BY <1>3
  <2>2. Duration(q[1], q[2]) \in Wanted
    OBVIOUS
  <2> QED BY <2>1, <2>2
<1>6. Wanted \subseteq Found
  <2> HIDE DEF P
  <2> SUFFICES ASSUME NEW q \in P PROVE Duration(q[1], q[2]) \in Found
    OBVIOUS
  <2>1. PICK j \in Closings(o, n) : q[1] = o[j - 1] /\ q[2] = o[j]
    BY <1>4
  <2> QED BY <2>1
<1> QED BY <1>2, <1>5, <1>6 DEF o

\* A set with a name for each element in a finite set is finite.
LEMMA FiniteNamed ==
    ASSUME NEW S, IsFiniteSet(S), NEW f, NEW T, \A t \in T : \E s \in S : t = f[s]
    PROVE  IsFiniteSet(T)
<1> DEFINE U == {s \in S : f[s] \in T}
           g == [s \in U |-> f[s]]
<1>1. IsFiniteSet(U)
  BY FS_Subset
<1>2. g \in Surjection(U, T)
  BY DEF Surjection
<1> QED BY <1>1, <1>2, FS_Surjection

\* A row of the table with its place in it.
LEMMA PlacedRows ==
    ASSUME NEW events, Sound(events), NEW type
    PROVE  /\ IsFiniteSet(Placed(events, type))
           /\ \A s \in Placed(events, type) :
                 /\ s.row \in 1 .. Len(events)
                 /\ events[s.row].type = type
                 /\ s = Put(events[s.row], "row", s.row)
<1> DEFINE n == Len(events)
           J == {j \in DOMAIN events : events[j].type = type}
           f == [j \in 1 .. n |-> Put(events[j], "row", j)]
<1>1. n \in Nat /\ DOMAIN events = 1 .. n
  BY DEF Sound
<1>2. IsFiniteSet(1 .. n)
  BY <1>1, FS_Interval
<1>3. Placed(events, type) = {Put(events[j], "row", j) : j \in J}
  BY DEF Placed
<1>4. ASSUME NEW s \in Placed(events, type)
      PROVE  /\ s.row \in 1 .. n /\ events[s.row].type = type
             /\ s = Put(events[s.row], "row", s.row) /\ s = f[s.row]
  <2>1. PICK j \in J : s = Put(events[j], "row", j)
    BY <1>3
  <2>2. s.row = j
    BY <2>1 DEF Put
  <2> QED BY <1>1, <2>1, <2>2
<1>5. IsFiniteSet(Placed(events, type))
  <2> HIDE DEF f
  <2> QED BY <1>2, <1>4, FiniteNamed
<1> QED BY <1>4, <1>5

\* The scans of a version, and any part of them.
LEMMA GateScansSound ==
    ASSUME NEW events, Sound(events), NEW period, NEW S, S \subseteq GateScans(events, period)
    PROVE  ScanSet(S)
<1>1. S \subseteq Placed(events, "scan")
  BY DEF GateScans
<1>2. IsFiniteSet(S)
  BY <1>1, PlacedRows, FS_Subset
<1>3. ASSUME NEW s \in S
      PROVE  s.at \in Int /\ s.id \in Int /\ s.row \in Int /\ s.dir \in {"in", "out"}
  <2> DEFINE i == s.row
             e == events[i]
  <2>1. i \in 1 .. Len(events) /\ e.type = "scan" /\ s = Put(e, "row", i)
    BY <1>1, PlacedRows
  <2>2. /\ {"id", "at"} \subseteq DOMAIN e /\ e.id \in Int /\ e.at \in Int
        /\ e.dir \in {"in", "out"} /\ "dir" \in DOMAIN e
    <3>1. "scan" \in DOMAIN EventFields /\ "dir" \in EventFields["scan"]
      BY DEF EventFields
    <3> QED BY <2>1, <3>1 DEF Sound
  <2> HIDE DEF i, e
  <2>3. s.at = e.at /\ s.id = e.id /\ s.dir = e.dir /\ i \in Int
    BY <2>1, <2>2 DEF Put
  <2> QED BY <2>2, <2>3 DEF i
<1>4. \A s, t \in S : s.row = t.row => s = t
  BY <1>1, PlacedRows
<1> QED BY <1>2, <1>3, <1>4 DEF ScanSet

\* The durations are those of the pairs of the reference.
LEMMA GatesAgreed ==
    ASSUME NEW scans, ScanSet(scans)
    PROVE  /\ GateDurations(scans) = {Duration(q[1], q[2]) : q \in PairedScans(scans)}
           /\ GatesAgree(scans)
<1> DEFINE of(v) == {s \in scans : Visit(s) = v}
           P(S) == {p \in S \X S : Closes(S, p[1], p[2])}
           Wanted == {Duration(q[1], q[2]) : q \in PairedScans(scans)}
<1>1. ASSUME NEW v PROVE Paired(Ordered(of(v))).found = {Duration(q[1], q[2]) : q \in P(of(v))}
  <2>1. ScanSet(of(v))
    <3>1. of(v) \subseteq scans /\ IsFiniteSet(scans)
      BY DEF ScanSet
    <3>2. IsFiniteSet(of(v))
      BY <3>1, FS_Subset
    <3> QED BY <3>1, <3>2 DEF ScanSet
  <2> HIDE DEF of
  <2> QED BY <2>1, VisitPairs
<1>2. ASSUME NEW v, NEW q \in P(of(v)) PROVE q \in PairedScans(scans)
  <2>1. /\ q[1] \in scans /\ q[2] \in scans /\ Visit(q[1]) = v /\ Visit(q[2]) = v
        /\ q \in scans \X scans /\ q[1].dir = "in" /\ q[2].dir = "out" /\ Before(q[1], q[2])
        /\ \A s \in scans : Visit(s) = v => ~(Before(q[1], s) /\ Before(s, q[2]))
    BY DEF Closes
  <2> QED BY <2>1 DEF PairedScans
<1>3. ASSUME NEW q \in PairedScans(scans)
      PROVE  q[2] \in scans /\ q \in P(of(Visit(q[2])))
  <2>1. /\ q \in scans \X scans /\ q[1] \in scans /\ q[2] \in scans
        /\ Visit(q[1]) = Visit(q[2]) /\ q[1].dir = "in" /\ q[2].dir = "out" /\ Before(q[1], q[2])
        /\ \A s \in scans : Visit(s) = Visit(q[2]) => ~(Before(q[1], s) /\ Before(s, q[2]))
    BY DEF PairedScans
  <2> QED BY <2>1 DEF Closes
<1>4. GateDurations(scans) = UNION {Paired(Ordered(of(v))).found : v \in {Visit(s) : s \in scans}}
  BY DEF GateDurations
<1> HIDE DEF of, P
<1>5. ASSUME NEW d \in GateDurations(scans) PROVE d \in Wanted
  <2>1. PICK v \in {Visit(s) : s \in scans} : d \in Paired(Ordered(of(v))).found
    BY <1>4
  <2>2. PICK q \in P(of(v)) : d = Duration(q[1], q[2])
    BY <1>1, <2>1
  <2> QED BY <1>2, <2>2
<1>6. ASSUME NEW d \in Wanted PROVE d \in GateDurations(scans)
  <2>1. PICK q \in PairedScans(scans) : d = Duration(q[1], q[2])
    OBVIOUS
  <2>2. d \in Paired(Ordered(of(Visit(q[2])))).found
    BY <1>1, <1>3, <2>1
  <2> QED BY <1>3, <1>4, <2>2
<1>7. GateDurations(scans) = Wanted
  BY <1>5, <1>6
<1> QED BY <1>7 DEF GatesAgree, Duration

\* There are finitely many durations.
LEMMA DurationsCountable ==
    ASSUME NEW scans, ScanSet(scans)
    PROVE  Countable(GateDurations(scans))
<1> DEFINE P == PairedScans(scans)
           f == [q \in P |-> Duration(q[1], q[2])]
<1>1. IsFiniteSet(scans)
  BY DEF ScanSet
<1>2. IsFiniteSet(scans \X scans) /\ P \subseteq scans \X scans
  BY <1>1, FS_Product DEF PairedScans
<1>3. IsFiniteSet(P)
  BY <1>2, FS_Subset
<1>4. GateDurations(scans) = {Duration(q[1], q[2]) : q \in P}
  BY GatesAgreed
<1> HIDE DEF P
<1>5. ASSUME NEW d \in GateDurations(scans) PROVE d.v \in Int /\ \E q \in P : d = f[q]
  <2>1. PICK q \in P : d = Duration(q[1], q[2])
    BY <1>4
  <2>2. q[1] \in scans /\ q[2] \in scans
    BY <1>2
  <2>3. q[1].at \in Int /\ q[2].at \in Int
    BY <2>2 DEF ScanSet
  <2>4. d.v = q[2].at - q[1].at
    BY <2>1 DEF Duration
  <2> QED BY <2>1, <2>3, <2>4
<1>6. IsFiniteSet(GateDurations(scans))
  <2> HIDE DEF f
  <2> QED BY <1>3, <1>5, FiniteNamed
<1> QED BY <1>5, <1>6 DEF Countable

-----------------------------------------------------------------------------
(* What is observed is published. *)

\* A fact names the port of its call.
LEMMA FactsNamePort ==
    ASSUME NEW events, Sound(events), NEW period
    PROVE  NoPort \notin PortsOf(Facts(events, period))
<1> DEFINE entries == MergeEvents(events)
<1>1. Merged(events, Len(events), entries)
  BY AllMerged
<1> HIDE DEF entries
<1>2. ASSUME NEW c \in DOMAIN entries PROVE entries[c].port # NoPort
  <2>1. PICK k \in 1 .. Len(events) : IsPortCall(events[k]) /\ entries[c].port = events[k].port
    BY <1>1 DEF Merged, Shows
  <2> QED BY <2>1 DEF IsPortCall, Sound
<1>3. ASSUME NEW f \in Facts(events, period) PROVE \E c \in DOMAIN entries : f.port = entries[c].port
  <2> DEFINE kept == {d \in DOMAIN entries : InPeriod(Attributable(entries[d]), period)}
             fact(c) == [call |-> c, port |-> entries[c].port, status |-> entries[c].status,
                         fields |-> entries[c].fields,
                         events |-> StableSort(entries[c].events, <)]
  <2>1. Facts(events, period) = {fact(c) : c \in kept}
    BY DEF Facts, entries
  <2>2. PICK c \in kept : f = fact(c)
    BY <2>1
  <2> QED BY <2>2
<1> QED BY <1>2, <1>3 DEF PortsOf

\* An observation is of a port that is named by what it is computed from.
LEMMA ObservationPorts ==
    ASSUME NEW facts0, NEW scans, ScanSet(scans), NEW bookings,
           NEW o \in Observations(facts0, scans, bookings)
    PROVE  /\ o.kpi \in AllKpis \ GapKpis
           /\ o.port \in PortsOf(facts0) \cup PortsOf(scans) \cup PortsOf(bookings)
<1> DEFINE accepted == {f \in facts0 : f.status \in AcceptedOrBeyond}
           ports == PortsOf(facts0) \cup PortsOf(scans) \cup PortsOf(bookings)
           kpis == AllKpis \ GapKpis
<1>1. /\ "vessel_calls" \in kpis /\ "vessel_turnaround_hours" \in kpis
      /\ "waiting_time_hours" \in kpis /\ "throughput_tonnes" \in kpis
      /\ "truck_gate_turnaround_minutes" \in kpis /\ "booking_lead_time_hours" \in kpis
      /\ "slot_utilisation_pct" \in kpis
  BY DEF AllKpis, GapKpis
<1>2. PortsOf(accepted) \subseteq ports
  BY DEF PortsOf
<1>3. ASSUME NEW kpi \in kpis, NEW S, PortsOf(S) \subseteq ports, NEW Q, o \in Quantiles(kpi, S, Q)
      PROVE  o.kpi \in kpis /\ o.port \in ports
  <2> HIDE DEF kpis, ports
  <2> QED BY <1>3 DEF Quantiles, Observation
<1>4. ASSUME NEW f, NEW g PROVE PortsOf(Spans(accepted, f, g)) \subseteq ports
  <2>1. PortsOf(Spans(accepted, f, g)) \subseteq PortsOf(accepted)
    <3> HIDE DEF accepted
    <3> QED BY DEF PortsOf, Spans
  <2> QED BY <1>2, <2>1
<1>5. PortsOf(Tonnages(accepted)) \subseteq ports
  <2>1. PortsOf(Tonnages(accepted)) \subseteq PortsOf(accepted)
    <3> HIDE DEF accepted
    <3> QED BY DEF PortsOf, Tonnages
  <2> QED BY <1>2, <2>1
<1>6. PortsOf(GateDurations(scans)) \subseteq ports
  <2> SUFFICES ASSUME NEW d \in GateDurations(scans) PROVE d.port \in PortsOf(scans)
    BY DEF PortsOf
  <2>1. PICK q \in PairedScans(scans) : d = Duration(q[1], q[2])
    BY GatesAgreed
  <2>2. q[2] \in scans
    BY DEF PairedScans
  <2> QED BY <2>1, <2>2 DEF Duration, PortsOf
<1>7. PortsOf(LeadTimes(bookings)) \subseteq ports
  BY DEF PortsOf, LeadTimes
<1>8. ASSUME o \in VesselCalls(accepted) PROVE o.kpi \in kpis /\ o.port \in ports
  <2> DEFINE keys == UNION {{<<a.port, a.fields.class>>, <<a.port, Null>>} : a \in accepted}
             calls(k) == {a \in accepted : a.port = k[1] /\ k[2] \in {Null, a.fields.class}}
             row(k) == Observation("vessel_calls", k[1], k[2], Null,
                                   Cardinality(calls(k)), Cardinality(calls(k)))
  <2>1. VesselCalls(accepted) = {row(k) : k \in keys}
    BY DEF VesselCalls
  <2>2. PICK k \in keys : o = row(k)
    BY <1>8, <2>1
  <2>3. PICK a \in accepted : k[1] = a.port
    OBVIOUS
  <2>4. o.kpi = "vessel_calls" /\ o.port = a.port
    BY <2>2, <2>3 DEF Observation
  <2>5. a.port \in PortsOf(accepted)
    BY DEF PortsOf
  <2> HIDE DEF kpis, ports, accepted
  <2> QED BY <1>1, <1>2, <2>4, <2>5
<1>9. ASSUME o \in Throughput(Tonnages(accepted)) PROVE o.kpi \in kpis /\ o.port \in ports
  <2> HIDE DEF kpis, ports, accepted
  <2> QED BY <1>1, <1>5, <1>9 DEF Throughput, Observation
<1>10. ASSUME o \in SlotUtilisation(bookings) PROVE o.kpi \in kpis /\ o.port \in ports
  <2>1. o.kpi = "slot_utilisation_pct" /\ \E b \in bookings : o.port = b.port
    BY <1>10, UtilisationKeyed DEF OfKpi
  <2>2. o.port \in ports
    BY <2>1 DEF PortsOf
  <2> HIDE DEF kpis, ports
  <2> QED BY <1>1, <2>1, <2>2
<1>11. \/ o \in VesselCalls(accepted)
       \/ o \in Quantiles("vessel_turnaround_hours", Spans(accepted, "arrived", "departed"), {5, 9})
       \/ o \in Quantiles("waiting_time_hours", Spans(accepted, "arrived", "berthed"), {5, 9})
       \/ o \in Throughput(Tonnages(accepted))
       \/ o \in Quantiles("truck_gate_turnaround_minutes", GateDurations(scans), {5})
       \/ o \in Quantiles("booking_lead_time_hours", LeadTimes(bookings), {5})
       \/ o \in SlotUtilisation(bookings)
  BY DEF Observations
<1> HIDE DEF kpis, ports, accepted
<1>12. o.kpi \in kpis /\ o.port \in ports
  BY <1>1, <1>3, <1>4, <1>6, <1>7, <1>8, <1>9, <1>10, <1>11
<1> QED BY <1>12 DEF kpis, ports

\* Each observation of a port has its row.
LEMMA AllEmitted ==
    ASSUME NEW events, NEW period, ScanSet(GateScans(events, period))
    PROVE  LET merged == Facts(events, period)
               scans == GateScans(events, period)
               bookings == Bookings(events, period)
               seenPorts == PortsOf(merged \cup scans \cup bookings) \ {NoPort}
           IN PortsEmitted(ValueRows(AllKpis, events, period),
                           Observations(merged, scans, bookings), seenPorts)
<1> DEFINE merged == Facts(events, period)
           scans == GateScans(events, period)
           bookings == Bookings(events, period)
           observations == Observations(merged, scans, bookings)
           ports == DiscoverPorts(merged, scans, bookings)
           seenPorts == PortsOf(merged \cup scans \cup bookings) \ {NoPort}
           rows == ValueRows(AllKpis, events, period)
<1>1. \A k \in AllKpis, p \in ports : EmitFor(observations, k, p) \subseteq rows
  BY DEF ValueRows, EmitValueRows
<1>2. ASSUME NEW o \in observations, o.port # NoPort \/ seenPorts = {}
      PROVE  Emitted(rows, o)
  <2>1. /\ o.kpi \in AllKpis \ GapKpis
        /\ o.port \in PortsOf(merged) \cup PortsOf(scans) \cup PortsOf(bookings)
    <3> HIDE DEF merged, bookings, scans
    <3> QED BY ObservationPorts DEF scans
  <2>2. CASE o.port \in ports
    <3> HIDE DEF observations, ports, rows
    <3>1. o \in EmitFor(observations, o.kpi, o.port)
      BY <2>1 DEF EmitFor
    <3>2. o \in rows
      BY <1>1, <2>1, <2>2, <3>1
    <3> QED BY <3>2 DEF Emitted
  <2>3. CASE o.port \notin ports
    <3> HIDE DEF merged, bookings, scans
    <3> QED BY <1>2, <2>1, <2>3 DEF DiscoverPorts, PortsOf
  <2> QED BY <2>2, <2>3
<1> HIDE DEF rows, observations, seenPorts
<1>3. PortsEmitted(rows, observations, seenPorts)
  BY <1>2 DEF PortsEmitted
<1> QED BY <1>3 DEF rows, observations, seenPorts, merged, scans, bookings

-----------------------------------------------------------------------------
(* The publication. *)

\* What run_port_statistics computes from version n, whoever computes it.
ReportOf(n) == ValueRows(Registry, EventsUpTo(silver, n), Period)

\* A manifest is that of a version that has existed.
RunsInv == \A r \in runs : r = [id |-> r.id, report |-> ReportOf(r.id)] /\ r.id \in 1..size

\* The rows of a run are there all or not at all, and after its manifest.
ValuesInv ==
    \A v \in values :
        /\ v.run \in RunIds
        /\ v \in RowsOf(v.run, ReportOf(v.run))
        /\ RowsOf(v.run, ReportOf(v.run)) \subseteq values

Computing == {"facts", "runs", "values", "open", "write", "replace"}
Announced == {"values", "open", "write", "replace"}
Reporting == {"open", "write", "replace"}

\* A pass that runs has pinned a version and holds what it computed from it;
\* its manifest and its values are there before it goes on.
PassInv(p) ==
    /\ pc[p] # "mismatch"
    /\ pc[p] \notin Ended => pin[p] \in 1..size
    /\ pc[p] \in Computing => computed[p].rows = ReportOf(pin[p])
    /\ pc[p] \in Announced => pin[p] \in RunIds
    /\ pc[p] \in Reporting => RowsOf(pin[p], ReportOf(pin[p])) \subseteq values

\* A manifest without values has a pass about to append them, or one that
\* was killed.
RunsServed ==
    \A r \in runs :
        \/ RowsOf(r.id, r.report) \subseteq values
        \/ \E p \in Passes : pc[p] = "values" /\ pin[p] = r.id
        \/ faults > 0

ComputedIsFunction == computed = [p \in Passes |-> computed[p]]

Inv ==
    /\ TypeOK
    /\ ComputedIsFunction
    /\ RunsInv
    /\ ValuesInv
    /\ \A p \in Passes : PassInv(p)
    /\ RunsServed
    /\ ReportBacked
    /\ ServedWhole

-----------------------------------------------------------------------------
(* Operators. *)

\* Versions of the silver table that exist have report files.
LEMMA VersionsExist ==
    ASSUME TypeOK
    PROVE  1..size \subseteq Versions
BY SilversAssumption DEF TypeOK, Versions

\* The rows of a run carry its id.
LEMMA RowsCarryRun ==
    ASSUME NEW n, NEW rows, NEW v \in RowsOf(n, rows)
    PROVE  v.run = n /\ v.row \in rows /\ v = [run |-> v.run, row |-> v.row]
BY DEF RowsOf

\* Two rows of a run that have one key are one row.
LEMMA RunKeyed ==
    ASSUME NEW n, NEW v \in RowsOf(n, ReportOf(n)), NEW w \in RowsOf(n, ReportOf(n)),
           ValueKey(v.row) = ValueKey(w.row)
    PROVE  v = w
<1>1. v.run = n /\ v.row \in ReportOf(n) /\ v = [run |-> v.run, row |-> v.row]
  BY RowsCarryRun
<1>2. w.run = n /\ w.row \in ReportOf(n) /\ w = [run |-> w.run, row |-> w.row]
  BY RowsCarryRun
<1>3. v.row = w.row
  BY <1>1, <1>2, RowsKeyed DEF ReportOf
<1> QED BY <1>1, <1>2, <1>3

\* A file keeps one of four names through a renaming.
LEMMA RenamedType ==
    ASSUME TypeOK, NEW q \in Passes, NEW f
    PROVE  Renamed(q, f) \in {"closed", "tmp", "final", "unlinked"}
<1>1. fd[q] \in {"closed", "tmp", "final", "unlinked"}
  BY DEF TypeOK
<1>2. CASE pc[q] = "write" /\ File(q) = f /\ fd[q] = "tmp"
  BY <1>2, Zenon DEF Renamed
<1>3. CASE pc[q] = "write" /\ File(q) = f /\ fd[q] = "final"
  BY <1>3, Zenon DEF Renamed
<1>4. CASE /\ ~(pc[q] = "write" /\ File(q) = f /\ fd[q] = "tmp")
           /\ ~(pc[q] = "write" /\ File(q) = f /\ fd[q] = "final")
  <2>1. Renamed(q, f) = fd[q]
    BY <1>4, Zenon DEF Renamed
  <2> QED BY <1>1, <2>1
<1> QED BY <1>2, <1>3, <1>4

-----------------------------------------------------------------------------
(* Framing: what steps leave alone. *)

\* The tables and the silver table only grow.
Retains ==
    /\ silver' = silver
    /\ size \in Nat /\ size' \in Nat /\ size <= size'
    /\ runs \subseteq runs'
    /\ values \subseteq values'

\* The step is not one of pass q.
Spares(q) == pc'[q] = pc[q] /\ pin'[q] = pin[q] /\ computed'[q] = computed[q]

\* What is known of a pass survives the steps of the others.
LEMMA Undisturbed ==
    ASSUME NEW q \in Passes, PassInv(q), Retains, Spares(q)
    PROVE  PassInv(q)'
<1>1. \A n : ReportOf(n)' = ReportOf(n)
  BY DEF ReportOf, Retains
<1>2. RunIds \subseteq RunIds'
  BY DEF RunIds, Retains
<1>3. /\ ReportOf(pin[q])' = ReportOf(pin[q]) /\ pin'[q] = pin[q]
      /\ pc'[q] = pc[q] /\ computed'[q] = computed[q]
  BY <1>1 DEF Spares
<1>4. (pc[q] \notin Ended => pin[q] \in 1..size)'
  BY <1>3 DEF PassInv, Retains
<1> QED BY <1>2, <1>3, <1>4 DEF PassInv, Retains, RowsOf, ReportOf

\* A pass that has ended has nothing to answer for.
LEMMA EndedPass ==
    ASSUME NEW p \in Passes, pc'[p] \in Ended \ {"mismatch"}
    PROVE  PassInv(p)'
BY DEF PassInv, Ended, Computing, Announced, Reporting

\* A step that appends to no table keeps what they hold.
LEMMA TablesStay ==
    ASSUME TypeOK, RunsInv, ValuesInv, UNCHANGED <<silver, runs, values>>,
           size' \in Nat, size <= size'
    PROVE  RunsInv' /\ ValuesInv'
<1>1. \A n : ReportOf(n)' = ReportOf(n)
  BY DEF ReportOf
<1>2. RunIds' = RunIds
  BY DEF RunIds
<1>3. size \in Nat
  BY SilversAssumption DEF TypeOK
<1>4. RunsInv'
  BY <1>3 DEF RunsInv, ReportOf
<1>5. ValuesInv'
  BY <1>2 DEF ValuesInv, RowsOf, ReportOf
<1> QED BY <1>4, <1>5

\* Manifests stay served when no pass leaves the step that serves them.
LEMMA ServedStays ==
    ASSUME RunsServed, runs' = runs, values \subseteq values', faults' = faults,
           \A q \in Passes : pc[q] = "values" => pc'[q] = "values" /\ pin'[q] = pin[q]
    PROVE  RunsServed'
BY DEF RunsServed

\* Reports stay backed when no report file is written.
LEMMA BackedStays ==
    ASSUME ReportBacked, runs \subseteq runs', values \subseteq values', final' = final
    PROVE  ReportBacked'
BY DEF ReportBacked

\* What every step of a pass has to keep; no reader gets a response from it.
PassesInv ==
    /\ RunsInv
    /\ ValuesInv
    /\ \A p \in Passes : PassInv(p)
    /\ RunsServed
    /\ ReportBacked

-----------------------------------------------------------------------------
(* The steps of a pass that write no table and no report file. *)

\* The steps that only move a pass on, or end it.
Quiet(p) ==
    /\ UNCHANGED <<silver, size, runs, values, final, faults>>
    /\ \A q \in Passes \ {p} : Spares(q)
    /\ pc[p] # "values"

\* Such a step keeps the invariant if the pass keeps its own part.
LEMMA QuietInv ==
    ASSUME Inv, NEW p \in Passes, Quiet(p), PassInv(p)'
    PROVE  PassesInv'
<1>1. size \in Nat
  BY SilversAssumption DEF Inv, TypeOK
<1>2. Retains
  BY <1>1 DEF Quiet, Retains
<1>3. \A q \in Passes : PassInv(q)'
  <2> TAKE q \in Passes
  <2>1. CASE q = p
    BY <2>1
  <2>2. CASE q # p
    BY <1>2, <2>2, Undisturbed DEF Inv, Quiet
  <2> QED BY <2>1, <2>2
<1>4. RunsInv' /\ ValuesInv'
  BY <1>1, TablesStay DEF Inv, Quiet
<1>5. RunsServed'
  BY ServedStays DEF Inv, Quiet, Spares
<1>6. ReportBacked'
  BY BackedStays DEF Inv, Quiet
<1> QED BY <1>3, <1>4, <1>5, <1>6 DEF PassesInv

\* End touches one pass, and it is over.
LEMMA EndFacts ==
    ASSUME TypeOK, ComputedIsFunction, NEW p \in Passes, NEW how, End(p, how)
    PROVE  pc'[p] = how /\ \A q \in Passes \ {p} : Spares(q)
BY DEF TypeOK, ComputedIsFunction, End, GoTo, Forget, Spares

\* A pass pins a version that exists.
LEMMA PinInv ==
    ASSUME Inv, NEW p \in Passes, Pin(p)
    PROVE  PassesInv'
<1>1. TypeOK /\ ComputedIsFunction
  BY DEF Inv
<1>2. /\ pc'[p] = "read" /\ pin'[p] = size /\ size > 0
      /\ UNCHANGED <<silver, size, runs, values, final, faults>>
  BY <1>1 DEF Pin, GoTo, TypeOK, gold, disk
<1>3. Quiet(p)
  BY <1>1, <1>2 DEF Pin, GoTo, TypeOK, ComputedIsFunction, Quiet, Spares, Ended
<1>4. PassInv(p)'
  BY <1>1, <1>2, SilversAssumption
  DEF PassInv, TypeOK, Ended, Computing, Announced, Reporting
<1> QED BY <1>3, <1>4, QuietInv

\* What a pass reads is what it computes from, whatever is appended meanwhile.
LEMMA ReadInv ==
    ASSUME Inv, NEW p \in Passes, ReadSilver(p)
    PROVE  PassesInv'
<1>1. TypeOK /\ ComputedIsFunction /\ PassInv(p)
  BY DEF Inv
<1>2. pc[p] = "read" /\ UNCHANGED <<silver, size, runs, values, final, faults>>
  BY DEF ReadSilver, gold, disk
<1> DEFINE events == EventsUpTo(silver, VersionRead(p))
           found == Facts(events, Period)
<1>3. CASE Malformed(events, Period)
  <2>1. End(p, "malformed")
    BY <1>3 DEF ReadSilver
  <2>2. pc'[p] = "malformed" /\ \A q \in Passes \ {p} : Spares(q)
    BY <1>1, <2>1, EndFacts
  <2>3. PassInv(p)'
    BY <2>2, EndedPass DEF Ended
  <2>4. Quiet(p)
    BY <1>2, <2>2 DEF Quiet
  <2> QED BY <2>3, <2>4, QuietInv
<1>4. CASE ~Malformed(events, Period)
  <2>1. /\ computed' = [computed EXCEPT ![p] =
              [facts |-> found, rows |-> ValueRows(Registry, events, Period)]]
        /\ GoTo(p, IF found = {} THEN "runs" ELSE "facts")
        /\ UNCHANGED <<pin, format, fd>>
    BY <1>4 DEF ReadSilver
  <2> HIDE DEF found
  <2>2. /\ pc'[p] \in {"runs", "facts"} /\ pin'[p] = pin[p]
        /\ computed'[p].rows = ReportOf(pin[p])
        /\ \A q \in Passes \ {p} : Spares(q)
    BY <1>1, <2>1 DEF GoTo, TypeOK, ComputedIsFunction, Spares, ReportOf, VersionRead
  <2>3. Quiet(p)
    BY <1>2, <2>2 DEF Quiet
  <2>4. ReportOf(pin[p])' = ReportOf(pin[p])
    BY <1>2, <2>1 DEF ReportOf
  <2>5. PassInv(p)'
    BY <1>1, <1>2, <2>2, <2>4 DEF PassInv, Ended, Computing, Announced, Reporting
  <2> QED BY <2>3, <2>5, QuietInv
<1> QED BY <1>3, <1>4

\* The facts are no part of a run.
LEMMA FactsInv ==
    ASSUME Inv, NEW p \in Passes, AppendFacts(p)
    PROVE  PassesInv'
<1>1. TypeOK /\ ComputedIsFunction /\ PassInv(p)
  BY DEF Inv
<1>2. pc[p] = "facts" /\ UNCHANGED <<silver, size, runs, values, final, faults>>
  BY DEF AppendFacts, disk
<1>3. CASE FactsConflict(p)
  <2>1. End(p, "conflict")
    BY <1>3 DEF AppendFacts
  <2>2. pc'[p] = "conflict" /\ \A q \in Passes \ {p} : Spares(q)
    BY <1>1, <2>1, EndFacts
  <2>3. PassInv(p)'
    BY <2>2, EndedPass DEF Ended
  <2>4. Quiet(p)
    BY <1>2, <2>2 DEF Quiet
  <2> QED BY <2>3, <2>4, QuietInv
<1>4. CASE ~FactsConflict(p)
  <2>1. GoTo(p, "runs") /\ UNCHANGED <<pin, computed>>
    BY <1>4 DEF AppendFacts, local
  <2>2. pc'[p] = "runs" /\ \A q \in Passes \ {p} : Spares(q)
    BY <1>1, <2>1 DEF GoTo, TypeOK, Spares
  <2>3. Quiet(p)
    BY <1>2, <2>2 DEF Quiet
  <2>4. ReportOf(pin[p])' = ReportOf(pin[p])
    BY <1>2, <2>1 DEF ReportOf
  <2>5. PassInv(p)'
    BY <1>1, <1>2, <2>1, <2>2, <2>4 DEF PassInv, Ended, Computing, Announced, Reporting
  <2> QED BY <2>3, <2>5, QuietInv
<1> QED BY <1>3, <1>4

\* The temporary file is nobody's business but the report's.
LEMMA OpenInv ==
    ASSUME Inv, NEW p \in Passes, OpenTmp(p)
    PROVE  PassesInv'
<1>1. TypeOK /\ PassInv(p)
  BY DEF Inv
<1>2. /\ pc[p] = "open" /\ UNCHANGED <<silver, size, runs, values, final, faults, pin, computed>>
      /\ pc'[p] = "write" /\ \A q \in Passes \ {p} : Spares(q)
  BY <1>1 DEF OpenTmp, GoTo, TypeOK, Spares, gold
<1>3. Quiet(p)
  BY <1>2 DEF Quiet
<1>4. ReportOf(pin[p])' = ReportOf(pin[p]) /\ RunIds' = RunIds
  BY <1>2 DEF ReportOf, RunIds
<1>5. PassInv(p)'
  BY <1>1, <1>2, <1>4 DEF PassInv, Ended, Computing, Announced, Reporting, RowsOf
<1> QED BY <1>3, <1>5, QuietInv

\* A pass whose temporary file another pass has renamed ends.
LEMMA LostInv ==
    ASSUME Inv, NEW p \in Passes, ReplaceLost(p)
    PROVE  PassesInv'
<1>1. TypeOK /\ ComputedIsFunction
  BY DEF Inv
<1>2. pc[p] = "replace" /\ UNCHANGED <<silver, size, runs, values, final, faults>>
  BY DEF ReplaceLost, gold, disk
<1>3. pc'[p] = "lost" /\ \A q \in Passes \ {p} : Spares(q)
  BY <1>1, EndFacts DEF ReplaceLost
<1>4. PassInv(p)'
  BY <1>3, EndedPass DEF Ended
<1>5. Quiet(p)
  BY <1>2, <1>3 DEF Quiet
<1> QED BY <1>4, <1>5, QuietInv

-----------------------------------------------------------------------------
(* The steps that write a table or a report file. *)

\* A pass that appends its manifest finds none with other content.
LEMMA RunInv ==
    ASSUME Inv, NEW p \in Passes, AppendRun(p)
    PROVE  PassesInv'
<1> DEFINE new == [id |-> pin[p], report |-> Report(p)]
<1>1. TypeOK /\ RunsInv /\ ValuesInv /\ PassInv(p) /\ pc[p] = "runs"
  BY DEF Inv, AppendRun
<1>2. Report(p) = ReportOf(pin[p]) /\ pin[p] \in 1..size
  BY <1>1 DEF PassInv, Computing, Ended, Report
<1>3. ~\E r \in runs : r.id = new.id /\ r # new
  BY <1>1, <1>2 DEF RunsInv
<1>4. /\ runs' = runs \cup {new} /\ GoTo(p, "values") /\ UNCHANGED <<pin, computed>>
      /\ UNCHANGED <<silver, size, values, final, faults>>
  BY <1>3 DEF AppendRun, local, disk
<1>5. pc'[p] = "values" /\ \A q \in Passes \ {p} : Spares(q)
  BY <1>1, <1>4 DEF GoTo, TypeOK, Spares
<1>6. Retains
  BY <1>1, <1>4, SilversAssumption DEF Retains, TypeOK
<1>7. \A n : ReportOf(n)' = ReportOf(n)
  BY <1>4 DEF ReportOf
<1>8. RunIds \subseteq RunIds' /\ pin[p] \in RunIds'
  <2>1. new.id = pin[p] /\ new \in runs' /\ runs \subseteq runs'
    BY <1>4
  <2> HIDE DEF new
  <2> QED BY <2>1 DEF RunIds
<1>9. RunsInv'
  <2>1. \A r \in runs' : r = [id |-> r.id, report |-> ReportOf(r.id)] /\ r.id \in 1..size
    BY <1>1, <1>2, <1>4 DEF RunsInv
  <2> QED BY <1>4, <2>1 DEF RunsInv, ReportOf
<1>10. ValuesInv'
  BY <1>1, <1>4, <1>8 DEF ValuesInv, RowsOf, ReportOf
<1>11. ASSUME NEW q \in Passes PROVE PassInv(q)'
  <2>1. CASE q # p
    BY <1>5, <1>6, <2>1, Undisturbed DEF Inv
  <2>2. PassInv(p)'
    <3>1. pin'[p] = pin[p] /\ size' = size /\ computed'[p] = computed[p] /\ pin'[p] \in RunIds'
      BY <1>4, <1>8
    <3>2. computed'[p].rows = ReportOf(pin[p])'
      BY <1>2, <1>4, <3>1 DEF Report, ReportOf
    <3> QED BY <1>2, <1>5, <3>1, <3>2 DEF PassInv, Reporting
  <2> QED BY <2>1, <2>2
<1>12. RunsServed'
  <2> SUFFICES ASSUME NEW r \in runs'
               PROVE  \/ RowsOf(r.id, r.report) \subseteq values
                      \/ \E q \in Passes : pc'[q] = "values" /\ pin'[q] = r.id
                      \/ faults > 0
    BY <1>4 DEF RunsServed, RowsOf
  <2>1. CASE r = new
    BY <1>4, <1>5, <2>1
  <2>2. CASE r \in runs
    <3>1. \A q \in Passes : pc[q] = "values" => pc'[q] = "values" /\ pin'[q] = pin[q]
      BY <1>4, <1>5, <1>1 DEF Spares
    <3> QED BY <2>2, <3>1 DEF Inv, RunsServed
  <2> QED BY <1>4, <2>1, <2>2
<1>13. ReportBacked'
  BY <1>4, BackedStays DEF Inv
<1> QED BY <1>9, <1>10, <1>11, <1>12, <1>13 DEF PassesInv

\* A pass that appends its values finds none with other content, and
\* completes its run in one commit.
LEMMA AppendValuesInv ==
    ASSUME Inv, NEW p \in Passes, AppendValues(p)
    PROVE  PassesInv'
<1> DEFINE new == RowsOf(pin[p], Report(p))
<1>1. TypeOK /\ RunsInv /\ ValuesInv /\ PassInv(p) /\ pc[p] = "values"
  BY DEF Inv, AppendValues
<1>2. Report(p) = ReportOf(pin[p]) /\ pin[p] \in 1..size /\ pin[p] \in RunIds
  BY <1>1 DEF PassInv, Computing, Announced, Ended, Report
<1>3. \A n \in new : n.run = pin[p]
  BY RowsCarryRun
<1>4. ASSUME NEW v \in values, NEW n \in new, v.run = n.run, ValueKey(v.row) = ValueKey(n.row)
      PROVE  v = n
  <2>1. v.run = pin[p]
    BY <1>3, <1>4
  <2>2. v \in RowsOf(pin[p], ReportOf(pin[p])) /\ n \in RowsOf(pin[p], ReportOf(pin[p]))
    BY <1>1, <1>2, <2>1 DEF ValuesInv
  <2> QED BY <1>4, <2>2, RunKeyed
<1>5. /\ values' = values \cup new /\ GoTo(p, "open") /\ UNCHANGED <<pin, computed>>
      /\ UNCHANGED <<silver, size, runs, final, faults>>
  BY <1>4 DEF AppendValues, local, disk
<1>6. pc'[p] = "open" /\ \A q \in Passes \ {p} : Spares(q)
  BY <1>1, <1>5 DEF GoTo, TypeOK, Spares
<1>7. Retains
  BY <1>1, <1>5, SilversAssumption DEF Retains, TypeOK
<1>8. RunIds' = RunIds
  BY <1>5 DEF RunIds
<1>9. RunsInv'
  BY <1>1, <1>5 DEF RunsInv, ReportOf
<1>10. ValuesInv'
  <2>1. ASSUME NEW v \in values'
        PROVE  /\ v.run \in RunIds
               /\ v \in RowsOf(v.run, ReportOf(v.run))
               /\ RowsOf(v.run, ReportOf(v.run)) \subseteq values'
    <3>1. CASE v \in values
      BY <1>1, <1>5, <3>1 DEF ValuesInv
    <3>2. CASE v \in new
      <4>1. v.run = pin[p]
        BY <1>3, <3>2
      <4> QED BY <1>2, <1>5, <3>2, <4>1
    <3> QED BY <1>5, <3>1, <3>2
  <2> QED BY <1>5, <1>8, <2>1 DEF ValuesInv, RowsOf, ReportOf
<1>11. ASSUME NEW q \in Passes PROVE PassInv(q)'
  <2>1. CASE q # p
    BY <1>6, <1>7, <2>1, Undisturbed DEF Inv
  <2>2. PassInv(p)'
    <3>1. /\ pin'[p] = pin[p] /\ size' = size /\ computed'[p] = computed[p]
          /\ pin'[p] \in RunIds'
      BY <1>2, <1>5, <1>8
    <3>2. computed'[p].rows = ReportOf(pin[p])'
      BY <1>2, <1>5, <3>1 DEF Report, ReportOf
    <3>3. RowsOf(pin[p], ReportOf(pin[p]))' \subseteq values'
      BY <1>2, <1>5, <3>1 DEF RowsOf, ReportOf
    <3> QED BY <1>2, <1>6, <3>1, <3>2, <3>3 DEF PassInv
  <2> QED BY <2>1, <2>2
<1>12. RunsServed'
  <2> SUFFICES ASSUME NEW r \in runs
               PROVE  \/ RowsOf(r.id, r.report) \subseteq values'
                      \/ \E q \in Passes : pc'[q] = "values" /\ pin'[q] = r.id
                      \/ faults > 0
    BY <1>5 DEF RunsServed, RowsOf
  <2>1. CASE r.id = pin[p]
    <3>1. r.report = ReportOf(pin[p])
      BY <1>1, <2>1 DEF RunsInv
    <3> QED BY <1>2, <1>5, <2>1, <3>1
  <2>2. CASE r.id # pin[p]
    <3>1. \A q \in Passes : pc[q] = "values" /\ pin[q] = r.id => pc'[q] = "values" /\ pin'[q] = r.id
      BY <1>5, <1>6, <2>2 DEF Spares
    <3> QED BY <1>5, <3>1 DEF Inv, RunsServed
  <2> QED BY <2>1, <2>2
<1>13. ReportBacked'
  BY <1>5, BackedStays DEF Inv
<1> QED BY <1>9, <1>10, <1>11, <1>12, <1>13 DEF PassesInv

\* The run behind a pass that writes its report.
LEMMA Backed ==
    ASSUME Inv, NEW p \in Passes, pc[p] \in Reporting
    PROVE  \E r \in runs : r.id = pin[p] /\ RowsOf(r.id, r.report) \subseteq values
<1>1. PassInv(p) /\ RunsInv
  BY DEF Inv
<1>2. pin[p] \in RunIds /\ RowsOf(pin[p], ReportOf(pin[p])) \subseteq values
  BY <1>1 DEF PassInv, Reporting, Announced
<1>3. PICK r \in runs : r.id = pin[p]
  BY <1>2 DEF RunIds
<1> QED BY <1>1, <1>2, <1>3 DEF RunsInv

\* A report file is written, whatever its name is by now, by a pass whose run
\* is complete.
LEMMA FileInv ==
    ASSUME Inv, NEW p \in Passes, WriteTmp(p) \/ ReplaceFile(p)
    PROVE  PassesInv'
<1>1. TypeOK /\ ComputedIsFunction /\ PassInv(p)
  BY DEF Inv
<1>2. /\ pc[p] \in {"write", "replace"} /\ UNCHANGED <<silver, size, runs, values, faults>>
      /\ \A f \in Files : f # File(p) => final'[f] = final[f]
  BY <1>1 DEF WriteTmp, ReplaceFile, gold, TypeOK
<1>3. \A q \in Passes \ {p} : Spares(q)
  <2>1. CASE WriteTmp(p)
    BY <1>1, <2>1 DEF WriteTmp, GoTo, TypeOK, Spares
  <2>2. CASE ReplaceFile(p)
    <3>1. CASE format[p] = "json"
      BY <1>1, <2>2, <3>1 DEF ReplaceFile, GoTo, TypeOK, Spares
    <3>2. CASE format[p] # "json"
      BY <1>1, <2>2, <3>2 DEF ReplaceFile, GoTo, Forget, TypeOK, ComputedIsFunction, Spares
    <3> QED BY <3>1, <3>2
  <2> QED BY <2>1, <2>2
<1>4. PassInv(p)'
  <2>1. CASE ReplaceFile(p) /\ format[p] # "json"
    <3>1. pc'[p] = "done"
      BY <1>1, <2>1 DEF ReplaceFile, GoTo, TypeOK
    <3> QED BY <3>1, EndedPass DEF Ended
  <2>2. CASE WriteTmp(p) \/ (ReplaceFile(p) /\ format[p] = "json")
    <3>1. /\ pc'[p] \in {"replace", "open"} /\ pin'[p] = pin[p] /\ computed'[p] = computed[p]
      BY <1>1, <2>2 DEF WriteTmp, ReplaceFile, GoTo, TypeOK
    <3>2. ReportOf(pin[p])' = ReportOf(pin[p]) /\ RunIds' = RunIds
      BY <1>2, <3>1 DEF ReportOf, RunIds
    <3> QED BY <1>1, <1>2, <3>1, <3>2
            DEF PassInv, Ended, Computing, Announced, Reporting, RowsOf
  <2> QED BY <2>1, <2>2
<1>5. size \in Nat
  BY <1>1, SilversAssumption DEF TypeOK
<1>6. Retains
  BY <1>2, <1>5 DEF Retains
<1>7. \A q \in Passes : PassInv(q)'
  <2> TAKE q \in Passes
  <2>1. CASE q = p
    BY <1>4, <2>1
  <2>2. CASE q # p
    BY <1>3, <1>6, <2>2, Undisturbed DEF Inv
  <2> QED BY <2>1, <2>2
<1>8. RunsInv' /\ ValuesInv'
  BY <1>2, <1>5, TablesStay DEF Inv
<1>9. RunsServed'
  BY <1>2, <1>3, ServedStays DEF Inv, Spares
<1>10. ReportBacked'
  <2> SUFFICES ASSUME NEW f \in Files, final'[f] # "none"
               PROVE  \E r \in runs : r.id = f[1] /\ RowsOf(r.id, r.report) \subseteq values
    BY <1>2 DEF ReportBacked, RowsOf
  <2>1. CASE f = File(p)
    BY <1>2, <2>1, Backed DEF File, Reporting
  <2>2. CASE f # File(p)
    BY <1>2, <2>2 DEF Inv, ReportBacked
  <2> QED BY <2>1, <2>2
<1> QED BY <1>7, <1>8, <1>9, <1>10 DEF PassesInv

-----------------------------------------------------------------------------
(* Whole steps. *)

\* A killed pass leaves its run as it stands.
LEMMA KillInv ==
    ASSUME Inv, NEW p \in Passes, Kill(p)
    PROVE  PassesInv'
<1>1. TypeOK /\ ComputedIsFunction
  BY DEF Inv
<1>2. UNCHANGED <<silver, size, runs, values, final>> /\ faults' = faults + 1
  BY DEF Kill, gold, disk
<1>3. pc'[p] = "killed" /\ \A q \in Passes \ {p} : Spares(q)
  BY <1>1, EndFacts DEF Kill
<1>4. size \in Nat /\ faults \in Nat
  BY <1>1, SilversAssumption, BoundsAssumption DEF TypeOK
<1>5. Retains
  BY <1>2, <1>4 DEF Retains
<1>6. \A q \in Passes : PassInv(q)'
  <2> TAKE q \in Passes
  <2>1. CASE q = p
    BY <1>3, <2>1, EndedPass DEF Ended
  <2>2. CASE q # p
    BY <1>3, <1>5, <2>2, Undisturbed DEF Inv
  <2> QED BY <2>1, <2>2
<1>7. RunsInv' /\ ValuesInv'
  BY <1>2, <1>4, TablesStay DEF Inv
<1>8. RunsServed'
  <2>1. faults' > 0
    BY <1>2, <1>4
  <2> QED BY <2>1 DEF RunsServed
<1>9. ReportBacked'
  BY <1>2, BackedStays DEF Inv
<1> QED BY <1>6, <1>7, <1>8, <1>9 DEF PassesInv

\* A step that touches no pass and no gold table keeps the invariant: the
\* silver table grows, a reader reads.
LEMMA AsideInv ==
    ASSUME Inv, UNCHANGED <<silver, runs, values, final, pc, pin, computed, faults>>,
           size' \in Nat, size <= size'
    PROVE  PassesInv'
<1>1. size \in Nat
  BY SilversAssumption DEF Inv, TypeOK
<1>2. Retains /\ \A q \in Passes : Spares(q)
  BY <1>1 DEF Retains, Spares
<1>3. \A q \in Passes : PassInv(q)'
  BY <1>2, Undisturbed DEF Inv
<1>4. RunsInv' /\ ValuesInv'
  BY TablesStay DEF Inv
<1>5. RunsServed' /\ ReportBacked'
  BY ServedStays, BackedStays DEF Inv
<1> QED BY <1>3, <1>4, <1>5 DEF PassesInv

\* The steps of the assembly, and of the silver table it reads.
Assembly == Grow \/ \E p \in Passes : Pin(p) \/ Step(p) \/ Kill(p)

\* The steps of the API.
Request ==
    \/ \E r \in Readers : Refuse(r) \/ ReadRuns(r) \/ ReadValues(r)
    \/ \E r \in Readers, f \in Files : GetReport(r, f)

\* A step is one of the assembly, which answers nobody, or one of the API.
LEMMA NextCases == Next <=> (Assembly /\ answer' = Silent) \/ Request
BY DEF Next, Assembly, Request

\* A step of the assembly keeps the invariant.
LEMMA AssemblyInv ==
    ASSUME Inv, Assembly
    PROVE  PassesInv'
<1>1. CASE Grow
  <2>1. UNCHANGED <<silver, runs, values, final, pc, pin, computed, faults>> /\ size' = size + 1
    BY <1>1 DEF Grow, gold, disk, local
  <2>2. size \in Nat
    BY SilversAssumption DEF Inv, TypeOK
  <2> QED BY <2>1, <2>2, AsideInv
<1> QED BY <1>1, PinInv, ReadInv, FactsInv, RunInv, AppendValuesInv, OpenInv, FileInv,
           LostInv, KillInv DEF Assembly, Step

\* A request changes nothing but what its reader holds.
LEMMA RequestFacts ==
    ASSUME Request
    PROVE  /\ UNCHANGED <<silver, size, gold, disk, pc, local, faults>>
           /\ \E r \in Readers : Refuse(r) \/ ReadRuns(r) \/ ReadValues(r)
                                 \/ \E f \in Files : GetReport(r, f)
BY DEF Request, Refuse, ReadRuns, ReadValues, GetReport

\* Readers that give no response have nothing to answer for.
LEMMA SilentServed ==
    ASSUME answer' = Silent
    PROVE  ServedWhole'
BY DEF Silent, NoAnswer, ServedWhole

\* A response of all values is one of whole runs, and a row whose manifest the
\* reader has not seen was published since the reader looked.
LEMMA ResponseServed ==
    ASSUME Inv, NEW r \in Readers, NEW status, NEW rows, Respond(r, status, rows),
           UNCHANGED <<runs, values>>,
           status = "ok" => rows = values,
           status = "orphan" => Orphans(r) # {}
    PROVE  ServedWhole'
<1>1. RunsInv /\ ValuesInv
  BY DEF Inv
<1>2. answer'[r] = [status |-> status, rows |-> rows, seen |-> seen[r]]
  BY DEF Respond, Silent
<1>3. \A q \in Readers : q # r => answer'[q].status = "none"
  BY DEF Respond, Silent, NoAnswer
<1>4. ASSUME status = "ok", NEW run \in runs, NEW v \in rows, v.run = run.id
      PROVE  RowsOf(run.id, run.report) \subseteq rows
  <2>1. run.report = ReportOf(run.id)
    BY <1>1 DEF RunsInv
  <2> QED BY <1>1, <1>4, <2>1 DEF ValuesInv
<1>5. ASSUME status = "orphan" PROVE RunIds # seen[r]
  <2>1. PICK v \in values : v.run \notin seen[r]
    BY <1>5 DEF Orphans
  <2> QED BY <1>1, <2>1 DEF ValuesInv
<1>6. RunIds' = RunIds
  BY DEF RunIds
<1> SUFFICES ASSUME NEW q \in Readers
             PROVE  /\ answer'[q].status = "ok" =>
                          \A run \in runs' :
                              (\E v \in answer'[q].rows : v.run = run.id)
                                  => RowsOf(run.id, run.report) \subseteq answer'[q].rows
                    /\ answer'[q].status = "orphan" => RunIds' # answer'[q].seen
  BY DEF ServedWhole, RowsOf
<1>7. CASE q # r
  BY <1>3, <1>7
<1>8. CASE q = r
  BY <1>2, <1>4, <1>5, <1>6, <1>8
<1> QED BY <1>7, <1>8

\* The status of a report file, as it is served.
LEMMA ReportStatus ==
    ASSUME NEW state \in FileStates
    PROVE  (CASE state = "none" -> "not_found"
              [] state = "whole" -> "report"
              [] state = "torn" -> "torn") \in {"not_found", "report", "torn"}
<1>1. CASE state = "none"
  BY <1>1, Zenon
<1>2. CASE state = "whole"
  BY <1>2, Zenon
<1>3. CASE state = "torn"
  BY <1>3, Zenon
<1> QED BY <1>1, <1>2, <1>3 DEF FileStates

\* Every step keeps the promise of the API.
LEMMA NextServed ==
    ASSUME Inv, [Next]_vars
    PROVE  ServedWhole'
<1>1. CASE UNCHANGED vars
  <2>1. UNCHANGED <<answer, runs, values>> /\ ServedWhole
    BY <1>1 DEF vars, gold, Inv
  <2>2. RunIds' = RunIds
    BY <2>1 DEF RunIds
  <2> QED BY <2>1, <2>2 DEF ServedWhole, RowsOf
<1>2. CASE answer' = Silent
  BY <1>2, SilentServed
<1>3. CASE Request
  <2>1. UNCHANGED <<runs, values>>
    BY <1>3, RequestFacts DEF gold
  <2>2. PICK r \in Readers : Refuse(r) \/ ReadRuns(r) \/ ReadValues(r)
                             \/ \E f \in Files : GetReport(r, f)
    BY <1>3, RequestFacts
  <2>3. CASE Refuse(r)
    BY <2>1, <2>3, ResponseServed DEF Refuse
  <2>4. CASE ReadRuns(r)
    <3>1. Respond(r, "no_table", {}) \/ answer' = Silent
      BY <2>4 DEF ReadRuns
    <3> QED BY <2>1, <3>1, ResponseServed, SilentServed
  <2>5. CASE ReadValues(r)
    <3>1. \/ Respond(r, "no_table", {})
          \/ Orphans(r) # {} /\ Respond(r, "orphan", {})
          \/ Respond(r, "ok", values)
      BY <2>5 DEF ReadValues
    <3> QED BY <2>1, <3>1, ResponseServed
  <2>6. ASSUME NEW f \in Files, GetReport(r, f) PROVE ServedWhole'
    <3> DEFINE status == CASE final[f] = "none" -> "not_found"
                           [] final[f] = "whole" -> "report"
                           [] final[f] = "torn" -> "torn"
    <3>1. final[f] \in FileStates
      BY DEF Inv, TypeOK
    <3>2. status \in {"not_found", "report", "torn"}
      BY <3>1, ReportStatus
    <3>3. Respond(r, status, {})
      BY <2>6, Zenon DEF GetReport
    <3> HIDE DEF status
    <3> QED BY <2>1, <3>2, <3>3, ResponseServed
  <2> QED BY <2>2, <2>3, <2>4, <2>5, <2>6
<1> QED BY <1>1, <1>2, <1>3, NextCases

-----------------------------------------------------------------------------
(* Types. *)

\* A step that ends a pass keeps the types of its variables.
LEMMA EndType ==
    ASSUME TypeOK, ComputedIsFunction, NEW p \in Passes, NEW how \in Phases, End(p, how)
    PROVE  /\ pc' \in [Passes -> Phases]
           /\ pin' \in [Passes -> 0..size]
           /\ format' \in [Passes -> Formats]
           /\ fd' \in [Passes -> {"closed", "tmp", "final", "unlinked"}]
           /\ ComputedIsFunction'
<1>1. size \in Nat
  BY SilversAssumption DEF TypeOK
<1>2. ComputedIsFunction'
  BY DEF End, Forget, ComputedIsFunction
<1> QED BY <1>1, <1>2 DEF TypeOK, End, GoTo, Forget, Formats

\* A pass that runs works on a file of its version.
LEMMA FileType ==
    ASSUME Inv, NEW p \in Passes, pc[p] \notin Ended
    PROVE  File(p) \in Files
<1>1. TypeOK /\ pin[p] \in 1..size
  BY DEF Inv, PassInv
<1> QED BY <1>1, VersionsExist DEF File, Files, TypeOK

\* The steps of a pass keep the types.
LEMMA StepType ==
    ASSUME Inv, NEW p \in Passes, Pin(p) \/ Step(p) \/ Kill(p)
    PROVE  TypeOK' /\ ComputedIsFunction'
<1>1. TypeOK /\ ComputedIsFunction /\ PassInv(p) /\ size \in Nat /\ silver' = silver
      /\ size' = size /\ seen' = seen
  BY SilversAssumption DEF Inv, TypeOK, Pin, Step, ReadSilver, AppendFacts, AppendRun,
     AppendValues, OpenTmp, WriteTmp, ReplaceFile, ReplaceLost, Kill
<1> DEFINE Locals == /\ pc' \in [Passes -> Phases]
                     /\ pin' \in [Passes -> 0..size]
                     /\ format' \in [Passes -> Formats]
                     /\ fd' \in [Passes -> {"closed", "tmp", "final", "unlinked"}]
                     /\ ComputedIsFunction'
           Tables == RunIds' \subseteq Versions /\ \A v \in values' : v.run \in Versions
           Files2 == tmp' \in [Files -> FileStates] /\ final' \in [Files -> FileStates]
<1> SUFFICES Locals /\ Tables /\ Files2 /\ faults' \in 0..MaxFaults
  BY <1>1 DEF TypeOK
<1>2. Ended \subseteq Phases /\ {"read", "facts", "runs", "values", "open", "write", "replace"}
         \subseteq Phases
  BY DEF Phases
<1>3. ASSUME NEW how \in Ended, End(p, how) PROVE Locals
  BY <1>1, <1>2, <1>3, EndType
<1>4. ASSUME UNCHANGED <<runs, values>> PROVE Tables
  BY <1>1, <1>4 DEF TypeOK, RunIds
<1>5. ASSUME UNCHANGED <<tmp, final>> PROVE Files2
  BY <1>1, <1>5 DEF TypeOK
<1>6. ASSUME faults' = faults PROVE faults' \in 0..MaxFaults
  BY <1>1, <1>6 DEF TypeOK
<1>7. ASSUME NEW where \in Phases, GoTo(p, where), UNCHANGED local PROVE Locals
  <2>1. pc' \in [Passes -> Phases]
    BY <1>1, <1>7 DEF TypeOK, GoTo
  <2>2. ComputedIsFunction'
    BY <1>1, <1>7 DEF ComputedIsFunction, local
  <2> QED BY <1>1, <1>7, <2>1, <2>2 DEF TypeOK, local
<1>8. CASE Pin(p)
  <2>1. ComputedIsFunction'
    BY <1>1, <1>8 DEF ComputedIsFunction, Pin
  <2>2. Locals
    BY <1>1, <1>2, <1>8, <2>1 DEF TypeOK, Pin, GoTo
  <2> QED BY <1>4, <1>5, <1>6, <1>8, <2>2 DEF Pin, gold, disk
<1>9. CASE ReadSilver(p)
  <2> DEFINE events == EventsUpTo(silver, VersionRead(p))
             found == Facts(events, Period)
  <2>1. CASE Malformed(events, Period)
    <3>1. End(p, "malformed")
      BY <1>9, <2>1 DEF ReadSilver
    <3>2. Locals
      BY <1>3, <3>1 DEF Ended
    <3> QED BY <1>4, <1>5, <1>6, <1>9, <3>2 DEF ReadSilver, gold, disk
  <2>2. CASE ~Malformed(events, Period)
    <3>1. /\ computed' = [computed EXCEPT ![p] =
                [facts |-> found, rows |-> ValueRows(Registry, events, Period)]]
          /\ GoTo(p, IF found = {} THEN "runs" ELSE "facts")
          /\ UNCHANGED <<pin, format, fd>>
      BY <1>9, <2>2 DEF ReadSilver
    <3> HIDE DEF found
    <3>2. ComputedIsFunction'
      BY <1>1, <3>1 DEF ComputedIsFunction
    <3>3. Locals
      BY <1>1, <1>2, <3>1, <3>2 DEF TypeOK, GoTo
    <3> QED BY <1>4, <1>5, <1>6, <1>9, <3>3 DEF ReadSilver, gold, disk
  <2> QED BY <2>1, <2>2
<1>10. CASE AppendFacts(p)
  <2>1. End(p, "conflict") \/ (GoTo(p, "runs") /\ UNCHANGED local)
    BY <1>10 DEF AppendFacts
  <2>2. Locals
    BY <1>2, <1>3, <1>7, <2>1 DEF Ended
  <2> QED BY <1>4, <1>5, <1>6, <1>10, <2>2 DEF AppendFacts, disk
<1>11. CASE AppendRun(p)
  <2>1. \/ End(p, "mismatch") /\ runs' = runs
        \/ GoTo(p, "values") /\ UNCHANGED local
           /\ runs' = runs \cup {[id |-> pin[p], report |-> Report(p)]}
    BY <1>11 DEF AppendRun
  <2>2. Locals
    BY <1>2, <1>3, <1>7, <2>1 DEF Ended
  <2>3. pin[p] \in Versions
    BY <1>1, <1>11, VersionsExist DEF AppendRun, PassInv, Ended
  <2>4. \A r \in runs : r.id \in Versions
    BY <1>1 DEF TypeOK, RunIds
  <2>5. RunIds' \subseteq Versions
    BY <2>1, <2>3, <2>4 DEF RunIds
  <2>6. Tables
    BY <1>1, <1>11, <2>5 DEF AppendRun, TypeOK
  <2> QED BY <1>5, <1>6, <1>11, <2>2, <2>6 DEF AppendRun, disk
<1>12. CASE AppendValues(p)
  <2>1. \/ End(p, "mismatch") /\ values' = values
        \/ GoTo(p, "open") /\ UNCHANGED local
           /\ values' = values \cup RowsOf(pin[p], Report(p))
    BY <1>12 DEF AppendValues
  <2>2. Locals
    BY <1>2, <1>3, <1>7, <2>1 DEF Ended
  <2>3. pin[p] \in Versions
    BY <1>1, <1>12, VersionsExist DEF AppendValues, PassInv, Ended
  <2>4. \A v \in values' : v.run \in Versions
    BY <1>1, <2>1, <2>3, RowsCarryRun DEF TypeOK
  <2>5. Tables
    BY <1>1, <1>12, <2>4 DEF AppendValues, TypeOK, RunIds
  <2> QED BY <1>5, <1>6, <1>12, <2>2, <2>5 DEF AppendValues, disk
<1>13. CASE OpenTmp(p) \/ WriteTmp(p)
  <2>1. ComputedIsFunction'
    BY <1>1, <1>13 DEF ComputedIsFunction, OpenTmp, WriteTmp
  <2>2. Locals
    BY <1>1, <1>2, <1>13, <2>1 DEF TypeOK, OpenTmp, WriteTmp, GoTo
  <2>3. File(p) \in Files
    BY <1>13, FileType DEF OpenTmp, WriteTmp, Ended
  <2>4. Files2
    BY <1>1, <1>13, <2>3 DEF TypeOK, OpenTmp, WriteTmp, FileStates
  <2> QED BY <1>4, <1>6, <1>13, <2>2, <2>4 DEF OpenTmp, WriteTmp, gold
<1>14. CASE ReplaceFile(p)
  <2>1. File(p) \in Files
    BY <1>14, FileType DEF ReplaceFile, Ended
  <2>2. Files2
    BY <1>1, <1>14, <2>1 DEF TypeOK, ReplaceFile, FileStates
  <2>3. fd' \in [Passes -> {"closed", "tmp", "final", "unlinked"}]
    BY <1>1, <1>14, RenamedType DEF ReplaceFile
  <2>4. Locals
    <3>1. CASE format[p] = "json"
      <4>1. ComputedIsFunction'
        BY <1>1, <1>14, <3>1 DEF ComputedIsFunction, ReplaceFile
      <4> QED BY <1>1, <1>2, <1>14, <2>3, <3>1, <4>1 DEF TypeOK, ReplaceFile, GoTo, Formats
    <3>2. CASE format[p] # "json"
      <4>1. GoTo(p, "done") /\ Forget(p)
        BY <1>14, <3>2 DEF ReplaceFile
      <4>2. ComputedIsFunction'
        BY <1>1, <4>1 DEF ComputedIsFunction, Forget
      <4> QED BY <1>1, <1>2, <2>3, <4>1, <4>2 DEF TypeOK, GoTo, Forget, Formats, Ended
    <3> QED BY <3>1, <3>2
  <2> QED BY <1>4, <1>6, <1>14, <2>2, <2>4 DEF ReplaceFile, gold
<1>15. CASE ReplaceLost(p)
  <2>1. Locals
    BY <1>3, <1>15 DEF ReplaceLost, Ended
  <2> QED BY <1>4, <1>5, <1>6, <1>15, <2>1 DEF ReplaceLost, gold, disk
<1>16. CASE Kill(p)
  <2>1. Locals
    BY <1>3, <1>16 DEF Kill, Ended
  <2>2. faults' \in 0..MaxFaults
    BY <1>1, <1>16, BoundsAssumption DEF Kill, TypeOK
  <2> QED BY <1>4, <1>5, <1>16, <2>1, <2>2 DEF Kill, gold, disk
<1> QED BY <1>8, <1>9, <1>10, <1>11, <1>12, <1>13, <1>14, <1>15, <1>16 DEF Step

\* Every step keeps the types.
LEMMA NextType ==
    ASSUME Inv, [Next]_vars
    PROVE  TypeOK' /\ ComputedIsFunction'
<1>1. TypeOK /\ ComputedIsFunction
  BY DEF Inv
<1>2. CASE UNCHANGED vars
  <2>1. ComputedIsFunction'
    BY <1>1, <1>2 DEF vars, local, ComputedIsFunction
  <2> QED BY <1>1, <1>2, <2>1 DEF vars, gold, disk, local, TypeOK, RunIds
<1>3. CASE Grow
  <2>1. /\ size' = size + 1 /\ size < Len(silver)
        /\ UNCHANGED <<silver, runs, values, tmp, final, pc, pin, computed, format, fd, seen,
                       faults>>
    BY <1>3 DEF Grow, gold, disk, local
  <2>2. size \in Nat /\ Len(silver) \in Nat
    BY <1>1, SilversAssumption DEF TypeOK
  <2>3. pin' \in [Passes -> 0..size'] /\ size' \in 0..Len(silver')
    BY <1>1, <2>1, <2>2 DEF TypeOK
  <2>4. ComputedIsFunction'
    BY <1>1, <2>1 DEF ComputedIsFunction
  <2> QED BY <1>1, <2>1, <2>3, <2>4 DEF TypeOK, RunIds
<1>4. CASE Request
  <2>1. UNCHANGED <<silver, size, gold, disk, pc, local, faults>>
    BY <1>4, RequestFacts
  <2>2. PICK r \in Readers : \/ UNCHANGED seen
                             \/ seen' = [seen EXCEPT ![r] = RunIds]
                             \/ seen' = [seen EXCEPT ![r] = {}]
    BY <1>4, RequestFacts DEF Refuse, ReadRuns, ReadValues, GetReport
  <2>3. seen' \in [Readers -> SUBSET Versions]
    BY <1>1, <2>2 DEF TypeOK
  <2>4. ComputedIsFunction'
    BY <1>1, <2>1 DEF local, ComputedIsFunction
  <2> QED BY <1>1, <2>1, <2>3, <2>4 DEF gold, disk, local, TypeOK, RunIds
<1> QED BY <1>2, <1>3, <1>4, StepType, NextCases DEF Assembly

\* The invariant holds when nothing has been published.
LEMMA InitInv == Init => Inv
<1> SUFFICES ASSUME Init PROVE Inv
  OBVIOUS
<1>1. Len(silver) \in Nat
  BY SilversAssumption DEF Init
<1>2. TypeOK
  <2>1. RunIds \subseteq Versions /\ \A v \in values : v.run \in Versions
    BY DEF Init, RunIds
  <2>2. tmp \in [Files -> FileStates] /\ final \in [Files -> FileStates]
    BY DEF Init, FileStates
  <2>3. pc \in [Passes -> Phases] /\ format \in [Passes -> Formats]
    BY DEF Init, Phases, Ended, Formats
  <2> QED BY <1>1, <2>1, <2>2, <2>3, BoundsAssumption DEF Init, TypeOK
<1>3. ComputedIsFunction
  BY DEF Init, ComputedIsFunction
<1>4. \A p \in Passes : PassInv(p)
  BY DEF Init, PassInv, Ended, Computing, Announced, Reporting
<1>5. RunsInv /\ ValuesInv /\ RunsServed /\ ReportBacked
  BY DEF Init, RunsInv, ValuesInv, RunsServed, ReportBacked
<1>6. ServedWhole
  BY DEF Init, NoAnswer, ServedWhole
<1> QED BY <1>2, <1>3, <1>4, <1>5, <1>6 DEF Inv

\* Every step keeps the invariant.
LEMMA NextInv == Inv /\ [Next]_vars => Inv'
<1> SUFFICES ASSUME Inv, [Next]_vars PROVE Inv'
  OBVIOUS
<1>1. PassesInv'
  <2>1. CASE Assembly
    BY <2>1, AssemblyInv
  <2>2. CASE Request \/ UNCHANGED vars
    <3>1. UNCHANGED <<silver, size, runs, values, final, pc, pin, computed, faults>>
      BY <2>2, RequestFacts DEF vars, gold, disk, local
    <3>2. size' \in Nat /\ size <= size'
      BY <3>1, SilversAssumption DEF Inv, TypeOK
    <3> QED BY <3>1, <3>2, AsideInv
  <2> QED BY <2>1, <2>2, NextCases
<1>2. TypeOK' /\ ComputedIsFunction'
  BY NextType
<1>3. ServedWhole'
  BY NextServed
<1> QED BY <1>1, <1>2, <1>3 DEF Inv, PassesInv

-----------------------------------------------------------------------------
(* The report files. *)

\* A pass has file f open under a name.
Holds(p, f, name) == pc[p] = "write" /\ File(p) = f /\ fd[p] = name

\* A torn file is open under the name it has, unless a pass was killed.
TornInv ==
    faults = 0 => \A f \in Files :
        /\ tmp[f] = "torn" => \E p \in Passes : Holds(p, f, "tmp")
        /\ final[f] = "torn" => \E p \in Passes : Holds(p, f, "final")

\* The step leaves the files of pass q open.
Leaves(q) ==
    pc'[q] = pc[q] /\ pin'[q] = pin[q] /\ format'[q] = format[q] /\ fd'[q] = fd[q]

LEMMA StaysOpen ==
    ASSUME NEW q \in Passes, Leaves(q), NEW f, NEW name, Holds(q, f, name)
    PROVE  Holds(q, f, name)'
BY DEF Leaves, Holds, File

\* A step that writes no file, and is not of a pass that has one open.
LEMMA NothingTorn ==
    ASSUME TornInv, UNCHANGED <<tmp, final, faults>>,
           \A q \in Passes : pc[q] # "write" \/ Leaves(q)
    PROVE  TornInv'
<1> SUFFICES ASSUME faults = 0, NEW f \in Files
             PROVE  /\ tmp[f] = "torn" => \E p \in Passes : Holds(p, f, "tmp")'
                    /\ final[f] = "torn" => \E p \in Passes : Holds(p, f, "final")'
  BY DEF TornInv
<1>1. \A q \in Passes : Holds(q, f, "tmp") => Holds(q, f, "tmp")'
  BY StaysOpen DEF Holds
<1>2. \A q \in Passes : Holds(q, f, "final") => Holds(q, f, "final")'
  BY StaysOpen DEF Holds
<1> QED BY <1>1, <1>2 DEF TornInv

\* The steps of a pass between its files.
LEMMA BetweenFiles ==
    ASSUME TypeOK, TornInv, NEW p \in Passes,
           \/ Pin(p) \/ ReadSilver(p) \/ AppendFacts(p)
           \/ AppendRun(p) \/ AppendValues(p) \/ ReplaceLost(p)
    PROVE  TornInv'
<1>1. UNCHANGED <<tmp, final, faults>> /\ pc[p] # "write"
  BY DEF Pin, ReadSilver, AppendFacts, AppendRun, AppendValues, ReplaceLost, disk, Ended
<1>2. \A q \in Passes \ {p} : Leaves(q)
  <2>1. ASSUME NEW how, End(p, how), NEW q \in Passes \ {p}
        PROVE  Leaves(q)
    BY <2>1 DEF End, GoTo, Forget, Leaves, TypeOK
  <2>2. ASSUME NEW where, GoTo(p, where), UNCHANGED <<pin, format, fd>>,
               NEW q \in Passes \ {p}
        PROVE  Leaves(q)
    BY <2>2 DEF GoTo, Leaves, TypeOK
  <2>3. CASE Pin(p)
    BY <2>3 DEF Pin, GoTo, Leaves, TypeOK
  <2>4. CASE ReadSilver(p)
    BY <2>1, <2>2, <2>4 DEF ReadSilver
  <2>5. CASE AppendFacts(p) \/ AppendRun(p) \/ AppendValues(p)
    BY <2>1, <2>2, <2>5 DEF AppendFacts, AppendRun, AppendValues, local
  <2>6. CASE ReplaceLost(p)
    BY <2>1, <2>6 DEF ReplaceLost
  <2> QED BY <2>3, <2>4, <2>5, <2>6
<1>3. \A q \in Passes : pc[q] # "write" \/ Leaves(q)
  BY <1>1, <1>2
<1> QED BY <1>1, <1>3, NothingTorn

\* A file that is opened is torn, and its pass has it open.
LEMMA OpenedTorn ==
    ASSUME TypeOK, TornInv, NEW p \in Passes, OpenTmp(p)
    PROVE  TornInv'
<1> SUFFICES ASSUME faults = 0, NEW f \in Files
             PROVE  /\ tmp'[f] = "torn" => \E q \in Passes : Holds(q, f, "tmp")'
                    /\ final'[f] = "torn" => \E q \in Passes : Holds(q, f, "final")'
  BY DEF TornInv, OpenTmp
<1>1. /\ pc[p] = "open" /\ pc' = [pc EXCEPT ![p] = "write"] /\ fd' = [fd EXCEPT ![p] = "tmp"]
      /\ tmp' = [tmp EXCEPT ![File(p)] = "torn"] /\ UNCHANGED <<final, pin, format>>
  BY DEF OpenTmp, GoTo
<1>2. f = File(p) => Holds(p, f, "tmp")'
  BY <1>1 DEF Holds, File, TypeOK
<1>3. \A q \in Passes : \A name : Holds(q, f, name) => Holds(q, f, name)'
  <2> SUFFICES ASSUME NEW q \in Passes, NEW name, Holds(q, f, name)
               PROVE  Holds(q, f, name)'
    OBVIOUS
  <2>1. q # p
    BY <1>1 DEF Holds
  <2>2. Leaves(q)
    BY <1>1, <2>1 DEF Leaves, TypeOK
  <2> QED BY <2>2, StaysOpen
<1>4. final[f] = "torn" => \E q \in Passes : Holds(q, f, "final")'
  BY <1>3 DEF TornInv
<1>5. CASE f = File(p)
  BY <1>1, <1>2, <1>4, <1>5
<1>6. CASE f # File(p)
  <2>1. tmp'[f] = tmp[f]
    BY <1>1, <1>6 DEF TypeOK
  <2>2. tmp[f] = "torn" => \E q \in Passes : Holds(q, f, "tmp")'
    BY <1>3 DEF TornInv
  <2> QED BY <1>1, <1>4, <2>1, <2>2
<1> QED BY <1>5, <1>6

\* A file that is written is whole; the others stay open as they are.
LEMMA WrittenWhole ==
    ASSUME TypeOK, TornInv, NEW p \in Passes, WriteTmp(p)
    PROVE  TornInv'
<1> SUFFICES ASSUME faults = 0, NEW f \in Files
             PROVE  /\ tmp'[f] = "torn" => \E q \in Passes : Holds(q, f, "tmp")'
                    /\ final'[f] = "torn" => \E q \in Passes : Holds(q, f, "final")'
  BY DEF TornInv, WriteTmp
<1>1. /\ pc' = [pc EXCEPT ![p] = "replace"] /\ fd' = [fd EXCEPT ![p] = "closed"]
      /\ UNCHANGED <<pin, format>>
  BY DEF WriteTmp, GoTo
<1>2. ASSUME NEW q \in Passes, NEW name, Holds(q, f, name), q # p
      PROVE  Holds(q, f, name)'
  <2>1. Leaves(q)
    BY <1>1, <1>2 DEF Leaves, TypeOK
  <2> QED BY <1>2, <2>1, StaysOpen
<1>3. /\ tmp'[f] = "torn" => tmp[f] = "torn" /\ ~(f = File(p) /\ fd[p] = "tmp")
      /\ final'[f] = "torn" => final[f] = "torn" /\ ~(f = File(p) /\ fd[p] = "final")
  BY DEF WriteTmp, TypeOK
<1>4. ASSUME tmp'[f] = "torn" PROVE \E q \in Passes : Holds(q, f, "tmp")'
  <2>1. PICK q \in Passes : Holds(q, f, "tmp")
    BY <1>3, <1>4 DEF TornInv
  <2> QED BY <1>2, <1>3, <1>4, <2>1 DEF Holds
<1>5. ASSUME final'[f] = "torn" PROVE \E q \in Passes : Holds(q, f, "final")'
  <2>1. PICK q \in Passes : Holds(q, f, "final")
    BY <1>3, <1>5 DEF TornInv
  <2> QED BY <1>2, <1>3, <1>5, <2>1 DEF Holds
<1> QED BY <1>4, <1>5

\* Whoever has the temporary file open goes on to write what it became.
LEMMA RenamedOpen ==
    ASSUME TypeOK, TornInv, NEW p \in Passes, ReplaceFile(p)
    PROVE  TornInv'
<1> SUFFICES ASSUME faults = 0, NEW f \in Files
             PROVE  /\ tmp'[f] = "torn" => \E q \in Passes : Holds(q, f, "tmp")'
                    /\ final'[f] = "torn" => \E q \in Passes : Holds(q, f, "final")'
  BY DEF TornInv, ReplaceFile
<1>1. /\ pc[p] = "replace" /\ tmp' = [tmp EXCEPT ![File(p)] = "none"]
      /\ final' = [final EXCEPT ![File(p)] = tmp[File(p)]]
      /\ fd' = [q \in Passes |-> Renamed(q, File(p))]
  BY DEF ReplaceFile
<1>2. \A q \in Passes \ {p} :
          pc'[q] = pc[q] /\ pin'[q] = pin[q] /\ format'[q] = format[q] /\ File(q)' = File(q)
  BY DEF ReplaceFile, GoTo, Forget, File, TypeOK
<1>3. CASE f = File(p)
  <2>1. tmp'[f] # "torn" /\ final'[f] = tmp[f]
    BY <1>1, <1>3 DEF TypeOK
  <2>2. ASSUME tmp[f] = "torn" PROVE \E q \in Passes : Holds(q, f, "final")'
    <3>1. PICK q \in Passes : Holds(q, f, "tmp")
      BY <2>2 DEF TornInv
    <3>2. q # p
      BY <1>1, <3>1 DEF Holds
    <3>3. Renamed(q, File(p)) = "final"
      BY <1>3, <3>1, Zenon DEF Renamed, Holds
    <3> QED BY <1>1, <1>2, <3>1, <3>2, <3>3 DEF Holds
  <2> QED BY <2>1, <2>2
<1>4. CASE f # File(p)
  <2>1. tmp'[f] = tmp[f] /\ final'[f] = final[f]
    BY <1>1, <1>4 DEF TypeOK
  <2>2. ASSUME NEW q \in Passes, NEW name, Holds(q, f, name)
        PROVE  Holds(q, f, name)'
    <3>1. q # p
      BY <1>1, <2>2 DEF Holds
    <3>2. Renamed(q, File(p)) = fd[q]
      BY <1>4, <2>2, Zenon DEF Renamed, Holds
    <3> QED BY <1>1, <1>2, <2>2, <3>1, <3>2 DEF Holds
  <2> QED BY <2>1, <2>2 DEF TornInv
<1> QED BY <1>3, <1>4

\* No step leaves a torn file that nobody is about to complete.
LEMMA NextTorn == Inv /\ TornInv /\ [Next]_vars => TornInv'
<1> SUFFICES ASSUME Inv, TornInv, [Next]_vars PROVE TornInv'
  OBVIOUS
<1>1. TypeOK
  BY DEF Inv
<1>2. CASE Grow \/ Request \/ UNCHANGED vars
  <2>1. UNCHANGED <<tmp, final, faults, pc, pin, format, fd>>
    BY <1>2, RequestFacts DEF Grow, vars, disk, local
  <2>2. \A q \in Passes : pc[q] # "write" \/ Leaves(q)
    BY <2>1 DEF Leaves
  <2> QED BY <2>1, <2>2, NothingTorn
<1>3. ASSUME NEW p \in Passes, Pin(p) \/ Step(p) PROVE TornInv'
  BY <1>1, <1>3, BetweenFiles, OpenedTorn, WrittenWhole, RenamedOpen DEF Step
<1>4. ASSUME NEW p \in Passes, Kill(p) PROVE TornInv'
  <2>1. faults \in Nat /\ faults' = faults + 1
    BY <1>1, <1>4, BoundsAssumption DEF Kill, TypeOK
  <2>2. faults' # 0
    BY <2>1
  <2> QED BY <2>2 DEF TornInv
<1> QED BY <1>2, <1>3, <1>4, NextCases DEF Assembly

\* The inductive invariant holds in every reachable state.
THEOREM Inductive == Spec => []Inv
BY InitInv, NextInv, PTL DEF Spec

\* Every variable keeps its type: only versions that exist are pinned and
\* published.
THEOREM TypeCorrect == Spec => []TypeOK
<1>1. Inv => TypeOK
  BY DEF Inv
<1> QED BY <1>1, Inductive, PTL

\* No value row is in the table without its manifest, and a manifest lacks
\* its values only while a pass is about to append them, or if one was
\* killed, for any number of passes.
THEOREM ManifestBeforeValues == Spec => []ManifestFirst
<1>1. Inv => ManifestFirst
  BY DEF Inv, ValuesInv, RunsServed, ManifestFirst
<1> QED BY <1>1, Inductive, PTL

\* A report file, torn or whole, stands for a run that is published whole,
\* whichever pass wrote it under whatever name.
THEOREM ReportsBacked == Spec => []ReportBacked
<1>1. Inv => ReportBacked
  BY DEF Inv
<1> QED BY <1>1, Inductive, PTL

\* Without a kill, a report that is torn is open in a pass that goes on to
\* write it, however many passes share its temporary file.
THEOREM TornReportsHeal == Spec => []TornHeals
<1>1. Init => TornInv
  BY DEF Init, TornInv
<1>2. TornInv => TornHeals
  BY DEF TornInv, Holds, TornHeals
<1> QED BY <1>1, <1>2, NextTorn, Inductive, PTL DEF Spec

\* A replayed version reproduces its run: append_rows never refuses its rows,
\* and its manifest is that of the pinned version.
THEOREM ReplaysAgree == Spec => []ReplayAgrees
<1>1. Inv => ReplayAgrees
  <2> SUFFICES ASSUME Inv PROVE ReplayAgrees
    OBVIOUS
  <2>1. ASSUME NEW p \in Passes, NEW r \in runs, r.id = pin[p]
        PROVE  r.report = ValueRows(Registry, EventsUpTo(silver, pin[p]), Period)
    BY <2>1 DEF Inv, RunsInv, ReportOf
  <2>2. \A p \in Passes : pc[p] # "mismatch"
    BY DEF Inv, PassInv
  <2> QED BY <2>1, <2>2 DEF ReplayAgrees
<1> QED BY <1>1, Inductive, PTL

\* A response holds all rows of every run it mentions, and a request fails for
\* an unknown run only if a run was published while it was being served, for
\* any number of readers and passes.
THEOREM ResponsesWhole == Spec => []ServedWhole
<1>1. Inv => ServedWhole
  BY DEF Inv
<1> QED BY <1>1, Inductive, PTL


\* What a pass is about to compute from is a version of the silver table.
LEMMA ReadSound == Inv => \A events \in BeingRead : Sound(events)
<1> SUFFICES ASSUME Inv, NEW p \in Passes PROVE Sound(EventsUpTo(silver, pin[p]))
  BY DEF BeingRead
<1>1. silver \in Silvers /\ pin[p] \in 0 .. size /\ size \in 0 .. Len(silver)
  BY DEF Inv, TypeOK
<1>2. Len(silver) \in Nat
  BY <1>1, SilversAssumption
<1>3. pin[p] \in 0 .. Len(silver)
  BY <1>1, <1>2
<1> QED BY <1>1, <1>3, VersionSound

\* The status of a merged port call is the one of its latest event, in whatever
\* order and however often the events reached the silver table
\* (assemble_port_call_facts).
THEOREM StatusesMerged == Spec => []StatusMerged
<1>1. Inv => StatusMerged
  BY ReadSound, LatestDecides DEF StatusMerged
<1> QED BY <1>1, Inductive, PTL

\* Gate turnaround is taken over exactly the gate-outs that follow a gate-in of
\* the same truck at the same terminal, and its median splits them, in whatever
\* order the scans reached the silver table (_gate_durations_minutes,
\* percentile_linear).
THEOREM GatesArePaired == Spec => []GatesPaired
<1>1. ASSUME Inv PROVE GatesPaired
  <2> SUFFICES ASSUME NEW events \in BeingRead
               PROVE  LET scans == GateScans(events, Period)
                          durations == GateDurations(scans)
                      IN /\ GatesAgree(scans)
                         /\ \A p \in PortsOf(durations) : QuantilesOrdered(AtPort(durations, p))
    BY DEF GatesPaired
  <2> DEFINE scans == GateScans(events, Period)
             durations == GateDurations(scans)
  <2>1. ScanSet(scans)
    BY <1>1, ReadSound, GateScansSound
  <2> HIDE DEF scans
  <2>2. GatesAgree(scans) /\ Countable(durations)
    BY <2>1, GatesAgreed, DurationsCountable
  <2> HIDE DEF durations
  <2>3. ASSUME NEW p PROVE QuantilesOrdered(AtPort(durations, p))
    <3>1. Countable(AtPort(durations, p))
      BY <2>2, Counts DEF AtPort, Countable
    <3> QED BY <3>1, QuantilesSplit
  <2> QED BY <2>2, <2>3 DEF durations, scans
<1> QED BY <1>1, Inductive, PTL

\* Whatever the silver table holds, emit_value_rows has one row for each KPI,
\* port and segment, counts every call of a port, and has every observation that
\* names a port, and all of them if none does.
THEOREM RowsPerSegment == Spec => []RowPerSegment
<1>1. ASSUME Inv PROVE RowPerSegment
  <2> SUFFICES ASSUME NEW events \in BeingRead
               PROVE  LET facts0 == Facts(events, Period)
                          scans == GateScans(events, Period)
                          bookings == Bookings(events, Period)
                          seenPorts == PortsOf(facts0 \cup scans \cup bookings) \ {NoPort}
                          rows == ValueRows(AllKpis, events, Period)
                      IN /\ SegmentsComplete(rows, facts0, seenPorts)
                         /\ PortsEmitted(rows, Observations(facts0, scans, bookings), seenPorts)
    BY DEF RowPerSegment
  <2>1. Sound(events)
    BY <1>1, ReadSound
  <2>2. NoPort \notin PortsOf(Facts(events, Period)) /\ ScanSet(GateScans(events, Period))
    BY <2>1, FactsNamePort, GateScansSound
  <2> QED BY <2>2, SegmentsAreComplete, AllEmitted
<1> QED BY <1>1, Inductive, PTL
=============================================================================
