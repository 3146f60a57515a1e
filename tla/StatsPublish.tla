---------------------------- MODULE StatsPublish ----------------------------
(***************************************************************************)
(* port_statistics.run_port_statistics, run again and again over a growing *)
(* silver table, and the serving layer stats_api.py that reads what it     *)
(* publishes.  Passes may overlap (README: a retried or overlapping run),  *)
(* and a pass may stop between any two of its writes.                      *)
(*                                                                         *)
(* One period; a version of the silver table is the number of its commits, *)
(* and so the run_id of a pass is the version it pinned.  Appends to the   *)
(* gold tables are atomic (module AppendRows); the report files are not.   *)
(***************************************************************************)
EXTENDS PortIndicators

CONSTANTS Passes,     \* process slots of the gold assembly
          Readers,    \* request threads of the API
          Silvers,    \* the silver contents considered: sequences of commits,
                      \* each of them a sequence of events
          Period,     \* <<start, end>>
          Registry,   \* KPI_DEFINITIONS, or the part of them that is published
          MaxFaults   \* bound: passes that are killed

ASSUME BoundsAssumption == MaxFaults \in Nat
ASSUME SilversAssumption == \A s \in Silvers : Len(s) \in Nat

\* All events of a table.
EventsOf(s) == UNION {ToSet(s[i]) : i \in 1 .. Len(s)}

\* The fields that are read of an event of each type.
EventFields ==
    [call |-> {"call", "port", "status", "fields"},
     scan |-> {"truck", "terminal", "port", "dir"},
     booking |-> {"created", "window", "port", "slots"}]

\* Events are as the assembly accepts them (others make it raise): a port call
\* names its port, and a scan its direction.  An id is that of one event: what
\* is delivered again is the same.
ASSUME EventsAssumption ==
    \A s \in Silvers :
        /\ s \in Seq(Seq(EventsOf(s)))
        /\ \A e \in EventsOf(s) :
              /\ {"type", "id", "at"} \subseteq DOMAIN e
              /\ e.id \in Int /\ e.at \in Int
              /\ e.type \in DOMAIN EventFields => EventFields[e.type] \subseteq DOMAIN e
              /\ e.type = "call" => e.port # NoPort
              /\ e.type = "scan" => e.dir \in {"in", "out"}
        /\ \A e, f \in EventsOf(s) : e.id = f.id => e = f

ASSUME PeriodAssumption == Period \in Nat \X Nat
ASSUME RegistryAssumption == Registry \subseteq AllKpis

VARIABLES
    silver,   \* all commits of the silver table
    size,     \* its current version
    facts,    \* gold port_call_facts
    runs,     \* gold port_kpi_runs: [id, report]
    values,   \* gold port_kpi_values: value rows, with their run
    tmp,      \* per run and format: state of the .tmp file
    final,    \* per run and format: state of the report file
    pc,       \* per pass: where it is
    pin,      \* per pass: the pinned version
    computed, \* per pass: the facts and value rows it computed
    format,   \* per pass: the report file being written
    fd,       \* per pass: the name its open file has by now
    answer,   \* per reader: the response it gave in the latest step
    seen,     \* per reader: the run ids it read, {} when it is idle
    faults    \* counter of the bound

gold == <<facts, runs, values>>
disk == <<tmp, final>>
local == <<pin, computed, format, fd>>
vars == <<silver, size, gold, disk, pc, local, answer, seen, faults>>

Versions == UNION {1..Len(s) : s \in Silvers}
Formats == {"json", "csv"}
Files == Versions \X Formats
FileStates == {"none", "torn", "whole"}
Ended == {"idle", "done", "malformed", "conflict", "mismatch", "lost", "killed"}
Phases == Ended \cup {"read", "facts", "runs", "values", "open", "write", "replace"}

EventsUpTo(commits, n) == FlattenSeq(SubSeq(commits, 1, n))

NothingComputed == [facts |-> {}, rows |-> {}]
NoAnswer == [status |-> "none", rows |-> {}, seen |-> {}]

Init ==
    /\ silver \in Silvers
    /\ size = 0
    /\ facts = {}
    /\ runs = {}
    /\ values = {}
    /\ tmp = [f \in Files |-> "none"]
    /\ final = [f \in Files |-> "none"]
    /\ pc = [p \in Passes |-> "idle"]
    /\ pin = [p \in Passes |-> 0]
    /\ computed = [p \in Passes |-> NothingComputed]
    /\ format = [p \in Passes |-> "json"]
    /\ fd = [p \in Passes |-> "closed"]
    /\ answer = [r \in Readers |-> NoAnswer]
    /\ seen = [r \in Readers |-> {}]
    /\ faults = 0

GoTo(p, where) == pc' = [pc EXCEPT ![p] = where]

\* The pass is over, and what it had in memory is gone.
Forget(p) ==
    /\ pin' = [pin EXCEPT ![p] = 0]
    /\ computed' = [computed EXCEPT ![p] = NothingComputed]
    /\ format' = [format EXCEPT ![p] = "json"]

End(p, how) ==
    /\ GoTo(p, how)
    /\ Forget(p)
    /\ fd' = [fd EXCEPT ![p] = "closed"]

\* The silver table grows.
Grow ==
    /\ size < Len(silver)
    /\ size' = size + 1
    /\ UNCHANGED <<silver, gold, disk, pc, local, seen, faults>>

-----------------------------------------------------------------------------
\* Mutant of Pin: one version too far.
PinNext(p) ==
    /\ pc[p] \in Ended
    /\ size > 0
    /\ pin' = [pin EXCEPT ![p] = IF size < Len(silver) THEN size + 1 ELSE size]
    /\ GoTo(p, "read")
    /\ UNCHANGED <<silver, size, gold, disk, computed, format, fd, seen, faults>>

\* A pass begins and pins the version of the silver table, which exists.
Pin(p) ==
    /\ pc[p] \in Ended
    /\ size > 0
    /\ pin' = [pin EXCEPT ![p] = size]
    /\ GoTo(p, "read")
    /\ UNCHANGED <<silver, size, gold, disk, computed, format, fd, seen, faults>>

\* Mutant of VersionRead: the table is read at its latest version.
VersionNow(p) == size

VersionRead(p) == pin[p]

\* The events are read and everything is computed from them; nothing is
\* written yet.  Without facts the facts table is left alone; events that
\* cannot be computed from end the pass.
ReadSilver(p) ==
    LET events == EventsUpTo(silver, VersionRead(p)) IN
    /\ pc[p] = "read"
    /\ IF Malformed(events, Period)
       THEN End(p, "malformed")
       ELSE LET found == Facts(events, Period) IN
            /\ computed' = [computed EXCEPT ![p] =
                  [facts |-> found, rows |-> ValueRows(Registry, events, Period)]]
            /\ GoTo(p, IF found = {} THEN "runs" ELSE "facts")
            /\ UNCHANGED <<pin, format, fd>>
    /\ UNCHANGED <<silver, size, gold, disk, seen, faults>>

\* The rows as they are stored in port_kpi_values.
RowsOf(run, rows) == {[run |-> run, row |-> row] : row \in rows}

\* The report core: everything but computed_at, so its hash is the report.
Report(p) == computed[p].rows

\* Mutant of AppendFacts: the values are published before the manifest.
AppendFactsAndValues(p) ==
    /\ pc[p] = "facts"
    /\ facts' = facts \cup computed[p].facts
    /\ values' = values \cup RowsOf(pin[p], Report(p))
    /\ GoTo(p, "runs")
    /\ UNCHANGED <<silver, size, runs, disk, local, seen, faults>>

\* append_rows: port_call_id is the key, every other column is guarded.
FactsConflict(p) ==
    \E f \in facts, n \in computed[p].facts : f.call = n.call /\ f # n

AppendFacts(p) ==
    /\ pc[p] = "facts"
    /\ IF FactsConflict(p)
       THEN End(p, "conflict") /\ UNCHANGED facts
       ELSE /\ facts' = facts \cup computed[p].facts
            /\ GoTo(p, "runs")
            /\ UNCHANGED local
    /\ UNCHANGED <<silver, size, runs, values, disk, seen, faults>>

\* Mutant of AppendRun: the report is written before the values.
AppendRunThenReport(p) ==
    /\ pc[p] = "runs"
    /\ runs' = runs \cup {[id |-> pin[p], report |-> Report(p)]}
    /\ GoTo(p, "open")
    /\ UNCHANGED <<silver, size, facts, values, disk, local, seen, faults>>

AppendRun(p) ==
    LET new == [id |-> pin[p], report |-> Report(p)] IN
    /\ pc[p] = "runs"
    /\ IF \E r \in runs : r.id = new.id /\ r # new
       THEN End(p, "mismatch") /\ UNCHANGED runs
       ELSE runs' = runs \cup {new} /\ GoTo(p, "values") /\ UNCHANGED local
    /\ UNCHANGED <<silver, size, facts, values, disk, seen, faults>>

\* Mutant of AppendValues: the rows of one port after the other.
AppendValuesPortwise(p) ==
    LET new == RowsOf(pin[p], Report(p)) IN
    /\ pc[p] = "values"
    /\ IF new \subseteq values
       THEN GoTo(p, "open") /\ UNCHANGED values
       ELSE /\ \E v \in new \ values :
                values' = values \cup {w \in new : w.row.port = v.row.port}
            /\ UNCHANGED pc
    /\ UNCHANGED <<silver, size, facts, runs, disk, local, seen, faults>>

AppendValues(p) ==
    LET new == RowsOf(pin[p], Report(p)) IN
    /\ pc[p] = "values"
    /\ IF \E v \in values, n \in new :
             v.run = n.run /\ ValueKey(v.row) = ValueKey(n.row) /\ v # n
       THEN End(p, "mismatch") /\ UNCHANGED values
       ELSE values' = values \cup new /\ GoTo(p, "open") /\ UNCHANGED local
    /\ UNCHANGED <<silver, size, facts, runs, disk, seen, faults>>

-----------------------------------------------------------------------------
(***************************************************************************)
(* _write_report_artefacts: the file is written under a temporary name,    *)
(* which is the same for every pass with this run_id, and renamed.         *)
(***************************************************************************)
File(p) == <<pin[p], format[p]>>

\* Mutant of OpenTmp: the file is renamed before it is written.
OpenAndRename(p) ==
    /\ pc[p] = "open"
    /\ tmp' = [tmp EXCEPT ![File(p)] = "torn"]
    /\ fd' = [fd EXCEPT ![p] = "tmp"]
    /\ GoTo(p, "replace")
    /\ UNCHANGED <<silver, size, gold, final, pin, computed, format, seen, faults>>

\* The temporary file is opened: it is made, or truncated if it is there.
OpenTmp(p) ==
    /\ pc[p] = "open"
    /\ tmp' = [tmp EXCEPT ![File(p)] = "torn"]
    /\ fd' = [fd EXCEPT ![p] = "tmp"]
    /\ GoTo(p, "write")
    /\ UNCHANGED <<silver, size, gold, final, pin, computed, format, seen, faults>>

\* The text is written and the file closed, whatever its name is by now.
WriteTmp(p) ==
    /\ pc[p] = "write"
    /\ tmp' = [tmp EXCEPT ![File(p)] = IF fd[p] = "tmp" THEN "whole" ELSE @]
    /\ final' = [final EXCEPT ![File(p)] = IF fd[p] = "final" THEN "whole" ELSE @]
    /\ fd' = [fd EXCEPT ![p] = "closed"]
    /\ GoTo(p, "replace")
    /\ UNCHANGED <<silver, size, gold, pin, computed, format, seen, faults>>

\* Where an open file is after the renaming of file f.
Renamed(q, f) ==
    CASE pc[q] = "write" /\ File(q) = f /\ fd[q] = "tmp" -> "final"
      [] pc[q] = "write" /\ File(q) = f /\ fd[q] = "final" -> "unlinked"
      [] OTHER -> fd[q]

\* The temporary file is renamed; the CSV follows the JSON.
ReplaceFile(p) ==
    /\ pc[p] = "replace"
    /\ tmp[File(p)] # "none"
    /\ final' = [final EXCEPT ![File(p)] = tmp[File(p)]]
    /\ tmp' = [tmp EXCEPT ![File(p)] = "none"]
    /\ fd' = [q \in Passes |-> Renamed(q, File(p))]
    /\ IF format[p] = "json"
       THEN /\ format' = [format EXCEPT ![p] = "csv"]
            /\ GoTo(p, "open")
            /\ UNCHANGED <<pin, computed>>
       ELSE GoTo(p, "done") /\ Forget(p)
    /\ UNCHANGED <<silver, size, gold, seen, faults>>

\* Another pass has renamed the temporary file: chmod and replace raise.
ReplaceLost(p) ==
    /\ pc[p] = "replace"
    /\ tmp[File(p)] = "none"
    /\ End(p, "lost")
    /\ UNCHANGED <<silver, size, gold, disk, seen, faults>>

Kill(p) ==
    /\ pc[p] \notin Ended
    /\ faults < MaxFaults
    /\ faults' = faults + 1
    /\ End(p, "killed")
    /\ UNCHANGED <<silver, size, gold, disk, seen>>

-----------------------------------------------------------------------------
(* stats_api. *)

RunIds == {r.id : r \in runs}

\* No reader responds.
Silent == [r \in Readers |-> NoAnswer]

Respond(r, status, rows) ==
    answer' = [Silent EXCEPT ![r] = [status |-> status, rows |-> rows, seen |-> seen[r]]]

\* authenticate or the checks of the query refuse the request: nothing is read.
Refuse(r) ==
    /\ seen[r] = {}
    /\ Respond(r, "refused", {})
    /\ UNCHANGED <<silver, size, gold, disk, pc, local, seen, faults>>

\* query_values reads the manifests first; 503 when there is no table.
ReadRuns(r) ==
    /\ seen[r] = {}
    /\ IF runs = {}
       THEN Respond(r, "no_table", {}) /\ UNCHANGED seen
       ELSE seen' = [seen EXCEPT ![r] = RunIds] /\ answer' = Silent
    /\ UNCHANGED <<silver, size, gold, disk, pc, local, faults>>

\* Value rows whose manifest the reader has not seen.
Orphans(r) == {v \in values : v.run \notin seen[r]}

\* Then the values; a row whose manifest is not known fails the request.
ReadValues(r) ==
    /\ seen[r] # {}
    /\ \/ values = {} /\ Respond(r, "no_table", {})
       \/ Orphans(r) # {} /\ Respond(r, "orphan", {})
       \/ values # {} /\ Orphans(r) = {} /\ Respond(r, "ok", values)
    /\ seen' = [seen EXCEPT ![r] = {}]
    /\ UNCHANGED <<silver, size, gold, disk, pc, local, faults>>

\* get_report serves the file as it is.
GetReport(r, file) ==
    /\ seen[r] = {}
    /\ Respond(r, CASE final[file] = "none" -> "not_found"
                    [] final[file] = "whole" -> "report"
                    [] final[file] = "torn" -> "torn",
               {})
    /\ UNCHANGED <<silver, size, gold, disk, pc, local, seen, faults>>

Step(p) ==
    \/ ReadSilver(p) \/ AppendFacts(p)
    \/ AppendRun(p) \/ AppendValues(p)
    \/ OpenTmp(p) \/ WriteTmp(p) \/ ReplaceFile(p) \/ ReplaceLost(p)

Next ==
    \/ /\ Grow \/ \E p \in Passes : Pin(p) \/ Step(p) \/ Kill(p)
       /\ answer' = Silent
    \/ \E r \in Readers : Refuse(r) \/ ReadRuns(r) \/ ReadValues(r)
    \/ \E r \in Readers, f \in Files : GetReport(r, f)

Spec == Init /\ [][Next]_vars

-----------------------------------------------------------------------------
TypeOK ==
    /\ silver \in Silvers
    /\ size \in 0..Len(silver)
    /\ RunIds \subseteq Versions
    /\ \A v \in values : v.run \in Versions
    /\ tmp \in [Files -> FileStates]
    /\ final \in [Files -> FileStates]
    /\ pc \in [Passes -> Phases]
    /\ pin \in [Passes -> 0..size]
    /\ format \in [Passes -> Formats]
    /\ fd \in [Passes -> {"closed", "tmp", "final", "unlinked"}]
    /\ seen \in [Readers -> SUBSET Versions]
    /\ faults \in 0..MaxFaults

\* A value row is never in the table without its manifest, wherever a pass
\* stops, so the API's "unknown run_id" is never for good; and a manifest
\* lacks its values only before its pass appends them, or if one was killed.
ManifestFirst ==
    /\ \A v \in values : v.run \in RunIds
    /\ \A r \in runs :
          \/ RowsOf(r.id, r.report) \subseteq values
          \/ \E p \in Passes : pc[p] = "values" /\ pin[p] = r.id
          \/ faults > 0

\* A report file stands for a run whose manifest and values are published
\* and agree with it, wherever a pass stops.
ReportBacked ==
    \A f \in Files : final[f] # "none" =>
        \E r \in runs : r.id = f[1] /\ RowsOf(r.id, r.report) \subseteq values

\* A report file is incomplete only while a pass still has it open and goes on
\* to write it: overlapping passes over one version share the temporary file,
\* and one may rename what another has truncated, but the other then completes
\* it under its new name.  Only a kill leaves a report torn.
TornHeals ==
    faults = 0 => \A f \in Files : final[f] = "torn" =>
        \E p \in Passes : pc[p] = "write" /\ File(p) = f /\ fd[p] = "final"

\* Replaying a version, also at the same time, reproduces the run: its rows
\* are never refused as conflicting, and its manifest, checked when a pass has
\* just appended it, is that of the pinned version and of nothing later.
ReplayAgrees ==
    \A p \in Passes :
        /\ pc[p] # "mismatch"
        /\ pc[p] = "values" => \A r \in runs : r.id = pin[p] =>
              r.report = ValueRows(Registry, EventsUpTo(silver, pin[p]), Period)

\* A response holds all rows of every run it mentions, and a request fails for
\* an unknown run only if a run was published while it was being served.
ServedWhole ==
    \A r \in Readers :
        /\ answer[r].status = "ok" =>
              \A run \in runs :
                  (\E v \in answer[r].rows : v.run = run.id)
                      => RowsOf(run.id, run.report) \subseteq answer[r].rows
        /\ answer[r].status = "orphan" => RunIds # answer[r].seen

\* The events some pass is about to compute from.
BeingRead == {EventsUpTo(silver, pin[p]) : p \in {q \in Passes : pc[q] = "read"}}

\* The status of a merged port call is the one of its latest event, in
\* whatever order the events reached the silver table.
StatusMerged == \A events \in BeingRead : StatusOfLatest(events)

\* Gate turnaround is taken over exactly the gate-outs that follow a gate-in
\* of the same truck at the same terminal, in whatever order the scans
\* arrived, and its median splits them.
GatesPaired ==
    \A events \in BeingRead :
        LET scans == GateScans(events, Period)
            durations == GateDurations(scans)
        IN /\ GatesAgree(scans)
           /\ \A p \in PortsOf(durations) : QuantilesOrdered(AtPort(durations, p))

\* One row for each KPI, port and segment, the gaps included; the calls of a
\* port are all counted in its aggregate row; and every observation that names
\* a port is in its row.  (Those that name none: NothingOmitted.)
RowPerSegment ==
    \A events \in BeingRead :
        LET facts0 == Facts(events, Period)
            scans == GateScans(events, Period)
            bookings == Bookings(events, Period)
            seenPorts == PortsOf(facts0 \cup scans \cup bookings) \ {NoPort}
            rows == ValueRows(AllKpis, events, Period)
        IN Malformed(events, Period) \/
           /\ SegmentsComplete(rows, facts0, seenPorts)
           /\ PortsEmitted(rows, Observations(facts0, scans, bookings), seenPorts)

\* Nothing is silently omitted (emit_value_rows): every observation is in a
\* row, whether it names a port or not.
NothingOmitted ==
    \A events \in BeingRead :
        LET observations == Observations(Facts(events, Period), GateScans(events, Period),
                                         Bookings(events, Period))
        IN Malformed(events, Period) \/
           \A o \in observations : Emitted(ValueRows(AllKpis, events, Period), o)

\* Gold is derived state: a pass over a newer version never conflicts with
\* what an earlier pass published.
FactsNeverConflict == \A p \in Passes : pc[p] # "conflict"
=============================================================================
