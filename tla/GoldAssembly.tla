---------------------------- MODULE GoldAssembly ----------------------------
(***************************************************************************)
(* The assembly of derived tables: records of a Kafka topic are promoted   *)
(* to an append-only table of the scope, in batches and possibly several   *)
(* times, while passes of blueeconomy-gold-assembly (or of the trajectory  *)
(* job) read the table, project it and overwrite the derived table.        *)
(* Passes are processes of their own: a scheduled one may overlap a manual *)
(* one.                                                                    *)
(*                                                                         *)
(* A behaviour is about one product:                                       *)
(*   cvff        silver -> ledger commitments                              *)
(*   mrv         silver -> vessel_annual                                   *)
(*   bluecarbon  silver -> public_registry                                 *)
(*   stamps      silver -> excise_stamp_facts                              *)
(*   fisheries   bronze -> export consignments, then the export file       *)
(*   vessel      bronze -> vessel trajectories                             *)
(*   geofence    bronze -> geofence summaries                              *)
(* The tables of the last two are also exported to GeoParquet.  The        *)
(* exports of a behaviour have one target; the store replaces an object at *)
(* once (the local backend, which is for development, does not).           *)
(***************************************************************************)
EXTENDS Integers, Sequences, FiniteSets, SequencesExt, Collections

CONSTANTS
    Passes,        \* processes that run the assembly
    ClearanceOf,   \* the clearance each is configured with
    Logs,          \* the topics to explore: records [product, events]
    MaxBatch,      \* records promoted in one call
    MaxCommits,    \* per product: promotions that insert something
    GapThreshold,  \* of segment_track
    Tolerance,     \* of simplify_preserving_topology
    Retries,       \* MAX_SIMPLIFY_RETRIES
    MaxExportRows, \* MAX_EXPORT_ROWS
    Inside,        \* the geofences around each position
    MaxFaults      \* passes that die between two of their steps

Products == {"cvff", "mrv", "bluecarbon", "stamps", "fisheries", "vessel", "geofence"}

ASSUME PassesAssumption == IsFiniteSet(Passes)
ASSUME BoundsAssumption == /\ MaxBatch \in Nat \ {0}
                           /\ MaxCommits \in [Products -> Nat]
                           /\ GapThreshold \in Nat \ {0}
                           /\ Tolerance \in Nat \ {0}
                           /\ Retries \in Nat
                           /\ MaxExportRows \in Nat
                           /\ MaxFaults \in Nat

\* The fields of an event.
EventFields ==
    [cvff |-> {"id", "at", "hash", "system"},
     mrv |-> {"id", "at", "type", "report", "vessel", "state", "artifact"},
     bluecarbon |-> {"id", "at", "type", "key", "project", "vintage", "status",
                     "quantity", "buffer"},
     stamps |-> {"id", "at", "type", "quantity"},
     fisheries |-> {"id", "at", "type", "consignment", "label", "value", "valid"},
     vessel |-> {"id", "at", "vessel", "position"},
     geofence |-> {"id", "at", "vessel", "position"}]

\* Ids and instants are ordered, and an id is that of one event: what is
\* delivered again is the same.  The ids of retirements are ordered, too, and
\* no block has a negative quantity (_require_quantity refuses it).  A position
\* of a track is a point of the grid on which lines are simplified.
ASSUME LogsAssumption ==
    \A l \in Logs :
        /\ l.product \in Products
        /\ l.events \in Seq(ToSet(l.events))
        /\ \A e \in ToSet(l.events) :
              DOMAIN e = EventFields[l.product] /\ e.id \in Int /\ e.at \in Int
        /\ \A e, f \in ToSet(l.events) : e.id = f.id => e = f
        /\ l.product = "bluecarbon" =>
              \A e \in ToSet(l.events) : /\ e.type = "block" => e.quantity \in Nat
                                         /\ e.type = "retirement" => e.key \in Int
        /\ l.product = "vessel" => \A e \in ToSet(l.events) : e.position \in Int \X Int

Ledger == INSTANCE LedgerGold
Annual == INSTANCE VesselAnnual
Registry == INSTANCE PublicRegistry
Stamp == INSTANCE StampFacts
Export == INSTANCE Consignments
Track == INSTANCE Trajectories
Fence == INSTANCE Geofences
Geo == INSTANCE GeoparquetExport
Order == INSTANCE LatestEvents

ASSUME ClearanceAssumption == ClearanceOf \in [Passes -> DOMAIN Export!Clearance]

VARIABLES
    product,  \* the product of this behaviour
    log,      \* its topic: the event at each offset
    source,   \* the commits of the table that is read: sequences of records
    gold,     \* the derived table, and the version of source it was read from
    pass,     \* per pass: where it is and what it holds
    export,   \* per pass: the rows in its export file (fisheries)
    object,   \* the GeoParquet object: its rows and the lineage inside
    sidecar,  \* the lineage in its sidecar object
    torn,     \* the last export was killed or overtaken between its two
              \* objects (for properties)
    faults    \* passes that died

geo == <<object, sidecar, torn>>
vars == <<product, log, source, gold, pass, export, geo, faults>>

Exported == {"vessel", "geofence"}

\* Where a pass is, and the rows it holds with the version they are from.
At(pc, version, rows) == [pc |-> pc, version |-> version, rows |-> rows]
Idle == At("idle", 0, {})
NoLineage == [input_table_version |-> 0]

Init ==
    /\ \E l \in Logs : product = l.product /\ log = l.events
    /\ source = <<>>
    /\ gold = [version |-> 0, rows |-> {}]
    /\ pass = [p \in Passes |-> Idle]
    /\ export = [p \in Passes |-> {}]
    /\ object = [rows |-> {}, lineage |-> NoLineage]
    /\ sidecar = NoLineage
    /\ torn = FALSE
    /\ faults = 0

-----------------------------------------------------------------------------
(* Promotion. *)

Record(i) == Put(log[i], "offset", i)

\* The rows of a version, commit by commit.
Rows(version) == FlattenSeq(SubSeq(source, 1, version))

\* Bronze is keyed by event_id, silver by the Kafka coordinates (with the
\* ledger hash or the event id, which the coordinates determine).
DedupKey(r) == IF product \in {"fisheries", "vessel", "geofence"} THEN r.id ELSE r.offset

\* A cvff record without a well-formed ledgerCommitHash is not promoted, nor
\* is the batch it is in.
Promotable(r) == product = "cvff" => r.hash # "malformed"

\* Mutant of Missing: the insert-only merge inserts a replayed record.
MissingAll(batch) == batch

\* The rows of a batch that the merge inserts: those without a match.
Missing(batch) ==
    LET present == {DedupKey(r) : r \in ToSet(Rows(Len(source)))}
        inserted[k \in 0 .. Len(batch)] ==
            IF k = 0 THEN <<>>
            ELSE IF DedupKey(batch[k]) \in present THEN inserted[k - 1]
            ELSE Append(inserted[k - 1], batch[k])
    IN inserted[Len(batch)]

\* append_silver, append_scope_silver, append_events: one commit.  A replay
\* that inserts nothing changes nothing; a batch that repeats a key raises.
\* The races of the merge itself are those of AppendRows.
Promote(i, j) ==
    LET batch == [k \in 1 .. j - i + 1 |-> Record(i + k - 1)] IN
    /\ j - i < MaxBatch
    /\ Len(source) < MaxCommits[product]
    /\ \A k \in DOMAIN batch : Promotable(batch[k])
    /\ \A k, l \in DOMAIN batch : DedupKey(batch[k]) = DedupKey(batch[l]) => k = l
    /\ Missing(batch) # <<>>
    /\ source' = Append(source, Missing(batch))
    /\ UNCHANGED <<product, log, gold, pass, export, geo, faults>>

-----------------------------------------------------------------------------
(* A pass. *)

\* A Delta snapshot lists its files in any order; a file keeps its rows'.
FileOrders == [n \in UNION {0 .. MaxCommits[p] : p \in Products} |-> SetToSeqs(1 .. n)]

Orders(version) ==
    {FlattenSeq([i \in 1 .. version |-> source[o[i]]]) : o \in FileOrders[version]}

\* What an assembly makes of the rows it reads: it raises, or it has rows.
Raises == [ok |-> FALSE, rows |-> {}]
Made(rows) == [ok |-> TRUE, rows |-> rows]

CurateGold(events) ==
    IF events = <<>> THEN Raises ELSE Made(Ledger!LedgerRows(events))

AssembleVesselAnnual(events) ==
    IF events = <<>> \/ Annual!OrphanedSocs(events) # {} THEN Raises
    ELSE Made(Annual!AnnualRows(events))

AssemblePublicRegistry(events) ==
    IF events = <<>> \/ Registry!UnknownStatus(events) THEN Raises
    ELSE Made(Registry!RegistryRows(events))

AssembleExciseStamps(events) ==
    IF Stamp!Malformed(events) THEN Raises ELSE Made(Stamp!StampRows(events))

AssembleExportConsignments(events) ==
    IF Export!Refused(events) THEN Raises ELSE Made(Export!ConsignmentRows(events))

RebuildTrajectories(events) ==
    IF events = <<>> THEN Raises
    ELSE Made(Track!TrajectoryRows(GapThreshold, Tolerance, Retries, events))

RebuildGeofenceSummaries(events) ==
    LET rows == Fence!SummaryRows(Inside, events) IN
    IF events = <<>> \/ rows = {} THEN Raises ELSE Made(rows)

BuildFor(prod, events) ==
    CASE prod = "cvff" -> CurateGold(events)
      [] prod = "mrv" -> AssembleVesselAnnual(events)
      [] prod = "bluecarbon" -> AssemblePublicRegistry(events)
      [] prod = "stamps" -> AssembleExciseStamps(events)
      [] prod = "fisheries" -> AssembleExportConsignments(events)
      [] prod = "vessel" -> RebuildTrajectories(events)
      [] prod = "geofence" -> RebuildGeofenceSummaries(events)

Build(events) == BuildFor(product, events)

\* The command starts; its configuration is resolved before anything is read.
Start(p) ==
    /\ pass[p].pc = "idle"
    /\ pass' = [pass EXCEPT ![p] = At("read", 0, {})]
    /\ UNCHANGED <<product, log, source, gold, export, geo, faults>>

\* Mutant of Read: only the newest commit is projected.
ReadIncrement(p) ==
    /\ pass[p].pc = "read"
    /\ source # <<>>
    /\ Build(Last(source)).ok
    /\ pass' = [pass EXCEPT ![p] = At("write", Len(source), Build(Last(source)).rows)]
    /\ UNCHANGED <<product, log, source, gold, export, geo, faults>>

\* The whole table is read and projected; nothing shared changes before the
\* write, so reading and projecting are one step.
Read(p) ==
    /\ pass[p].pc = "read"
    /\ source # <<>>
    /\ \E result \in {Build(events) : events \in Orders(Len(source))} :
          /\ result.ok
          /\ pass' = [pass EXCEPT ![p] = At("write", Len(source), result.rows)]
    /\ UNCHANGED <<product, log, source, gold, export, geo, faults>>

\* There is no table yet, or its content is refused: the command exits with 1
\* and the derived table stays as it is.
ReadRaises(p) ==
    /\ pass[p].pc = "read"
    /\ source = <<>> \/ \E events \in Orders(Len(source)) : ~Build(events).ok
    /\ pass' = [pass EXCEPT ![p] = Idle]
    /\ UNCHANGED <<product, log, source, gold, export, geo, faults>>

\* Mutant of Write: mode "ignore" instead of "overwrite".
WriteOnce(p) ==
    /\ pass[p].pc = "write"
    /\ gold' = IF gold.version = 0 THEN [version |-> pass[p].version, rows |-> pass[p].rows]
               ELSE gold
    /\ pass' = [pass EXCEPT ![p] = IF product = "fisheries" THEN At("export", 0, {}) ELSE Idle]
    /\ UNCHANGED <<product, log, source, export, geo, faults>>

\* write_deltalake(mode="overwrite"): one atomic commit.  A pass of the
\* fisheries scope goes on to its export.
Write(p) ==
    /\ pass[p].pc = "write"
    /\ gold' = [version |-> pass[p].version, rows |-> pass[p].rows]
    /\ pass' = [pass EXCEPT ![p] = IF product = "fisheries" THEN At("export", 0, {}) ELSE Idle]
    /\ UNCHANGED <<product, log, source, export, geo, faults>>

\* read_export_consignments: the table as it is now, which another pass may
\* have written meanwhile, as far as the pass's clearance sees it.
ReadExport(p) ==
    /\ pass[p].pc = "export"
    /\ pass' = [pass EXCEPT ![p] = At("file", gold.version,
                                      Export!Visible(gold.rows, ClearanceOf[p]))]
    /\ UNCHANGED <<product, log, source, gold, export, geo, faults>>

\* _write_json_atomic: the file of this pass is replaced.
WriteExport(p) ==
    /\ pass[p].pc = "file"
    /\ export' = [export EXCEPT ![p] = pass[p].rows]
    /\ pass' = [pass EXCEPT ![p] = Idle]
    /\ UNCHANGED <<product, log, source, gold, geo, faults>>

-----------------------------------------------------------------------------
(* export_geoparquet, a call of its own. *)

StartGeo(p) ==
    /\ product \in Exported
    /\ pass[p].pc = "idle"
    /\ pass' = [pass EXCEPT ![p] = At("snapshot", 0, {})]
    /\ UNCHANGED <<product, log, source, gold, export, geo, faults>>

\* One handle gives the rows and their version.  A version of the derived
\* table is named by the version of the source that it projects.
Snapshot(p) ==
    /\ pass[p].pc = "snapshot"
    /\ Geo!Exportable(gold.rows, MaxExportRows)
    /\ pass' = [pass EXCEPT ![p] = At("object", gold.version, gold.rows)]
    /\ UNCHANGED <<product, log, source, gold, export, geo, faults>>

\* There is no table, or it has too many rows: nothing is written.
SnapshotRaises(p) ==
    /\ pass[p].pc = "snapshot"
    /\ ~Geo!Exportable(gold.rows, MaxExportRows)
    /\ pass' = [pass EXCEPT ![p] = Idle]
    /\ UNCHANGED <<product, log, source, gold, export, geo, faults>>

\* Mutant of WriteObject: the version is asked of a second handle.
WriteObjectReopened(p) ==
    /\ pass[p].pc = "object"
    /\ object' = [rows |-> pass[p].rows, lineage |-> Geo!Lineage(gold.version, pass[p].rows)]
    /\ torn' = (\E q \in Passes : pass[q].pc = "sidecar")
    /\ pass' = [pass EXCEPT ![p] = At("sidecar", pass[p].version, pass[p].rows)]
    /\ UNCHANGED <<product, log, source, gold, export, sidecar, faults>>

\* The data object is replaced ...
WriteObject(p) ==
    /\ pass[p].pc = "object"
    /\ object' = [rows |-> pass[p].rows,
                  lineage |-> Geo!Lineage(pass[p].version, pass[p].rows)]
    /\ torn' = (\E q \in Passes : pass[q].pc = "sidecar")
    /\ pass' = [pass EXCEPT ![p] = At("sidecar", pass[p].version, pass[p].rows)]
    /\ UNCHANGED <<product, log, source, gold, export, sidecar, faults>>

\* Mutant of WriteSidecar: a sidecar that exists is left alone.
WriteSidecarOnce(p) ==
    /\ pass[p].pc = "sidecar"
    /\ sidecar' = IF sidecar = NoLineage THEN Geo!Lineage(pass[p].version, pass[p].rows)
                  ELSE sidecar
    /\ pass' = [pass EXCEPT ![p] = Idle]
    /\ UNCHANGED <<product, log, source, gold, export, object, torn, faults>>

\* ... and then its sidecar.
WriteSidecar(p) ==
    /\ pass[p].pc = "sidecar"
    /\ sidecar' = Geo!Lineage(pass[p].version, pass[p].rows)
    /\ pass' = [pass EXCEPT ![p] = Idle]
    /\ UNCHANGED <<product, log, source, gold, export, object, torn, faults>>

-----------------------------------------------------------------------------
\* The pass is killed, or a read or write fails; nothing is undone.
Die(p) ==
    /\ pass[p].pc # "idle"
    /\ faults < MaxFaults
    /\ faults' = faults + 1
    /\ torn' = (torn \/ pass[p].pc = "sidecar")
    /\ pass' = [pass EXCEPT ![p] = Idle]
    /\ UNCHANGED <<product, log, source, gold, export, object, sidecar>>

Next ==
    \/ \E i \in DOMAIN log : \E j \in i .. Len(log) : Promote(i, j)
    \/ \E p \in Passes : Start(p)
    \/ \E p \in Passes : Read(p)
    \/ \E p \in Passes : ReadRaises(p)
    \/ \E p \in Passes : Write(p)
    \/ \E p \in Passes : ReadExport(p)
    \/ \E p \in Passes : WriteExport(p)
    \/ \E p \in Passes : StartGeo(p)
    \/ \E p \in Passes : Snapshot(p)
    \/ \E p \in Passes : SnapshotRaises(p)
    \/ \E p \in Passes : WriteObject(p)
    \/ \E p \in Passes : WriteSidecar(p)
    \/ \E p \in Passes : Die(p)

\* The command is run again and again: every pass starts infinitely often, so
\* each of its runs ends or dies.  Nothing is assumed of the promotion.
Recurrence == \A p \in Passes : []<><<Start(p)>>_vars

Spec == Init /\ [][Next]_vars /\ Recurrence

-----------------------------------------------------------------------------
\* The table of this product has been written.
Assembled(p) == product = p /\ gold.version > 0

\* No key is twice in the table that is read.
KeysUnique ==
    LET rows == Rows(Len(source)) IN
    \A i, j \in DOMAIN rows : DedupKey(rows[i]) = DedupKey(rows[j]) => i = j

\* Types of the variables, and the promise of the insert-only merge: no key
\* is twice in the table, however often its record is promoted.
TypeOK ==
    /\ product \in Products
    /\ faults \in 0 .. MaxFaults
    /\ gold.version \in 0 .. Len(source)
    /\ \A p \in Passes :
          /\ pass[p].pc \in {"idle", "read", "write", "export", "file",
                             "snapshot", "object", "sidecar"}
          /\ pass[p].version \in 0 .. Len(source)
    /\ KeysUnique

\* The derived table is a function of one version of the source: whichever
\* passes overlapped, died or raised, whatever order the records arrived and
\* the files were listed in, its rows are the projection of that version's
\* rows in the order in which they occurred (write_deltalake overwrites in
\* one commit what build_* computed from one snapshot).
GoldIsProjection ==
    gold.version > 0 =>
        Made(gold.rows) = Build(Order!InOrder(Rows(gold.version)))

\* The commitments of the cvff gold table account for the silver rows.
LedgerAccounts == Assembled("cvff") => Ledger!Accounts(Rows(gold.version), gold.rows)

\* vessel_annual shows the latest verified report of each vessel and year.
AnnualIsLatest == Assembled("mrv") => Annual!LatestVerified(Rows(gold.version), gold.rows)

\* The credits of the public registry account for the blocks.
RegistryBalances ==
    Assembled("bluecarbon") => Registry!Balances(Rows(gold.version), gold.rows)

\* An export file holds nothing that the clearance of its pass does not
\* clear, whichever pass wrote the table it was read from.
ExportCleared ==
    product = "fisheries" =>
        \A p \in Passes : Export!Cleared(Rows(Len(source)), export[p], ClearanceOf[p])

\* Trajectories partition the observations of each vessel.
TracksPartition ==
    Assembled("vessel") => Track!Partition(GapThreshold, Tolerance, Rows(gold.version), gold.rows)

\* Geofence summaries account for the observations inside the geofences.
SummariesBound ==
    Assembled("geofence") => Fence!Bounds(Inside, Rows(gold.version), gold.rows)

\* A GeoParquet object is a whole projection of the version that its embedded
\* lineage states, with that version's counts and event ids, however many
\* rebuilds, exports and promotions were under way (export_geoparquet reads
\* rows and version from one handle).
ExportLineage ==
    LET version == object.lineage.input_table_version IN
    version > 0 =>
        LET result == Build(Order!InOrder(Rows(version))) IN
        object.rows = result.rows /\ object.lineage = Geo!Lineage(version, result.rows)

\* The sidecar mirrors the embedded lineage, unless an export is between its
\* two objects or was killed or overtaken there; and then the next export
\* that runs alone repairs it.
SidecarAgrees ==
    \/ sidecar = object.lineage
    \/ torn
    \/ \E p \in Passes : pass[p].pc = "sidecar"

\* Once nothing is promoted any more the table shows the whole source and
\* stays so, unless the source is refused: a pass that read an old version
\* may overwrite a newer table, but only until the next pass.
GoldCatchesUp ==
    <>[](\/ source = <<>>
         \/ ~Build(Rows(Len(source))).ok
         \/ gold.version = Len(source) /\ Made(gold.rows) = Build(Rows(Len(source))))

\* build_vessel_annual_rows: "a SoC for a report that is not verified in
\* silver fails closed" - and only such a statement does.
SocOrphanMeansUnverified ==
    product = "mrv" =>
        LET rows == Rows(Len(source)) IN
        \A r \in Annual!OrphanedSocs(rows) :
            ~ \E e \in Annual!VerifiedReports(rows) : e.report = r
=============================================================================
