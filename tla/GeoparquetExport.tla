-------------------------- MODULE GeoparquetExport --------------------------
(***************************************************************************)
(* geoparquet_export: what export_geoparquet makes of the rows of a        *)
(* trajectory or geofence table.  The encoding of the geometries is left   *)
(* out; a row stands for itself.                                           *)
(***************************************************************************)
LOCAL INSTANCE Integers
LOCAL INSTANCE FiniteSets
LOCAL INSTANCE FiniteSetsExt
LOCAL INSTANCE Sequences

IsTrajectory(r) == "points" \in DOMAIN r

\* The columns that name source events.
EventIds(r) == IF IsTrajectory(r) THEN {r.first, r.last} ELSE {r.seen.firstId, r.seen.lastId}

EventIdRange(rows) ==
    LET ids == UNION {EventIds(r) : r \in rows} IN <<Min(ids), Max(ids)>>

Sum(rows, of(_)) == FoldSet(LAMBDA r, total : total + of(r), 0, rows)

\* quality_json is a column of trajectories, observation_count one of the
\* geofence summaries.
QualityMetrics(rows) ==
    LET tracks == {r \in rows : IsTrajectory(r)} IN
    [distinct_mmsi |-> Cardinality({r.vessel : r \in rows}),
     total_track_points |-> Sum(tracks, LAMBDA r : Len(r.points)),
     simplified_track_points |-> Sum(tracks, LAMBDA r : Len(r.simplified)),
     geofence_observations |-> Sum(rows \ tracks, LAMBDA r : r.seen.count)]

\* The lineage of an export of these rows, read from this version.
Lineage(version, rows) ==
    [input_table_version |-> version, input_event_id_range |-> EventIdRange(rows),
     row_count |-> Cardinality(rows), quality_metrics |-> QualityMetrics(rows)]

\* build_geoparquet_table raises for an empty table and a large one.
Exportable(rows, maxRows) == rows # {} /\ Cardinality(rows) <= maxRows
=============================================================================
