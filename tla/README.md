# Verification of the blueeconomy data platform

TLA+ models of the lakehouse pipelines in `src/src/blueeconomy_data_platform`
(file names below are relative to it), TLC configurations that check them on
small instances, and TLAPS proofs of their safety properties for every value of
the constants.

## 1. The system

Signed envelopes arrive on Kafka topics. Consumers verify them, set malformed
ones aside, and append the rest to an append-only Delta table (*bronze*) of one
segregated scope. Bronze rows are promoted to *silver*; *gold* tables and export
files are derived from silver or bronze by commands that are run again and
again. A retention job deletes expired bronze rows and copies cold ones. An HTTP
service reads the statistics tables. Every command is a process of its own:
nothing but Kafka's consumer group and Delta's optimistic commits coordinates
them, and each may be killed at any point and started again.

| Component | State | Operations | Talks to |
|---|---|---|---|
| Kafka ingestion (`kafka_ingest.py`, `vessel_ingest.py`) | batch in memory, offsets at the broker | collect, quarantine, enforce scope, append, commit per partition | broker, bronze, dead-letter queue |
| Dead-letter queue (`dlq.py`) | DLQ topic, quarantine table | produce, check, append | broker, quarantine table |
| Append-only writes (`ingest.append_rows`) | a Delta table keyed by a column | create, guard against conflicting replays, merge, verify, retry | every other writer of the table |
| Retention (`retention.py`) | table, `delta.appendOnly`, archive, audit table | plan, record, archive, lift, delete, restore, record, verify | ingestion, other runs |
| Silver promotion (`medallion.py`, `scope_medallion.py`) | silver table keyed by a dedup key | insert-only merge | gold assembly |
| Gold assembly (`gold_assembly.py`, `mrv_gold.py`, `bluecarbon_gold.py`, `export_consignment.py`, `excise_stamps_gold.py`, `vessel_lakehouse.py`) | derived tables, export file | read a snapshot, project, overwrite, export | silver or bronze, other passes |
| Port statistics (`port_statistics.py`) | three append-only tables, two report files | pin, read, append x3, write files | silver, statistics API |
| Statistics API (`stats_api.py`) | none | read manifests, read values, read a report | the tables and files above |
| Segregation, access policy | none (pure checks) | label, scope, topic, root and role checks, clearance filter | all writers and readers |
| GeoParquet export (`geoparquet_export.py`) | an object and its lineage sidecar | read a snapshot, write the object, write the sidecar | trajectory and geofence tables, other exports |
| Signatures (`signature_verification.py`) | key directory, loaded once per run | verify | ingestion |
| JCS, AIS, envelopes | none (pure) | decode | ingestion |
| Movement analytics, KPI documents, storage, telemetry | none of the platform's | compute, call an engine | - |

What is hard here: offsets are committed one partition at a time after a table
write that is not atomic with them; rebalances give a partition to a second
consumer while the first still holds a batch; a Delta merge may lose the race
any number of times; retention lifts a property that guards the table while
others write; passes overlap and publish through several tables and files;
events arrive late, twice, and are read in no particular order.
`PROJECT.json` lists these hazards with the line and the properties for each.

## 2. Modules

| Module | Models | Composition |
|---|---|---|
| `KafkaIngest` | the consumer group, broker, bronze table, DLQ topic, quarantine table | implements `IngestContract` |
| `IngestContract` | abstract: messages are settled, an offset is acknowledged only over settled ones | |
| `KafkaIngestProofs` | theorems about `KafkaIngest` | |
| `AppendRows` | `append_rows` by several writers, with the retention window | implements `KeyedTable` |
| `KeyedTable` | abstract: while the table is append-only, rows are only added and a key has one row; while it is not, rows are only removed | |
| `Retention` | `enforce_retention`, overlapping runs, ingestion, passing days | appends to audit and archive are atomic, as `AppendRows` shows |
| `PortCallFacts` | `assemble_port_call_facts` (pure) | used by `PortIndicators` |
| `PortIndicators` | gate scans, bookings, all indicators, value rows (pure), with references | used by `StatsPublish` |
| `StatsPublish` | passes of the port statistics, report files, API requests | |
| `Collections` | dictionaries, stable sorting and the elements a loop chooses (pure) | used by the projections and by `PortIndicators` |
| `LatestEvents` | the "latest event per key" loop and the order of events (pure) | used by the projections |
| `LedgerGold`, `VesselAnnual`, `PublicRegistry`, `StampFacts`, `Consignments`, `Trajectories`, `Geofences` | one projection each (pure), with a reference definition to compare it with | used by `GoldAssembly` |
| `Simplification` | `rdp_simplify`, `simplify_preserving_topology` (pure), with a reference | used by `Trajectories` |
| `GeoparquetExport` | lineage and limits of an export (pure) | used by `GoldAssembly` |
| `Boundary` | labels, scopes, roots and checks of `segregation.py`, grants and clearances of `access_policy.py`, and the write and read paths through them | |
| `GoldAssembly` | promotion, overlapping assembly passes and GeoParquet exports, one product per behaviour | |
| `AppendRowsProofs`, `RetentionProofs`, `StatsPublishProofs`, `GoldAssemblyProofs`, `BoundaryProofs` | theorems about the module of that name | |
| `ProjectionProofs` | what each projection of the gold assembly computes, for every list of rows | used by `GoldAssemblyProofs` |
| `SequenceLemmas` | induction and recursion along a sequence, `FlattenSeq`, ranks and sorting, counting, sums of finite functions | used by `ProjectionProofs` and `StatsPublishProofs` |
| `MC*` | instances for TLC | |

### KafkaIngest

`log` is the topic, `committed`, `owner` and `fenced` are the broker's group state,
`bronze`, `dlqTopic` and `quarantine` the stores. Per consumer: `phase`, read
`position`, the batch (`events`, `count`, `last`), the dead letter being written
(`hand`) and the commits still to send (`toCommit`). A message is `[kind, id, body,
kid]`; the kind is the verdict of decoding and scope check, `kid` the key that signed
it. `epoch` is the content the key directory file has, which `Rotate` replaces;
`trusted` is what each consumer loaded when it started, and `Decodes` looks a message's
key up there. Two runs may so disagree about one message: it may be quarantined by the
one and stored by the other. `_collect_messages` is `PollEvent`, `PollPoison` and
`IdleTimeout`; `DeadLetterQueue.quarantine` is `DlqProduce`, `DlqAlreadyThere` or
`DlqNotThere` and `DlqAppend`; `_run` goes on with `EnforcePass` or `EnforceReject`,
`AppendEvents`, one `CommitOffset` per partition and `Finish`. `Fail`, `DlqUnconfirmed`
and `CommitUnconfirmed` are the failures: a process that stops anywhere, and a broker
operation that took effect although the process never learnt it. `Move` is a forced
rebalance.

### AppendRows

One call is `Call`, `Exists`, `Create` (or `CreateRaces`, which raises: the
creation is not retried), then `Load`, `Merge` / `MergeNothing` / `CommitFails`
and `Verify`. `Commits` is Delta's conflict rule: a merge commits only if nothing
was committed since its snapshot. Each row remembers the call that inserted it,
so that the reported counts can be compared with the table. `Lift`, `Delete` and
`Restore` are the window of `retention._delete_batch`, each a commit that outdates
every snapshot: a row of a batch may vanish at any moment between the snapshot and
the return. `removed` keeps, as history, every row that was deleted, and `purged`
the keys of a batch that were deleted since its snapshot.

### Retention

Time is in days; a row is its key. A run plans, records the plan, reads the cold rows of
its plan again (`wanted`, of which `cold` are those it found) and archives them chunk by
chunk in any order, and for every batch asserts it, reads and lifts `delta.appendOnly`,
deletes chunk by chunk, restores in the `finally` block and records the deletion;
`Verify` compares the table with the plan. `touched` remembers that somebody else
changed the table during a run, `gone` the keys that were deleted between its plan and
its second read, `erased` what was ever deleted, `open` that a job was killed with the
property lifted, and `unrecorded` the keys whose deletion was cut off before its record.

### StatsPublish, PortCallFacts and PortIndicators

A pass pins a silver version, reads it, appends facts, manifest and values, and
writes two files through a temporary name that depends on the run only. Opening
the temporary file truncates it, and a rename takes the file away from under a
process that has it open. `Grow` stands for the producers of platform silver.
A request is refused by `authenticate` or the checks of its query, or reads
manifests and then values, or a report file.

`PortIndicators` is the computation in between: `Observations` is
`compute_kpi_observations` with all seven computed indicators (calls by class,
turnaround, waiting, throughput, gate turnaround, lead time, slot utilisation;
`Percentile` is `percentile_linear` in exact tenths), `EmitValueRows` adds the rows of
the two gap indicators and the no-data rows. Events are rows of the silver table with
their place: one that was delivered twice counts twice, as in the code. Its loops, like
all loops of the pure modules, are recursive functions along a sequence, which can be
proved about. The references are stated without a loop: a gate-out is paired exactly if
the scan before it is a gate-in, a median splits its observations, each indicator, port
and segment has one row with every observation that names a port.

### GoldAssembly

`source` is the Delta log of the table that is read: a sequence of commits, each
a sequence of records. `Promote` inserts a batch - any interval of the topic, at
any time, again and again - and skips what is there. A pass is `Start`, `Read`
(snapshot and projection; files are listed in any order), `Write` (overwrite),
and for fisheries `ReadExport` and `WriteExport`; or it raises, or dies. `gold`
keeps, as history, the version of `source` it was made from. For trajectories and
geofence summaries `StartGeo`, `Snapshot`, `WriteObject` and `WriteSidecar` are
`export_geoparquet`: rows and version come from one handle, and the object and its
sidecar are two writes with a kill or another export possibly in between (`torn`
remembers that). All exports have one target. The references count rows of `source`, as
the projections do: an event that was delivered under two offsets is two rows. Sums
(`Quantity`, and the reference's `Credits` and `Total`) are those of finite functions.

`Simplification` works on integer coordinates: squared distances are compared as
fractions, halving the tolerance is a power of four. The recursion of
Ramer-Douglas-Peucker is a recursive function over index pairs; its reference
`Faithful` asks for the end points, for a subsequence of the track, for the distance
of what was dropped, and that the result crosses itself only if it is the track.

### Boundary

A namespace stands for all topics or event types with a prefix of
`SCOPE_TOPIC_PREFIXES` (`isr`, `behaviour` and `outcome` are those under
`maritime.`); a path component is a pair of the scope it is named after and a
name, so that the regular expressions become a comparison. `store` has the rows
of all tables with the envelope they came from, `view` what the latest read
returned and to whom. The paths into a table are `Consume` (the consumer with its
four checks), `AppendBronze` (`guard_write`), `AppendSilver` and `LoadFile`; the
last one takes any table URI, as `ingest.main` does, and the properties except
its rows. `Read` is `authorize_read` on a schema whose table the scope's roots
resolve to, with or without the row filter.

## 3. Runs

All bounds are constants of the modules. Deadlock is checked in `kafka` and
`kafka_live` and in the two `GoldAssembly` runs; the others stop when their
bounds are used up.

| Run | Checks | Bounds |
|---|---|---|
| `kafka` | no acknowledged loss, verified and unique bronze rows, quarantine only with a dead letter, `Contract` | 2 consumers, 4 topics of 3 messages on 1 or 2 partitions with poison, repeated, conflicting, foreign and differently signed events, a key that is withdrawn and one that is never listed, batch 3, 1 fault, 1 forced rebalance |
| `kafka_live` | every message is committed | 1 partition, batch 2, a key that is withdrawn, 1 fault, 1 rebalance |
| `dlq_filtered_read` | finding 1 | three poison messages |
| `append_writers` | retained on return and at the verification, exact counts, exhaustion means contention, `Keyed` | 3 writers, 2 keys, 2 contents, 2 attempts (the code makes 3), 1 retention window with any deletions |
| `retention_overlap` | window closed, cold rows of the plan first, deletions recorded, mismatch means interference, only expired rows deleted | 2 runs at once, 5 rows in all tiers, chunks of 1, 1 kill, 1 raise, 1 ingestion, 1 day |
| `retention_unaudited` | finding 2 | 1 job, 2 runs |
| `stats_publish` | manifest first, reports backed, torn reports completed, replays agree, whole responses; status merged, gates paired, a row per segment | 2 passes, 1 reader, 4 silver tables of 2 commits with up to 10 events (calls, scans, bookings; late, repeated, without a port, across the period), 1 kill; two indicators are published, `RowPerSegment` computes all nine |
| `stats_republish`, `stats_omission` | findings 3 and 4 | 1 pass at a time |
| `gold_assembly` | the table is the projection of one version, one reference per product, exports cleared, export lineage, sidecar, catching up | 2 passes, 12 topics of 4 or 5 records, 2 or 3 commits of at most 3 records, exports of at most 2 rows, 1 death |
| `mrv_superseded` | finding 5 | 3 records |
| `boundary` | no governed write crosses a scope; only entitled readers are shown an event | 9 namespaces of all scopes and none, 4 classifications, batches of 2, 13 roots (nested, without a path, in a bucket named after a scope), 19 sets of role claims; one batch per behaviour, since no rule relates two batches |

Why these are enough to be interesting: two of each process is what every race described
above needs; with two attempts a writer loses and wins, or loses both, to another writer
or to retention; batches and chunks are small, so that a run has several of them; each
topic was chosen to contain a case that the code distinguishes (a gap of exactly the
threshold, an unlabelled event, a block that changes vintage, a redelivery under a new
offset, a track that first simplifies into a line that crosses itself). Every property
has a mutant in `PROJECT.json`, a definition changed the way a bug would change it, for
which TLC finds the property violated.

Fairness. `kafka_live`: runs are repeated, a running process takes its next step,
and the coordinator assigns a partition that keeps being free (strong fairness,
since a partition may be assigned elsewhere in between); faults and rebalances
are finitely many. `gold_assembly`: each pass starts infinitely often, as a
scheduler does, so each of its runs ends; nothing is assumed about promotion.
`retention_unaudited`: jobs that run take their steps and are started again.

## 4. Findings

1. `dlq.py:218` - the idempotence check of the quarantine table is a filtered
   read without the fallback that `ingest.py:362` says the pinned libraries need.
   The third poison message stops the partition.
2. `retention.py:312` - a deletion is recorded after all its chunks. If a later
   chunk raises, the rows deleted before it are never recorded.
3. `port_statistics.py:1126` - facts of a port call change with each event while
   their table is append-only and keyed by the call: the pass after a further
   event raises, and so does every later one.
4. `port_statistics.py:769` - the missing port is discarded once any port is seen, so
   that scans and bookings without a port are in no row, although line 702 says that
   nothing is silently omitted.
5. `mrv_gold.py:186` - a statement of compliance for a verified report that a later
   verified report supersedes counts as orphaned and stops the assembly.

Observed while modelling, without a run of their own: overlapping passes over one
version share the temporary file of a report (`port_statistics.py:1018`), so that one
may rename what the other has just truncated; the API then serves a torn report until
the other has written it (`TornHeals`), and that pass fails at its own rename; a
retention job killed inside its window leaves `delta.appendOnly` lifted, and later runs
keep it so (`retention.py:191`); the audit id leaves out the operator, which the audit
table guards, so that the second operator's dry run over the same rows is refused
(`retention.py:97`); the NDJSON loader is outside the segregation checks
(`ingest.py:565`), and a bucket name is no part of a path that they look at
(`segregation.py:202`); `src/README.md:32` says that rejected envelopes "are never
persisted and their offsets are never committed", whereas the dead-letter queue keeps
them and their offsets are committed; `src/README.md:194` says that the simplification
never returns a self-crossing line, whereas its fallback is the track itself, which may
cross itself (`vessel_lakehouse.py:399`); the distance of a dropped point is to the
infinite line, so that an excursion in the direction of the track may vanish
(`vessel_lakehouse.py:311`); a truck visit across the period boundary counts in no
period (`port_statistics.py:453`); a booking delivered twice counts twice
(`port_statistics.py:482`); the sidecar of an export that was killed or overtaken
describes another object (`geoparquet_export.py:427`); fields other than the status of a
port call take the value read last, not the latest (`port_statistics.py:420`); the
export reference is that of the declaration read last (`export_consignment.py:234`); a
retirement event delivered under two offsets is listed twice in the public registry
(`bluecarbon_gold.py:154`); which of two simultaneous observations a geofence summary
names depends on the file order (`vessel_lakehouse.py:607`); the temporary name of the
export file is derived from its path alone (`gold_assembly.py:159`); the version in an
assembly report is read after the write and may be another pass's; an older snapshot may
overwrite a newer gold table until the next pass; the excise projection does not run
when the port statistics before it raise; a foreign or conflicting event stops its
partition, by design.

## 5. Proofs

Every theorem holds for every value of the constants that satisfies the
assumptions named in the component's module, and TLC evaluates these on every
run. Each inductive invariant below was first checked by TLC as an invariant of
the instance of its run (721 376 states of `AppendRows`, 691 908 of `Retention`,
1 038 839 of `KafkaIngest`, 307 405 of `StatsPublish`, 105 945 of `Boundary`,
398 131 of `GoldAssembly`). The proof that the next-state relation preserves it
has the same shape everywhere: a lemma for each kind of step, and framing lemmas
(`Spares`, `Retains`, `Quiet`, ...) that say what the steps of one process leave of
another one's memory.

### KafkaIngestProofs

For every set of consumers and partitions, all topics, key directories, batch sizes
and numbers of faults and rebalances. Assumptions: `Nobody` is no consumer,
partitions are integers, topics are sequences of messages, there is a first key
directory, bounds are naturals.

- `TypeCorrect`, `Inductive`: `TypeOK` and `IInv` always hold;
- `NoAcknowledgedLoss`: `Spec => []NothingCommittedIsLost`;
- `ImplementsContract`: `Spec => Contract`, the refinement of `IngestContract`;
- `BronzeVerified`, `OneContentPerId`, `TopicBeforeTable` (from `TablesInductive`):
  bronze has only verified messages of the scope and one content per `event_id`,
  and a quarantine row has its dead letter on the topic.

`NothingCommittedIsLost` speaks of committed offsets only and is not inductive: a
commit covers every offset up to the last of the batch, so one must know what
became of each message a consumer read. `IInv` adds, for every running consumer,
that each message below its read position is *held*: kept in bronze or
quarantine, or an event of the batch, or dead-lettered as a repetition of an
event of the batch - except the poison in its hand (`ReadHeld`, `LastHeld`,
`HandHeld`); and that in the commit phase all events of the batch are in bronze
(`EventsHeld`), so that held means kept (lemma `HeldIsKept`) and the commit is
covered (`CommitCovers`). A step of another consumer only adds rows and leaves
this consumer's memory alone (`Undisturbed`); a consumer that stops forgets its
batch and its partitions (`Left`). The refinement maps `settled` to the kept
offsets. `TablesInv` is about content: bronze is verified because each batch is
(`BatchVerified`), under a key that the consumer had loaded and that may have been
withdrawn since, which is why the clause speaks of all directories.

### AppendRowsProofs

For any number of writers, calls, attempts and lifts of the append-only property.
Assumptions: finitely many keys, at least one attempt.

- `TypeCorrect`, `Inductive`;
- `RetainedOnReturn`, `WrittenIsExact`, `GivesUpUnderContention`: the properties
  `ReturnMeansRetained`, `CountExact` and `ExhaustedMeansContention`;
- `ImplementsKeyedTable`: `Spec => Keyed`, the refinement of `KeyedTable`.

Deletions by retention are part of the specification these hold for.

`Inv` has, besides the types, `TableInv` (a key has one row) and per writer:
`SnapInv`, that a snapshot is a past of the table, and the table itself as long as
the version has not moved - this is what makes the check for conflicts in an old
snapshot good enough; `BatchInv`, that
the batch is in the table from the commit on, but for what retention has deleted since
(`purged`);
`AttemptInv`, that each further attempt was paid for by somebody's commit; and
`CountInv`, that rows tagged with a call are there only after it committed, and
`written` is then their number.

### RetentionProofs

For any number of overlapping jobs, operators, days, chunk and batch sizes, faults
and kills. Assumptions: finitely many keys, which are ordered; the hot horizon is
below the cold one; no initial row is from the future; there is an operator.

- `TypeCorrect`, `Inductive`;
- `WindowIsClosed`, `ColdRowsCopied`, `MismatchIsForeign`, `DeletionsAreAudited`: the
  invariants `WindowClosed`, `ColdCopiedFirst`, `MismatchMeansInterference` and
  `DeletionsAudited` of the run;
- `OnlyExpiredAreDeleted`: the action property `OnlyExpiredDeleted`.

`Inv` adds per job: `BatchInv`, that what is left of a batch is expired on the reference
day of its plan, which is not after today (rows only grow older, so a stale plan is
still right), and what it no longer has to delete is erased; `PlanInv`, that finished
batches are recorded; `ColdInv`, that each cold row of the plan is in the table until
the job reads it again, then on its list, then in the archive, unless it was deleted
before that read - whatever others do to the table meanwhile; `SizeInv`, that until
somebody else touches the table its size is the planned one less what was deleted.
`AuditInv` says where each erased key is accounted for: recorded, in the batch of a job,
or cut off by a kill. `WindowInv` names the job that will set the property again.

### StatsPublishProofs

Assumptions: a silver table is a sequence of commits, each a sequence of events; an
event has the fields that the code reads of its type (`decode_silver_event` refuses it
otherwise), its id and instant are ordered, and an id is that of one event; a port call
names its port.

For any number of passes and readers and any silver tables:

- `TypeCorrect`, `Inductive`;
- `ManifestBeforeValues`, `ReportsBacked`, `ReplaysAgree`, `ResponsesWhole`: the
  properties `ManifestFirst`, `ReportBacked`, `ReplayAgrees` and `ServedWhole`;
- `TornReportsHeal`: `TornHeals`.

The argument is that everything published about a version is a function of it
(`ReportOf`): manifests and values are those of `ReportOf` of their run (`RunsInv`,
`ValuesInv`), and so is what a running pass holds in memory (`PassInv`). `RowsKeyed`,
that the value rows of a pass have distinct keys, then excludes a conflict between a
replay and the rows that are there. `PassInv` also says that a pass has its manifest
behind it when it appends values, and its values when it writes files, and `RunsServed`
who is going to append the values of a manifest that has none. `TornInv` follows a torn
file through its renaming: whoever has it open under the one name has it open under the
other one (`RenamedOpen`).

For every list of events and period:

- `StatusesMerged` (`StatusMerged`): the merged status of a port call is that of its
  latest event. The loop of `assemble_port_call_facts` is followed row by row: what an
  entry shows is the latest of the events so far (`ShowsFirst`, `ShowsFurther`,
  `ShowsStays`);
- `GatesArePaired` (`GatesPaired`): the loop over the ordered scans of a visit finds
  exactly the pairs of a gate-out and the gate-in just before it (`PairTurn`,
  `PairedFinds`), and the interpolated percentiles lie between the sorted durations;
- `SegmentsAreComplete` and `RowsPerSegment` (`RowPerSegment`): a row for each
  indicator, port and segment, all calls of a port in its aggregate row, and every
  observation that names a port in a row. That none is left out that names no port is
  false (finding 4).

### BoundaryProofs

For every set of roots, envelopes, topics and role claims, and batches and tables of
any size; the assumption is that a root's path is a sequence of components.
`TypeCorrect`, `Inductive`, `NoScopeCrossed` (`RowsInTheirScope`) and
`ReadersEntitled` (`OnlyEntitledReaders`). The invariant is inductive as it stands,
since no rule relates two batches. The work is in the tables of `segregation.py`: a
namespace, a label and a path each name one scope, and a URI that passes
`require_scope_table_uri` declares exactly the scope of the rows.

### GoldAssemblyProofs

For every product, any topics, number of passes, deaths, batch and export sizes.
Assumptions: a topic is a sequence of records of one product with the fields of that
product's events, an id is that of one event, ids and instants are ordered, no credit
block has a negative quantity (the code refuses it), a position of a track is a point of
an integer grid, a pass has a clearance of the code's list, bounds are naturals.

About the passes:

- `Inductive`, `GoldOneSnapshot`, `ObjectOneSnapshot`: the derived table is the whole
  projection of one version of its source, and a GeoParquet object that of the version
  its embedded lineage states, with the lineage of exactly those rows;
- `SidecarMirrors`: `SidecarAgrees`;
- `TypeCorrect`: `TypeOK`, of which the part that is more than a type is that no dedup
  key is twice in the source, in whatever batches it was promoted;
- `ExportsCleared`: `ExportCleared`, that an export file holds nothing its pass was not
  cleared for.

The first three are about passes that overlap: `PassInv` says that a pass about to
write holds rows of one listing of one version, and that unless the two objects are
torn the object is that of the pass about to write the sidecar; versions never change
once they exist (`OrdersStay`). What the projection computes does not matter for
these. Unique keys need the insert-only merge: `Missing` is a recursion along the
batch, and `MissingRows` shows that what it keeps is new and without repetition.
`ExportCleared` needs more than the file: the table may have been replaced, and more
records promoted, between the projection, the filtered read and the file. `ClearedInv`
therefore says of all rows that a pass, the table or a file holds that their floor
reaches the clearance of every event of the *present* source they name (`Floored`).
It survives promotions only because keys are unique (`FlooredStays`): a record promoted
later cannot be an event that a row already names. That any listing of the files has
all rows of the version, each once, is a pigeonhole argument (`ListedRows`), and with it
the derived table is what the projection makes of some list of exactly those rows
(`TableListed`).

About what the projections compute, for every list of rows (`ProjectionProofs`, where
each loop has an invariant that says what it has gathered from the rows so far):

- `LedgersAccount` (`LedgerAccounts`): the entry of a commitment has gathered exactly
  the rows with its hash (`CurateGathers`);
- `AnnualsLatest` (`AnnualIsLatest`): the loop of `LatestEvents` keeps for each key the
  latest event so far (`KeepKnows`, `LatestKnows`);
- `SummariesBounded` (`SummariesBound`): a summary counts and spans the sightings so far
  (`SightTells`);
- `RegistryBalanced` (`RegistryBalances`): the totals of a row are sums over the blocks
  as last known, and a sum over a set is the sum over its parts (`SumGroups`,
  `SumsOfVintages`);
- `TracksPartitioned` (`TracksPartition`): the segments so far are in order, without a
  gap inside and with one between them, and have every point once (`SegmentsCut`); the
  recursion of Ramer-Douglas-Peucker, by induction over the length of the span, leaves
  out only what is within the tolerance (`KeptCovers`), and an attempt is taken only if
  it does not cross itself, at a scale that is at least the first one
  (`SimplifyFaithful`);
- `GoldProjects`, `LineageProjects`: `GoldIsProjection` and `ExportLineage`, for topics
  that are `Untied`. These say that the order in which files are listed does not matter,
  and where it does matter in the code is the definition of `Untied`: two observations
  of a vessel at one instant, two export declarations of a consignment, two events of
  one retirement. The topics of the run are untied.

Order independence has one argument for all products (`ListingsAgree`, `SortedAgree`):
two lists of the same rows have as many rows before any given one, so that sorting them
yields lists that agree up to ties, and ties either do not exist or do not show.

### SequenceLemmas

The installed provers cannot instantiate induction rules that take an operator. The
rules here take a set instead: `Least` (a non-empty set of naturals has a least
element), `UpTo` (a set that has 0 and with each element below n the next one has all
of 0..n), and `Recursion` (a function that is given by its first value and a step
along 1..n exists and follows the steps). From them come the facts on `FlattenSeq`
(`FlattenAppend`, `FlattenElements`), on ranks and stable sorting (`Ranks`, `Sorts`,
`SortKeeps`), on the elements a loop chooses (`ChosenSteps`, `ChosenKeeps`), on counting
rows (`CountAppend`, `CountListed`) and on sums of finite functions (`SumSteps`,
`SumSplit`, `SumGroups`).

### Only model-checked

Liveness, which is beyond the prover: `EverythingCommitted` and `GoldCatchesUp`, and
`EveryDeletionAudited`, which is violated. The violated safety properties are not
theorems, of course. Every other property of a passing run is one.

## 6. Not modelled

Parsing, canonical JSON, Ed25519 and AIS decoding: pure functions of one message;
their verdict is the kind of a message. WKT and WKB encoding and point-in-polygon
tests: text and floating-point geometry; a row stands for its geometry and `Inside`
for the evaluator. The resolution of storage backends and the local backend, whose
writes are not atomic and which is for development. HTTP framing and token
decoding: a request is refused or served. Signing and rendering of reports. The
Spark engine of the trajectory job, which is SQL. Movement analytics and KPI
documents: stateless calls on data that is given to them. Storage and telemetry
configuration, the seed scripts.

## 7. Plan

Order of work: ingestion, since everything else derives from it; the shared writer;
retention; statistics with all indicators; gold assembly with simplification and
exports; the boundary between scopes; rotation of signing keys. All of these are
modelled, and every safety property that holds is proved. What could be added:

1. The values of the indicators beyond percentiles and counts: throughput and slot
   utilisation as sums over the merged facts.
2. Times, class and tonnage of a port call, for tables whose reading order is the order
   of occurrence, as `StatusMerged` has it for the status.
