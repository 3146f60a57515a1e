------------------------------ MODULE Boundary ------------------------------
(***************************************************************************)
(* The segregation of the lakehouse: how an envelope gets its label, which *)
(* writer may put it under which root (segregation.py), and who may read   *)
(* it there (access_policy.py).  The write paths are the Kafka consumer,   *)
(* the bronze and silver writers of a scope and the NDJSON loader.         *)
(***************************************************************************)
EXTENDS Integers, FiniteSets, Sequences

CONSTANTS Roots,        \* scope roots that occur in configurations: [host, path]
          Namespaces,   \* topic and event type namespaces that occur
          Classifications,  \* values of an envelope's classification that occur
          RecordLabels, \* values of recordClassification that occur
          RoleSets,     \* sets of role claims that occur
          MaxBatch,     \* bound: events in a batch
          MaxRows       \* bound: no batch is written once the tables have so many rows

ASSUME BatchAssumption == MaxBatch \in Nat \ {0} /\ MaxRows \in Nat
ASSUME RootsAssumption == \A r \in Roots : r.path \in Seq(STRING \X STRING)

VARIABLES store,   \* rows of all tables
          view     \* what the latest read returned, and to whom

vars == <<store, view>>

-----------------------------------------------------------------------------
(* The vocabulary. *)
None == "none"
Platform == "platform"
Segregated == {"cvff", "seafarer", "fisheries", "isr", "mrv", "bluecarbon"}
Scopes == Segregated \cup {Platform}
Layers == {"bronze", "silver", "gold"}

\* SCOPE_TOPIC_PREFIXES, by namespace.
PrefixScope ==
    [ports |-> Platform, ferries |-> Platform, vessels |-> Platform,
     stamps |-> Platform, cvff |-> "cvff", seafarer |-> "seafarer",
     fisheries |-> "fisheries", coldchain |-> "fisheries", export |-> "fisheries",
     isr |-> "isr", behaviour |-> "isr", outcome |-> "isr",
     mrv |-> "mrv", bluecarbon |-> "bluecarbon"]

\* scope_for_topic and scope_for_event_type; None where they raise.
ScopeFor(ns) == IF ns \in DOMAIN PrefixScope THEN PrefixScope[ns] ELSE None

PlatformLabel ==
    [PUBLIC |-> "public", INTERNAL |-> "internal",
     CONFIDENTIAL |-> "confidential", RESTRICTED |-> "restricted"]
ScopeLabel ==
    [cvff |-> "fiduciary_segregated", seafarer |-> "seafarer_confidential",
     fisheries |-> "fisheries_operational", isr |-> "isr_classified",
     mrv |-> "mrv_confidential", bluecarbon |-> "bluecarbon_internal"]
PlatformLabels == {"public", "internal", "confidential", "restricted",
                   "highly_restricted"}
Labels == PlatformLabels \cup {ScopeLabel[s] : s \in Segregated}

\* scope_for_classification; None where it raises.
LabelScope(label) ==
    IF label \in PlatformLabels THEN Platform
    ELSE IF \E s \in Segregated : ScopeLabel[s] = label
         THEN CHOOSE s \in Segregated : ScopeLabel[s] = label
         ELSE None

Fiduciary == "FIDUCIARY_SEGREGATED"
Canonical == DOMAIN PlatformLabel \cup {Fiduciary}

\* Mutant of CanonicalLabel: a cvff event need not be fiduciary.
AnyCvffLabel(class, ns) ==
    LET scope == ScopeFor(ns) IN
    IF class = Fiduciary THEN IF scope = "cvff" THEN ScopeLabel["cvff"] ELSE None
    ELSE IF class \notin Canonical THEN None
    ELSE IF scope \in {Platform, None, "cvff"} THEN PlatformLabel[class]
    ELSE ScopeLabel[scope]

\* map_canonical_classification; None where it raises.  An event type outside
\* all namespaces is a platform event, unless it claims to be fiduciary.
CanonicalLabel(class, ns) ==
    LET scope == ScopeFor(ns) IN
    IF class \notin Canonical \/ (class = Fiduciary) # (scope = "cvff") THEN None
    ELSE IF scope \in {Platform, None} THEN PlatformLabel[class]
    ELSE ScopeLabel[scope]

Envelopes == [type : Namespaces, class : Classifications, level : RecordLabels]

\* read_and_validate_events and decode_event keep what has a label.
Labelled == {e \in Envelopes : CanonicalLabel(e.class, e.type) # None}
Batches == {{f[i] : i \in 1..MaxBatch} : f \in [1..MaxBatch -> Labelled]}

-----------------------------------------------------------------------------
(* Roots and tables.  A path component is <<scope it is named after, name>>. *)

\* scopes_declared_by_uri looks at the path, not at the bucket or host.
DeclaredBy(uri) == {uri.path[i][1] : i \in DOMAIN uri.path} \cap Segregated

\* The last component of a root, which is its host when it has no path.
Terminal(root) == IF root.path = <<>> THEN root.host ELSE root.path[Len(root.path)]

\* build_lakehouse_roots accepts the root: it checks the last component only.
RootAccepted(scope, root) ==
    {Terminal(root)[1]} \cap Segregated = {scope} \ {Platform}

LayerUri(scope, root, layer) ==
    [host |-> root.host, path |-> Append(root.path, <<scope, layer>>)]

\* Mutant of UriAccepted: only the layer's own component is looked at.
UriEndAccepted(scope, uri) == uri.path[Len(uri.path)][1] = scope

\* require_scope_table_uri.
UriAccepted(scope, uri) == DeclaredBy(uri) = {scope} \ {Platform}

Tables == {LayerUri(s, r, l) : s \in Scopes, r \in Roots, l \in Layers}

\* enforce_topic_scope and enforce_event_scope.
TopicAccepted(scope, topic) == ScopeFor(topic) = scope
EventsAccepted(scope, batch) ==
    \A e \in batch : LabelScope(CanonicalLabel(e.class, e.type)) = scope

\* enforce_record_classification.
RecordsAccepted(scope, batch) == scope = "isr" => \A e \in batch : e.level # None

-----------------------------------------------------------------------------
NoView == [roles |-> {}, level |-> None, rows |-> {}]

Init == store = {} /\ view = NoView

RowsOf(uri, batch, topic, by) ==
    {[table |-> uri, event |-> e, label |-> CanonicalLabel(e.class, e.type),
      topic |-> topic, by |-> by] : e \in batch}

\* kafka_ingest._run, started for a scope, a topic and a table.
Consume(scope, uri, topic) ==
    /\ TopicAccepted(scope, topic)
    /\ UriAccepted(scope, uri)
    /\ \E batch \in Batches :
           /\ EventsAccepted(scope, batch)
           /\ RecordsAccepted(scope, batch)
           /\ store' = store \cup RowsOf(uri, batch, topic, "consumer")
    /\ UNCHANGED view

\* append_bronze and append_scope_bronze: guard_write of a writer that was
\* initialised for the scope and root; the topic is optional.
AppendBronze(scope, root, topic) ==
    LET uri == LayerUri(scope, root, "bronze") IN
    /\ RootAccepted(scope, root)
    /\ UriAccepted(scope, uri)
    /\ topic = None \/ TopicAccepted(scope, topic)
    /\ \E batch \in Batches :
           /\ EventsAccepted(scope, batch)
           /\ store' = store \cup RowsOf(uri, batch, topic, "writer")
    /\ UNCHANGED view

\* append_silver (cvff) and append_scope_silver (mrv, bluecarbon) of rows of
\* the scope's own bronze table; the metadata checks the topic again.
AppendSilver(scope, root, row) ==
    /\ scope \in {"cvff", "mrv", "bluecarbon"}
    /\ RootAccepted(scope, root)
    /\ row.table = LayerUri(scope, root, "bronze")
    /\ UriAccepted(scope, LayerUri(scope, root, "silver"))
    /\ TopicAccepted(scope, row.topic)
    /\ store' = store \cup {[row EXCEPT !.table = LayerUri(scope, root, "silver")]}
    /\ UNCHANGED view

\* ingest.main: the loader of NDJSON files appends to the URI it is given.
LoadFile(uri, event) ==
    /\ store' = store \cup RowsOf(uri, {event}, None, "loader")
    /\ UNCHANGED view

-----------------------------------------------------------------------------
(* access_policy.py *)
Rank == [UNCLASSIFIED |-> 0, RESTRICTED |-> 1, CONFIDENTIAL |-> 2, SECRET |-> 3]
Levels == DOMAIN Rank

All(scope) == {scope} \X Layers

\* ROLE_READ_GRANTS; a schema is <<scope, layer>>.
Grants ==
    [independent_auditor |-> All("cvff"), nimasa_approver |-> All("cvff"),
     cbn_observer |-> All("cvff"), fmmbe_oversight |-> All(Platform),
     seafarer_registry |-> All("seafarer"), fisheries_operations |-> All("fisheries"),
     isr_analyst |-> All("isr"), insurer_aggregator |-> {<<"isr", "gold">>},
     mrv_reader |-> All("mrv"), mrv_verifier |-> All("mrv"),
     mrv_flag_admin |-> All("mrv"), bc_registry_admin |-> All("bluecarbon"),
     bc_auditor |-> All("bluecarbon"), stats_reader |-> {<<Platform, "gold">>}]

\* SCHEMA_CLASSIFICATION_FLOOR.
Floor(schema) ==
    CASE schema[1] \in {Platform, "cvff"} -> "UNCLASSIFIED"
      [] schema[1] = "fisheries" -> "RESTRICTED"
      [] schema[1] \in {"seafarer", "mrv"} -> "CONFIDENTIAL"
      [] schema[1] = "isr" -> IF schema[2] = "gold" THEN "CONFIDENTIAL" ELSE "SECRET"
      [] schema[1] = "bluecarbon" ->
             IF schema[2] = "gold" THEN "UNCLASSIFIED" ELSE "CONFIDENTIAL"

\* clearance_permits.
Permits(level, label) ==
    level \in Levels /\ label \in Levels /\ Rank[level] >= Rank[label]

\* authorize_read; a claim that is not a level is refused for every schema.
Authorized(roles, schema, level) ==
    /\ roles # {} /\ roles \subseteq DOMAIN Grants
    /\ \E r \in roles : schema \in Grants[r]
    /\ level \in Levels \cup {None}
    /\ Floor(schema) = "UNCLASSIFIED" \/ Permits(level, Floor(schema))

\* The table of a schema under a root, as the scope's readers resolve it.
RowsIn(scope, root, layer) ==
    {r \in store : r.table = LayerUri(scope, root, layer)}

\* An authorised reader reads a table, or, filtered, the rows of it that
\* filter_records_by_clearance lets through.
Read(scope, root, layer) ==
    /\ RootAccepted(scope, root)
    /\ UriAccepted(scope, LayerUri(scope, root, layer))
    /\ RowsIn(scope, root, layer) # {}
    /\ \E roles \in RoleSets, level \in Levels \cup {None, "TOP"}, filtered \in BOOLEAN :
           /\ Authorized(roles, <<scope, layer>>, level)
           /\ filtered => level # None
           /\ view' = [roles |-> roles, level |-> level,
                       rows |-> {r \in RowsIn(scope, root, layer) :
                                     filtered => Permits(level, r.event.level)}]
    /\ UNCHANGED store

Write ==
    \/ \E s \in Scopes, t \in Tables, ns \in Namespaces : Consume(s, t, ns)
    \/ \E s \in Scopes, r \in Roots, ns \in Namespaces \cup {None} :
           AppendBronze(s, r, ns)
    \/ \E t \in Tables, e \in Labelled : LoadFile(t, e)

Next ==
    \/ Cardinality(store) < MaxRows /\ Write
    \/ \E s \in Scopes, r \in Roots, row \in store : AppendSilver(s, r, row)
    \/ \E s \in Scopes, r \in Roots, l \in Layers : Read(s, r, l)

Spec == Init /\ [][Next]_vars

-----------------------------------------------------------------------------
Rows == [table : Tables, event : Envelopes, label : Labels,
         topic : Namespaces \cup {None}, by : {"consumer", "writer", "loader"}]

\* Every row kept or shown has a label of the vocabulary and a table that the
\* layout of some scope has.
TypeOK ==
    /\ store \subseteq Rows
    /\ view.roles \in RoleSets \cup {{}}
    /\ view.level \in Levels \cup {None}
    /\ view.rows \subseteq Rows

\* The scope that owns an event, by its type.
OwnerScope(event) ==
    IF ScopeFor(event.type) = None THEN Platform ELSE ScopeFor(event.type)

\* No write path but the file loader crosses a boundary: the table's whole path,
\* the label, the topic and the event type of a row all name one scope, and
\* exactly the cvff rows come from fiduciary envelopes.  The root check looks at
\* the last component alone, the URI check at the path, the label at the type.
RowsInTheirScope ==
    \A r \in store : r.by # "loader" =>
        LET s == OwnerScope(r.event) IN
        /\ DeclaredBy(r.table) = {s} \ {Platform}
        /\ LabelScope(r.label) = s
        /\ r.topic # None => ScopeFor(r.topic) = s
        /\ (r.event.class = Fiduciary) = (s = "cvff")

Layer(uri) == uri.path[Len(uri.path)][2]

\* From the envelope to the reader: whoever is shown an event that came through a
\* governed writer holds a role with a grant on that layer of the scope that owns
\* the event, and a clearance that reaches its floor, whatever label, table and
\* other roles were involved.
OnlyEntitledReaders ==
    \A r \in view.rows : r.by # "loader" =>
        LET own == <<OwnerScope(r.event), Layer(r.table)>> IN
        /\ \E q \in view.roles : own \in Grants[q]
        /\ Floor(own) = "UNCLASSIFIED" \/ Permits(view.level, Floor(own))
=============================================================================
