--------------------------- MODULE BoundaryProofs ---------------------------
(***************************************************************************)
(* The segregation of the lakehouse holds for every set of roots, events,  *)
(* topics and roles, and for tables of any size: no governed write path    *)
(* crosses a scope, and no reader is shown an event of a scope it has no   *)
(* grant on.                                                               *)
(***************************************************************************)
EXTENDS Boundary, TLAPS

\* The table, the label, the topic and the event type of a row name one scope.
InItsScope(r) ==
    LET s == OwnerScope(r.event) IN
    /\ DeclaredBy(r.table) = {s} \ {Platform}
    /\ LabelScope(r.label) = s
    /\ r.topic # None => ScopeFor(r.topic) = s
    /\ (r.event.class = Fiduciary) = (s = "cvff")

\* The invariant: what is stored was guarded, what is shown was granted.
Inv ==
    /\ TypeOK
    /\ RowsInTheirScope
    /\ OnlyEntitledReaders

-----------------------------------------------------------------------------
(* The vocabulary. *)

\* A namespace has a scope, or none.
LEMMA NamespaceScopes ==
    ASSUME NEW ns
    PROVE  ScopeFor(ns) \in Scopes \cup {None}
<1>1. CASE ns \notin DOMAIN PrefixScope
  BY <1>1 DEF ScopeFor
<1>2. CASE ns \in DOMAIN PrefixScope
  BY <1>2 DEF ScopeFor, PrefixScope, Scopes, Segregated, Platform
<1> QED BY <1>1, <1>2

\* Nothing is called by the absence of a name.
LEMMA NoneIsNoName == None \notin Scopes /\ ScopeFor(None) = None
<1>1. None \notin DOMAIN PrefixScope
  BY DEF None, PrefixScope
<1> QED BY <1>1 DEF None, Scopes, Segregated, Platform, ScopeFor

\* The label of a segregated scope belongs to that scope alone.
LEMMA ScopeLabelScope ==
    ASSUME NEW s \in Segregated
    PROVE  ScopeLabel[s] \in Labels /\ ScopeLabel[s] # None /\ LabelScope(ScopeLabel[s]) = s
<1>1. ScopeLabel[s] \notin PlatformLabels /\ ScopeLabel[s] # None
  BY DEF Segregated, ScopeLabel, PlatformLabels, None
<1>2. \A t \in Segregated : ScopeLabel[t] = ScopeLabel[s] => t = s
  BY DEF Segregated, ScopeLabel
<1>3. (CHOOSE t \in Segregated : ScopeLabel[t] = ScopeLabel[s]) = s
  BY <1>2
<1>4. LabelScope(ScopeLabel[s]) = s
  BY <1>1, <1>3 DEF LabelScope
<1>5. ScopeLabel[s] \in Labels
  BY DEF Labels
<1> QED BY <1>1, <1>4, <1>5

\* A platform label belongs to the platform.
LEMMA PlatformLabelScope ==
    ASSUME NEW class \in DOMAIN PlatformLabel
    PROVE  /\ PlatformLabel[class] \in Labels /\ PlatformLabel[class] # None
           /\ LabelScope(PlatformLabel[class]) = Platform
<1>1. PlatformLabel[class] \in PlatformLabels /\ PlatformLabel[class] # None
  BY DEF PlatformLabel, PlatformLabels, None
<1> QED BY <1>1 DEF LabelScope, Labels

\* map_canonical_classification: an envelope that has a label has that of the
\* scope that owns its event type, and exactly the cvff ones are fiduciary.
LEMMA LabelOwner ==
    ASSUME NEW e \in Labelled
    PROVE  /\ CanonicalLabel(e.class, e.type) \in Labels
           /\ LabelScope(CanonicalLabel(e.class, e.type)) = OwnerScope(e)
           /\ (e.class = Fiduciary) <=> (OwnerScope(e) = "cvff")
           /\ OwnerScope(e) \in Scopes
<1> DEFINE scope == ScopeFor(e.type)
           label == CanonicalLabel(e.class, e.type)
<1>1. scope \in Scopes \cup {None} /\ label # None
  BY NamespaceScopes DEF Labelled
<1>2. e.class \in Canonical /\ ((e.class = Fiduciary) <=> (scope = "cvff"))
  BY <1>1 DEF CanonicalLabel
<1>3. label = IF scope \in {Platform, None} THEN PlatformLabel[e.class] ELSE ScopeLabel[scope]
  BY <1>2 DEF CanonicalLabel
<1>4. Platform # "cvff" /\ None # "cvff" /\ Platform \in Scopes /\ None \notin Scopes
  BY NoneIsNoName DEF Platform, None, Scopes
<1> HIDE DEF scope, label
<1>5. OwnerScope(e) = IF scope = None THEN Platform ELSE scope
  BY DEF OwnerScope, scope
<1>6. CASE scope \in {Platform, None}
  <2>1. e.class \in DOMAIN PlatformLabel
    BY <1>2, <1>4, <1>6 DEF Canonical
  <2>2. label \in Labels /\ LabelScope(label) = Platform
    BY <1>3, <1>6, <2>1, PlatformLabelScope
  <2>3. OwnerScope(e) = Platform
    BY <1>5, <1>6
  <2> QED BY <1>2, <1>4, <1>6, <2>2, <2>3 DEF label
<1>7. CASE scope \notin {Platform, None}
  <2>1. scope \in Segregated
    BY <1>1, <1>7 DEF Scopes
  <2>2. label \in Labels /\ LabelScope(label) = scope
    BY <1>3, <1>7, <2>1, ScopeLabelScope
  <2>3. OwnerScope(e) = scope
    BY <1>5, <1>7
  <2> QED BY <1>1, <1>2, <1>7, <2>2, <2>3 DEF label
<1> QED BY <1>6, <1>7

\* A path declares one scope at most.
LEMMA DeclaredScope ==
    ASSUME NEW s \in Scopes, NEW t \in Scopes, {s} \ {Platform} = {t} \ {Platform}
    PROVE  s = t
OBVIOUS

\* The last component of a table's path is its layer.
LEMMA TableLayer ==
    ASSUME NEW scope, NEW root \in Roots, NEW layer
    PROVE  Layer(LayerUri(scope, root, layer)) = layer
<1>1. root.path \in Seq(STRING \X STRING)
  BY RootsAssumption
<1> DEFINE new == Append(root.path, <<scope, layer>>)
<1>2. Len(new) = Len(root.path) + 1 /\ new[Len(new)] = <<scope, layer>>
  BY <1>1
<1> QED BY <1>2 DEF Layer, LayerUri

-----------------------------------------------------------------------------
(* Steps. *)

\* Every batch is of envelopes that have a label.
LEMMA BatchesLabelled ==
    ASSUME NEW batch \in Batches
    PROVE  batch \subseteq Labelled
<1>1. PICK f \in [1..MaxBatch -> Labelled] : batch = {f[i] : i \in 1..MaxBatch}
  BY DEF Batches
<1> QED BY <1>1

\* A guarded batch is of the scope it is written to, whole.
LEMMA GuardedRows ==
    ASSUME NEW s \in Scopes, NEW uri \in Tables, NEW batch \in Batches,
           NEW topic \in Namespaces \cup {None}, NEW by \in {"consumer", "writer"},
           UriAccepted(s, uri), EventsAccepted(s, batch),
           topic = None \/ TopicAccepted(s, topic)
    PROVE  \A r \in RowsOf(uri, batch, topic, by) : r \in Rows /\ InItsScope(r)
<1> TAKE r \in RowsOf(uri, batch, topic, by)
<1>1. PICK e \in batch : r = [table |-> uri, event |-> e,
                              label |-> CanonicalLabel(e.class, e.type),
                              topic |-> topic, by |-> by]
  BY DEF RowsOf
<1>2. e \in Labelled /\ e \in Envelopes
  BY BatchesLabelled DEF Labelled
<1>3. /\ CanonicalLabel(e.class, e.type) \in Labels
      /\ LabelScope(CanonicalLabel(e.class, e.type)) = OwnerScope(e)
      /\ (e.class = Fiduciary) <=> (OwnerScope(e) = "cvff")
  BY <1>2, LabelOwner
<1>4. OwnerScope(e) = s
  BY <1>3 DEF EventsAccepted
<1>5. r \in Rows
  BY <1>1, <1>2, <1>3 DEF Rows
<1>6. /\ DeclaredBy(uri) = {s} \ {Platform}
      /\ topic # None => ScopeFor(topic) = s
  BY DEF UriAccepted, TopicAccepted
<1>7. r.table = uri /\ r.event = e /\ r.label = CanonicalLabel(e.class, e.type) /\ r.topic = topic
  BY <1>1
<1> QED BY <1>3, <1>4, <1>5, <1>6, <1>7 DEF InItsScope

\* Rows that are in their scope join a store of such rows.
LEMMA StoreGrows ==
    ASSUME Inv, NEW new, store' = store \cup new, view' = view,
           \A r \in new : r \in Rows /\ (r.by # "loader" => InItsScope(r))
    PROVE  Inv'
<1>1. \A r \in store : r \in Rows /\ (r.by # "loader" => InItsScope(r))
  BY DEF Inv, TypeOK, RowsInTheirScope, InItsScope
<1>2. TypeOK'
  BY DEF Inv, TypeOK
<1>3. RowsInTheirScope'
  BY <1>1 DEF RowsInTheirScope, InItsScope
<1>4. OnlyEntitledReaders'
  BY DEF Inv, OnlyEntitledReaders
<1> QED BY <1>2, <1>3, <1>4 DEF Inv

\* The table of a scope's layer.
LEMMA TableType ==
    ASSUME NEW s \in Scopes, NEW root \in Roots, NEW layer \in Layers
    PROVE  LayerUri(s, root, layer) \in Tables
BY DEF Tables

\* The governed writers keep the invariant.
LEMMA ConsumeInv ==
    ASSUME Inv, NEW s \in Scopes, NEW uri \in Tables, NEW ns \in Namespaces,
           Consume(s, uri, ns)
    PROVE  Inv'
<1>1. PICK batch \in Batches : /\ EventsAccepted(s, batch)
                               /\ store' = store \cup RowsOf(uri, batch, ns, "consumer")
  BY DEF Consume
<1>2. UriAccepted(s, uri) /\ TopicAccepted(s, ns) /\ view' = view
  BY DEF Consume
<1>3. \A r \in RowsOf(uri, batch, ns, "consumer") : r \in Rows /\ InItsScope(r)
  BY <1>1, <1>2, GuardedRows
<1> QED BY <1>1, <1>2, <1>3, StoreGrows

\* The consumer's bronze rows are of the scope of their table.
LEMMA BronzeInv ==
    ASSUME Inv, NEW s \in Scopes, NEW root \in Roots, NEW ns \in Namespaces \cup {None},
           AppendBronze(s, root, ns)
    PROVE  Inv'
<1> DEFINE uri == LayerUri(s, root, "bronze")
<1>1. PICK batch \in Batches : /\ EventsAccepted(s, batch)
                               /\ store' = store \cup RowsOf(uri, batch, ns, "writer")
  BY DEF AppendBronze
<1>2. UriAccepted(s, uri) /\ (ns = None \/ TopicAccepted(s, ns)) /\ view' = view
  BY DEF AppendBronze
<1>3. uri \in Tables
  BY TableType DEF Layers
<1> HIDE DEF uri
<1>4. \A r \in RowsOf(uri, batch, ns, "writer") : r \in Rows /\ InItsScope(r)
  BY <1>1, <1>2, <1>3, GuardedRows
<1> QED BY <1>1, <1>2, <1>4, StoreGrows

\* A row of the scope's bronze table has the scope's topic, so its promotion
\* stays in the scope.
LEMMA SilverInv ==
    ASSUME Inv, NEW s \in Scopes, NEW root \in Roots, NEW row \in store,
           AppendSilver(s, root, row)
    PROVE  Inv'
<1> DEFINE uri == LayerUri(s, root, "silver")
           new == [row EXCEPT !.table = uri]
<1>1. /\ UriAccepted(s, uri) /\ TopicAccepted(s, row.topic)
      /\ store' = store \cup {new} /\ view' = view
  BY DEF AppendSilver
<1>2. row \in Rows /\ uri \in Tables
  BY TableType DEF Inv, TypeOK, Layers
<1> HIDE DEF uri
<1>3. /\ new \in Rows /\ new.table = uri /\ new.event = row.event /\ new.label = row.label
      /\ new.topic = row.topic /\ new.by = row.by
  BY <1>2 DEF Rows
<1>4. ASSUME row.by # "loader" PROVE InItsScope(new)
  <2>1. InItsScope(row)
    BY <1>4 DEF Inv, RowsInTheirScope, InItsScope
  <2>2. row.topic # None
    BY <1>1, NoneIsNoName DEF TopicAccepted
  <2>3. OwnerScope(row.event) = s
    BY <1>1, <2>1, <2>2 DEF InItsScope, TopicAccepted
  <2>4. DeclaredBy(uri) = {s} \ {Platform}
    BY <1>1 DEF UriAccepted
  <2> HIDE DEF new
  <2> QED BY <1>3, <2>1, <2>3, <2>4 DEF InItsScope
<1> HIDE DEF new
<1> DEFINE added == {new}
<1>5. /\ store' = store \cup added /\ view' = view
      /\ \A r \in added : r \in Rows /\ (r.by # "loader" => InItsScope(r))
  BY <1>1, <1>3, <1>4
<1> HIDE DEF added
<1> QED BY <1>5, StoreGrows

\* The file loader checks nothing; what it writes keeps its mark.
LEMMA LoadInv ==
    ASSUME Inv, NEW uri \in Tables, NEW e \in Labelled, LoadFile(uri, e)
    PROVE  Inv'
<1>1. store' = store \cup RowsOf(uri, {e}, None, "loader") /\ view' = view
  BY DEF LoadFile
<1>2. e \in Envelopes /\ CanonicalLabel(e.class, e.type) \in Labels
  BY LabelOwner DEF Labelled
<1>3. \A r \in RowsOf(uri, {e}, None, "loader") : r \in Rows /\ r.by = "loader"
  BY <1>2 DEF RowsOf, Rows
<1> QED BY <1>1, <1>3, StoreGrows

\* A reader is shown rows of one table, which it is authorised for, and the
\* governed ones among them belong to the scope of that table.
LEMMA ReadInv ==
    ASSUME Inv, NEW s \in Scopes, NEW root \in Roots, NEW layer \in Layers,
           Read(s, root, layer)
    PROVE  Inv'
<1> DEFINE uri == LayerUri(s, root, layer)
<1>1. PICK roles \in RoleSets, level \in Levels \cup {None, "TOP"}, filtered \in BOOLEAN :
         /\ Authorized(roles, <<s, layer>>, level)
         /\ view' = [roles |-> roles, level |-> level,
                     rows |-> {r \in RowsIn(s, root, layer) :
                                   filtered => Permits(level, r.event.level)}]
  BY DEF Read
<1>2. UriAccepted(s, uri) /\ store' = store
  BY DEF Read
<1>3. /\ view'.roles = roles /\ view'.level = level
      /\ \A r \in view'.rows : r \in store /\ r.table = uri
  BY <1>1 DEF RowsIn
<1>4. level \in Levels \cup {None}
  BY <1>1 DEF Authorized
<1>5. TypeOK'
  BY <1>2, <1>3, <1>4 DEF Inv, TypeOK
<1>6. RowsInTheirScope'
  BY <1>2 DEF Inv, RowsInTheirScope
<1>7. OnlyEntitledReaders'
  <2> SUFFICES ASSUME NEW r \in view'.rows, r.by # "loader"
               PROVE  LET own == <<OwnerScope(r.event), Layer(r.table)>> IN
                      /\ \E q \in view'.roles : own \in Grants[q]
                      /\ \/ Floor(own) = "UNCLASSIFIED"
                         \/ Permits(view'.level, Floor(own))
    BY DEF OnlyEntitledReaders
  <2>1. r \in store /\ r.table = uri /\ r \in Rows
    BY <1>3 DEF Inv, TypeOK
  <2>2. DeclaredBy(uri) = {OwnerScope(r.event)} \ {Platform}
    BY <2>1 DEF Inv, RowsInTheirScope
  <2>3. DeclaredBy(uri) = {s} \ {Platform}
    BY <1>2 DEF UriAccepted
  <2>4. OwnerScope(r.event) \in Scopes
    BY NamespaceScopes DEF OwnerScope, Scopes
  <2>5. OwnerScope(r.event) = s
    BY <2>2, <2>3, <2>4, DeclaredScope
  <2>6. Layer(r.table) = layer
    BY <2>1, TableLayer
  <2>7. /\ \E q \in roles : <<s, layer>> \in Grants[q]
        /\ Floor(<<s, layer>>) = "UNCLASSIFIED" \/ Permits(level, Floor(<<s, layer>>))
    BY <1>1 DEF Authorized
  <2> QED BY <1>3, <2>5, <2>6, <2>7
<1> QED BY <1>5, <1>6, <1>7 DEF Inv

\* An empty lakehouse shows nothing.
LEMMA InitInv == Init => Inv
BY DEF Init, NoView, Inv, TypeOK, RowsInTheirScope, OnlyEntitledReaders

\* Every step keeps the invariant.
LEMMA NextInv == Inv /\ [Next]_vars => Inv'
<1> SUFFICES ASSUME Inv, [Next]_vars PROVE Inv'
  OBVIOUS
<1>1. CASE UNCHANGED vars
  BY <1>1 DEF vars, Inv, TypeOK, RowsInTheirScope, OnlyEntitledReaders
<1>2. CASE Next
  BY <1>2, ConsumeInv, BronzeInv, LoadInv, SilverInv, ReadInv DEF Next, Write
<1> QED BY <1>1, <1>2

\* The inductive invariant holds in every reachable state.
THEOREM Inductive == Spec => []Inv
BY InitInv, NextInv, PTL DEF Spec

\* Every row kept or shown has a label of the vocabulary and a table of the
\* layout.
THEOREM TypeCorrect == Spec => []TypeOK
<1>1. Inv => TypeOK
  BY DEF Inv
<1> QED BY <1>1, Inductive, PTL

\* No write path but the file loader crosses a boundary, whatever roots,
\* namespaces and labels are configured and however large batches and tables
\* are (segregation.py).
THEOREM NoScopeCrossed == Spec => []RowsInTheirScope
<1>1. Inv => RowsInTheirScope
  BY DEF Inv
<1> QED BY <1>1, Inductive, PTL

\* Whoever is shown a governed event holds a role with a grant on that layer of
\* the scope that owns it, and a clearance that reaches its floor, for every
\* set of role claims (access_policy.py).
THEOREM ReadersEntitled == Spec => []OnlyEntitledReaders
<1>1. Inv => OnlyEntitledReaders
  BY DEF Inv
<1> QED BY <1>1, Inductive, PTL
=============================================================================
