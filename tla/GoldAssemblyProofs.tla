------------------------- MODULE GoldAssemblyProofs -------------------------
(***************************************************************************)
(* What overlapping and dying passes cannot spoil: the derived table, and a*)
(* GeoParquet object of it, come from one version of the source each, the  *)
(* object states which, and its sidecar agrees with it; no key is twice in *)
(* the source; and no export file holds what the clearance of its pass does*)
(* not clear.  Whatever was read, the derived rows account for their       *)
(* source, and where no two events are tied they do not depend on the order*)
(* in which it was read.                                                   *)
(***************************************************************************)
EXTENDS ProjectionProofs

\* The rows are what the product makes of this version of the source, in some
\* listing of its files.
FromSnapshot(version, rows) ==
    /\ version \in 1 .. Len(source)
    /\ \E events \in Orders(version) : Build(events) = Made(rows)

\* The derived table is made from one snapshot, or was never written.
GoldFromSnapshot ==
    gold = [version |-> 0, rows |-> {}] \/ FromSnapshot(gold.version, gold.rows)

\* The GeoParquet object is made from one snapshot, and its lineage is that of
\* the snapshot and of the rows inside.
ObjectFromSnapshot ==
    LET version == object.lineage.input_table_version IN
    object.lineage = NoLineage \/ (/\ FromSnapshot(version, object.rows)
                                   /\ object.lineage = Geo!Lineage(version, object.rows))

Commits == {source[i] : i \in 1 .. Len(source)}

\* The source is a sequence of commits, within the bound of the instance.
SourceInv ==
    /\ product \in Products
    /\ source \in Seq(Commits)
    /\ Len(source) <= MaxCommits[product]

PassesAreFunction == pass = [p \in Passes |-> pass[p]]

\* A pass that is going to write holds rows of one snapshot; unless the two
\* objects are torn, the object is that of the pass about to write its sidecar.
PassInv(p) ==
    /\ pass[p].pc \in {"write", "object", "sidecar"} => FromSnapshot(pass[p].version, pass[p].rows)
    /\ pass[p].pc = "sidecar" /\ ~torn =>
          object.lineage = Geo!Lineage(pass[p].version, pass[p].rows)

Inv ==
    /\ SourceInv
    /\ PassesAreFunction
    /\ GoldFromSnapshot
    /\ ObjectFromSnapshot
    /\ \A p \in Passes : PassInv(p)
    /\ torn \in BOOLEAN
    /\ SidecarAgrees

\* The topic is a sequence of records, and each commit one of rows.
CommitsInv == log \in Seq(ToSet(log)) /\ source \in Seq(Seq(Elements(source)))

\* Nothing but the row of a consignment itself states what may be seen of it:
\* it names events of the table, and its floor reaches that of each.
Floored(rows) ==
    \A r \in rows :
        /\ r.floor \in Nat
        /\ r.sources \subseteq {e.id : e \in Elements(source)}
        /\ \A e \in Elements(source) :
              e.consignment = r.consignment /\ e.id \in r.sources =>
                  /\ e.label \in DOMAIN Export!Clearance \cup {"none"}
                  /\ Export!EventFloor(e) <= r.floor

\* The rows are floored, and the clearance of p reaches their floors.
Shown(p, rows) ==
    Floored(rows) /\ \A r \in rows : Export!Clearance[ClearanceOf[p]] >= r.floor

\* The consignments that a pass, the table or a file holds.
ClearedInv ==
    /\ export = [p \in Passes |-> export[p]]
    /\ product = "fisheries" =>
          /\ Floored(gold.rows)
          /\ \A p \in Passes :
                /\ pass[p].pc = "write" => Floored(pass[p].rows)
                /\ pass[p].pc = "file" => Shown(p, pass[p].rows)
                /\ Shown(p, export[p])

-----------------------------------------------------------------------------
(* The source only grows. *)

\* The listings of a version do not change when commits are appended to it.
LEMMA OrdersStay ==
    ASSUME SourceInv, NEW m, source' = Append(source, m), NEW version \in 1 .. Len(source)
    PROVE  Orders(version)' = Orders(version)
<1>1. /\ Len(source) \in Nat /\ Len(source') = Len(source) + 1
      /\ \A i \in 1 .. Len(source) : source'[i] = source[i]
  BY DEF SourceInv
<1>2. FileOrders[version] = SetToSeqs(1 .. version)
  BY <1>1, BoundsAssumption DEF SourceInv, FileOrders
<1>3. Cardinality(1 .. version) = version
  BY <1>1, FS_Interval
<1>4. \A o \in FileOrders[version] : \A i \in 1 .. version : o[i] \in 1 .. Len(source)
  <2>1. FileOrders[version] \subseteq [1 .. version -> 1 .. version]
    BY <1>2, <1>3 DEF SetToSeqs
  <2>2. 1 .. version \subseteq 1 .. Len(source)
    BY <1>1
  <2> QED BY <2>1, <2>2
<1>5. \A o \in FileOrders[version] :
         [i \in 1 .. version |-> source'[o[i]]] = [i \in 1 .. version |-> source[o[i]]]
  BY <1>1, <1>4
<1> QED BY <1>5 DEF Orders

\* Rows of a snapshot stay rows of that snapshot.
LEMMA SnapshotStays ==
    ASSUME SourceInv, product' = product,
           source' = source \/ \E m : source' = Append(source, m)
    PROVE  \A version, rows : FromSnapshot(version, rows) => FromSnapshot(version, rows)'
<1> SUFFICES ASSUME NEW version, NEW rows, FromSnapshot(version, rows)
             PROVE  FromSnapshot(version, rows)'
  OBVIOUS
<1>1. version \in 1 .. Len(source) /\ Len(source) \in Nat
  BY DEF FromSnapshot, SourceInv
<1>2. Orders(version)' = Orders(version)
  <2>1. CASE source' = source
    BY <2>1 DEF Orders
  <2>2. CASE \E m : source' = Append(source, m)
    BY <1>1, <2>2, OrdersStay
  <2> QED BY <2>1, <2>2
<1>3. version \in 1 .. Len(source')
  <2>1. CASE source' = source
    BY <1>1, <2>1
  <2>2. ASSUME NEW m, source' = Append(source, m) PROVE version \in 1 .. Len(source')
    <3>1. Len(source') = Len(source) + 1
      BY <2>2 DEF SourceInv
    <3> QED BY <1>1, <3>1
  <2> QED BY <2>1, <2>2
<1>4. PICK events \in Orders(version) : Build(events) = Made(rows)
  BY DEF FromSnapshot
<1>5. Build(events)' = Build(events)
  BY DEF Build
<1> QED BY <1>2, <1>3, <1>4, <1>5 DEF FromSnapshot, Made

-----------------------------------------------------------------------------
(* Steps. *)

\* The step of a pass p leaves the other passes alone.
MovesTo(p, new) == pass' = [pass EXCEPT ![p] = new]

\* A step of p that writes neither the derived table nor the GeoParquet
\* objects, and brings p to rows of one snapshot, or to none.
LEMMA HoldsInv ==
    ASSUME Inv, NEW p \in Passes, NEW new, MovesTo(p, new), pass[p].pc # "sidecar",
           UNCHANGED <<product, source, gold, object, sidecar, torn>>,
           new.pc # "sidecar",
           new.pc \in {"write", "object"} => FromSnapshot(new.version, new.rows)
    PROVE  Inv'
<1>1. SourceInv /\ \A version, rows : FromSnapshot(version, rows) => FromSnapshot(version, rows)'
  BY SnapshotStays DEF Inv
<1>2. SourceInv'
  BY <1>1 DEF SourceInv, Commits
<1>3. pass'[p] = new /\ \A q \in Passes : q # p => pass'[q] = pass[q]
  BY DEF Inv, PassesAreFunction, MovesTo
<1>4. PassesAreFunction'
  BY DEF Inv, PassesAreFunction, MovesTo
<1>5. GoldFromSnapshot' /\ ObjectFromSnapshot'
  BY <1>1 DEF Inv, GoldFromSnapshot, ObjectFromSnapshot
<1>6. ASSUME NEW q \in Passes PROVE PassInv(q)'
  <2>1. CASE q = p
    BY <1>1, <1>3, <2>1 DEF PassInv
  <2>2. CASE q # p
    BY <1>1, <1>3, <2>2 DEF Inv, PassInv
  <2> QED BY <2>1, <2>2
<1>7. SidecarAgrees'
  <2>1. \A q \in Passes : pass[q].pc = "sidecar" => pass'[q].pc = "sidecar"
    BY <1>3
  <2> QED BY <2>1 DEF Inv, SidecarAgrees
<1> QED BY <1>2, <1>4, <1>5, <1>6, <1>7 DEF Inv

\* A promotion adds a version and changes none.
LEMMA PromoteInv ==
    ASSUME Inv, NEW i, NEW j, Promote(i, j)
    PROVE  Inv'
<1>1. PICK m : source' = Append(source, m)
  BY DEF Promote
<1>2. /\ UNCHANGED <<product, gold, pass, object, sidecar, torn>>
      /\ Len(source) < MaxCommits[product]
  BY DEF Promote, geo
<1>3. SourceInv /\ \A version, rows : FromSnapshot(version, rows) => FromSnapshot(version, rows)'
  BY <1>1, <1>2, SnapshotStays DEF Inv
<1>4. SourceInv'
  <2>1. source \in Seq(Commits \cup {m}) /\ Len(source) \in Nat
    BY <1>3 DEF SourceInv
  <2>2. source' \in Seq(Commits \cup {m}) /\ Len(source') = Len(source) + 1
    BY <1>1, <2>1
  <2>3. source' \in Seq(Commits')
    BY <2>2 DEF Commits
  <2>4. MaxCommits[product] \in Nat
    BY <1>3, BoundsAssumption DEF SourceInv
  <2> QED BY <1>2, <1>3, <2>1, <2>2, <2>3, <2>4 DEF SourceInv
<1>5. PassesAreFunction' /\ SidecarAgrees'
  BY <1>2 DEF Inv, PassesAreFunction, SidecarAgrees
<1>6. GoldFromSnapshot' /\ ObjectFromSnapshot'
  BY <1>2, <1>3 DEF Inv, GoldFromSnapshot, ObjectFromSnapshot
<1>7. \A p \in Passes : PassInv(p)'
  BY <1>2, <1>3 DEF Inv, PassInv
<1> QED BY <1>2, <1>4, <1>5, <1>6, <1>7 DEF Inv

\* An assembly raises, or it has rows.
Shaped(result) == result = Raises \/ \E rows : result = Made(rows)

\* So it is with the assembly of every product.
LEMMA BuildShaped ==
    ASSUME NEW prod \in Products, NEW events
    PROVE  Shaped(BuildFor(prod, events))
<1>1. CASE prod = "cvff"
  <2>1. BuildFor(prod, events) = CurateGold(events)
    BY <1>1, Zenon DEF BuildFor
  <2>2. Shaped(CurateGold(events))
    BY Zenon DEF CurateGold, Shaped
  <2> QED BY <2>1, <2>2
<1>2. CASE prod = "mrv"
  <2>1. BuildFor(prod, events) = AssembleVesselAnnual(events)
    BY <1>2, Zenon DEF BuildFor
  <2>2. Shaped(AssembleVesselAnnual(events))
    BY Zenon DEF AssembleVesselAnnual, Shaped
  <2> QED BY <2>1, <2>2
<1>3. CASE prod = "bluecarbon"
  <2>1. BuildFor(prod, events) = AssemblePublicRegistry(events)
    BY <1>3, Zenon DEF BuildFor
  <2>2. Shaped(AssemblePublicRegistry(events))
    BY Zenon DEF AssemblePublicRegistry, Shaped
  <2> QED BY <2>1, <2>2
<1>4. CASE prod = "stamps"
  <2>1. BuildFor(prod, events) = AssembleExciseStamps(events)
    BY <1>4, Zenon DEF BuildFor
  <2>2. Shaped(AssembleExciseStamps(events))
    BY Zenon DEF AssembleExciseStamps, Shaped
  <2> QED BY <2>1, <2>2
<1>5. CASE prod = "fisheries"
  <2>1. BuildFor(prod, events) = AssembleExportConsignments(events)
    BY <1>5, Zenon DEF BuildFor
  <2>2. Shaped(AssembleExportConsignments(events))
    BY Zenon DEF AssembleExportConsignments, Shaped
  <2> QED BY <2>1, <2>2
<1>6. CASE prod = "vessel"
  <2>1. BuildFor(prod, events) = RebuildTrajectories(events)
    BY <1>6, Zenon DEF BuildFor
  <2>2. Shaped(RebuildTrajectories(events))
    BY Zenon DEF RebuildTrajectories, Shaped
  <2> QED BY <2>1, <2>2
<1>7. CASE prod = "geofence"
  <2>1. BuildFor(prod, events) = RebuildGeofenceSummaries(events)
    BY <1>7, Zenon DEF BuildFor
  <2>2. Shaped(RebuildGeofenceSummaries(events))
    BY Zenon DEF RebuildGeofenceSummaries, Shaped
  <2> QED BY <2>1, <2>2
<1> QED BY <1>1, <1>2, <1>3, <1>4, <1>5, <1>6, <1>7 DEF Products

\* A pass reads one version, whole.
LEMMA ReadInv ==
    ASSUME Inv, NEW p \in Passes, Read(p)
    PROVE  Inv'
<1>1. PICK events \in Orders(Len(source)) :
         Build(events).ok /\ MovesTo(p, At("write", Len(source), Build(events).rows))
  BY DEF Read, MovesTo
<1>2. /\ pass[p].pc = "read" /\ source # <<>>
      /\ UNCHANGED <<product, source, gold, object, sidecar, torn>>
  BY DEF Read, geo
<1>3. Build(events) = Made(Build(events).rows)
  <2>1. \/ Build(events) = Raises
        \/ \E rows : Build(events) = Made(rows)
    BY BuildShaped DEF Inv, SourceInv, Build, Shaped
  <2>2. ~Raises.ok /\ \A rows : Made(rows).rows = rows
    BY DEF Raises, Made
  <2> QED BY <1>1, <2>1, <2>2
<1>4. Len(source) \in 1 .. Len(source)
  BY <1>2 DEF Inv, SourceInv
<1> DEFINE new == At("write", Len(source), Build(events).rows)
<1>5. FromSnapshot(Len(source), Build(events).rows)
  BY <1>3, <1>4 DEF FromSnapshot
<1>6. new.pc = "write" /\ new.version = Len(source) /\ new.rows = Build(events).rows
  BY DEF At
<1> HIDE DEF new
<1> QED BY <1>1, <1>2, <1>5, <1>6, HoldsInv DEF new

\* A snapshot of the derived table is one of the source.
LEMMA SnapshotInv ==
    ASSUME Inv, NEW p \in Passes, Snapshot(p)
    PROVE  Inv'
<1> DEFINE new == At("object", gold.version, gold.rows)
<1>1. /\ pass[p].pc = "snapshot" /\ MovesTo(p, new)
      /\ UNCHANGED <<product, source, gold, object, sidecar, torn>>
      /\ gold.rows # {}
  BY DEF Snapshot, geo, MovesTo, Geo!Exportable
<1>2. gold # [version |-> 0, rows |-> {}]
  BY <1>1
<1>3. FromSnapshot(gold.version, gold.rows)
  BY <1>2 DEF Inv, GoldFromSnapshot
<1>4. new.pc = "object" /\ new.version = gold.version /\ new.rows = gold.rows
  BY DEF At
<1> HIDE DEF new
<1> QED BY <1>1, <1>3, <1>4, HoldsInv

\* The steps that bring a pass to rows nobody writes to a shared table.
LEMMA QuietInv ==
    ASSUME Inv, NEW p \in Passes,
           \/ Start(p) \/ ReadRaises(p) \/ ReadExport(p) \/ WriteExport(p)
           \/ StartGeo(p) \/ SnapshotRaises(p)
    PROVE  Inv'
<1>1. PICK new : MovesTo(p, new) /\ new.pc \in {"read", "idle", "file", "snapshot"}
  <2>1. /\ At("read", 0, {}).pc = "read" /\ Idle.pc = "idle"
        /\ At("snapshot", 0, {}).pc = "snapshot"
        /\ At("file", gold.version, Export!Visible(gold.rows, ClearanceOf[p])).pc = "file"
    BY DEF At, Idle
  <2> QED BY <2>1 DEF Start, ReadRaises, ReadExport, WriteExport, StartGeo, SnapshotRaises,
                      MovesTo
<1>2. pass[p].pc # "sidecar" /\ UNCHANGED <<product, source, gold, object, sidecar, torn>>
  BY DEF Start, ReadRaises, ReadExport, WriteExport, StartGeo, SnapshotRaises, geo
<1> QED BY <1>1, <1>2, HoldsInv

\* What a pass overwrites the derived table with is of one snapshot.
LEMMA WriteInv ==
    ASSUME Inv, NEW p \in Passes, Write(p)
    PROVE  Inv'
<1>1. /\ pass[p].pc = "write" /\ gold' = [version |-> pass[p].version, rows |-> pass[p].rows]
      /\ UNCHANGED <<product, source, object, sidecar, torn>>
  BY DEF Write, geo
<1>2. PICK new : MovesTo(p, new) /\ new.pc \in {"export", "idle"}
  <2>1. At("export", 0, {}).pc = "export" /\ Idle.pc = "idle"
    BY DEF At, Idle
  <2>2. MovesTo(p, At("export", 0, {})) \/ MovesTo(p, Idle)
    BY DEF Write, MovesTo
  <2> QED BY <2>1, <2>2
<1>3. SourceInv /\ \A version, rows : FromSnapshot(version, rows) => FromSnapshot(version, rows)'
  BY <1>1, SnapshotStays DEF Inv
<1>4. pass'[p] = new /\ \A q \in Passes : q # p => pass'[q] = pass[q]
  BY <1>2 DEF Inv, PassesAreFunction, MovesTo
<1>5. PassesAreFunction'
  BY <1>2 DEF Inv, PassesAreFunction, MovesTo
<1>6. GoldFromSnapshot'
  BY <1>1, <1>3 DEF Inv, PassInv, GoldFromSnapshot
<1>7. ObjectFromSnapshot' /\ SourceInv'
  BY <1>1, <1>3 DEF Inv, ObjectFromSnapshot, SourceInv, Commits
<1>8. ASSUME NEW q \in Passes PROVE PassInv(q)'
  <2>1. CASE q = p
    BY <1>2, <1>4, <2>1 DEF PassInv
  <2>2. CASE q # p
    BY <1>1, <1>3, <1>4, <2>2 DEF Inv, PassInv
  <2> QED BY <2>1, <2>2
<1>9. SidecarAgrees'
  <2>1. \A q \in Passes : pass[q].pc = "sidecar" => pass'[q].pc = "sidecar"
    BY <1>1, <1>4
  <2> QED BY <1>1, <2>1 DEF Inv, SidecarAgrees
<1> QED BY <1>1, <1>5, <1>6, <1>7, <1>8, <1>9 DEF Inv

\* The object states the snapshot it is made of; a pass that is between its
\* two objects is overtaken, which torn records.
LEMMA ObjectInv ==
    ASSUME Inv, NEW p \in Passes, WriteObject(p)
    PROVE  Inv'
<1> DEFINE new == At("sidecar", pass[p].version, pass[p].rows)
           lineage == Geo!Lineage(pass[p].version, pass[p].rows)
<1>1. /\ pass[p].pc = "object" /\ MovesTo(p, new)
      /\ object' = [rows |-> pass[p].rows, lineage |-> lineage]
      /\ torn' = (\E q \in Passes : pass[q].pc = "sidecar")
      /\ UNCHANGED <<product, source, gold, sidecar>>
  BY DEF WriteObject, MovesTo
<1>2. new.pc = "sidecar" /\ new.version = pass[p].version /\ new.rows = pass[p].rows
  BY DEF At
<1>3. lineage.input_table_version = pass[p].version
  BY DEF Geo!Lineage
<1> HIDE DEF new, lineage
<1>4. object'.rows = pass[p].rows /\ object'.lineage = lineage
  BY <1>1
<1>5. torn' \in BOOLEAN
  BY <1>1
<1>6. SourceInv /\ \A version, rows : FromSnapshot(version, rows) => FromSnapshot(version, rows)'
  BY <1>1, SnapshotStays DEF Inv
<1>7. pass'[p] = new /\ \A q \in Passes : q # p => pass'[q] = pass[q]
  BY <1>1 DEF Inv, PassesAreFunction, MovesTo
<1>8. PassesAreFunction'
  BY <1>1 DEF Inv, PassesAreFunction, MovesTo
<1>9. GoldFromSnapshot' /\ SourceInv'
  BY <1>1, <1>6 DEF Inv, GoldFromSnapshot, SourceInv, Commits
<1>10. FromSnapshot(pass[p].version, pass[p].rows)
  BY <1>1 DEF Inv, PassInv
<1>11. ObjectFromSnapshot'
  BY <1>3, <1>4, <1>6, <1>10 DEF ObjectFromSnapshot, lineage
<1>12. ASSUME NEW q \in Passes PROVE PassInv(q)'
  <2>1. CASE q = p
    BY <1>2, <1>4, <1>6, <1>7, <1>10, <2>1 DEF PassInv, lineage
  <2>2. CASE q # p
    <3>1. pass'[q] = pass[q] /\ PassInv(q)
      BY <1>7, <2>2 DEF Inv
    <3>2. pass[q].pc = "sidecar" => torn'
      BY <1>1
    <3> QED BY <1>6, <3>1, <3>2 DEF PassInv
  <2> QED BY <2>1, <2>2
<1>13. SidecarAgrees'
  BY <1>2, <1>7 DEF SidecarAgrees
<1> QED BY <1>5, <1>8, <1>9, <1>11, <1>12, <1>13 DEF Inv

\* The sidecar repeats the lineage of the object, unless that is torn.
LEMMA SidecarInv ==
    ASSUME Inv, NEW p \in Passes, WriteSidecar(p)
    PROVE  Inv'
<1>1. /\ pass[p].pc = "sidecar" /\ MovesTo(p, Idle) /\ Idle.pc = "idle"
      /\ sidecar' = Geo!Lineage(pass[p].version, pass[p].rows)
      /\ UNCHANGED <<product, source, gold, object, torn>>
  BY DEF WriteSidecar, MovesTo, Idle, At
<1>2. SourceInv /\ \A version, rows : FromSnapshot(version, rows) => FromSnapshot(version, rows)'
  BY <1>1, SnapshotStays DEF Inv
<1>3. pass'[p] = Idle /\ \A q \in Passes : q # p => pass'[q] = pass[q]
  BY <1>1 DEF Inv, PassesAreFunction, MovesTo
<1>4. PassesAreFunction'
  BY <1>1 DEF Inv, PassesAreFunction, MovesTo
<1>5. GoldFromSnapshot' /\ ObjectFromSnapshot' /\ SourceInv'
  BY <1>1, <1>2 DEF Inv, GoldFromSnapshot, ObjectFromSnapshot, SourceInv, Commits
<1>6. ASSUME NEW q \in Passes PROVE PassInv(q)'
  <2>1. CASE q = p
    BY <1>1, <1>3, <2>1 DEF PassInv
  <2>2. CASE q # p
    BY <1>1, <1>2, <1>3, <2>2 DEF Inv, PassInv
  <2> QED BY <2>1, <2>2
<1>7. SidecarAgrees'
  <2>1. torn \/ object.lineage = Geo!Lineage(pass[p].version, pass[p].rows)
    BY <1>1 DEF Inv, PassInv
  <2> QED BY <1>1, <2>1 DEF SidecarAgrees
<1> QED BY <1>1, <1>4, <1>5, <1>6, <1>7 DEF Inv

\* A pass that dies between its two objects leaves them torn.
LEMMA DieInv ==
    ASSUME Inv, NEW p \in Passes, Die(p)
    PROVE  Inv'
<1>1. /\ MovesTo(p, Idle) /\ Idle.pc = "idle"
      /\ torn' = (torn \/ pass[p].pc = "sidecar")
      /\ UNCHANGED <<product, source, gold, object, sidecar>>
  BY DEF Die, MovesTo, Idle, At
<1>2. CASE pass[p].pc # "sidecar"
  <2>1. torn' = torn
    BY <1>1, <1>2 DEF Inv
  <2> QED BY <1>1, <1>2, <2>1, HoldsInv
<1>3. CASE pass[p].pc = "sidecar"
  <2>1. torn' = TRUE
    BY <1>1, <1>3
  <2>2. SourceInv /\ \A version, rows : FromSnapshot(version, rows) => FromSnapshot(version, rows)'
    BY <1>1, SnapshotStays DEF Inv
  <2>3. pass'[p] = Idle /\ \A q \in Passes : q # p => pass'[q] = pass[q]
    BY <1>1 DEF Inv, PassesAreFunction, MovesTo
  <2>4. PassesAreFunction'
    BY <1>1 DEF Inv, PassesAreFunction, MovesTo
  <2>5. GoldFromSnapshot' /\ ObjectFromSnapshot' /\ SourceInv'
    BY <1>1, <2>2 DEF Inv, GoldFromSnapshot, ObjectFromSnapshot, SourceInv, Commits
  <2>6. ASSUME NEW q \in Passes PROVE PassInv(q)'
    <3>1. CASE q = p
      BY <1>1, <2>3, <3>1 DEF PassInv
    <3>2. CASE q # p
      BY <2>1, <2>2, <2>3, <3>2 DEF Inv, PassInv
    <3> QED BY <3>1, <3>2
  <2>7. SidecarAgrees'
    BY <2>1 DEF SidecarAgrees
  <2> QED BY <2>1, <2>4, <2>5, <2>6, <2>7 DEF Inv
<1> QED BY <1>2, <1>3

-----------------------------------------------------------------------------
\* Nothing is written at first.
LEMMA InitInv == Init => Inv
<1> SUFFICES ASSUME Init PROVE Inv
  OBVIOUS
<1>1. product \in Products
  BY LogsAssumption DEF Init
<1>2. MaxCommits[product] \in Nat
  BY <1>1, BoundsAssumption
<1>3. SourceInv
  BY <1>1, <1>2 DEF Init, SourceInv
<1>4. PassesAreFunction
  BY DEF Init, PassesAreFunction
<1>5. GoldFromSnapshot
  BY DEF Init, GoldFromSnapshot
<1>6. object.lineage = NoLineage /\ sidecar = NoLineage /\ torn = FALSE
  BY DEF Init
<1>7. ObjectFromSnapshot /\ SidecarAgrees
  BY <1>6 DEF ObjectFromSnapshot, SidecarAgrees
<1>8. ASSUME NEW p \in Passes PROVE PassInv(p)
  <2>1. pass[p].pc = "idle"
    BY DEF Init, Idle, At
  <2> QED BY <2>1 DEF PassInv
<1> QED BY <1>3, <1>4, <1>5, <1>6, <1>7, <1>8 DEF Inv

\* Every step keeps the invariant.
LEMMA NextInv == Inv /\ [Next]_vars => Inv'
<1> SUFFICES ASSUME Inv, [Next]_vars PROVE Inv'
  OBVIOUS
<1>1. ASSUME NEW i \in DOMAIN log, NEW j \in i .. Len(log), Promote(i, j) PROVE Inv'
  BY <1>1, PromoteInv
<1>2. ASSUME NEW p \in Passes,
             \/ Start(p) \/ ReadRaises(p) \/ ReadExport(p) \/ WriteExport(p)
             \/ StartGeo(p) \/ SnapshotRaises(p)
      PROVE  Inv'
  BY <1>2, QuietInv
<1>3. ASSUME NEW p \in Passes, Read(p) PROVE Inv'
  BY <1>3, ReadInv
<1>4. ASSUME NEW p \in Passes, Write(p) PROVE Inv'
  BY <1>4, WriteInv
<1>5. ASSUME NEW p \in Passes, Snapshot(p) PROVE Inv'
  BY <1>5, SnapshotInv
<1>6. ASSUME NEW p \in Passes, WriteObject(p) PROVE Inv'
  BY <1>6, ObjectInv
<1>7. ASSUME NEW p \in Passes, WriteSidecar(p) PROVE Inv'
  BY <1>7, SidecarInv
<1>8. ASSUME NEW p \in Passes, Die(p) PROVE Inv'
  BY <1>8, DieInv
<1>9. CASE UNCHANGED vars
  <2>1. UNCHANGED <<product, source, gold, pass, object, sidecar, torn>>
    BY <1>9 DEF vars, geo
  <2>2. SourceInv' /\ PassesAreFunction' /\ GoldFromSnapshot' /\ ObjectFromSnapshot'
    BY <2>1 DEF Inv, SourceInv, Commits, PassesAreFunction, GoldFromSnapshot,
                ObjectFromSnapshot, FromSnapshot, Orders, Build
  <2>3. \A p \in Passes : PassInv(p)'
    BY <2>1 DEF Inv, PassInv, FromSnapshot, Orders, Build
  <2>4. SidecarAgrees'
    BY <2>1 DEF Inv, SidecarAgrees
  <2> QED BY <2>1, <2>2, <2>3, <2>4 DEF Inv
<1> QED BY <1>1, <1>2, <1>3, <1>4, <1>5, <1>6, <1>7, <1>8, <1>9 DEF Next

\* The inductive invariant holds in every behaviour of the assembly.
THEOREM Inductive == Spec => []Inv
<1> QED BY InitInv, NextInv, PTL DEF Spec

\* The derived table is always the whole projection of one version of the
\* source, in some listing of its files: passes that overlap, die or are
\* overtaken never leave a mixture (write_deltalake overwrites in one commit).
THEOREM GoldOneSnapshot == Spec => []GoldFromSnapshot
<1>1. Inv => GoldFromSnapshot
  BY DEF Inv
<1> QED BY <1>1, Inductive, PTL

\* The GeoParquet object is always the whole projection of the version that
\* its embedded lineage states, with the counts of those rows
\* (export_geoparquet takes rows and version from one handle).
THEOREM ObjectOneSnapshot == Spec => []ObjectFromSnapshot
<1>1. Inv => ObjectFromSnapshot
  BY DEF Inv
<1> QED BY <1>1, Inductive, PTL

\* The sidecar mirrors the embedded lineage whenever no export is between its
\* two objects and the last one was neither killed nor overtaken there.
THEOREM SidecarMirrors == Spec => []SidecarAgrees
<1>1. Inv => SidecarAgrees
  BY DEF Inv
<1> QED BY <1>1, Inductive, PTL

-----------------------------------------------------------------------------
(* The insert-only merge. *)

Present == {DedupKey(r) : r \in ToSet(Rows(Len(source)))}

\* One step of the merge: a row is inserted unless its key is there.
Inserts(f, batch, i) ==
    f[i] = IF DedupKey(batch[i]) \in Present THEN f[i - 1] ELSE Append(f[i - 1], batch[i])

\* The merge goes through the batch row by row.
LEMMA MissingSteps ==
    ASSUME NEW B, NEW batch \in Seq(B)
    PROVE  \E f : /\ f \in [0 .. Len(batch) -> Seq(B)]
                  /\ f[0] = <<>>
                  /\ \A i \in 1 .. Len(batch) : Inserts(f, batch, i)
                  /\ Missing(batch) = f[Len(batch)]
<1> DEFINE n == Len(batch)
           Matched(i) == DedupKey(batch[i]) \in Present
           Defines(f) == f = [i \in 0 .. n |-> IF i = 0 THEN <<>>
                                               ELSE IF Matched(i) THEN f[i - 1]
                                               ELSE Append(f[i - 1], batch[i])]
           step == [i \in 1 .. n |->
                       [v \in Seq(B) |-> IF Matched(i) THEN v ELSE Append(v, batch[i])]]
<1>1. n \in Nat /\ (\A i \in 1 .. n : batch[i] \in B) /\ <<>> \in Seq(B)
  OBVIOUS
<1> HIDE DEF n, Matched
<1>2. step \in [1 .. n -> [Seq(B) -> Seq(B)]]
  <2>1. \A i \in 1 .. n : \A v \in Seq(B) : Append(v, batch[i]) \in Seq(B)
    BY <1>1
  <2> QED BY <2>1
<1>3. PICK g : Follows(g, n, Seq(B), <<>>, step)
  <2> HIDE DEF step
  <2> QED BY <1>1, <1>2, Recursion
<1>4. /\ g \in [0 .. n -> Seq(B)] /\ g[0] = <<>>
      /\ \A i \in 1 .. n : g[i] = IF Matched(i) THEN g[i - 1] ELSE Append(g[i - 1], batch[i])
  <2>1. \A i \in 1 .. n : i - 1 \in 0 .. n
    BY <1>1
  <2>2. g \in [0 .. n -> Seq(B)] /\ g[0] = <<>>
    BY <1>3 DEF Follows
  <2>3. ASSUME NEW i \in 1 .. n
        PROVE  g[i] = IF Matched(i) THEN g[i - 1] ELSE Append(g[i - 1], batch[i])
    <3>1. g[i] = step[i][g[i - 1]]
      BY <1>3, Zenon DEF Follows
    <3>2. g[i - 1] \in Seq(B)
      BY <2>1, <2>2
    <3> QED BY <3>1, <3>2
  <2> QED BY <2>2, <2>3
<1>5. Defines(g)
  <2>1. \A i \in 0 .. n : i = 0 \/ i \in 1 .. n
    BY <1>1
  <2>2. \A i \in 0 .. n : g[i] = IF i = 0 THEN <<>>
                                 ELSE IF Matched(i) THEN g[i - 1]
                                 ELSE Append(g[i - 1], batch[i])
    <3>1. \A i \in 1 .. n : i # 0
      BY <1>1
    <3> QED BY <1>4, <2>1, <3>1, Zenon
  <2> QED BY <1>4, <2>2
<1> DEFINE f == CHOOSE f : Defines(f)
<1>6. Defines(f)
  <2> HIDE DEF Defines
  <2> QED BY <1>5
<1>7. Missing(batch) = f[n]
  BY DEF Missing, n, Matched, Present
<1> HIDE DEF f
<1>8. f[0] = <<>> /\ \A i \in 1 .. n : Inserts(f, batch, i)
  <2>1. \A i \in 0 .. n : f[i] = IF i = 0 THEN <<>>
                                 ELSE IF Matched(i) THEN f[i - 1]
                                 ELSE Append(f[i - 1], batch[i])
    BY <1>6, Zenon
  <2>2. 0 \in 0 .. n /\ \A i \in 1 .. n : i \in 0 .. n /\ i # 0
    BY <1>1
  <2>3. f[0] = <<>>
    BY <2>1, <2>2, Zenon
  <2>4. ASSUME NEW i \in 1 .. n PROVE Inserts(f, batch, i)
    BY <2>1, <2>2, Zenon DEF Inserts, Matched
  <2> HIDE DEF Defines
  <2> QED BY <2>3, <2>4
<1>9. f \in [0 .. n -> Seq(B)]
  <2>1. f = [i \in 0 .. n |-> f[i]]
    BY <1>6
  <2> HIDE DEF Defines, step
  <2> DEFINE T == {i \in 0 .. n : f[i] \in Seq(B)}
  <2>2. 0 \in T
    <3>1. f[0] \in Seq(B) /\ 0 \in 0 .. n
      BY <1>1, <1>8
    <3> QED BY <3>1, Zenon
  <2>3. ASSUME NEW i \in 1 .. n, i - 1 \in T PROVE i \in T
    <3>1. f[i - 1] \in Seq(B) /\ batch[i] \in B /\ i \in 0 .. n
      BY <1>1, <2>3
    <3>2. f[i] = f[i - 1] \/ f[i] = Append(f[i - 1], batch[i])
      BY <1>8 DEF Inserts
    <3>3. Append(f[i - 1], batch[i]) \in Seq(B)
      BY <3>1
    <3>4. f[i] \in Seq(B)
      BY <3>1, <3>2, <3>3, Zenon
    <3> QED BY <3>1, <3>4, Zenon
  <2>4. \A i \in 1 .. n : i - 1 \in T => i \in T
    BY <2>3
  <2> HIDE DEF T
  <2>5. \A i \in 0 .. n : i \in T
    BY <1>1, <2>2, <2>4, UpTo
  <2>6. \A i \in 0 .. n : f[i] \in Seq(B)
    BY <2>5 DEF T
  <2> QED BY <2>1, <2>6
<1> HIDE DEF Defines, step
<1> QED BY <1>7, <1>8, <1>9 DEF n

\* Distinct rows of s have distinct keys.
Injective(s) == \A k, l \in DOMAIN s : DedupKey(s[k]) = DedupKey(s[l]) => k = l

\* What is inserted are rows of the batch, none of them there before, and no
\* key is repeated unless the batch repeats it.
LEMMA MissingRows ==
    ASSUME NEW B, NEW batch \in Seq(B), Injective(batch)
    PROVE  /\ Missing(batch) \in Seq(B)
           /\ \A r \in ToSet(Missing(batch)) : DedupKey(r) \notin Present
           /\ Injective(Missing(batch))
<1> DEFINE n == Len(batch)
<1>1. n \in Nat /\ DOMAIN batch = 1 .. n /\ (\A i \in 1 .. n : batch[i] \in B)
  OBVIOUS
<1>2. PICK f : /\ f \in [0 .. n -> Seq(B)]
               /\ f[0] = <<>>
               /\ \A i \in 1 .. n : Inserts(f, batch, i)
               /\ Missing(batch) = f[n]
  BY MissingSteps
<1> HIDE DEF n
<1> DEFINE From(s, i) == \A k \in DOMAIN s : \E j \in 1 .. i :
                            s[k] = batch[j] /\ DedupKey(s[k]) \notin Present
           T == {i \in 0 .. n : From(f[i], i) /\ Injective(f[i])}
<1>3. 0 \in T
  <2>1. From(f[0], 0) /\ Injective(f[0])
    BY <1>2 DEF Injective
  <2> HIDE DEF From
  <2> QED BY <1>1, <2>1
<1>4. ASSUME NEW i \in 1 .. n, i - 1 \in T PROVE i \in T
  <2> DEFINE s == f[i - 1]
  <2>1. s \in Seq(B) /\ batch[i] \in B /\ i \in 0 .. n /\ i - 1 \in 0 .. n
    BY <1>1, <1>2
  <2>2. From(s, i - 1) /\ Injective(s)
    BY <1>4
  <2> HIDE DEF s
  <2>3. \A j \in 1 .. (i - 1) : j \in 1 .. i /\ j \in 1 .. n /\ j # i
    BY <1>1
  <2>4. i \in 1 .. i
    BY <1>1
  <2>5. CASE DedupKey(batch[i]) \in Present
    <3>1. f[i] = s
      BY <1>2, <2>5 DEF Inserts, s
    <3>2. From(s, i)
      BY <2>2, <2>3, Zenon
    <3> HIDE DEF From
    <3> QED BY <2>1, <2>2, <3>1, <3>2
  <2>6. CASE DedupKey(batch[i]) \notin Present
    <3> DEFINE t == Append(s, batch[i])
    <3>1. f[i] = t
      BY <1>2, <2>6 DEF Inserts, s
    <3>2. /\ Len(s) \in Nat
          /\ DOMAIN s = 1 .. Len(s) /\ DOMAIN t = 1 .. Len(s) + 1 /\ t[Len(s) + 1] = batch[i]
          /\ \A k \in 1 .. Len(s) : t[k] = s[k]
      BY <2>1
    <3>3. \A k \in DOMAIN t : k \in DOMAIN s \/ k = Len(s) + 1
      BY <3>2
    <3> HIDE DEF t
    <3>4. From(t, i)
      <4> SUFFICES ASSUME NEW k \in DOMAIN t
                   PROVE  \E j \in 1 .. i : t[k] = batch[j] /\ DedupKey(t[k]) \notin Present
        OBVIOUS
      <4>1. CASE k \in DOMAIN s
        <5>1. t[k] = s[k]
          BY <3>2, <4>1
        <5> QED BY <2>2, <2>3, <4>1, <5>1, Zenon
      <4>2. CASE k = Len(s) + 1
        BY <2>4, <2>6, <3>2, <4>2, Zenon
      <4> QED BY <3>3, <4>1, <4>2
    <3>5. \A k \in DOMAIN s : DedupKey(s[k]) # DedupKey(batch[i])
      <4> SUFFICES ASSUME NEW k \in DOMAIN s, DedupKey(s[k]) = DedupKey(batch[i]) PROVE FALSE
        OBVIOUS
      <4>1. PICK j \in 1 .. (i - 1) : s[k] = batch[j]
        BY <2>2, Zenon
      <4>2. j = i
        BY <1>1, <2>3, <4>1, Zenon DEF Injective
      <4> QED BY <2>3, <4>2
    <3>6. Injective(t)
      <4> SUFFICES ASSUME NEW k \in DOMAIN t, NEW l \in DOMAIN t,
                          DedupKey(t[k]) = DedupKey(t[l])
                   PROVE  k = l
        BY DEF Injective
      <4>1. CASE k \in DOMAIN s /\ l \in DOMAIN s
        <5>1. t[k] = s[k] /\ t[l] = s[l]
          BY <3>2, <4>1
        <5> QED BY <2>2, <4>1, <5>1 DEF Injective
      <4>2. CASE k \in DOMAIN s /\ l = Len(s) + 1
        BY <3>2, <3>5, <4>2
      <4>3. CASE k = Len(s) + 1 /\ l \in DOMAIN s
        BY <3>2, <3>5, <4>3
      <4> QED BY <3>3, <4>1, <4>2, <4>3
    <3> HIDE DEF From
    <3> QED BY <2>1, <3>1, <3>4, <3>6
  <2> QED BY <2>5, <2>6
<1>5. \A i \in 1 .. n : i - 1 \in T => i \in T
  BY <1>4
<1>6. n \in T
  <2> HIDE DEF T
  <2>1. \A i \in 0 .. n : i \in T
    BY <1>1, <1>3, <1>5, UpTo
  <2> QED BY <1>1, <2>1
<1>7. From(f[n], n) /\ Injective(f[n])
  BY <1>6
<1>8. Missing(batch) \in Seq(B)
  BY <1>1, <1>2
<1>9. \A r \in ToSet(Missing(batch)) : DedupKey(r) \notin Present
  BY <1>2, <1>7 DEF ToSet
<1> QED BY <1>2, <1>7, <1>8, <1>9

\* Keys stay unique when rows with other keys are added.
LEMMA ConcatInjective ==
    ASSUME NEW S, NEW s \in Seq(S), NEW t \in Seq(S), Injective(s), Injective(t),
           \A a \in ToSet(s), b \in ToSet(t) : DedupKey(a) # DedupKey(b)
    PROVE  Injective(s \o t)
<1> DEFINE u == s \o t
<1>1. /\ Len(s) \in Nat /\ Len(t) \in Nat /\ DOMAIN s = 1 .. Len(s) /\ DOMAIN t = 1 .. Len(t)
      /\ DOMAIN u = 1 .. Len(s) + Len(t)
  OBVIOUS
<1>2. /\ \A i \in 1 .. Len(s) : u[i] = s[i]
      /\ \A i \in 1 .. Len(t) : u[Len(s) + i] = t[i]
  OBVIOUS
<1> HIDE DEF u
<1>3. \A k \in DOMAIN u : k \in DOMAIN s \/ \E i \in DOMAIN t : k = Len(s) + i
  <2> SUFFICES ASSUME NEW k \in DOMAIN u, k \notin DOMAIN s
               PROVE  \E i \in DOMAIN t : k = Len(s) + i
    OBVIOUS
  <2>1. k - Len(s) \in DOMAIN t /\ k = Len(s) + (k - Len(s))
    BY <1>1
  <2> QED BY <2>1
<1>4. \A k \in DOMAIN s, i \in DOMAIN t : DedupKey(s[k]) # DedupKey(t[i])
  BY DEF ToSet
<1> SUFFICES ASSUME NEW k \in DOMAIN u, NEW l \in DOMAIN u, DedupKey(u[k]) = DedupKey(u[l])
             PROVE  k = l
  BY DEF Injective, u
<1>5. CASE k \in DOMAIN s /\ l \in DOMAIN s
  <2>1. u[k] = s[k] /\ u[l] = s[l]
    BY <1>1, <1>2, <1>5
  <2> QED BY <1>5, <2>1 DEF Injective
<1>6. ASSUME k \in DOMAIN s, NEW i \in DOMAIN t, l = Len(s) + i PROVE FALSE
  <2>1. u[k] = s[k] /\ u[l] = t[i]
    BY <1>1, <1>2, <1>6
  <2> QED BY <1>4, <1>6, <2>1
<1>7. ASSUME NEW i \in DOMAIN t, k = Len(s) + i, l \in DOMAIN s PROVE FALSE
  <2>1. u[k] = t[i] /\ u[l] = s[l]
    BY <1>1, <1>2, <1>7
  <2> QED BY <1>4, <1>7, <2>1
<1>8. ASSUME NEW i \in DOMAIN t, k = Len(s) + i, NEW j \in DOMAIN t, l = Len(s) + j PROVE k = l
  <2>1. u[k] = t[i] /\ u[l] = t[j]
    BY <1>1, <1>2, <1>8
  <2>2. i = j
    BY <2>1 DEF Injective
  <2> QED BY <1>8, <2>2
<1> QED BY <1>3, <1>5, <1>6, <1>7, <1>8

\* All rows of the table.
LEMMA AllRows ==
    ASSUME CommitsInv
    PROVE  /\ Rows(Len(source)) = FlattenSeq(source)
           /\ Rows(Len(source)) \in Seq(Elements(source))
           /\ ToSet(Rows(Len(source))) = Elements(source)
<1>1. SubSeq(source, 1, Len(source)) = source
  BY DEF CommitsInv
<1>2. Rows(Len(source)) = FlattenSeq(source)
  BY <1>1 DEF Rows
<1> QED BY <1>2, FlattenType, FlattenElements DEF CommitsInv

\* What a promotion adds.
LEMMA PromoteRows ==
    ASSUME CommitsInv, KeysUnique, NEW i \in DOMAIN log, NEW j \in i .. Len(log), Promote(i, j)
    PROVE  /\ CommitsInv' /\ KeysUnique'
           /\ \E m : /\ source' = Append(source, m) /\ Injective(m)
                     /\ Elements(source') = Elements(source) \cup ToSet(m)
                     /\ ToSet(m) \subseteq {Record(k) : k \in DOMAIN log}
                     /\ \A r \in ToSet(m) :
                           DedupKey(r) \notin {DedupKey(e) : e \in Elements(source)}
<1> DEFINE n == j - i + 1
           batch == [k \in 1 .. n |-> Record(i + k - 1)]
           B == {batch[k] : k \in 1 .. n}
           m == Missing(batch)
           All == Elements(source) \cup ToSet(m)
<1>1. n \in Nat
  BY DEF CommitsInv
<1>2. batch \in Seq(B)
  <2> HIDE DEF n
  <2>1. batch \in [1 .. n -> B]
    OBVIOUS
  <2> HIDE DEF batch, B
  <2> QED BY <1>1, <2>1
<1>3. Injective(batch) /\ source' = Append(source, m) /\ UNCHANGED <<product, log>>
  BY DEF Promote, Injective
<1>17. B \subseteq {Record(k) : k \in DOMAIN log}
  <2>1. DOMAIN log = 1 .. Len(log) /\ Len(log) \in Nat
    BY DEF CommitsInv
  <2>2. \A k \in 1 .. n : i + k - 1 \in DOMAIN log /\ batch[k] = Record(i + k - 1)
    BY <2>1
  <2> QED BY <2>2
<1> HIDE DEF n, batch
<1>4. /\ m \in Seq(B) /\ Injective(m)
      /\ \A r \in ToSet(m) : DedupKey(r) \notin Present
  BY <1>2, <1>3, MissingRows
<1> HIDE DEF B, m
<1>5. m \in Seq(ToSet(m))
  <2>1. \A k \in 1 .. Len(m) : m[k] \in ToSet(m)
    BY <1>4 DEF ToSet
  <2> QED BY <1>4, <2>1
<1>6. m \in Seq(All)
  BY <1>5
<1>7. source \in Seq(Seq(All))
  <2>1. \A k \in 1 .. Len(source) : source[k] \in Seq(Elements(source))
    BY DEF CommitsInv
  <2>2. \A s \in Seq(Elements(source)) : s \in Seq(All)
    OBVIOUS
  <2>3. \A k \in 1 .. Len(source) : source[k] \in Seq(All)
    BY <2>1, <2>2
  <2> QED BY <2>3 DEF CommitsInv
<1>8. Elements(source') = All
  <2>1. /\ Len(source) \in Nat /\ Len(source') = Len(source) + 1
        /\ source'[Len(source) + 1] = m
        /\ \A k \in 1 .. Len(source) : source'[k] = source[k]
    BY <1>3, <1>6, <1>7
  <2>2. 1 .. Len(source') = (1 .. Len(source)) \cup {Len(source) + 1}
    BY <2>1
  <2> QED BY <2>1, <2>2 DEF Elements
<1>9. CommitsInv'
  <2>1. source' \in Seq(Seq(All))
    BY <1>3, <1>6, <1>7
  <2>2. log' \in Seq(ToSet(log'))
    BY <1>3 DEF CommitsInv
  <2> HIDE DEF All
  <2> QED BY <1>8, <2>1, <2>2 DEF CommitsInv
<1>10. Rows(Len(source))' = Rows(Len(source)) \o m
  <2>1. Rows(Len(source))' = FlattenSeq(source')
    <3>1. SubSeq(source', 1, Len(source')) = source'
      BY <1>9 DEF CommitsInv
    <3> QED BY <3>1 DEF Rows
  <2> HIDE DEF All
  <2> QED BY <1>3, <1>6, <1>7, <2>1, AllRows, FlattenAppend
<1>11. Rows(Len(source)) \in Seq(All)
  BY AllRows
<1>12. Injective(Rows(Len(source)))
  BY DEF KeysUnique, Injective
<1>13. \A a \in ToSet(Rows(Len(source))), b \in ToSet(m) : DedupKey(a) # DedupKey(b)
  BY <1>4 DEF Present
<1>14. Injective(Rows(Len(source)) \o m)
  <2> HIDE DEF All
  <2> QED BY <1>4, <1>6, <1>11, <1>12, <1>13, ConcatInjective
<1>15. KeysUnique'
  BY <1>3, <1>10, <1>14 DEF KeysUnique, Injective, DedupKey
<1>16. Present = {DedupKey(e) : e \in Elements(source)}
  BY AllRows DEF Present
<1>18. ToSet(m) \subseteq {Record(k) : k \in DOMAIN log}
  BY <1>4, <1>17 DEF ToSet
<1> QED BY <1>3, <1>4, <1>8, <1>9, <1>15, <1>16, <1>18

-----------------------------------------------------------------------------
(* Types. *)

Places == {"idle", "read", "write", "export", "file", "snapshot", "object", "sidecar"}

\* A step of pass p.
Moves(p) ==
    \/ Start(p) \/ Read(p) \/ ReadRaises(p) \/ Write(p) \/ ReadExport(p) \/ WriteExport(p)
    \/ StartGeo(p) \/ Snapshot(p) \/ SnapshotRaises(p) \/ WriteObject(p) \/ WriteSidecar(p)
    \/ Die(p)

\* What At says of a pass.
LEMMA AtFields ==
    /\ \A pc, version, rows :
          /\ At(pc, version, rows).pc = pc
          /\ At(pc, version, rows).version = version
          /\ At(pc, version, rows).rows = rows
    /\ Idle.pc = "idle" /\ Idle.version = 0 /\ Idle.rows = {}
BY DEF At, Idle

\* A pass moves to a place of its own, with a version of the source.
LEMMA MovesTyped ==
    ASSUME Inv, TypeOK, NEW p \in Passes, Moves(p)
    PROVE  /\ UNCHANGED <<product, log, source>>
           /\ \E new : MovesTo(p, new) /\ new.pc \in Places /\ new.version \in 0 .. Len(source)
<1>1. /\ Len(source) \in Nat /\ gold.version \in 0 .. Len(source)
      /\ pass[p].version \in 0 .. Len(source)
  BY DEF Inv, SourceInv, TypeOK
<1>2. Len(source) \in 0 .. Len(source) /\ 0 \in 0 .. Len(source)
  BY <1>1
<1>3. ASSUME NEW pc \in Places, NEW v \in 0 .. Len(source), NEW rows, MovesTo(p, At(pc, v, rows))
      PROVE  \E new : MovesTo(p, new) /\ new.pc \in Places /\ new.version \in 0 .. Len(source)
  <2> DEFINE new == At(pc, v, rows)
  <2>1. new.pc \in Places /\ new.version \in 0 .. Len(source)
    BY AtFields
  <2> HIDE DEF new
  <2> QED BY <1>3, <2>1 DEF new
<1>4. CASE Start(p) \/ ReadRaises(p) \/ WriteExport(p) \/ StartGeo(p) \/ SnapshotRaises(p)
           \/ WriteSidecar(p) \/ Die(p) \/ Write(p)
  <2>1. /\ UNCHANGED <<product, log, source>>
        /\ \E pc \in {"read", "snapshot", "export", "idle"} : MovesTo(p, At(pc, 0, {}))
    BY <1>4 DEF Start, ReadRaises, WriteExport, StartGeo, SnapshotRaises, WriteSidecar, Die,
                Write, MovesTo, Idle
  <2> QED BY <1>2, <1>3, <2>1 DEF Places
<1>5. CASE Read(p)
  <2>1. /\ UNCHANGED <<product, log, source>>
        /\ \E rows : MovesTo(p, At("write", Len(source), rows))
    BY <1>5 DEF Read, MovesTo
  <2> QED BY <1>2, <1>3, <2>1 DEF Places
<1>6. CASE ReadExport(p) \/ Snapshot(p)
  <2>1. /\ UNCHANGED <<product, log, source>>
        /\ \E pc \in {"file", "object"} : \E rows : MovesTo(p, At(pc, gold.version, rows))
    BY <1>6 DEF ReadExport, Snapshot, MovesTo
  <2> QED BY <1>1, <1>3, <2>1 DEF Places
<1>7. CASE WriteObject(p)
  <2>1. /\ UNCHANGED <<product, log, source>>
        /\ MovesTo(p, At("sidecar", pass[p].version, pass[p].rows))
    BY <1>7 DEF WriteObject, MovesTo
  <2> QED BY <1>1, <1>3, <2>1 DEF Places
<1> QED BY <1>4, <1>5, <1>6, <1>7 DEF Moves

\* Every step keeps the types, and the keys of the table that is read unique.
LEMMA TypeNext == Inv /\ TypeOK /\ CommitsInv /\ [Next]_vars => TypeOK' /\ CommitsInv'
<1> SUFFICES ASSUME Inv, TypeOK, CommitsInv, [Next]_vars PROVE TypeOK' /\ CommitsInv'
  OBVIOUS
<1>1. Len(source) \in Nat
  BY DEF CommitsInv
<1>2. ASSUME NEW i \in DOMAIN log, NEW j \in i .. Len(log), Promote(i, j)
      PROVE  TypeOK' /\ CommitsInv'
  <2>1. CommitsInv' /\ KeysUnique'
    BY <1>2, PromoteRows DEF TypeOK
  <2>2. UNCHANGED <<product, gold, pass, faults>> /\ \E m : source' = Append(source, m)
    BY <1>2 DEF Promote
  <2>3. Len(source') = Len(source) + 1
    BY <2>2 DEF CommitsInv
  <2>4. \A v \in 0 .. Len(source) : v \in 0 .. Len(source')
    BY <1>1, <2>3
  <2> QED BY <2>1, <2>2, <2>4 DEF TypeOK
<1>3. ASSUME UNCHANGED <<product, log, source>> PROVE CommitsInv' /\ KeysUnique'
  BY <1>3 DEF CommitsInv, TypeOK, KeysUnique, Rows, DedupKey, Elements
<1>4. ASSUME NEW p \in Passes, Moves(p) PROVE TypeOK' /\ CommitsInv'
  <2>1. UNCHANGED <<product, log, source>>
    BY <1>4, MovesTyped
  <2>2. PICK new : MovesTo(p, new) /\ new.pc \in Places /\ new.version \in 0 .. Len(source)
    BY <1>4, MovesTyped
  <2>3. \A q \in Passes : pass'[q].pc \in Places /\ pass'[q].version \in 0 .. Len(source)
    <3>1. pass'[p] = new /\ \A q \in Passes : q # p => pass'[q] = pass[q]
      BY <2>2 DEF Inv, PassesAreFunction, MovesTo
    <3> QED BY <2>2, <3>1 DEF TypeOK, Places
  <2>4. gold' = gold \/ gold' = [version |-> pass[p].version, rows |-> pass[p].rows]
    BY <1>4 DEF Moves, Start, Read, ReadRaises, Write, ReadExport, WriteExport, StartGeo,
                Snapshot, SnapshotRaises, WriteObject, WriteSidecar, Die
  <2>5. gold'.version \in 0 .. Len(source)
    BY <2>4 DEF TypeOK
  <2>6. faults' = faults \/ (faults < MaxFaults /\ faults' = faults + 1)
    BY <1>4 DEF Moves, Start, Read, ReadRaises, Write, ReadExport, WriteExport, StartGeo,
                Snapshot, SnapshotRaises, WriteObject, WriteSidecar, Die
  <2>7. faults' \in 0 .. MaxFaults
    BY <2>6, BoundsAssumption DEF TypeOK
  <2> QED BY <1>3, <2>1, <2>3, <2>5, <2>7 DEF TypeOK, Places
<1>5. CASE UNCHANGED vars
  <2>1. UNCHANGED <<product, log, source, gold, pass, faults>>
    BY <1>5 DEF vars
  <2> QED BY <1>3, <2>1 DEF TypeOK
<1> QED BY <1>2, <1>4, <1>5 DEF Next, Moves

\* Before the first promotion the table is empty.
LEMMA TypeInit == Init => TypeOK /\ CommitsInv
<1> SUFFICES ASSUME Init PROVE TypeOK /\ CommitsInv
  OBVIOUS
<1>1. product \in Products /\ log \in Seq(ToSet(log))
  BY LogsAssumption DEF Init
<1>2. source = <<>> /\ Len(source) = 0
  BY DEF Init
<1>3. CommitsInv
  BY <1>1, <1>2 DEF CommitsInv
<1>4. KeysUnique
  <2>1. Rows(Len(source)) = <<>>
    <3>1. FlattenSeq(source) = <<>>
      BY <1>2 DEF FlattenSeq
    <3> QED BY <1>3, <3>1, AllRows
  <2> QED BY <2>1 DEF KeysUnique
<1>5. gold.version = 0 /\ faults \in 0 .. MaxFaults
  BY BoundsAssumption DEF Init
<1>6. \A p \in Passes : pass[p] = Idle
  BY DEF Init
<1> QED BY <1>1, <1>2, <1>3, <1>4, <1>5, <1>6, AtFields DEF TypeOK

\* Types, and the promise of the insert-only merge: however often records are
\* promoted, in whatever batches, no key is twice in the table that the
\* assemblies read (silver_dedup_key, event_id).
THEOREM TypeCorrect == Spec => []TypeOK
<1>1. Init => Inv /\ TypeOK /\ CommitsInv
  BY InitInv, TypeInit
<1>2. Inv /\ TypeOK /\ CommitsInv /\ [Next]_vars => (Inv /\ TypeOK /\ CommitsInv)'
  BY NextInv, TypeNext
<1> QED BY <1>1, <1>2, PTL DEF Spec

-----------------------------------------------------------------------------
(* The rows of a listing. *)

\* No key is twice in a commit or in two of them.
CommitsApart ==
    /\ \A i \in 1 .. Len(source) : Injective(source[i])
    /\ \A i, j \in 1 .. Len(source) :
          i # j => \A a \in ToSet(source[i]), b \in ToSet(source[j]) : DedupKey(a) # DedupKey(b)

\* The rows are records of the topic.
RowsInv ==
    /\ \E l \in Logs : product = l.product /\ log = l.events
    /\ CommitsApart
    /\ Elements(source) \subseteq {Record(i) : i \in DOMAIN log}

\* Sequences without common keys are flattened to one without repeated keys.
LEMMA FlattenInjective ==
    ASSUME NEW S, NEW seqs \in Seq(Seq(S)),
           \A i \in 1 .. Len(seqs) : Injective(seqs[i]),
           \A i, j \in 1 .. Len(seqs) :
              i # j => \A a \in ToSet(seqs[i]), b \in ToSet(seqs[j]) : DedupKey(a) # DedupKey(b)
    PROVE  Injective(FlattenSeq(seqs))
<1> DEFINE n == Len(seqs)
<1>1. n \in Nat /\ \A i \in 1 .. n : seqs[i] \in Seq(S)
  OBVIOUS
<1>2. CASE seqs = <<>>
  <2>1. FlattenSeq(seqs) = <<>>
    BY <1>2 DEF FlattenSeq
  <2> QED BY <2>1 DEF Injective
<1>3. CASE seqs # <<>>
  <2>1. PICK f :
              /\ f \in [1 .. n -> Seq(S)]
              /\ f[1] = seqs[1]
              /\ \A i \in 2 .. n : f[i] = f[i - 1] \o seqs[i]
              /\ FlattenSeq(seqs) = f[n]
    <3>1. PICK f : Flattens(f, S, seqs)
      BY <1>3, FlattenSteps
    <3> QED BY <3>1 DEF Flattens
  <2>2. n \in 1 .. n
    BY <1>1, <1>3
  <2>3. /\ \A i \in 1 .. n : Injective(seqs[i])
        /\ \A i, j \in 1 .. n :
              i # j => \A a \in ToSet(seqs[i]), b \in ToSet(seqs[j]) : DedupKey(a) # DedupKey(b)
    OBVIOUS
  <2> HIDE DEF n
  <2> DEFINE Below(i) == UNION {ToSet(seqs[j]) : j \in 1 .. i}
             T == {i \in 0 .. n : i = 0 \/ (Injective(f[i]) /\ ToSet(f[i]) = Below(i))}
  <2>4. 0 \in T
    BY <1>1
  <2>5. ASSUME NEW i \in 1 .. n, i - 1 \in T PROVE i \in T
    <3>1. CASE i = 1
      <4>1. 1 .. 1 = {1} /\ 1 \in 1 .. n
        BY <3>1
      <4>2. ToSet(f[1]) = Below(1)
        BY <2>1, <4>1
      <4>3. Injective(seqs[1])
        BY <2>3, <4>1
      <4>4. Injective(f[1])
        BY <2>1, <4>3
      <4> QED BY <3>1, <4>2, <4>4
    <3>2. CASE i # 1
      <4>1. i \in 2 .. n /\ i - 1 \in 1 .. n /\ i - 1 # 0
        BY <1>1, <3>2
      <4>2. ToSet(f[i - 1]) = Below(i - 1) /\ Injective(f[i - 1])
        BY <2>5, <4>1
      <4>3. f[i] = f[i - 1] \o seqs[i] /\ f[i - 1] \in Seq(S) /\ seqs[i] \in Seq(S)
        BY <1>1, <2>1, <4>1
      <4>4. ToSet(f[i]) = ToSet(f[i - 1]) \cup ToSet(seqs[i])
        BY <4>3, ConcatElements
      <4>5. 1 .. i = (1 .. (i - 1)) \cup {i}
        BY <4>1
      <4>6. ToSet(f[i]) = Below(i)
        BY <4>2, <4>4, <4>5
      <4>7. \A a \in ToSet(f[i - 1]), b \in ToSet(seqs[i]) : DedupKey(a) # DedupKey(b)
        <5> SUFFICES ASSUME NEW a \in Below(i - 1), NEW b \in ToSet(seqs[i])
                     PROVE  DedupKey(a) # DedupKey(b)
          BY <4>2
        <5>1. PICK j \in 1 .. (i - 1) : a \in ToSet(seqs[j])
          OBVIOUS
        <5>2. j \in 1 .. n /\ j # i
          BY <1>1, <4>1, <5>1
        <5> QED BY <2>3, <5>1, <5>2
      <4>8. Injective(seqs[i])
        BY <2>3
      <4>9. Injective(f[i - 1] \o seqs[i])
        BY <4>2, <4>3, <4>7, <4>8, ConcatInjective
      <4>10. Injective(f[i])
        BY <4>3, <4>9
      <4> QED BY <4>6, <4>10
    <3> QED BY <3>1, <3>2
  <2> HIDE DEF T
  <2>6. \A i \in 0 .. n : i \in T
    BY <1>1, <2>4, <2>5, UpTo
  <2>7. n \in 0 .. n /\ n # 0
    BY <2>2
  <2> QED BY <2>1, <2>6, <2>7 DEF T
<1> QED BY <1>2, <1>3

\* A listing of the files of a version has its rows, and no key twice.
LEMMA ListedRows ==
    ASSUME SourceInv, CommitsInv, CommitsApart,
           NEW version \in 1 .. Len(source), NEW events \in Orders(version)
    PROVE  /\ events \in Seq(Elements(source))
           /\ ToSet(events) = ToSet(Rows(version))
           /\ Injective(events)
<1> DEFINE n == version
<1>1. /\ n \in Nat \ {0} /\ n <= MaxCommits[product] /\ product \in Products
      /\ Len(source) \in Nat /\ 1 .. n \subseteq 1 .. Len(source)
  BY BoundsAssumption DEF SourceInv
<1>2. FileOrders[n] = SetToSeqs(1 .. n)
  BY <1>1, BoundsAssumption DEF FileOrders
<1>3. IsFiniteSet(1 .. n) /\ Cardinality(1 .. n) = n
  BY <1>1, FS_Interval
<1>4. PICK o \in FileOrders[n] : events = FlattenSeq([i \in 1 .. n |-> source[o[i]]])
  BY DEF Orders
<1>5. o \in [1 .. n -> 1 .. n] /\ \A i, j \in 1 .. n : i # j => o[i] # o[j]
  BY <1>2, <1>3, <1>4 DEF SetToSeqs
<1> HIDE DEF n
<1>6. \A k \in 1 .. n : \E i \in 1 .. n : o[i] = k
  <2> SUFFICES ASSUME NEW k \in 1 .. n, \A i \in 1 .. n : o[i] # k PROVE FALSE
    OBVIOUS
  <2>1. IsFiniteSet((1 .. n) \ {k}) /\ Cardinality((1 .. n) \ {k}) = n - 1
    BY <1>3, FS_RemoveElement
  <2>2. o \in [1 .. n -> (1 .. n) \ {k}]
    BY <1>5
  <2>3. n - 1 < n
    BY <1>1
  <2>4. \E i, j \in 1 .. n : i # j /\ o[i] = o[j]
    BY <1>3, <2>1, <2>2, <2>3, FS_PigeonHole
  <2> QED BY <1>5, <2>4
<1> DEFINE seqs == [i \in 1 .. n |-> source[o[i]]]
<1>7. \A i \in 1 .. n : source[i] \in Seq(Elements(source))
  <2>1. \A i \in 1 .. Len(source) : source[i] \in Seq(Elements(source))
    BY DEF CommitsInv
  <2> QED BY <1>1, <2>1
<1>8. /\ seqs \in Seq(Seq(Elements(source))) /\ Len(seqs) = n
      /\ \A i \in 1 .. n : seqs[i] = source[o[i]] /\ o[i] \in 1 .. n
  <2>1. \A i \in 1 .. n : o[i] \in 1 .. n /\ source[o[i]] \in Seq(Elements(source))
    BY <1>5, <1>7
  <2>2. seqs \in [1 .. n -> Seq(Elements(source))]
    BY <2>1
  <2>3. seqs \in Seq(Seq(Elements(source))) /\ Len(seqs) = n
    BY <1>1, <2>2
  <2> QED BY <2>1, <2>3
<1> DEFINE first == SubSeq(source, 1, n)
<1>9. /\ first \in Seq(Seq(Elements(source))) /\ Len(first) = n
      /\ \A i \in 1 .. n : first[i] = source[i]
  BY <1>1 DEF CommitsInv
<1> HIDE DEF seqs, first
<1>10. Elements(seqs) = Elements(first)
  <2>1. ASSUME NEW e \in Elements(seqs) PROVE e \in Elements(first)
    <3>1. PICK i \in 1 .. n : e \in ToSet(seqs[i])
      BY <1>8, <2>1 DEF Elements
    <3>2. o[i] \in 1 .. n /\ e \in ToSet(first[o[i]])
      BY <1>8, <1>9, <3>1
    <3> QED BY <1>9, <3>2 DEF Elements
  <2>2. ASSUME NEW e \in Elements(first) PROVE e \in Elements(seqs)
    <3>1. PICK k \in 1 .. n : e \in ToSet(first[k])
      BY <1>9, <2>2 DEF Elements
    <3>2. PICK i \in 1 .. n : o[i] = k
      BY <1>6
    <3>3. e \in ToSet(seqs[i])
      BY <1>8, <1>9, <3>1, <3>2
    <3> QED BY <1>8, <3>3 DEF Elements
  <2> QED BY <2>1, <2>2
<1>11. events = FlattenSeq(seqs) /\ Rows(version) = FlattenSeq(first)
  BY <1>4 DEF seqs, first, n, Rows
<1>12. /\ events \in Seq(Elements(source))
       /\ ToSet(events) = Elements(seqs) /\ ToSet(Rows(version)) = Elements(first)
  BY <1>8, <1>9, <1>11, FlattenType, FlattenElements
<1>13. Injective(events)
  <2>1. \A i \in 1 .. Len(seqs) : Injective(seqs[i])
    BY <1>1, <1>8 DEF CommitsApart
  <2>2. \A i, j \in 1 .. Len(seqs) :
           i # j => \A a \in ToSet(seqs[i]), b \in ToSet(seqs[j]) : DedupKey(a) # DedupKey(b)
    <3> SUFFICES ASSUME NEW i \in 1 .. n, NEW j \in 1 .. n, i # j
                 PROVE  \A a \in ToSet(seqs[i]), b \in ToSet(seqs[j]) : DedupKey(a) # DedupKey(b)
      BY <1>8
    <3>1. /\ o[i] # o[j] /\ seqs[i] = source[o[i]] /\ seqs[j] = source[o[j]]
          /\ o[i] \in 1 .. Len(source) /\ o[j] \in 1 .. Len(source)
      BY <1>1, <1>5, <1>8
    <3> QED BY <3>1 DEF CommitsApart
  <2> QED BY <1>8, <1>11, <2>1, <2>2, FlattenInjective
<1> QED BY <1>10, <1>12, <1>13

\* A promotion keeps the commits apart.
LEMMA PromoteApart ==
    ASSUME RowsInv, CommitsInv, KeysUnique,
           NEW i \in DOMAIN log, NEW j \in i .. Len(log), Promote(i, j)
    PROVE  RowsInv'
<1>1. PICK m : /\ source' = Append(source, m) /\ Injective(m)
               /\ Elements(source') = Elements(source) \cup ToSet(m)
               /\ ToSet(m) \subseteq {Record(k) : k \in DOMAIN log}
               /\ \A r \in ToSet(m) : DedupKey(r) \notin {DedupKey(e) : e \in Elements(source)}
  BY PromoteRows
<1>2. UNCHANGED <<product, log>>
  BY DEF Promote
<1>3. /\ Len(source) \in Nat /\ Len(source') = Len(source) + 1
      /\ source'[Len(source) + 1] = m
      /\ \A k \in 1 .. Len(source) : source'[k] = source[k]
  BY <1>1 DEF CommitsInv
<1>4. \A k \in 1 .. Len(source') : k \in 1 .. Len(source) \/ k = Len(source) + 1
  BY <1>3
<1>5. \A k \in 1 .. Len(source) : \A a \in ToSet(source[k]), b \in ToSet(m) :
         DedupKey(a) # DedupKey(b)
  BY <1>1 DEF Elements
<1>6. (\A r : DedupKey(r)' = DedupKey(r)) /\ \A k : Record(k)' = Record(k)
  BY <1>2 DEF DedupKey, Record
<1>7. \A k \in 1 .. Len(source') : Injective(source'[k])
  BY <1>1, <1>3, <1>4 DEF RowsInv, CommitsApart
<1>8. ASSUME NEW k \in 1 .. Len(source'), NEW l \in 1 .. Len(source'), k # l,
             NEW a \in ToSet(source'[k]), NEW b \in ToSet(source'[l])
      PROVE  DedupKey(a) # DedupKey(b)
  <2>1. CASE k \in 1 .. Len(source) /\ l \in 1 .. Len(source)
    BY <1>3, <1>8, <2>1 DEF RowsInv, CommitsApart
  <2>2. CASE k \in 1 .. Len(source) /\ l = Len(source) + 1
    BY <1>3, <1>5, <1>8, <2>2
  <2>3. CASE k = Len(source) + 1 /\ l \in 1 .. Len(source)
    BY <1>3, <1>5, <1>8, <2>3
  <2> QED BY <1>4, <1>8, <2>1, <2>2, <2>3
<1>9. CommitsApart'
  BY <1>6, <1>7, <1>8 DEF CommitsApart, Injective
<1>10. Elements(source') \subseteq {Record(k) : k \in DOMAIN log}
  BY <1>1 DEF RowsInv
<1> QED BY <1>2, <1>6, <1>9, <1>10 DEF RowsInv

\* Every step keeps the rows those of the topic.
LEMMA RowsNext == Inv /\ TypeOK /\ CommitsInv /\ RowsInv /\ [Next]_vars => RowsInv'
<1> SUFFICES ASSUME Inv, TypeOK, CommitsInv, RowsInv, [Next]_vars PROVE RowsInv'
  OBVIOUS
<1>1. ASSUME NEW i \in DOMAIN log, NEW j \in i .. Len(log), Promote(i, j) PROVE RowsInv'
  BY <1>1, PromoteApart DEF TypeOK
<1>2. ASSUME UNCHANGED <<product, log, source>> PROVE RowsInv'
  BY <1>2 DEF RowsInv, CommitsApart, Injective, DedupKey, Elements, Record
<1>3. ASSUME NEW p \in Passes, Moves(p) PROVE RowsInv'
  BY <1>2, <1>3, MovesTyped
<1>4. CASE UNCHANGED vars
  BY <1>2, <1>4 DEF vars
<1> QED BY <1>1, <1>3, <1>4 DEF Next, Moves

LEMMA RowsInit == Init => RowsInv
<1> SUFFICES ASSUME Init PROVE RowsInv
  OBVIOUS
<1>1. source = <<>> /\ Len(source) = 0
  BY DEF Init
<1>2. CommitsApart /\ Elements(source) = {}
  BY <1>1 DEF CommitsApart, Elements
<1>3. \E l \in Logs : product = l.product /\ log = l.events
  BY DEF Init
<1> QED BY <1>2, <1>3 DEF RowsInv

-----------------------------------------------------------------------------
(* Consignments. *)

\* A known label has a floor of at most SECRET; no label is SECRET.
LEMMA Floors ==
    /\ DOMAIN Export!Clearance = {"UNCLASSIFIED", "RESTRICTED", "CONFIDENTIAL", "SECRET"}
    /\ Export!Clearance["UNCLASSIFIED"] = 0 /\ Export!Clearance["RESTRICTED"] = 1
    /\ Export!Clearance["CONFIDENTIAL"] = 2 /\ Export!Clearance["SECRET"] = 3
BY DEF Export!Clearance

\* A set of floors has a highest one.
LEMMA Highest ==
    ASSUME NEW F, F \subseteq 0 .. 3, F # {}
    PROVE  Export!Max(F) \in F /\ \A f \in F : f <= Export!Max(F)
<1>1. \A f \in F : f \in Int /\ 3 - f \in Nat
  <2>1. \A f \in 0 .. 3 : f \in Int /\ 3 - f \in Nat
    OBVIOUS
  <2> QED BY <2>1
<1> DEFINE Below == {3 - f : f \in F}
<1>2. PICK m \in Below : \A n \in Below : m <= n
  <2>1. Below \subseteq Nat /\ Below # {}
    BY <1>1, Zenon
  <2> HIDE DEF Below
  <2> QED BY <2>1, Least
<1>3. PICK g \in F : \A f \in F : g >= f
  <2>1. PICK g \in F : m = 3 - g
    BY <1>2
  <2>2. ASSUME NEW f \in F PROVE g >= f
    <3>1. m <= 3 - f
      BY <1>2
    <3>2. f \in Int /\ g \in Int
      BY <1>1
    <3> HIDE DEF Below
    <3> QED BY <2>1, <3>1, <3>2
  <2> QED BY <2>2
<1>4. Export!Max(F) \in F /\ \A f \in F : Export!Max(F) >= f
  BY <1>3 DEF Export!Max
<1> QED BY <1>4

\* The floor of an event.
LEMMA EventFloors ==
    ASSUME NEW e, e.label \in DOMAIN Export!Clearance \cup {"none"}
    PROVE  Export!EventFloor(e) \in 0 .. 3
<1>1. CASE e.label = "none"
  BY <1>1, Floors DEF Export!EventFloor
<1>2. CASE e.label \in DOMAIN Export!Clearance /\ e.label # "none"
  <2>1. Export!EventFloor(e) = Export!Clearance[e.label]
    BY <1>2 DEF Export!EventFloor
  <2> QED BY <1>2, <2>1, Floors
<1> QED BY <1>1, <1>2

\* What the assembly makes of the whole table names its events and has a floor
\* that reaches that of each.
LEMMA AssembledFloored ==
    ASSUME NEW events, Export!ToSet(events) = Elements(source), ~Export!Refused(events)
    PROVE  Floored(Export!ConsignmentRows(events))
<1>1. \A e \in Elements(source) : e.label \in DOMAIN Export!Clearance \cup {"none"}
  BY DEF Export!Refused
<1> SUFFICES ASSUME NEW c \in {e.consignment : e \in Elements(source)}
             PROVE  Floored({Export!ConsignmentRow(events, c)})
  BY DEF Floored, Export!ConsignmentRows
<1> DEFINE r == Export!ConsignmentRow(events, c)
           mine == {e \in Elements(source) : e.consignment = c}
           F == {Export!EventFloor(e) : e \in mine}
<1>2. r.consignment = c /\ r.floor = Export!Max(F) /\ r.sources = {e.id : e \in mine}
  BY DEF Export!ConsignmentRow, Export!Ids
<1>3. F \subseteq 0 .. 3 /\ F # {}
  BY <1>1, EventFloors
<1>4. Export!Max(F) \in F /\ \A f \in F : f <= Export!Max(F)
  <2> HIDE DEF F
  <2> QED BY <1>3, Highest
<1> HIDE DEF r
<1>5. r.floor \in Nat
  BY <1>2, <1>3, <1>4
<1>6. r.sources \subseteq {e.id : e \in Elements(source)}
  BY <1>2
<1>7. ASSUME NEW e \in Elements(source), e.consignment = r.consignment
      PROVE  Export!EventFloor(e) <= r.floor
  BY <1>2, <1>4, <1>7
<1> QED BY <1>1, <1>5, <1>6, <1>7 DEF Floored, r

\* Rows stay floored when the source grows: no event that is added has the id
\* of one that a row names.
LEMMA FlooredStays ==
    ASSUME product = "fisheries", CommitsInv, KeysUnique,
           NEW i \in DOMAIN log, NEW j \in i .. Len(log), Promote(i, j)
    PROVE  \A rows : Floored(rows) => Floored(rows)'
<1>1. PICK m : /\ Elements(source') = Elements(source) \cup m
               /\ \A r \in m : DedupKey(r) \notin {DedupKey(e) : e \in Elements(source)}
  <2>1. PICK s : /\ Elements(source') = Elements(source) \cup ToSet(s)
                 /\ \A r \in ToSet(s) : DedupKey(r) \notin {DedupKey(e) : e \in Elements(source)}
    BY PromoteRows
  <2> QED BY <2>1
<1>2. \A r : DedupKey(r) = r.id
  BY DEF DedupKey
<1>3. \A r \in m : r.id \notin {e.id : e \in Elements(source)}
  BY <1>1, <1>2
<1> SUFFICES ASSUME NEW rows, Floored(rows), NEW r \in rows
             PROVE  /\ r.floor \in Nat
                    /\ r.sources \subseteq {e.id : e \in Elements(source')}
                    /\ \A e \in Elements(source') :
                          e.consignment = r.consignment /\ e.id \in r.sources =>
                              /\ e.label \in DOMAIN Export!Clearance \cup {"none"}
                              /\ Export!EventFloor(e) <= r.floor
  BY DEF Floored
<1>4. r.floor \in Nat /\ r.sources \subseteq {e.id : e \in Elements(source)}
  BY DEF Floored
<1>5. r.sources \subseteq {e.id : e \in Elements(source')}
  BY <1>1, <1>4
<1>6. ASSUME NEW e \in Elements(source'), e.consignment = r.consignment, e.id \in r.sources
      PROVE  /\ e.label \in DOMAIN Export!Clearance \cup {"none"}
             /\ Export!EventFloor(e) <= r.floor
  <2>1. e \in Elements(source)
    BY <1>1, <1>3, <1>4, <1>6
  <2> QED BY <1>6, <2>1 DEF Floored
<1> QED BY <1>4, <1>5, <1>6

\* What a pass of the fisheries scope reads is floored.
LEMMA ReadFloored ==
    ASSUME product = "fisheries", SourceInv, CommitsInv, CommitsApart, NEW p \in Passes, Read(p)
    PROVE  \E rows : MovesTo(p, At("write", Len(source), rows)) /\ Floored(rows)
<1>1. PICK events \in Orders(Len(source)) :
         Build(events).ok /\ MovesTo(p, At("write", Len(source), Build(events).rows))
  BY DEF Read, MovesTo
<1>2. Export!ToSet(events) = Elements(source)
  <2>1. Len(source) \in 1 .. Len(source)
    BY DEF Read, SourceInv
  <2>2. ToSet(events) = Elements(source)
    BY <1>1, <2>1, ListedRows, AllRows
  <2> QED BY <2>2 DEF Export!ToSet, ToSet
<1>3. Build(events) = AssembleExportConsignments(events)
  BY Zenon DEF Build, BuildFor
<1>4. Build(events) = Raises \/ (~Export!Refused(events)
                                   /\ Build(events) = Made(Export!ConsignmentRows(events)))
  BY <1>3 DEF AssembleExportConsignments
<1>5. ~Raises.ok /\ \A rows : Made(rows).rows = rows
  BY DEF Raises, Made
<1>6. ~Export!Refused(events) /\ Build(events).rows = Export!ConsignmentRows(events)
  BY <1>1, <1>4, <1>5
<1> QED BY <1>1, <1>2, <1>6, AssembledFloored

\* What a clearance sees of floored rows is shown to it.
LEMMA VisibleShown ==
    ASSUME NEW p \in Passes, NEW rows, Floored(rows)
    PROVE  Shown(p, Export!Visible(rows, ClearanceOf[p]))
BY DEF Shown, Floored, Export!Visible

\* Every step keeps what is held, stored and exported within the clearances.
LEMMA ClearedNext ==
    Inv /\ TypeOK /\ CommitsInv /\ RowsInv /\ ClearedInv /\ [Next]_vars => ClearedInv'
<1> SUFFICES ASSUME Inv, TypeOK, CommitsInv, RowsInv, ClearedInv, [Next]_vars PROVE ClearedInv'
  OBVIOUS
<1>1. SourceInv /\ KeysUnique /\ CommitsApart /\ pass = [p \in Passes |-> pass[p]]
      /\ export = [p \in Passes |-> export[p]]
  BY DEF Inv, PassesAreFunction, TypeOK, ClearedInv, RowsInv
<1>2. CASE \E i \in DOMAIN log : \E j \in i .. Len(log) : Promote(i, j)
  <2>1. PICK i \in DOMAIN log : \E j \in i .. Len(log) : Promote(i, j)
    BY <1>2
  <2>2. PICK j \in i .. Len(log) : Promote(i, j)
    BY <2>1
  <2>3. UNCHANGED <<product, gold, pass, export>>
    BY <2>2 DEF Promote
  <2>4. product = "fisheries" => \A rows : Floored(rows) => Floored(rows)'
    BY <1>1, <2>2, FlooredStays
  <2>5. product = "fisheries" =>
           \A p \in Passes : \A rows : Shown(p, rows) => Shown(p, rows)'
    BY <2>4 DEF Shown
  <2> QED BY <2>3, <2>4, <2>5 DEF ClearedInv
<1>3. CASE UNCHANGED vars
  <2>1. UNCHANGED <<product, source, gold, pass, export>>
    BY <1>3 DEF vars
  <2> QED BY <2>1 DEF ClearedInv, Shown, Floored, Elements
<1>4. ASSUME NEW p \in Passes, Moves(p) PROVE ClearedInv'
  <2>1. UNCHANGED <<product, source>>
    BY <1>4, MovesTyped
  <2>2. (\A rows : Floored(rows)' <=> Floored(rows))
        /\ \A q, rows : Shown(q, rows)' <=> Shown(q, rows)
    BY <2>1 DEF Shown, Floored, Elements
  <2>3. /\ \/ gold' = gold
           \/ pass[p].pc = "write" /\ gold' = [version |-> pass[p].version, rows |-> pass[p].rows]
        /\ \/ export' = export
           \/ pass[p].pc = "file" /\ export' = [export EXCEPT ![p] = pass[p].rows]
    BY <1>4 DEF Moves, Start, Read, ReadRaises, Write, ReadExport, WriteExport, StartGeo,
                Snapshot, SnapshotRaises, WriteObject, WriteSidecar, Die
  <2>4. export' = [q \in Passes |-> export'[q]]
    BY <1>1, <2>3
  <2> SUFFICES ASSUME product = "fisheries"
               PROVE  /\ Floored(gold'.rows)
                      /\ \A q \in Passes :
                            /\ pass'[q].pc = "write" => Floored(pass'[q].rows)
                            /\ pass'[q].pc = "file" => Shown(q, pass'[q].rows)
                            /\ Shown(q, export'[q])
    BY <2>1, <2>2, <2>4 DEF ClearedInv
  <2>5. /\ Floored(gold.rows)
        /\ \A q \in Passes : /\ pass[q].pc = "write" => Floored(pass[q].rows)
                             /\ pass[q].pc = "file" => Shown(q, pass[q].rows)
                             /\ Shown(q, export[q])
    BY DEF ClearedInv
  <2>6. Floored(gold'.rows)
    BY <2>3, <2>5
  <2>7. ASSUME NEW q \in Passes PROVE Shown(q, export'[q])
    BY <1>1, <2>3, <2>5
  <2>8. PICK new :
           /\ MovesTo(p, new)
           /\ new.pc = "write" => Floored(new.rows)
           /\ new.pc = "file" => Shown(p, new.rows)
    <3>1. CASE Read(p)
      <4>1. PICK rows : MovesTo(p, At("write", Len(source), rows)) /\ Floored(rows)
        BY <1>1, <3>1, ReadFloored
      <4> QED BY <4>1, AtFields
    <3>2. CASE ReadExport(p)
      <4> DEFINE rows == Export!Visible(gold.rows, ClearanceOf[p])
      <4>1. MovesTo(p, At("file", gold.version, rows))
        BY <3>2 DEF ReadExport, MovesTo
      <4>2. Shown(p, rows)
        BY <2>5, VisibleShown
      <4> HIDE DEF rows
      <4> QED BY <4>1, <4>2, AtFields
    <3>3. CASE ~Read(p) /\ ~ReadExport(p)
      <4>1. \E pc \in {"read", "export", "idle", "snapshot", "object", "sidecar"} : \E v, rows :
               MovesTo(p, At(pc, v, rows))
        BY <1>4, <3>3 DEF Moves, Start, ReadRaises, Write, WriteExport, StartGeo, Snapshot,
                          SnapshotRaises, WriteObject, WriteSidecar, Die, MovesTo, Idle
      <4> QED BY <4>1, AtFields
    <3> QED BY <3>1, <3>2, <3>3
  <2>9. pass'[p] = new /\ \A q \in Passes : q # p => pass'[q] = pass[q]
    BY <1>1, <2>8 DEF MovesTo
  <2>10. ASSUME NEW q \in Passes
         PROVE  /\ pass'[q].pc = "write" => Floored(pass'[q].rows)
                /\ pass'[q].pc = "file" => Shown(q, pass'[q].rows)
    <3>1. CASE q = p
      BY <2>8, <2>9, <3>1
    <3>2. CASE q # p
      BY <2>5, <2>9, <3>2
    <3> QED BY <3>1, <3>2
  <2> QED BY <2>6, <2>7, <2>10
<1> QED BY <1>2, <1>3, <1>4 DEF Next, Moves

\* Nothing is held, stored or exported at first.
LEMMA ClearedInit == Init => ClearedInv
<1> SUFFICES ASSUME Init PROVE ClearedInv
  OBVIOUS
<1>1. gold.rows = {} /\ export = [p \in Passes |-> {}] /\ pass = [p \in Passes |-> Idle]
  BY DEF Init
<1>2. \A p \in Passes : export[p] = {} /\ pass[p].pc = "idle"
  BY <1>1, AtFields
<1>3. Floored({}) /\ \A p \in Passes : Shown(p, {})
  BY DEF Floored, Shown
<1> QED BY <1>1, <1>2, <1>3 DEF ClearedInv

\* What is shown to a clearance is cleared by it.
LEMMA ShownCleared ==
    ASSUME CommitsInv, NEW p \in Passes, NEW rows, Shown(p, rows)
    PROVE  Export!Cleared(Rows(Len(source)), rows, ClearanceOf[p])
<1>1. Export!ToSet(Rows(Len(source))) = Elements(source)
  BY AllRows DEF Export!ToSet, ToSet
<1> SUFFICES ASSUME NEW r \in rows, NEW e \in Elements(source),
                    e.consignment = r.consignment, e.id \in r.sources
             PROVE  \/ ClearanceOf[p] = "SECRET"
                    \/ /\ e.label \in DOMAIN Export!Clearance
                       /\ Export!Clearance[e.label] <= Export!Clearance[ClearanceOf[p]]
  BY <1>1 DEF Export!Cleared
<1>2. /\ e.label \in DOMAIN Export!Clearance \cup {"none"}
      /\ Export!EventFloor(e) <= r.floor /\ r.floor \in Nat
      /\ Export!Clearance[ClearanceOf[p]] >= r.floor
  BY DEF Shown, Floored
<1>3. ClearanceOf[p] \in DOMAIN Export!Clearance
  BY ClearanceAssumption
<1>4. Export!Clearance[ClearanceOf[p]] \in 0 .. 3 /\ Export!EventFloor(e) \in 0 .. 3
  BY <1>2, <1>3, Floors, EventFloors
<1>5. Export!EventFloor(e) <= Export!Clearance[ClearanceOf[p]]
  BY <1>2, <1>4
<1>6. CASE e.label = "none"
  <2>1. Export!EventFloor(e) = 3
    BY <1>6, Floors DEF Export!EventFloor
  <2>2. Export!Clearance[ClearanceOf[p]] = 3
    BY <1>4, <1>5, <2>1
  <2> QED BY <1>3, <2>2, Floors
<1>7. CASE e.label # "none"
  BY <1>2, <1>5, <1>7 DEF Export!EventFloor
<1> QED BY <1>6, <1>7

\* No export file holds a row of a consignment with an event above the clearance
\* of the pass that wrote it, whichever pass assembled the table it was read
\* from and whatever was promoted meanwhile (build_consignment_records,
\* read_export_consignments).
THEOREM ExportsCleared == Spec => []ExportCleared
<1> DEFINE All == Inv /\ TypeOK /\ CommitsInv /\ RowsInv /\ ClearedInv
<1>1. Init => All
  BY InitInv, TypeInit, RowsInit, ClearedInit
<1>2. All /\ [Next]_vars => All'
  BY NextInv, TypeNext, RowsNext, ClearedNext
<1>3. All => ExportCleared
  BY ShownCleared DEF ClearedInv, ExportCleared
<1> HIDE DEF All
<1> QED BY <1>1, <1>2, <1>3, PTL DEF Spec

-----------------------------------------------------------------------------
(* The derived tables. *)

\* A row is an event of the topic with the offset of a record of it: ids and
\* instants are ordered, and rows with one id are of one event.
LEMMA SourceEvents ==
    ASSUME RowsInv
    PROVE  /\ product \in Products
           /\ \A e \in Elements(source) : e.id \in Int /\ e.at \in Int
           /\ \A e, f \in Elements(source) :
                 e.id = f.id => \A field \in EventFields[product] : e[field] = f[field]
<1>1. PICK l \in Logs : product = l.product /\ log = l.events
  BY DEF RowsInv
<1>2. /\ product \in Products
      /\ log \in Seq(ToSet(log))
      /\ \A e \in ToSet(log) : DOMAIN e = EventFields[product] /\ e.id \in Int /\ e.at \in Int
      /\ \A e, f \in ToSet(log) : e.id = f.id => e = f
  BY <1>1, LogsAssumption
<1>3. /\ \A field \in EventFields[product] : field # "offset"
      /\ "id" \in EventFields[product] /\ "at" \in EventFields[product]
  BY <1>2 DEF EventFields, Products
<1>4. \A i \in DOMAIN log : log[i] \in ToSet(log)
  BY DEF ToSet
<1>5. ASSUME NEW i \in DOMAIN log, NEW field \in EventFields[product]
      PROVE  Record(i)[field] = log[i][field]
  <2>1. field \in DOMAIN log[i] /\ field # "offset"
    BY <1>2, <1>3, <1>4
  <2> QED BY <2>1 DEF Record, Put
<1>6. \A e \in Elements(source) : \E i \in DOMAIN log : e = Record(i)
  BY DEF RowsInv
<1>7. ASSUME NEW e \in Elements(source) PROVE e.id \in Int /\ e.at \in Int
  <2>1. PICK i \in DOMAIN log : e = Record(i)
    BY <1>6
  <2>2. e.id = log[i].id /\ e.at = log[i].at
    BY <1>3, <1>5, <2>1
  <2> QED BY <1>2, <1>4, <2>2
<1>8. ASSUME NEW e \in Elements(source), NEW f \in Elements(source), e.id = f.id,
             NEW field \in EventFields[product]
      PROVE  e[field] = f[field]
  <2>1. PICK i \in DOMAIN log : e = Record(i)
    BY <1>6
  <2>2. PICK j \in DOMAIN log : f = Record(j)
    BY <1>6
  <2>3. log[i].id = log[j].id
    BY <1>3, <1>5, <1>8, <2>1, <2>2
  <2>4. log[i] = log[j]
    BY <1>2, <1>4, <2>3
  <2> QED BY <1>5, <2>1, <2>2, <2>4
<1> QED BY <1>2, <1>7, <1>8

\* A derived table is what its assembly made of a listing of the files of its
\* version, in which no key is twice.
LEMMA TableListed ==
    ASSUME Inv, TypeOK, CommitsInv, RowsInv, gold.version > 0
    PROVE  \E events \in Seq(Elements(source)) :
              /\ Build(events) = Made(gold.rows)
              /\ ToSet(events) = ToSet(Rows(gold.version))
              /\ Distinct(events)
<1>1. gold.version \in 1 .. Len(source)
  BY DEF TypeOK, Inv, SourceInv
<1>2. PICK events \in Orders(gold.version) : Build(events) = Made(gold.rows)
  BY <1>1 DEF Inv, GoldFromSnapshot, FromSnapshot
<1>3. /\ events \in Seq(Elements(source)) /\ ToSet(events) = ToSet(Rows(gold.version))
      /\ Injective(events)
  BY <1>1, ListedRows DEF Inv, RowsInv
<1> QED BY <1>2, <1>3 DEF Injective, Distinct

\* What is not a refusal has the rows of the projection.
LEMMA MadeRows ==
    ASSUME NEW rows, NEW projected, NEW refused \in BOOLEAN,
           (IF refused THEN Raises ELSE Made(projected)) = Made(rows)
    PROVE  rows = projected
<1>1. Raises # Made(rows) /\ (Made(projected) = Made(rows) => projected = rows)
  <2>1. ~Raises.ok /\ Made(rows).ok /\ \A x : Made(x).rows = x
    BY DEF Raises, Made
  <2> QED BY <2>1
<1> QED BY <1>1

\* However often records were delivered and in whatever order files were listed,
\* the commitments of the cvff gold table account for the silver rows: as many
\* observations of each hash as there are rows with it, between the first and
\* the last instant at which they occurred (build_cvff_ledger_rows).
THEOREM LedgersAccount == Spec => []LedgerAccounts
<1> DEFINE All == Inv /\ TypeOK /\ CommitsInv /\ RowsInv
<1>1. Init => All
  BY InitInv, TypeInit, RowsInit
<1>2. All /\ [Next]_vars => All'
  BY NextInv, TypeNext, RowsNext
<1>3. All => LedgerAccounts
  <2> SUFFICES ASSUME All, product = "cvff", gold.version > 0
               PROVE  Ledger!Accounts(Rows(gold.version), gold.rows)
    BY DEF LedgerAccounts, Assembled
  <2>1. PICK events \in Seq(Elements(source)) :
           /\ Build(events) = Made(gold.rows)
           /\ ToSet(events) = ToSet(Rows(gold.version))
           /\ Distinct(events)
    BY TableListed
  <2>2. Build(events) = CurateGold(events)
    BY Zenon DEF Build, BuildFor
  <2>3. gold.rows = Ledger!LedgerRows(events)
    BY <2>1, <2>2, MadeRows DEF CurateGold
  <2>4. Ledger!ToSet(Rows(gold.version)) = ToSet(events)
    BY <2>1 DEF Ledger!ToSet, ToSet
  <2> QED BY <2>1, <2>3, <2>4, SourceEvents, LedgerAccount
<1> HIDE DEF All
<1> QED BY <1>1, <1>2, <1>3, PTL DEF Spec

\* Each row of vessel_annual shows the verified report of its vessel that
\* occurred last, whatever order silver was read in (build_vessel_annual_rows).
THEOREM AnnualsLatest == Spec => []AnnualIsLatest
<1> DEFINE All == Inv /\ TypeOK /\ CommitsInv /\ RowsInv
<1>1. Init => All
  BY InitInv, TypeInit, RowsInit
<1>2. All /\ [Next]_vars => All'
  BY NextInv, TypeNext, RowsNext
<1>3. All => AnnualIsLatest
  <2> SUFFICES ASSUME All, product = "mrv", gold.version > 0
               PROVE  Annual!LatestVerified(Rows(gold.version), gold.rows)
    BY DEF AnnualIsLatest, Assembled
  <2>1. PICK events \in Seq(Elements(source)) :
           /\ Build(events) = Made(gold.rows)
           /\ ToSet(events) = ToSet(Rows(gold.version))
           /\ Distinct(events)
    BY TableListed
  <2>2. Build(events) = AssembleVesselAnnual(events)
    BY Zenon DEF Build, BuildFor
  <2>3. gold.rows = Annual!AnnualRows(events)
    BY <2>1, <2>2, MadeRows DEF AssembleVesselAnnual
  <2>4. Annual!ToSet(Rows(gold.version)) = ToSet(events)
    BY <2>1 DEF Annual!ToSet, ToSet
  <2>5. "report" \in EventFields[product] /\ "artifact" \in EventFields[product]
    BY DEF EventFields
  <2>6. /\ \A e \in Elements(source) : e.at \in Int /\ e.id \in Int
        /\ \A e, f \in Elements(source) :
              e.id = f.id => e.report = f.report /\ e.artifact = f.artifact
    BY <2>5, SourceEvents
  <2> QED BY <2>1, <2>3, <2>4, <2>6, AnnualLatest
<1> HIDE DEF All
<1> QED BY <1>1, <1>2, <1>3, PTL DEF Spec

\* Each geofence summary counts the observations of its vessel inside its
\* geofence, each once, and spans them in time (build_geofence_summary_rows).
THEOREM SummariesBounded == Spec => []SummariesBound
<1> DEFINE All == Inv /\ TypeOK /\ CommitsInv /\ RowsInv
<1>1. Init => All
  BY InitInv, TypeInit, RowsInit
<1>2. All /\ [Next]_vars => All'
  BY NextInv, TypeNext, RowsNext
<1>3. All => SummariesBound
  <2> SUFFICES ASSUME All, product = "geofence", gold.version > 0
               PROVE  Fence!Bounds(Inside, Rows(gold.version), gold.rows)
    BY DEF SummariesBound, Assembled
  <2>1. PICK events \in Seq(Elements(source)) :
           /\ Build(events) = Made(gold.rows)
           /\ ToSet(events) = ToSet(Rows(gold.version))
           /\ Distinct(events)
    BY TableListed
  <2>2. Build(events) = RebuildGeofenceSummaries(events)
    BY Zenon DEF Build, BuildFor
  <2>3. gold.rows = Fence!SummaryRows(Inside, events)
    BY <2>1, <2>2, MadeRows DEF RebuildGeofenceSummaries
  <2>4. Fence!ToSet(Rows(gold.version)) = ToSet(events)
    BY <2>1 DEF Fence!ToSet, ToSet
  <2> QED BY <2>1, <2>3, <2>4, SourceEvents, FenceBounds
<1> HIDE DEF All
<1> QED BY <1>1, <1>2, <1>3, PTL DEF Spec

-----------------------------------------------------------------------------
(* The reading order. *)

\* Where the order in which bronze is read shows in a table: two observations
\* of a vessel at one instant (build_geofence_summary_rows compares instants
\* only), two export declarations of a consignment (the last one read counts),
\* and two events of one retirement (build_public_registry_rows sorts by the
\* retirement id only).  A topic without them is untied.
Untied ==
    /\ product = "geofence" =>
          \A e, f \in ToSet(log) : e.vessel = f.vessel /\ e.at = f.at => e = f
    /\ product = "fisheries" =>
          \A e, f \in ToSet(log) :
             e.type = "export" /\ f.type = "export" /\ e.consignment = f.consignment => e = f
    /\ product = "bluecarbon" =>
          \A e, f \in ToSet(log) : SameRetirement(e, f) => e = f

\* The fields of a row are those of an event of the topic.
LEMMA RowFields ==
    ASSUME RowsInv
    PROVE  \A e \in Elements(source) :
              \E g \in ToSet(log) : \A field \in EventFields[product] : e[field] = g[field]
<1>1. PICK l \in Logs : product = l.product /\ log = l.events
  BY DEF RowsInv
<1>2. /\ product \in Products
      /\ \A e \in ToSet(log) : DOMAIN e = EventFields[product]
  BY <1>1, LogsAssumption
<1>3. \A field \in EventFields[product] : field # "offset"
  BY <1>2 DEF EventFields, Products
<1> SUFFICES ASSUME NEW e \in Elements(source)
             PROVE  \E g \in ToSet(log) : \A field \in EventFields[product] : e[field] = g[field]
  OBVIOUS
<1>4. PICK i \in DOMAIN log : e = Record(i)
  BY DEF RowsInv
<1>5. log[i] \in ToSet(log)
  BY DEF ToSet
<1>6. ASSUME NEW field \in EventFields[product] PROVE e[field] = log[i][field]
  <2>1. field \in DOMAIN log[i] /\ field # "offset"
    BY <1>2, <1>3, <1>5
  <2> QED BY <1>4, <2>1 DEF Record, Put
<1> QED BY <1>5, <1>6

\* In a listing of an untied bronze table an id is that of one row, and no two
\* rows are tied.
LEMMA ListingUntied ==
    ASSUME RowsInv, Untied, product \in {"fisheries", "vessel", "geofence"},
           NEW s \in Seq(Elements(source)), Injective(s)
    PROVE  /\ \A e, f \in ToSet(s) : e.id = f.id => e = f
           /\ product = "geofence" =>
                 \A e, f \in ToSet(s) : e.vessel = f.vessel /\ e.at = f.at => e.id = f.id
           /\ product = "fisheries" =>
                 \A e, f \in ToSet(s) :
                    e.type = "export" /\ f.type = "export" /\ e.consignment = f.consignment
                       => e = f
<1>1. \A e \in ToSet(s) : e \in Elements(source)
  BY DEF ToSet
<1>2. \A e, f \in ToSet(s) : e.id = f.id => e = f
  <2>1. \A i, j \in DOMAIN s : s[i].id = s[j].id => i = j
    BY DEF Injective, DedupKey
  <2> QED BY <2>1 DEF ToSet
<1>3. ASSUME product = "geofence", NEW e \in ToSet(s), NEW f \in ToSet(s),
             e.vessel = f.vessel, e.at = f.at
      PROVE  e.id = f.id
  <2>1. {"id", "at", "vessel"} \subseteq EventFields[product]
    BY <1>3 DEF EventFields
  <2>2. PICK g \in ToSet(log) : \A field \in EventFields[product] : e[field] = g[field]
    BY <1>1, RowFields
  <2>3. PICK h \in ToSet(log) : \A field \in EventFields[product] : f[field] = h[field]
    BY <1>1, RowFields
  <2>4. /\ e.id = g.id /\ e.at = g.at /\ e.vessel = g.vessel
        /\ f.id = h.id /\ f.at = h.at /\ f.vessel = h.vessel
    BY <2>1, <2>2, <2>3
  <2>5. g = h
    BY <1>3, <2>4 DEF Untied
  <2> QED BY <2>4, <2>5
<1>4. ASSUME product = "fisheries", NEW e \in ToSet(s), NEW f \in ToSet(s),
             e.type = "export", f.type = "export", e.consignment = f.consignment
      PROVE  e = f
  <2>1. {"id", "type", "consignment"} \subseteq EventFields[product]
    BY <1>4 DEF EventFields
  <2>2. PICK g \in ToSet(log) : \A field \in EventFields[product] : e[field] = g[field]
    BY <1>1, RowFields
  <2>3. PICK h \in ToSet(log) : \A field \in EventFields[product] : f[field] = h[field]
    BY <1>1, RowFields
  <2>4. /\ e.id = g.id /\ e.type = g.type /\ e.consignment = g.consignment
        /\ f.id = h.id /\ f.type = h.type /\ f.consignment = h.consignment
    BY <2>1, <2>2, <2>3
  <2>5. g = h
    BY <1>4, <2>4 DEF Untied
  <2>6. e.id = f.id
    BY <2>4, <2>5
  <2> QED BY <1>2, <2>6
<1> QED BY <1>2, <1>3, <1>4

\* What the public registry is built of: redelivered events are the same,
\* quantities are natural numbers, and in an untied topic a retirement of a
\* project is one event.
LEMMA RegistryEvents ==
    ASSUME RowsInv, product = "bluecarbon"
    PROVE  /\ \A e, f \in Elements(source) : e.id = f.id => SameBlock(e, f)
           /\ \A e \in Elements(source) :
                 /\ e.type = "block" => e.quantity \in Nat
                 /\ e.type = "retirement" => e.key \in Int
           /\ Untied => \A e, f \in Elements(source) : SameRetirement(e, f) => e.id = f.id
<1>1. {"id", "at", "type", "key", "project", "vintage", "status", "quantity", "buffer"}
         \subseteq EventFields[product]
  BY DEF EventFields
<1>2. \A e, f \in Elements(source) : e.id = f.id => SameBlock(e, f)
  <2>1. \A e, f \in Elements(source) :
           e.id = f.id => \A field \in EventFields[product] : e[field] = f[field]
    BY SourceEvents
  <2> QED BY <1>1, <2>1 DEF SameBlock
<1>3. \A g \in ToSet(log) : /\ g.type = "block" => g.quantity \in Nat
                            /\ g.type = "retirement" => g.key \in Int
  <2>1. PICK l \in Logs : product = l.product /\ log = l.events
    BY DEF RowsInv
  <2> QED BY <2>1, LogsAssumption
<1>4. ASSUME NEW e \in Elements(source)
      PROVE  \E g \in ToSet(log) :
                /\ e.id = g.id /\ e.type = g.type /\ e.key = g.key
                /\ e.project = g.project /\ e.quantity = g.quantity
  <2>1. PICK g \in ToSet(log) : \A field \in EventFields[product] : e[field] = g[field]
    BY RowFields
  <2> QED BY <1>1, <2>1
<1>5. \A e \in Elements(source) : /\ e.type = "block" => e.quantity \in Nat
                                  /\ e.type = "retirement" => e.key \in Int
  <2> SUFFICES ASSUME NEW e \in Elements(source)
               PROVE  /\ e.type = "block" => e.quantity \in Nat
                      /\ e.type = "retirement" => e.key \in Int
    OBVIOUS
  <2>1. PICK g \in ToSet(log) :
           /\ e.id = g.id /\ e.type = g.type /\ e.key = g.key
           /\ e.project = g.project /\ e.quantity = g.quantity
    BY <1>4
  <2> QED BY <1>3, <2>1
<1>6. ASSUME Untied, NEW e \in Elements(source), NEW f \in Elements(source),
             SameRetirement(e, f)
      PROVE  e.id = f.id
  <2>1. PICK g \in ToSet(log) :
           /\ e.id = g.id /\ e.type = g.type /\ e.key = g.key
           /\ e.project = g.project /\ e.quantity = g.quantity
    BY <1>4
  <2>2. PICK h \in ToSet(log) :
           /\ f.id = h.id /\ f.type = h.type /\ f.key = h.key
           /\ f.project = h.project /\ f.quantity = h.quantity
    BY <1>4
  <2>3. g = h
    BY <1>6, <2>1, <2>2 DEF Untied, SameRetirement
  <2> QED BY <2>1, <2>2, <2>3
<1> QED BY <1>2, <1>5, <1>6

\* What is built of an untied table does not depend on the order in which its
\* rows are read.
LEMMA BuildsAlike ==
    ASSUME RowsInv, Untied,
           NEW s \in Seq(Elements(source)), NEW t \in Seq(Elements(source)),
           Injective(s), Distinct(t), ToSet(s) = ToSet(t)
    PROVE  Build(s) = Build(t)
<1> DEFINE S == Elements(source)
<1>1. /\ product \in Products
      /\ \A e \in S : e.id \in Int /\ e.at \in Int
      /\ \A e, f \in S : e.id = f.id => \A field \in EventFields[product] : e[field] = f[field]
  BY SourceEvents
<1>2. s \in Seq(S) /\ t \in Seq(S) /\ Distinct(s)
  BY DEF Injective, Distinct
<1>3. s = <<>> <=> t = <<>>
  <2>1. \A u \in Seq(S) : u = <<>> <=> ToSet(u) = {}
    <3> SUFFICES ASSUME NEW u \in Seq(S) PROVE u = <<>> <=> ToSet(u) = {}
      OBVIOUS
    <3>1. u # <<>> => u[1] \in ToSet(u)
      BY DEF ToSet
    <3>2. u = <<>> => ToSet(u) = {}
      BY DEF ToSet
    <3> QED BY <3>1, <3>2
  <2> QED BY <1>2, <2>1
<1> HIDE DEF S
<1>4. CASE product = "cvff"
  <2>1. Build(s) = CurateGold(s) /\ Build(t) = CurateGold(t)
    BY <1>4, Zenon DEF Build, BuildFor
  <2>2. Ledger!LedgerRows(s) = Ledger!LedgerRows(t)
    BY <1>1, <1>2, LedgersAlike
  <2> QED BY <1>3, <2>1, <2>2 DEF CurateGold
<1>5. CASE product = "mrv"
  <2>1. Build(s) = AssembleVesselAnnual(s) /\ Build(t) = AssembleVesselAnnual(t)
    BY <1>5, Zenon DEF Build, BuildFor
  <2>2. "report" \in EventFields[product] /\ "artifact" \in EventFields[product]
    BY <1>5 DEF EventFields
  <2>3. \A e, f \in S : e.id = f.id => e.report = f.report /\ e.artifact = f.artifact
    BY <1>1, <2>2
  <2>4. /\ Annual!OrphanedSocs(s) = Annual!OrphanedSocs(t)
        /\ Annual!AnnualRows(s) = Annual!AnnualRows(t)
    BY <1>1, <1>2, <2>3, AnnualsAlike
  <2> QED BY <1>3, <2>1, <2>4 DEF AssembleVesselAnnual
<1>6. CASE product = "stamps"
  <2>1. Build(s) = AssembleExciseStamps(s) /\ Build(t) = AssembleExciseStamps(t)
    BY <1>6, Zenon DEF Build, BuildFor
  <2>2. {"at", "type", "quantity"} \subseteq EventFields[product]
    BY <1>6 DEF EventFields
  <2>3. \A e, f \in S :
           e.id = f.id => e.at = f.at /\ e.type = f.type /\ e.quantity = f.quantity
    BY <1>1, <2>2
  <2>4. /\ Stamp!Malformed(s) <=> Stamp!Malformed(t)
        /\ Stamp!StampRows(s) = Stamp!StampRows(t)
    BY <1>1, <1>2, <2>3, StampsAlike
  <2> QED BY <2>1, <2>4 DEF AssembleExciseStamps
<1>7. CASE product = "fisheries"
  <2>1. Build(s) = AssembleExportConsignments(s) /\ Build(t) = AssembleExportConsignments(t)
    BY <1>7, Zenon DEF Build, BuildFor
  <2>2. Listings(S, s, t)
    BY <1>2 DEF Listings
  <2>3. /\ \A e, f \in ToSet(s) : e.id = f.id => e = f
        /\ \A e, f \in ToSet(s) :
              e.type = "export" /\ f.type = "export" /\ e.consignment = f.consignment => e = f
    BY <1>7, ListingUntied
  <2>4. Export!Refused(s) <=> Export!Refused(t)
    BY <2>2, RefusalsAlike
  <2>5. ~Export!Refused(s) => Export!ConsignmentRows(s) = Export!ConsignmentRows(t)
    BY <1>1, <2>2, <2>3, ConsignmentsAlike
  <2> QED BY <2>1, <2>4, <2>5 DEF AssembleExportConsignments
<1>8. CASE product = "vessel"
  <2>1. Build(s) = RebuildTrajectories(s) /\ Build(t) = RebuildTrajectories(t)
    BY <1>8, Zenon DEF Build, BuildFor
  <2>2. \A e, f \in ToSet(s) : e.id = f.id => e = f
    BY <1>8, ListingUntied
  <2>3. Track!TrajectoryRows(GapThreshold, Tolerance, Retries, s) =
           Track!TrajectoryRows(GapThreshold, Tolerance, Retries, t)
    BY <1>1, <1>2, <2>2, TracksAlike
  <2> QED BY <1>3, <2>1, <2>3 DEF RebuildTrajectories
<1>9. CASE product = "geofence"
  <2>1. Build(s) = RebuildGeofenceSummaries(s) /\ Build(t) = RebuildGeofenceSummaries(t)
    BY <1>9, Zenon DEF Build, BuildFor
  <2>2. \A e, f \in ToSet(s) : e.vessel = f.vessel /\ e.at = f.at => e.id = f.id
    BY <1>9, ListingUntied
  <2>3. Fence!SummaryRows(Inside, s) = Fence!SummaryRows(Inside, t)
    BY <1>1, <1>2, <2>2, FencesAlike
  <2> QED BY <1>3, <2>1, <2>3 DEF RebuildGeofenceSummaries
<1>10. CASE product = "bluecarbon"
  <2>1. Build(s) = AssemblePublicRegistry(s) /\ Build(t) = AssemblePublicRegistry(t)
    BY <1>10, Zenon DEF Build, BuildFor
  <2>2. Listings(S, s, t)
    BY <1>2 DEF Listings
  <2>3. /\ \A e, f \in S : e.id = f.id => SameBlock(e, f)
        /\ \A e \in S : /\ e.type = "block" => e.quantity \in Int
                        /\ e.type = "retirement" => e.key \in Int
        /\ \A e, f \in S : SameRetirement(e, f) => e.id = f.id
    BY <1>10, RegistryEvents DEF S
  <2>4. \A e \in ToSet(s) : e \in S
    BY <1>2 DEF ToSet
  <2>5. \A e, f \in ToSet(s) : SameRetirement(e, f) => e.id = f.id
    BY <2>3, <2>4
  <2>6. /\ Registry!UnknownStatus(s) <=> Registry!UnknownStatus(t)
        /\ Registry!RegistryRows(s) = Registry!RegistryRows(t)
    BY <1>1, <2>2, <2>3, <2>5, RegistriesAlike
  <2> QED BY <1>3, <2>1, <2>6 DEF AssemblePublicRegistry
<1> QED BY <1>1, <1>4, <1>5, <1>6, <1>7, <1>8, <1>9, <1>10 DEF Products

\* One listing of the files is that of their commits.
LEMMA CommitOrder ==
    ASSUME SourceInv, CommitsInv, NEW version \in 1 .. Len(source)
    PROVE  Rows(version) \in Orders(version)
<1> DEFINE n == version
           o == [i \in 1 .. n |-> i]
<1>1. /\ n \in Nat \ {0} /\ n <= MaxCommits[product] /\ product \in Products
      /\ Len(source) \in Nat /\ n <= Len(source)
  BY BoundsAssumption DEF SourceInv
<1>2. FileOrders[n] = SetToSeqs(1 .. n)
  BY <1>1, BoundsAssumption DEF FileOrders
<1>3. Cardinality(1 .. n) = n
  BY <1>1, FS_Interval
<1>4. o \in SetToSeqs(1 .. n)
  BY <1>3 DEF SetToSeqs
<1>5. [i \in 1 .. n |-> source[o[i]]] = SubSeq(source, 1, n)
  <2>1. source \in Seq(Seq(Elements(source)))
    BY DEF CommitsInv
  <2>2. SubSeq(source, 1, n) = [i \in 1 .. n |-> source[i]]
    BY <1>1, <2>1
  <2> QED BY <2>2
<1> HIDE DEF o
<1> QED BY <1>2, <1>4, <1>5 DEF Orders, Rows

\* Every listing of an untied version is projected to what its rows are
\* projected to in the order in which they occurred.
LEMMA VersionProjected ==
    ASSUME SourceInv, CommitsInv, RowsInv, Untied,
           NEW version \in 1 .. Len(source), NEW events \in Orders(version)
    PROVE  Build(events) = Build(Order!InOrder(Rows(version)))
<1> DEFINE S == Elements(source)
           rows == Rows(version)
<1>1. events \in Seq(S) /\ ToSet(events) = ToSet(rows) /\ Injective(events)
  BY ListedRows DEF RowsInv
<1>2. rows \in Seq(S) /\ Injective(rows)
  BY CommitOrder, ListedRows DEF RowsInv
<1>3. Distinct(rows)
  BY <1>2 DEF Injective, Distinct
<1>4. \A e \in S : e.id \in Int /\ e.at \in Int
  BY SourceEvents
<1> HIDE DEF S, rows
<1>5. /\ Order!InOrder(rows) \in Seq(S) /\ ToSet(Order!InOrder(rows)) = ToSet(rows)
      /\ Distinct(Order!InOrder(rows))
  BY <1>2, <1>3, <1>4, InOrderKeeps
<1>6. Build(events) = Build(Order!InOrder(rows))
  <2>1. /\ events \in Seq(Elements(source)) /\ Order!InOrder(rows) \in Seq(Elements(source))
        /\ ToSet(events) = ToSet(Order!InOrder(rows))
    BY <1>1, <1>5 DEF S
  <2> QED BY <1>1, <1>5, <2>1, BuildsAlike
<1> QED BY <1>6 DEF rows

\* However passes overlapped, died or raised and in whatever order records
\* arrived and files were listed, the derived table of an untied topic is the
\* projection of one version of the source in the order of occurrence
\* (write_deltalake overwrites in one commit what build_* made of a snapshot).
\* Two observations at one instant, two export declarations and two events of
\* a retirement are where the code depends on the order in which it reads.
THEOREM GoldProjects == Spec => [](Untied => GoldIsProjection)
<1> DEFINE All == Inv /\ TypeOK /\ CommitsInv /\ RowsInv
<1>1. Init => All
  BY InitInv, TypeInit, RowsInit
<1>2. All /\ [Next]_vars => All'
  BY NextInv, TypeNext, RowsNext
<1>3. All => (Untied => GoldIsProjection)
  <2> SUFFICES ASSUME All, Untied, gold.version > 0
               PROVE  Made(gold.rows) = Build(Order!InOrder(Rows(gold.version)))
    BY DEF GoldIsProjection
  <2>1. gold.version \in 1 .. Len(source)
    BY DEF TypeOK, Inv, SourceInv
  <2>2. PICK events \in Orders(gold.version) : Build(events) = Made(gold.rows)
    BY <2>1 DEF Inv, GoldFromSnapshot, FromSnapshot
  <2> QED BY <2>1, <2>2, VersionProjected DEF Inv
<1> HIDE DEF All
<1> QED BY <1>1, <1>2, <1>3, PTL DEF Spec

\* The GeoParquet object of an untied topic is a whole projection of the
\* version that its embedded lineage states, with the lineage of that
\* projection (export_geoparquet reads rows and version from one handle).
THEOREM LineageProjects == Spec => [](Untied => ExportLineage)
<1> DEFINE All == Inv /\ TypeOK /\ CommitsInv /\ RowsInv
<1>1. Init => All
  BY InitInv, TypeInit, RowsInit
<1>2. All /\ [Next]_vars => All'
  BY NextInv, TypeNext, RowsNext
<1>3. All => (Untied => ExportLineage)
  <2> DEFINE version == object.lineage.input_table_version
             result == Build(Order!InOrder(Rows(version)))
  <2> SUFFICES ASSUME All, Untied, version > 0
               PROVE  object.rows = result.rows /\ object.lineage = Geo!Lineage(version, result.rows)
    BY DEF ExportLineage
  <2>1. object.lineage # NoLineage
    <3>1. NoLineage.input_table_version = 0
      BY DEF NoLineage
    <3> QED BY <3>1
  <2>2. /\ FromSnapshot(version, object.rows)
        /\ object.lineage = Geo!Lineage(version, object.rows)
    BY <2>1 DEF Inv, ObjectFromSnapshot
  <2>3. version \in 1 .. Len(source)
    BY <2>2 DEF FromSnapshot
  <2>4. PICK events \in Orders(version) : Build(events) = Made(object.rows)
    BY <2>2 DEF FromSnapshot
  <2>5. result = Made(object.rows)
    BY <2>3, <2>4, VersionProjected DEF Inv
  <2>6. result.rows = object.rows
    BY <2>5 DEF Made
  <2> HIDE DEF result, version
  <2> QED BY <2>2, <2>6
<1> HIDE DEF All
<1> QED BY <1>1, <1>2, <1>3, PTL DEF Spec

\* The positions of a track are points.
LEMMA TrackEvents ==
    ASSUME RowsInv, product = "vessel"
    PROVE  \A e \in Elements(source) : e.at \in Int /\ e.id \in Int /\ e.position \in Points
<1>1. "position" \in EventFields[product]
  BY DEF EventFields
<1>2. \A g \in ToSet(log) : g.position \in Int \X Int
  <2>1. PICK l \in Logs : product = l.product /\ log = l.events
    BY DEF RowsInv
  <2> QED BY <2>1, LogsAssumption
<1>3. ASSUME NEW e \in Elements(source) PROVE e.position \in Points
  <2>1. PICK g \in ToSet(log) : \A field \in EventFields[product] : e[field] = g[field]
    BY RowFields
  <2>2. e.position = g.position
    BY <1>1, <2>1
  <2> QED BY <1>2, <2>2 DEF Points
<1> QED BY <1>3, SourceEvents

\* However observations were delivered and listed, the trajectories of a vessel
\* have all of them, in order and each instant and place once between two gaps;
\* and a line is simplified without leaving the tolerance or crossing itself
\* anew (assemble_vessel_trajectories, simplify_preserving_topology).
THEOREM TracksPartitioned == Spec => []TracksPartition
<1> DEFINE All == Inv /\ TypeOK /\ CommitsInv /\ RowsInv
<1>1. Init => All
  BY InitInv, TypeInit, RowsInit
<1>2. All /\ [Next]_vars => All'
  BY NextInv, TypeNext, RowsNext
<1>3. All => TracksPartition
  <2> SUFFICES ASSUME All, product = "vessel", gold.version > 0
               PROVE  Track!Partition(GapThreshold, Tolerance, Rows(gold.version), gold.rows)
    BY DEF TracksPartition, Assembled
  <2>1. PICK events \in Seq(Elements(source)) :
           /\ Build(events) = Made(gold.rows)
           /\ ToSet(events) = ToSet(Rows(gold.version))
           /\ Distinct(events)
    BY TableListed
  <2>2. Build(events) = RebuildTrajectories(events)
    BY Zenon DEF Build, BuildFor
  <2>3. gold.rows = Track!TrajectoryRows(GapThreshold, Tolerance, Retries, events)
    BY <2>1, <2>2, MadeRows DEF RebuildTrajectories
  <2>4. GapThreshold \in Int /\ Tolerance \in Int /\ Retries \in Nat
    BY BoundsAssumption
  <2>5. \A e \in Elements(source) : e.at \in Int /\ e.id \in Int /\ e.position \in Points
    BY TrackEvents
  <2>6. Track!Partition(GapThreshold, Tolerance, Rows(gold.version),
                        Track!TrajectoryRows(GapThreshold, Tolerance, Retries, events))
    BY <2>1, <2>4, <2>5, TracksPartitionRows
  <2> QED BY <2>3, <2>6
<1> HIDE DEF All
<1> QED BY <1>1, <1>2, <1>3, PTL DEF Spec

\* The credits of the public registry account for the blocks: what is issued
\* is what the blocks of the project hold now, what is neither retired nor
\* cancelled is what its active ones hold, and the buffer is part of that
\* (build_public_registry_rows sums the latest event of each block).
THEOREM RegistryBalanced == Spec => []RegistryBalances
<1> DEFINE All == Inv /\ TypeOK /\ CommitsInv /\ RowsInv
<1>1. Init => All
  BY InitInv, TypeInit, RowsInit
<1>2. All /\ [Next]_vars => All'
  BY NextInv, TypeNext, RowsNext
<1>3. All => RegistryBalances
  <2> SUFFICES ASSUME All, product = "bluecarbon", gold.version > 0
               PROVE  Registry!Balances(Rows(gold.version), gold.rows)
    BY DEF RegistryBalances, Assembled
  <2>1. PICK events \in Seq(Elements(source)) :
           /\ Build(events) = Made(gold.rows)
           /\ ToSet(events) = ToSet(Rows(gold.version))
           /\ Distinct(events)
    BY TableListed
  <2>2. Build(events) = AssemblePublicRegistry(events)
    BY Zenon DEF Build, BuildFor
  <2>3. gold.rows = Registry!RegistryRows(events) /\ ~Registry!UnknownStatus(events)
    <3>1. gold.rows = Registry!RegistryRows(events)
      BY <2>1, <2>2, MadeRows DEF AssemblePublicRegistry
    <3>2. Raises # Made(gold.rows)
      BY DEF Raises, Made
    <3>3. Registry!UnknownStatus(events) => Build(events) = Raises
      BY <2>2 DEF AssemblePublicRegistry
    <3> QED BY <2>1, <3>1, <3>2, <3>3
  <2>4. \A e \in Elements(source) : e.at \in Int /\ e.id \in Int
    BY SourceEvents
  <2>5. /\ \A e, f \in Elements(source) : e.id = f.id => SameBlock(e, f)
        /\ \A e \in Elements(source) : e.type = "block" => e.quantity \in Nat
    BY RegistryEvents
  <2> QED BY <2>1, <2>3, <2>4, <2>5, RegistryAccounts
<1> HIDE DEF All
<1> QED BY <1>1, <1>2, <1>3, PTL DEF Spec
=============================================================================
