--------------------------- MODULE PublicRegistry ---------------------------
(***************************************************************************)
(* bluecarbon_gold.build_public_registry_rows.  An event is                *)
(*   [id, at, type, key, project, vintage, status, quantity, buffer]       *)
(* with type "project", "block" or "retirement"; key is the project, block *)
(* or retirement id and status the state of a project or of a block.       *)
(***************************************************************************)
EXTENDS LatestEvents, FiniteSets, FiniteSetsExt

Statuses == {"ACTIVE", "RETIRED", "CANCELLED"}

Latest(events, type) ==
    LatestPerKey(events, {i \in DOMAIN events : events[i].type = type},
                 [i \in DOMAIN events |-> events[i].key])

\* Mutant of Blocks: every event of a block is summed, not the latest.
BlocksOfAllEvents(events) == {e \in ToSet(events) : e.type = "block"}

\* The credit blocks as they are last known.
Blocks(events) == Range(Latest(events, "block"))

UnknownStatus(events) == \E b \in Blocks(events) : b.status \notin Statuses

Quantity(blocks) == SumFunction([b \in blocks |-> b.quantity])

InStatus(blocks, status) == {b \in blocks : b.status = status}

VintageTotals(blocks) ==
    [v \in {b.vintage : b \in blocks} |->
        LET mine == {b \in blocks : b.vintage = v} IN
        [issued |-> Quantity(mine),
         retired |-> Quantity(InStatus(mine, "RETIRED")),
         cancelled |-> Quantity(InStatus(mine, "CANCELLED"))]]

BufferBalance(blocks) == Quantity({b \in InStatus(blocks, "ACTIVE") : b.buffer})

\* Every retirement event of the project is listed, by retirement id.
Retirements(events, project) ==
    StableSort(Chosen(events, {i \in DOMAIN events : events[i].type = "retirement"
                                                    /\ events[i].project = project}),
               LAMBDA e, f : e.key < f.key)

RegistryRows(events) ==
    LET projects == Latest(events, "project") IN
    {LET blocks == {b \in Blocks(events) : b.project = p}
         retirements == Retirements(events, p)
     IN
     [project |-> p, state |-> projects[p].status,
      vintages |-> VintageTotals(blocks), buffer |-> BufferBalance(blocks),
      retirements |-> [i \in DOMAIN retirements |-> <<retirements[i].key, retirements[i].quantity>>],
      sources |-> {projects[p].id} \cup {b.id : b \in blocks}
                    \cup {r.id : r \in ToSet(retirements)}] : p \in DOMAIN projects}

-----------------------------------------------------------------------------
\* The quantity of the blocks that these events are of, each once.
Credits(events) ==
    SumFunction([k \in {e.key : e \in events} |-> (CHOOSE e \in events : e.key = k).quantity])

\* A total of a row over its vintages.
Total(r, field) == SumFunction([v \in DOMAIN r.vintages |-> r.vintages[v][field]])

\* The credits of a project account for its blocks: whatever events a block
\* went through, its last known quantity is issued once, in one vintage of one
\* project, and is active, retired or cancelled; the buffer is part of what is
\* active.
Balances(events, rows) ==
    LET all == {e \in ToSet(events) : e.type = "block"}
        now == {e \in all : \A f \in all : f.key = e.key => ~Later(f, e)}
    IN
    \A r \in rows :
        LET mine == {e \in now : e.project = r.project}
            active == Total(r, "issued") - Total(r, "retired") - Total(r, "cancelled")
        IN
        /\ Total(r, "issued") = Credits(mine)
        /\ active = Credits({e \in mine : e.status = "ACTIVE"})
        /\ r.buffer <= active
=============================================================================
