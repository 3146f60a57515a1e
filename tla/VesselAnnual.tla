---------------------------- MODULE VesselAnnual ----------------------------
(***************************************************************************)
(* mrv_gold.build_vessel_annual_rows.  An event is                         *)
(*   [id, at, type, report, vessel, state, artifact]                       *)
(* with type "report" or "soc"; vessel stands for (imo_number,             *)
(* calendar_year).  A report belongs to one vessel and year.               *)
(***************************************************************************)
EXTENDS LatestEvents

\* The latest VERIFIED report of each vessel and year.
Verified(events) ==
    LatestPerKey(events,
                 {i \in DOMAIN events : events[i].type = "report" /\ events[i].state = "VERIFIED"},
                 [i \in DOMAIN events |-> events[i].vessel])

\* The latest statement of compliance of each report.
SocByReport(events) ==
    LatestPerKey(events, {i \in DOMAIN events : events[i].type = "soc"},
                 [i \in DOMAIN events |-> events[i].report])

\* Statements that join no row: their presence makes the assembly raise.
OrphanedSocs(events) ==
    LET verified == Verified(events) IN
    DOMAIN SocByReport(events) \ {verified[v].report : v \in DOMAIN verified}

AnnualRows(events) ==
    LET verified == Verified(events)
        socs == SocByReport(events)
        soc(v) == {socs[r] : r \in DOMAIN socs \cap {verified[v].report}}
    IN
    {[vessel |-> v, report |-> verified[v].report,
      artifact |-> {s.artifact : s \in soc(v)},
      sources |-> {verified[v].id} \cup {s.id : s \in soc(v)}] : v \in DOMAIN verified}

-----------------------------------------------------------------------------
(* References the loop is compared with. *)

VerifiedReports(events) ==
    {e \in ToSet(events) : e.type = "report" /\ e.state = "VERIFIED"}

\* Each vessel and year with a verified report has one row, for the report no
\* verified report is later than, with the latest statement about it.
LatestVerified(events, rows) ==
    LET reports == VerifiedReports(events)
        latest == {e \in reports : \A f \in reports : f.vessel = e.vessel => ~Later(f, e)}
        socs(r) == {e \in ToSet(events) : e.type = "soc" /\ e.report = r}
    IN
    /\ {<<r.vessel, r.report>> : r \in rows} = {<<e.vessel, e.report>> : e \in latest}
    /\ \A r \in rows :
          r.artifact = {s.artifact : s \in {t \in socs(r.report) :
                                              \A u \in socs(r.report) : ~Later(u, t)}}
=============================================================================
