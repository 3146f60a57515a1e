SPECIFICATION Spec
CONSTANTS
    p1 = p1
    p2 = p2
    r1 = r1
    Passes = {p1, p2}
    Readers = {r1}
    Silvers <- AllSilvers
    Period <- MCPeriod
    Registry = {"vessel_calls", "truck_gate_turnaround_minutes"}
    MaxFaults = 1
SYMMETRY Symmetry
INVARIANTS TypeOK ManifestFirst ReportBacked TornHeals ReplayAgrees StatusMerged ServedWhole GatesPaired RowPerSegment
CHECK_DEADLOCK FALSE
