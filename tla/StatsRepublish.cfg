SPECIFICATION Spec
CONSTANTS
    p1 = p1
    p2 = p2
    r1 = r1
    Passes = {p1}
    Readers = {}
    Silvers <- Lifecycles
    Period <- MCPeriod
    Registry = {"vessel_calls", "truck_gate_turnaround_minutes"}
    MaxFaults = 0
INVARIANTS FactsNeverConflict
CHECK_DEADLOCK FALSE
