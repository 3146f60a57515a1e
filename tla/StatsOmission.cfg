SPECIFICATION Spec
CONSTANTS
    p1 = p1
    p2 = p2
    r1 = r1
    Passes = {p1}
    Readers = {}
    Silvers <- SingleReports
    Period <- MCPeriod
    Registry = {"vessel_calls", "booking_lead_time_hours"}
    MaxFaults = 0
INVARIANTS NothingOmitted
CHECK_DEADLOCK FALSE
