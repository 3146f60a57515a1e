CONSTANTS
    p1 = p1
    p2 = p2
    Passes <- MCPasses
    ClearanceOf <- MCClearance
    Logs <- SupersededLogs
    MaxBatch = 3
    MaxCommits <- MCMaxCommits
    GapThreshold = 2
    Tolerance = 1
    Retries = 8
    MaxExportRows = 2
    Inside <- MCInside
    MaxFaults = 1
SPECIFICATION Spec
INVARIANT SocOrphanMeansUnverified
