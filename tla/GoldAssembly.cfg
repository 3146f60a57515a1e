CONSTANTS
    p1 = p1
    p2 = p2
    Passes <- MCPasses
    ClearanceOf <- MCClearance
    Logs <- MCLogs
    MaxBatch = 3
    MaxCommits <- MCMaxCommits
    GapThreshold = 2
    Tolerance = 1
    Retries = 8
    MaxExportRows = 2
    Inside <- MCInside
    MaxFaults = 1
SPECIFICATION Spec
INVARIANTS
    TypeOK
    GoldIsProjection
    LedgerAccounts
    AnnualIsLatest
    RegistryBalances
    ExportCleared
    TracksPartition
    SummariesBound
    ExportLineage
    SidecarAgrees
PROPERTY GoldCatchesUp
