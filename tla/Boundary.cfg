SPECIFICATION Spec
CONSTANTS
    Roots <- RootCases
    Namespaces = {"ports", "cvff", "seafarer", "fisheries", "export", "isr", "mrv", "bluecarbon", "maritime"}
    Classifications = {"PUBLIC", "RESTRICTED", "FIDUCIARY_SEGREGATED", "TOP"}
    RecordLabels = {"none", "CONFIDENTIAL", "SECRET"}
    RoleSets <- RoleCases
    MaxBatch = 2
    MaxRows = 1
INVARIANTS RowsInTheirScope OnlyEntitledReaders
CHECK_DEADLOCK FALSE
