SPECIFICATION FairSpec
CONSTANTS
    j1 = j1
    j2 = j2
    ann = ann
    ben = ben
    Jobs = {j1}
    Operators = {ann}
    Keys = {1, 2, 3, 4}
    Occurred <- MCOccurred
    Initial = {1, 2, 3}
    FirstDay = 4
    HotHorizon = 1
    ColdHorizon = 3
    MaxKeys = 1
    MaxNow = 5
    MaxRuns = 2
    MaxIngests = 0
    MaxCrashes = 0
    MaxErrors = 1
PROPERTIES EveryDeletionAudited
CHECK_DEADLOCK FALSE
