SPECIFICATION Spec
CONSTANTS
    j1 = j1
    j2 = j2
    ann = ann
    ben = ben
    Jobs = {j1, j2}
    Operators = {ann, ben}
    Keys = {1, 2, 3, 4, 5}
    Occurred <- MCTiers
    Initial = {1, 2, 3, 4}
    FirstDay = 4
    HotHorizon = 1
    ColdHorizon = 3
    MaxKeys = 1
    MaxNow = 5
    MaxRuns = 2
    MaxIngests = 1
    MaxCrashes = 1
    MaxErrors = 1
SYMMETRY Symmetry
INVARIANTS TypeOK WindowClosed ColdCopiedFirst DeletionsAudited MismatchMeansInterference
PROPERTIES OnlyExpiredDeleted
CHECK_DEADLOCK FALSE
