SPECIFICATION Spec
CONSTANTS
    w1 = w1
    w2 = w2
    w3 = w3
    k1 = k1
    k2 = k2
    x1 = x1
    x2 = x2
    Writers = {w1, w2, w3}
    Keys = {k1, k2}
    Contents = {x1, x2}
    MaxAttempts = 2
    MaxCalls = 1
    MaxLifts = 1
SYMMETRY Symmetry
INVARIANTS TypeOK ReturnMeansRetained CountExact ExhaustedMeansContention
PROPERTIES Keyed
CHECK_DEADLOCK FALSE
