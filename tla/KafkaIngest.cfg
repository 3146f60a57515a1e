SPECIFICATION Spec
CONSTANTS
    c1 = c1
    c2 = c2
    e1 = e1
    e2 = e2
    b1 = b1
    b2 = b2
    old = old
    new = new
    rogue = rogue
    Nobody = Nobody
    Consumers = {c1, c2}
    Partitions <- TwoPartitions
    EventIds = {e1, e2}
    Bodies = {b1, b2}
    Kids = {old, new, rogue}
    Directories <- Rotation
    Logs <- MixedLogs
    MaxMessages = 3
    MaxFaults = 1
    MaxRebalances = 1
    FilteredReadFails = TRUE
SYMMETRY Symmetry
INVARIANTS TypeOK NothingCommittedIsLost BronzeIsVerified BronzeIdsUnique QuarantineOnTopic
PROPERTIES Contract
