SPECIFICATION FairSpec
CONSTANTS
    c1 = c1
    c2 = c2
    e1 = e1
    e2 = e2
    b1 = b1
    b2 = b2
    old = old
    new = new
    rogue = rogue
    Nobody = Nobody
    Consumers = {c1}
    Partitions <- OnePartition
    EventIds = {e1, e2}
    Bodies = {b1, b2}
    Kids = {old, new, rogue}
    Directories <- NoRotation
    Logs <- PoisonLogs
    MaxMessages = 2
    MaxFaults = 0
    MaxRebalances = 0
    FilteredReadFails = TRUE
PROPERTIES EverythingCommitted
