SPECIFICATION FairSpec
CONSTANTS
    c1 = c1
    c2 = c2
    e1 = e1
    e2 = e2
    b1 = b1
    b2 = b2
    old = old
    new = new
    rogue = rogue
    Nobody = Nobody
    Consumers = {c1, c2}
    Partitions <- OnePartition
    EventIds = {e1, e2}
    Bodies = {b1, b2}
    Kids = {old, new, rogue}
    Directories <- Rotation
    Logs <- LiveLogs
    MaxMessages = 2
    MaxFaults = 1
    MaxRebalances = 1
    FilteredReadFails = FALSE
PROPERTIES EverythingCommitted
