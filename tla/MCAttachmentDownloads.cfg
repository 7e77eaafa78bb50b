\* three tickets, an empty attachment among them, compete for two places and three bytes
SPECIFICATION Spec
CONSTANTS
    Downloads = {d1, d2, d3}
    Gets = {g1, g2}
    Sizes = {0, 1, 2}
    MaxItems = 2
    MaxTotalBytes = 3
    Ttl = 2
    CleanupPeriod = 1
    MaxTime = 4
    None = None
SYMMETRY Symmetry
INVARIANTS
    DownloadsInv
    WithinCapacity
    TicketsReleasedInTime
PROPERTIES
    EvictedForRoom
    TicketsAreSingleUse
