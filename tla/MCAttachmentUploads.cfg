\* a staged file and two grants compete for one grant, one place, two bytes and
\* one slot
SPECIFICATION Spec
CONSTANTS
    Stagings = {s1}
    Grants = {g1, g2}
    Pushes = {p1, p2}
    Attaches = {a1}
    Owners = {o1}
    Drafts = {d1, d2}
    Sizes = {1, 2}
    Digests = {x}
    MaxItems = 1
    MaxTotalBytes = 2
    MaxPushGrants = 1
    Ttl = 2
    CleanupPeriod = 1
    UploadSlots = 1
    MaxTime = 3
    None = None
SYMMETRY Symmetry
INVARIANTS
    UploadsInv
    WithinLimits
    ReleasedInTime
PROPERTY
    LostForCause
