\* the time to live of a pushed handle
SPECIFICATION Spec
CONSTANTS
    Stagings = {s1}
    Grants = {g1}
    Pushes = {p1}
    Attaches = {a1}
    Owners = {o1}
    Drafts = {d1}
    Sizes = {1, 2}
    Digests = {x}
    MaxItems = 1
    MaxTotalBytes = 2
    MaxPushGrants = 1
    Ttl = 2
    CleanupPeriod = 1
    UploadSlots = 1
    MaxTime = 3
    None = None
SYMMETRY Symmetry
INVARIANT
    ExpiresAsAnswered
