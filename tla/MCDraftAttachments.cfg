\* a staged and a pushed file, two calls, one POST or three ranges, two retries
SPECIFICATION FairAttachments
CONSTANTS
    Stagings = {s1}
    Grants = {g1}
    Pushes = {p1}
    Attaches = {a1, a2}
    Owners = {o1}
    Drafts = {d1}
    Sizes = {1, 5}
    Digests = {x}
    MaxItems = 2
    MaxTotalBytes = 6
    MaxPushGrants = 1
    Ttl = 1
    CleanupPeriod = 1
    UploadSlots = 1
    MaxTime = 1
    DirectLimit = 2
    ChunkBytes = 2
    MaxRetries = 2
    None = None
INVARIANTS
    AttachedAtMostOnce
    AnswersAreTrue
PROPERTIES
    ImplementsSingleUse
    DeliversOnce
    CallsEnd
