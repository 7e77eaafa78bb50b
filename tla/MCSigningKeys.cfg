\* two concurrent validations and a key that is published and withdrawn; the
\* cool-down and the time to live both end within the run
SPECIFICATION FairSpec
CONSTANTS
    Calls = {c1, c2}
    Keys = {k1}
    Ttl = 2
    Cooldown = 1
    MaxTime = 2
    None = None
CHECK_DEADLOCK FALSE
INVARIANTS
    SigningKeysInv
PROPERTIES
    PublishedKeysAreFound
    WithdrawnKeysExpire
    ImplementsTrustedKeys
    ValidationEnds
