\* a sentence of docs/workbuddy-oauth.md
SPECIFICATION FairSpec
CONSTANTS
    Calls = {c1}
    Keys = {k1}
    Ttl = 3
    Cooldown = 2
    MaxTime = 2
    None = None
CHECK_DEADLOCK FALSE
PROPERTY
    OutageKeepsTheSession
