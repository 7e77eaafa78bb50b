\* a sentence of docs/security.md
SPECIFICATION FairSpec
CONSTANTS
    Sessions = {s1}
    Requests = {r1, r2}
    Clients = {c1}
    Users = {u1}
    Deployments = {d1}
    MaxRotations = 2
    SessionTtl = 2
    Retention = 1
    MaxTime = 2
    None = None
PROPERTY
    ConcurrentUseClosesFamily
