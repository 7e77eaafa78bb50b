\* two sessions, clients, identities and settings
SPECIFICATION Spec
CONSTANTS
    Sessions = {s1, s2}
    Requests = {r1, r2}
    Clients = {c1, c2}
    Users = {u1, u2}
    Deployments = {d1, d2}
    MaxRotations = 1
    SessionTtl = 2
    Retention = 1
    MaxTime = 2
    None = None
SYMMETRY Symmetry
INVARIANTS
    IInv
    RevokedForCause
PROPERTIES
    ImplementsRotation
    HandlesWorkUntilUsed
