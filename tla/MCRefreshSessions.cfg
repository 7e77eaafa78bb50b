\* one session, three requests: every race on one rotation family
SPECIFICATION FairSpec
CONSTANTS
    Sessions = {s1}
    Requests = {r1, r2, r3}
    Clients = {c1}
    Users = {u1}
    Deployments = {d1}
    MaxRotations = 2
    SessionTtl = 1
    Retention = 1
    MaxTime = 2
    None = None
INVARIANTS
    HistoryIsComplete
    HistoryIsBounded
    RejectionClosesFamily
PROPERTIES
    RevocationIsFinal
    ReplayIsPunished
