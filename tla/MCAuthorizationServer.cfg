\* the whole server: two authorizations, callbacks and codes that come
\* twice, a refresh
SPECIFICATION ServerSpec
CONSTANTS
    Sessions = {s1}
    Requests = {r1}
    Clients = {c1, c2}
    RefreshClients = {c1}
    Users = {u1}
    Deployments = {d1, d2}
    Authorizations = {a1, a2}
    Callbacks = {b1, b2}
    Exchanges = {e1, e2}
    TransactionTtl = 1
    CodeTtl = 1
    TokenLife = 1
    MaxRotations = 1
    SessionTtl = 1
    Retention = 1
    MaxTime = 1
    None = None
SYMMETRY Symmetry
INVARIANTS
    LedgerInv
    OneTokenPerAuthorization
    SessionOfAuthorization
PROPERTIES
    RefusedForCause
    ImplementsConsent
