SPECIFICATION Spec
CONSTANTS
    Calls = {c1, c2}
    Tokens = {t1, t2, t3}
    Users = {u1, u2}
    Tenants = {n1}
    Ttls = {1}
    MaxTtl = 1
    MaxTime = 1
    HasTransaction = TRUE
    HasCtxColumn = TRUE
    NoToken = NoToken
    NoUser = NoUser
    NoRow = NoRow
SYMMETRY Symmetry
INVARIANTS TypeOK OneBearer SessionOfLogin AuthTimeOfLogin RevokedForGood
PROPERTIES ServedInTime RotationLosesNothing ImplementsLedger
