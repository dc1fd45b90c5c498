SPECIFICATION Spec
CONSTANTS
    Calls = {c1, c2}
    Tokens = {t1, t2, t3}
    Users = {u1, u2}
    Tenants = {n1}
    Ttls = {1}
    MaxTtl = 1
    MaxTime = 2
    HasTransaction = TRUE
    HasCtxColumn = FALSE
    NoToken = NoToken
    NoUser = NoUser
    NoRow = NoRow
SYMMETRY Symmetry
INVARIANT KillSwitchEffective
