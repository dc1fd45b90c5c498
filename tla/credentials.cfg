SPECIFICATION MCSpec
CONSTANTS
    t1 = t1
    t2 = t2
    u1 = u1
    u2 = u2
    p1 = p1
    p2 = p2
    r1 = r1
    r2 = r2
    Tenants = {t1, t2}
    Users = {u1, u2}
    Passwords = {p1, p2}
    Roles = {r1, r2}
    TenantOf <- MCTenantOf
    Rows <- MCRows
    MaxEdits = 2
    Everywhere = Everywhere
    NoAccount = NoAccount
    NoUser = NoUser
    NoHash = NoHash
    NoRole = NoRole
    NoCall = NoCall
CONSTRAINT Calm
INVARIANTS TypeOK IdentityWasValid ValidIsNotRefused ComparesEveryAccount GrantsOfHeldRole
