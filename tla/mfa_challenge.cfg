SPECIFICATION Spec
CONSTANTS
    Calls = {c1, c2}
    Tenants = {n1}
    Users = {u1, u2}
    Accounts <- MCAccounts
    Secrets = {s1, s2}
    Challenges = {i1, i2}
    Ttl = 1
    MaxTime = 1
    NoAccount = NoAccount
    NoSecret = NoSecret
    NoChallenge = NoChallenge
    NoRow = NoRow
    NoCode = NoCode
SYMMETRY Symmetry
INVARIANTS TypeOK OneGuess RightAccount ReplacedIsDead ShownIsStored RightCodeAccepted
