SPECIFICATION Spec
CONSTANTS
    Calls = {c1, c2}
    Keys = {k1, k2, k3}
    Tenants = {n1, n2}
    Ids = {i1, i2}
    Subjects <- MCSubjects
    HasUnique = TRUE
    HasKms = TRUE
    NoKey = NoKey
    NoSubject = NoSubject
    NoText = NoText
SYMMETRY Symmetry
INVARIANTS TypeOK ErasureFinal ReadableUntilErased NoForeignRead
