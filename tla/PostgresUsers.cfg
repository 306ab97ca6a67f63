SPECIFICATION Spec
CONSTANTS
    ava = ava
    Ava = Ava
    bob = bob
    n = n
    admin = admin
    reader = reader
    Address = {ava, Ava, bob}
    Fold <- MCFold
    FirstNames = {n}
    Null = Null
    Calls = {c1, c2}
    Operations <- MCOperations
    NoOperation = NoOperation
    Tokens <- MCTokens
    NoObo = NoObo
    NoUser = NoUser
SYMMETRY CallSymmetry
INVARIANTS
    OwnCredentials
    PrivilegeSuffices
    NoConnectionLeft
    UpdateNeverRejected
PROPERTIES
    ImplementsDirectory
