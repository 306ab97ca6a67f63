SPECIFICATION BrokerSafety
CONSTANTS
    admin = admin
    reader = reader
    guest = guest
    a1 = a1
    a2 = a2
    Requests = {r1, r2}
    NoKey = NoKey
    NoToken = NoToken
    Absent = Absent
    Subjects = {admin, reader}
    Actors = {a1, a2}
    Scopes = {"users.read", "users.write"}
    GroupsOf <- MCGroupsOf
    CacheKey <- SubjectKeys
    CacheTtl = 2
    CacheMaxSize = 2
    SafetyBuffer = 1
    Lifetimes = {4}
    MaxAttempts = 2
    MaxTime = 3
SYMMETRY RequestSymmetry
INVARIANTS
    CacheBounded
PROPERTIES
    UsableKept
