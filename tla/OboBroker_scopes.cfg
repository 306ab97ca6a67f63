SPECIFICATION BrokerSpec
CONSTANTS
    admin = admin
    reader = reader
    guest = guest
    a1 = a1
    a2 = a2
    Requests = {r1, r2}
    NoKey = NoKey
    NoToken = NoToken
    Absent = Absent
    Subjects = {admin, guest}
    Actors = {a1}
    Scopes = {"users.read", "users.write"}
    GroupsOf <- MCGroupsOf
    CacheKey <- ScopeKeys
    CacheTtl = 3
    CacheMaxSize = 2
    SafetyBuffer = 1
    Lifetimes = {2}
    MaxAttempts = 2
    MaxTime = 3
INVARIANTS
    BrokerTypeOK
    CacheSound
    AnswerSound
    ExchangeOnlyWhenMissing
PROPERTIES
    
    EveryRequestAnswered
