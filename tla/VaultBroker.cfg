SPECIFICATION Spec
CONSTANTS
    v1 = v1
    Requests = {r1, r2}
    VaultTokens = {v1}
    Roles = {"agent", "tool"}
    CacheKey <- MCKeys
    NoKey = NoKey
    NoToken = NoToken
    Absent = Absent
    Never = Never
    Lifetimes = {2, 5}
    Fallback = 3
    MaxAttempts = 2
    CacheTtl = 2
    CacheMaxSize = 1
    SafetyBuffer = 1
    MaxTime = 4
INVARIANTS
    IdentityIsOwn
PROPERTIES
    UsableIdentityKept
    
    EveryIdentityAnswered
