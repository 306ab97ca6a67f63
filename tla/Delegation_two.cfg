SPECIFICATION Spec
CONSTANTS
    admin = admin
    reader = reader
    Calls = {c1, c2}
    Requests = {c1, c2}
    Rpcs = {c1, c2}
    NoKey = NoKey
    NoToken = NoToken
    Absent = Absent
    NoCall = NoCall
    NoTool = NoTool
    NoName = NoTool
    NoSubject = NoSubject
    NoActor = NoActor
    Subjects = {admin, reader}
    Actors = {a1}
    Tools = {"create_user"}
    ToolNames = {"create_user"}
    Scopes = {"users.read", "users.write"}
    GroupsOf <- MCGroupsOf
    CacheKey <- MCKeys
    AllowUnauthDiscovery = TRUE
    CacheTtl = 3
    CacheMaxSize = 1
    SafetyBuffer = 0
    Leeway = 1
    Lifetimes = {1}
    MaxAttempts = 1
    MaxTime = 2
INVARIANTS
    LeastPrivilege
PROPERTIES
    ImplementsAuthority
    EveryCallEnds
