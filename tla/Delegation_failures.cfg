SPECIFICATION Safety
CONSTANTS
    admin = admin
    reader = reader
    Calls = {c1}
    Requests = {c1}
    Rpcs = {c1}
    NoKey = NoKey
    NoToken = NoToken
    Absent = Absent
    NoCall = NoCall
    NoTool = NoTool
    NoName = NoTool
    NoSubject = NoSubject
    NoActor = NoActor
    Subjects = {admin, reader}
    Actors = {a1}
    Tools = {"list_all_users", "create_user"}
    ToolNames = {"list_all_users", "create_user"}
    Scopes = {"users.read", "users.write"}
    GroupsOf <- MCGroupsOf
    CacheKey <- MCKeys
    AllowUnauthDiscovery = TRUE
    CacheTtl = 3
    CacheMaxSize = 1
    SafetyBuffer = 1
    Leeway = 1
    Lifetimes = {2}
    MaxAttempts = 1
    MaxTime = 3
INVARIANTS
    ToolFailureIsText
