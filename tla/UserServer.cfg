SPECIFICATION ServerSpec
CONSTANTS
    ava = ava
    Ava = Ava
    bob = bob
    n = n
    alice = alice
    agent = agent
    Address = {ava, Ava, bob}
    Fold <- MCFold
    FirstNames = {n}
    Null = Null
    Calls = {c1, c2}
    Rpcs = {c1, c2}
    Operations <- MCOperations
    NoOperation = NoOperation
    Seed <- MCSeed
    NoToken = NoToken
    NoName = NoName
    Subjects = {alice}
    Actors = {agent}
    Scopes = {"users.read", "users.write"}
    GroupsOf <- MCGroupsOf
    ToolNames = {"list_all_users", "search_users_by_first_name", "create_user",
                 "delete_user_by_email", "update_user_by_email", "unlisted_tool"}
    Bearers <- MCBearers
    AllowUnauthDiscovery = TRUE
    Leeway = 1
    MaxTime = 2
INVARIANTS
    
    AddressesDistinct
PROPERTIES
    ImplementsDirectory
    EveryRequestAnswered
