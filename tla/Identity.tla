------------------------------- MODULE Identity -------------------------------
(***************************************************************************)
(* The vocabulary the services of the identity path share: subject tokens  *)
(* (the user's bearer), actor tokens (the agent's Vault identity), OBO     *)
(* tokens, the wall clock they all read, and the token-exchange service's  *)
(* group policy.                                                           *)
(*                                                                         *)
(* A subject token is named by a member of Subjects and GroupsOf gives its *)
(* groups claim; {} stands for a claim that is missing, empty or           *)
(* malformed, which the policy treats alike.  A scope string is the SET of *)
(* its members: both services deduplicate and sort it before they use it.  *)
(***************************************************************************)
EXTENDS Naturals, FiniteSets

CONSTANTS
    Subjects,   \* subject tokens
    GroupsOf,   \* the groups claim of each subject token
    Actors,     \* actor tokens
    Scopes,     \* OAuth scopes a client can name, known to the policy or not
    NoToken,    \* absence of a token
    MaxTime     \* bound: the clock stops here

ASSUME IdentityAssumption ==
    /\ MaxTime \in Nat
    /\ GroupsOf \in [Subjects -> SUBSET {"readonly", "admin", "guest"}]

VARIABLE now    \* time.time(), the clock the services compare exp claims with

\* An OBO access token: the claims the services read.  exp = 0 stands for a
\* token whose exp claim cannot be decoded.
OboToken == [subject : Subjects, actor : Actors, scope : SUBSET Scopes, exp : Nat]

ASSUME NoTokenAssumption == NoToken \notin OboToken

-------------------------------------------------------------------------------
(* token-exchange/verify/authorization.py *)

SCOPE_REQUIREMENTS ==
    [s \in {"users.read", "users.write"} |->
        IF s = "users.read" THEN {"readonly", "admin"} ELSE {"admin"}]

\* authorize_scope: it fails closed, on a subject without usable groups as on
\* a scope the policy does not name.
AuthorizeScope(subject, scope) ==
    /\ GroupsOf[subject] # {}
    /\ \A s \in scope :
        /\ s \in DOMAIN SCOPE_REQUIREMENTS
        /\ GroupsOf[subject] \cap SCOPE_REQUIREMENTS[s] # {}

-------------------------------------------------------------------------------
(* user-mcp/tools/users.py: the scopes each tool declares, which user-mcp      *)
(* enforces and the agent learns as _meta.required_scopes.                     *)

TOOL_SCOPE_REQUIREMENTS ==
    [t \in {"list_all_users", "search_users_by_first_name", "create_user",
            "delete_user_by_email", "update_user_by_email"} |->
        IF t \in {"list_all_users", "search_users_by_first_name"}
        THEN {"users.read"} ELSE {"users.write"}]

-------------------------------------------------------------------------------
Tick ==
    /\ now < MaxTime
    /\ now' = now + 1
===============================================================================
