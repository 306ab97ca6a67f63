----------------------------- MODULE PostgresUsers -----------------------------
(***************************************************************************)
(* PostgresUserRepository in vault mode, the production mode.  Every tool  *)
(* call logs in to Vault with its OBO token, has Vault lease it a database *)
(* user, opens a connection as that user, runs one statement and closes    *)
(* the connection; each of these awaits, so calls interleave between them. *)
(* Vault and Postgres are external; the table is the one the deployment    *)
(* creates.                                                                *)
(***************************************************************************)
EXTENDS UserRecords

CONSTANTS
    Calls,          \* identifiers of tool calls
    Operations,     \* the operations clients ask for
    NoOperation,
    Tokens,         \* OBO tokens: a subject and its scopes
    NoObo,
    NoUser          \* no database user

ASSUME PostgresUsersAssumption ==
    /\ Operations \subseteq Operation
    /\ NoOperation \notin Operation
    /\ \A t \in Tokens : t.scope \subseteq {"users.read", "users.write"}
    /\ NoObo \notin Tokens

VARIABLES
    rows,       \* the table users
    dbUsers,    \* the database users Vault has leased and not revoked
    tool        \* tool[c] : a tool call

pgVars == <<rows, dbUsers, tool>>

Role == {"read", "write"}

\* Vault names a database user by the token's subject and the role's privileges.
DbUser == [subject : {t.subject : t \in Tokens}, role : Role]

ASSUME NoUserAssumption == NoUser \notin DbUser

Tool == [phase : {"idle", "login", "creds", "connect", "execute", "close", "done"},
         operation : Operation \cup {NoOperation}, obo : Tokens \cup {NoObo},
         creds : DbUser \cup {NoUser}, conn : DbUser \cup {NoUser}, answer : Answer]

IdleTool == [phase |-> "idle", operation |-> NoOperation, obo |-> NoObo,
             creds |-> NoUser, conn |-> NoUser, answer |-> Unanswered]

Init ==
    /\ rows = {}
    /\ dbUsers = {}
    /\ tool = [c \in Calls |-> IdleTool]

-------------------------------------------------------------------------------
(* From the tool to a connection *)

\* The scope the tool of an operation requires.
Needs(o) == IF o.kind \in {"list", "search"} THEN "users.read" ELSE "users.write"

\* A tool call that passed require_scopes.
Call(c, o, obo) ==
    /\ tool[c].phase = "idle"
    /\ Needs(o) \in obo.scope
    /\ tool' = [tool EXCEPT ![c] = [IdleTool EXCEPT
                    !.phase = "login", !.operation = o, !.obo = obo]]
    /\ UNCHANGED <<rows, dbUsers>>

\* Mutant of SelectVaultTargets: the read role is looked for first.
SelectVaultTargetsReadFirst(scope) == IF "users.read" \in scope THEN "read" ELSE "write"

\* _select_vault_targets: the role of the login and of the credential path.
SelectVaultTargets(scope) == IF "users.write" \in scope THEN "write" ELSE "read"

RoleOf(c) == SelectVaultTargets(tool[c].obo.scope)

\* An AppError: nothing is open yet, nothing of what Vault did is undone.
GiveUp(c) == tool' = [tool EXCEPT ![c].phase = "done", ![c].answer = Failed]

\* login_with_jwt.  Vault refuses a token whose scope claim does not contain
\* the role's scope, and may refuse or fail otherwise.
LoginWithJwt(c) ==
    /\ tool[c].phase = "login"
    /\ \/ /\ \/ RoleOf(c) = "write" /\ "users.write" \in tool[c].obo.scope
             \/ RoleOf(c) = "read" /\ "users.read" \in tool[c].obo.scope
          /\ tool' = [tool EXCEPT ![c].phase = "creds"]
       \/ GiveUp(c)
    /\ UNCHANGED <<rows, dbUsers>>

\* Mutant of ReadDatabaseCreds: credentials leased before are used again.
ReadCachedCreds(c) ==
    /\ tool[c].phase = "creds"
    /\ LET own == [subject |-> tool[c].obo.subject, role |-> RoleOf(c)]
       IN  \E user \in IF dbUsers = {} THEN {own} ELSE dbUsers :
            /\ dbUsers' = dbUsers \cup {user}
            /\ tool' = [tool EXCEPT ![c].phase = "connect", ![c].creds = user]
    /\ UNCHANGED rows

\* read_database_creds: Vault creates a database user.  When its answer is
\* lost or unusable the user exists all the same.
ReadDatabaseCreds(c) ==
    /\ tool[c].phase = "creds"
    /\ LET user == [subject |-> tool[c].obo.subject, role |-> RoleOf(c)]
       IN  \/ /\ dbUsers' = dbUsers \cup {user}
              /\ tool' = [tool EXCEPT ![c].phase = "connect", ![c].creds = user]
           \/ /\ dbUsers' \in {dbUsers, dbUsers \cup {user}}
              /\ GiveUp(c)
    /\ UNCHANGED rows

\* asyncpg.connect: Postgres knows the user, unless the lease has ended.
Connect(c) ==
    /\ tool[c].phase = "connect"
    /\ \/ /\ tool[c].creds \in dbUsers
          /\ tool' = [tool EXCEPT ![c].phase = "execute", ![c].conn = tool[c].creds]
       \/ GiveUp(c)
    /\ UNCHANGED <<rows, dbUsers>>

-------------------------------------------------------------------------------
(* One statement, which Postgres runs as a transaction of its own *)

\* The connection is open, and its user may run statements of this kind.
Runs(c, kind) ==
    /\ tool[c].phase = "execute"
    /\ tool[c].operation.kind = kind
    /\ Needs(tool[c].operation) = "users.write" => tool[c].conn.role = "write"

\* The statement is over; its answer may be lost with the connection.
Ran(c, table, answer) ==
    /\ rows' = table
    /\ \E a \in {answer, Failed} :
        tool' = [tool EXCEPT ![c].phase = "close", ![c].answer = a]
    /\ UNCHANGED dbUsers

ListAll(c) ==
    /\ Runs(c, "list")
    /\ Ran(c, rows, Returned(rows))

SearchByFirstName(c) ==
    /\ Runs(c, "search")
    /\ Ran(c, rows, Returned({u \in rows : u.first_name = tool[c].operation.first_name}))

\* The table's unique constraint, on the address as it is written, would be
\* violated.
Duplicate(table, email) == \E u \in table : u.email = email

\* A column would be given NULL, and no column takes it.
Incomplete(user) == user.first_name = Null

\* create: INSERT
Create(c) ==
    /\ Runs(c, "create")
    /\ LET user == tool[c].operation.user
       IN  IF Incomplete(user) THEN Ran(c, rows, Rejected)
           ELSE IF Duplicate(rows, user.email) THEN Ran(c, rows, Exists)
           ELSE Ran(c, rows \cup {user}, Returned({user}))

\* delete_by_email: DELETE ... RETURNING, of which fetchrow gives one row.
DeleteByEmail(c) ==
    /\ Runs(c, "delete")
    /\ LET found == At(rows, tool[c].operation.email)
       IN  \/ found = {} /\ Ran(c, rows, Missing)
           \/ \E u \in found : Ran(c, rows \ found, Returned({u}))

\* Mutant of Merge: a field that is not given is emptied.
MergeVerbatim(old, new) == new

\* Only the fields given replace those of the row.
Merge(old, new) ==
    [new EXCEPT !.first_name = IF @ = Null THEN old.first_name ELSE @]

\* Mutant of UpdateByEmail: an address that names nobody is taken for a new user.
UpdateUpserts(c) ==
    /\ Runs(c, "update")
    /\ LET o     == tool[c].operation
           found == At(rows, o.email)
       IN  IF Duplicate(rows \ found, o.user.email) THEN Ran(c, rows, Exists)
           ELSE Ran(c, (rows \ found) \cup {o.user}, Returned({o.user}))

\* update_by_email: UPDATE ... SET email, and the other fields given ...
\* RETURNING.  Two rows cannot be given the same address.
UpdateByEmail(c) ==
    /\ Runs(c, "update")
    /\ LET o     == tool[c].operation
           found == At(rows, o.email)
       IN  \/ found = {} /\ Ran(c, rows, Missing)
           \/ \E old \in found :
                LET new == Merge(old, o.user)
                IN  IF Incomplete(new) THEN Ran(c, rows, Rejected)
                    ELSE IF found # {old} \/ Duplicate(rows \ found, new.email)
                    THEN Ran(c, rows, Exists)
                    ELSE Ran(c, (rows \ found) \cup {new}, Returned({new}))

\* Mutant of StatementFails: the connection is closed only after a success.
StatementFailsOpen(c) ==
    /\ tool[c].phase = "execute"
    /\ GiveUp(c)
    /\ UNCHANGED <<rows, dbUsers>>

\* The statement fails without an effect: the connection broke, or the user
\* lacks the privilege.
StatementFails(c) ==
    /\ tool[c].phase = "execute"
    /\ tool' = [tool EXCEPT ![c].phase = "close", ![c].answer = Failed]
    /\ UNCHANGED <<rows, dbUsers>>

\* The finally clause of _acquire; close aborts the connection and raises when
\* it cannot close it in order.
Close(c) ==
    /\ tool[c].phase = "close"
    /\ \E a \in {tool[c].answer, Failed} :
        tool' = [tool EXCEPT ![c].phase = "done", ![c].conn = NoUser, ![c].answer = a]
    /\ UNCHANGED <<rows, dbUsers>>

-------------------------------------------------------------------------------
(* Surroundings *)

\* The lease of a database user ends: nobody can connect as it any more.
LeaseEnds(user) ==
    /\ user \in dbUsers
    /\ dbUsers' = dbUsers \ {user}
    /\ UNCHANGED <<rows, tool>>

\* user-mcp restarts: its connections break, its calls are lost, and Vault is
\* not told.
ServerRestarts ==
    /\ tool' = [c \in Calls |->
                    IF tool[c].phase \in {"idle", "done"} THEN tool[c]
                    ELSE [tool[c] EXCEPT !.phase = "done", !.conn = NoUser, !.answer = Failed]]
    /\ UNCHANGED <<rows, dbUsers>>

\* Bookkeeping of the model: the identifier can be used again.
Reuse(c) ==
    /\ tool[c].phase = "done"
    /\ tool' = [tool EXCEPT ![c] = IdleTool]
    /\ UNCHANGED <<rows, dbUsers>>

Execute(c) ==
    ListAll(c) \/ SearchByFirstName(c) \/ Create(c) \/ DeleteByEmail(c) \/ UpdateByEmail(c)
        \/ StatementFails(c)

Next ==
    \/ \E c \in Calls :
        \/ \E o \in Operations, obo \in Tokens : Call(c, o, obo)
        \/ LoginWithJwt(c)
        \/ ReadDatabaseCreds(c)
        \/ Connect(c)
        \/ Execute(c)
        \/ Close(c)
        \/ Reuse(c)
    \/ \E user \in DbUser : LeaseEnds(user)
    \/ ServerRestarts

Spec == Init /\ [][Next]_pgVars

-------------------------------------------------------------------------------
(* Correctness *)

\* A read-only OBO can never obtain write-capable credentials, and nothing is
\* shared across users (README of user-mcp): a connection is open as a user
\* leased to the call's own subject, with no more than its token's scope.
OwnCredentials ==
    \A c \in Calls : tool[c].conn # NoUser =>
        /\ tool[c].conn.subject = tool[c].obo.subject
        /\ tool[c].conn.role = "write" => "users.write" \in tool[c].obo.scope

\* What require_scopes admitted, the database user may do: scopes, Vault roles
\* and SQL privileges agree, also for tokens with both scopes.
PrivilegeSuffices ==
    \A c \in Calls :
        tool[c].phase = "execute" /\ Needs(tool[c].operation) = "users.write"
            => tool[c].conn.role = "write"

\* A connection lives no longer than its call, whichever step failed.
NoConnectionLeft ==
    \A c \in Calls : tool[c].conn # NoUser => tool[c].phase \in {"execute", "close"}

\* The abstract view of a call: of its record t.
RequestOf(t) ==
    [state     |-> CASE t.phase = "idle"  -> "idle"
                     [] t.phase = "close" -> "done"
                     [] t.phase = "done"  -> "told"
                     [] OTHER             -> "asked",
     operation |-> t.operation,
     answer    |-> t.answer]

requests == [c \in Calls |-> RequestOf(tool[c])]

\* The table is a directory: each statement takes effect at one moment of its
\* call, at most once, and its answer is true; a delete of an address that
\* several rows share removes them all, an update of it none.  Updates merge,
\* and no restart of user-mcp loses one.
Directory == INSTANCE UserDirectory WITH
    Clients   <- Calls,
    Asked     <- Operations,
    NoRequest <- NoOperation,
    Volatile  <- FALSE,
    Initial   <- {{}},
    Clash     <- LAMBDA a, b : a = b,
    Takes     <- LAMBDA user : user.first_name # Null,
    Updated   <- Merge,
    directory <- rows,
    request   <- requests

ImplementsDirectory == Directory!Spec

\* An update never runs into a column that takes no NULL, though LLM callers
\* leave fields out (the comment in update_by_email).
UpdateNeverRejected ==
    \A c \in Calls :
        tool[c].operation # NoOperation /\ tool[c].answer = Rejected
            => tool[c].operation.kind # "update"

\* What the description of create_user says: email must be unique.
EmailsUnique == \A u, v \in rows : SameAddress(u.email, v.email) => u = v
===============================================================================
