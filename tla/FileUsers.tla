------------------------------- MODULE FileUsers -------------------------------
(***************************************************************************)
(* FileUserRepository: a list in memory, read from a file when the server  *)
(* starts, behind one asyncio.Lock.  Once the list is loaded an operation  *)
(* awaits nothing while it holds the lock, so it is one step.  Nothing is  *)
(* written back: after a restart the list is the file's again.             *)
(***************************************************************************)
EXTENDS UserRecords, SequencesExt

CONSTANTS
    Calls,          \* identifiers of operations
    Operations,     \* the operations clients ask for
    NoOperation,
    Seed            \* the list in the file

ASSUME FileUsersAssumption ==
    /\ Operations \subseteq Operation
    /\ NoOperation \notin Operation
    /\ Seed \in Seq(UserRecord)
    /\ \A i, j \in DOMAIN Seed : SameAddress(Seed[i].email, Seed[j].email) => i = j

VARIABLES
    serving,    \* the lifespan has run startup
    loaded,     \* _users is not None
    users,      \* _users
    task        \* task[c] : an operation

fileVars == <<serving, loaded, users, task>>

\* A task goes idle, waiting, done, answered.
IdleTask == [phase |-> "idle", operation |-> NoOperation, answer |-> Unanswered]

Init ==
    /\ serving = FALSE
    /\ loaded = FALSE
    /\ users = <<>>
    /\ task = [c \in Calls |-> IdleTask]

\* An operation that finds nothing loaded has taken the lock already, and
\* _ensure_loaded then calls startup, which waits for that lock: it holds the
\* lock for ever.
LockFree == loaded \/ \A c \in Calls : task[c].phase # "waiting"

\* The lifespan of the server: startup reads the file.
Startup ==
    /\ ~ serving
    /\ LockFree
    /\ serving' = TRUE
    /\ loaded' = TRUE
    /\ users' = Seed
    /\ UNCHANGED task

\* A tool calls the repository.
Invoke(c, o) ==
    /\ task[c].phase = "idle"
    /\ task' = [task EXCEPT ![c] = [IdleTask EXCEPT !.phase = "waiting", !.operation = o]]
    /\ UNCHANGED <<serving, loaded, users>>

\* c has the lock and asks for an operation of this kind.
Holds(c, kind) == task[c].phase = "waiting" /\ loaded /\ task[c].operation.kind = kind

Finish(c, list, answer) ==
    /\ users' = list
    /\ task' = [task EXCEPT ![c].phase = "done", ![c].answer = answer]
    /\ UNCHANGED <<serving, loaded>>

\* The places of the list an address names, and the first of them.
Indices(a) == {i \in DOMAIN users : SameAddress(users[i].email, a)}
FindIndex(a) == CHOOSE i \in Indices(a) : \A j \in Indices(a) : i <= j

ListAll(c) ==
    /\ Holds(c, "list")
    /\ Finish(c, users, Returned(ToSet(users)))

SearchByFirstName(c) ==
    /\ Holds(c, "search")
    /\ Finish(c, users,
              Returned({u \in ToSet(users) : u.first_name = task[c].operation.first_name}))

\* Mutant of Create: addresses are compared as they are written.
CreateVerbatim(c) ==
    /\ Holds(c, "create")
    /\ LET user == task[c].operation.user
       IN  IF \E i \in DOMAIN users : users[i].email = user.email
           THEN Finish(c, users, Exists)
           ELSE Finish(c, Append(users, user), Returned({user}))

Create(c) ==
    /\ Holds(c, "create")
    /\ LET user == task[c].operation.user
       IN  IF Indices(user.email) # {}
           THEN Finish(c, users, Exists)
           ELSE Finish(c, Append(users, user), Returned({user}))

DeleteByEmail(c) ==
    /\ Holds(c, "delete")
    /\ LET email == task[c].operation.email
       IN  IF Indices(email) = {}
           THEN Finish(c, users, Missing)
           ELSE Finish(c, RemoveAt(users, FindIndex(email)), Returned({users[FindIndex(email)]}))

\* Mutant of UpdateByEmail: the new address is not compared with the others.
UpdateUnchecked(c) ==
    /\ Holds(c, "update")
    /\ LET o == task[c].operation
       IN  IF Indices(o.email) = {}
           THEN Finish(c, users, Missing)
           ELSE Finish(c, [users EXCEPT ![FindIndex(o.email)] = o.user], Returned({o.user}))

UpdateByEmail(c) ==
    /\ Holds(c, "update")
    /\ LET o == task[c].operation
       IN  IF Indices(o.email) = {}
           THEN Finish(c, users, Missing)
           ELSE IF Indices(o.user.email) \ {FindIndex(o.email)} # {}
           THEN Finish(c, users, Exists)
           ELSE Finish(c, [users EXCEPT ![FindIndex(o.email)] = o.user], Returned({o.user}))

Operate(c) ==
    ListAll(c) \/ SearchByFirstName(c) \/ Create(c) \/ DeleteByEmail(c) \/ UpdateByEmail(c)

\* The tool's result goes out.
Respond(c) ==
    /\ task[c].phase = "done"
    /\ task' = [task EXCEPT ![c].phase = "answered"]
    /\ UNCHANGED <<serving, loaded, users>>

\* The process restarts: what was added, changed or deleted is lost.
ServerRestarts ==
    /\ serving' = FALSE
    /\ loaded' = FALSE
    /\ users' = <<>>
    /\ task' = [c \in Calls |->
                    IF task[c].phase \in {"waiting", "done"}
                    THEN [task[c] EXCEPT !.phase = "answered", !.answer = Failed]
                    ELSE task[c]]

\* Bookkeeping of the model: the identifier can be used again.
Reuse(c) ==
    /\ task[c].phase = "answered"
    /\ task' = [task EXCEPT ![c] = IdleTask]
    /\ UNCHANGED <<serving, loaded, users>>

-------------------------------------------------------------------------------
\* The abstract view of the list, before the file is read too, and of an
\* operation: of its record t.
listed == IF loaded THEN ToSet(users) ELSE ToSet(Seed)

RequestOf(t) ==
    [state     |-> CASE t.phase = "idle"    -> "idle"
                     [] t.phase = "waiting" -> "asked"
                     [] t.phase = "done"    -> "done"
                     [] OTHER               -> "told",
     operation |-> t.operation,
     answer    |-> t.answer]

requests == [c \in Calls |-> RequestOf(task[c])]

\* The list is a directory, if a volatile one: one record per address, whatever
\* creates and updates met; an update replaces the record (README of user-mcp, Available
\* tools).
Directory == INSTANCE UserDirectory WITH
    Clients   <- Calls,
    Asked     <- Operations,
    NoRequest <- NoOperation,
    Volatile  <- TRUE,
    Initial   <- {ToSet(Seed)},
    Clash     <- SameAddress,
    Takes     <- LAMBDA user : TRUE,
    Updated   <- LAMBDA old, new : new,
    directory <- listed,
    request   <- requests

ImplementsDirectory == Directory!Spec

\* Deletes and updates always hit the one record they mean: no two records of
\* the list share an address.
AddressesDistinct ==
    \A i, j \in DOMAIN users : SameAddress(users[i].email, users[j].email) => i = j
===============================================================================
