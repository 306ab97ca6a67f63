----------------------------- MODULE UserDirectory -----------------------------
(***************************************************************************)
(* What a user repository promises (storage/base.py, README of user-mcp):  *)
(* a directory of users no two of which clash, on which every operation    *)
(* takes effect at one moment between its call and its answer, at most     *)
(* once, and is answered by what it found at that moment.  An operation    *)
(* may fail, before its effect or after it; an answer of success, of a     *)
(* duplicate or of a missing user is never wrong.                          *)
(*                                                                         *)
(* The repositories differ in what clashes, which records they take and    *)
(* what an update makes of a record.                                       *)
(***************************************************************************)
EXTENDS UserRecords

CONSTANTS
    Clients,
    Asked,              \* the operations clients may ask for
    Initial,            \* the directories to begin with
    NoRequest,
    Volatile,           \* a restart loses the updates
    Clash(_, _),        \* two addresses that no two users may have
    Takes(_),           \* the records it takes
    Updated(_, _)       \* Updated(old, new): what an update makes of old

VARIABLES directory, request

Request(state, operation, answer) ==
    [state |-> state, operation |-> operation, answer |-> answer]

Idle == Request("idle", NoRequest, Unanswered)

Init ==
    /\ directory \in Initial
    /\ request = [c \in Clients |-> Idle]

Ask(c, o) ==
    /\ request[c] = Idle
    /\ request' = [request EXCEPT ![c] = Request("asked", o, Unanswered)]
    /\ UNCHANGED directory

Asks(c, kind) == request[c].state = "asked" /\ request[c].operation.kind = kind

\* The operation takes effect; that its answer is lost may be known at once.
Effect(c, users, answer) ==
    /\ directory' = users
    /\ \E a \in {answer, Failed} :
        request' = [request EXCEPT ![c] = Request("done", @.operation, a)]

List(c) ==
    /\ Asks(c, "list")
    /\ Effect(c, directory, Returned(directory))

Search(c) ==
    /\ Asks(c, "search")
    /\ Effect(c, directory,
              Returned({u \in directory : u.first_name = request[c].operation.first_name}))

Clashes(users, email) == \E u \in users : Clash(u.email, email)

Create(c) ==
    /\ Asks(c, "create")
    /\ LET user == request[c].operation.user
       IN  IF ~ Takes(user) THEN Effect(c, directory, Rejected)
           ELSE IF Clashes(directory, user.email) THEN Effect(c, directory, Exists)
           ELSE Effect(c, directory \cup {user}, Returned({user}))

Delete(c) ==
    /\ Asks(c, "delete")
    /\ LET found == At(directory, request[c].operation.email)
       IN  \/ found = {} /\ Effect(c, directory, Missing)
           \/ \E u \in found : Effect(c, directory \ found, Returned({u}))

\* An update is never rejected, and never makes two users one.
Update(c) ==
    /\ Asks(c, "update")
    /\ LET found == At(directory, request[c].operation.email)
       IN  \/ found = {} /\ Effect(c, directory, Missing)
           \/ \E old \in found :
                LET new == Updated(old, request[c].operation.user)
                IN  IF found # {old} \/ Clashes(directory \ {old}, new.email)
                    THEN Effect(c, directory, Exists)
                    ELSE Effect(c, (directory \ {old}) \cup {new}, Returned({new}))

\* Failures without an effect, or after it: of one client or of all at once.
Fail(S) ==
    /\ \A c \in S : request[c].state \in {"asked", "done"}
    /\ \E state \in {"done", "told"} :
        request' = [c \in Clients |->
                        IF c \in S
                        THEN Request(state, request[c].operation, Failed)
                        ELSE request[c]]
    /\ UNCHANGED directory

\* The process that keeps a volatile directory restarts.
Lose ==
    /\ Volatile
    /\ directory' \in Initial
    /\ request' = [c \in Clients |->
                    IF request[c].state \in {"asked", "done"}
                    THEN Request("told", request[c].operation, Failed)
                    ELSE request[c]]

Tell(c) ==
    /\ request[c].state = "done"
    /\ request' = [request EXCEPT ![c].state = "told"]
    /\ UNCHANGED directory

Leave(c) ==
    /\ request[c].state = "told"
    /\ request' = [request EXCEPT ![c] = Idle]
    /\ UNCHANGED directory

Next ==
    \/ \E c \in Clients :
        \/ \E o \in Asked : Ask(c, o)
        \/ List(c) \/ Search(c) \/ Create(c) \/ Delete(c) \/ Update(c)
        \/ Tell(c)
        \/ Leave(c)
    \/ \E S \in SUBSET Clients : Fail(S)
    \/ Lose

Spec == Init /\ [][Next]_<<directory, request>>
===============================================================================
