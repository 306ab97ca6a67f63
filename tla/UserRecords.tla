------------------------------ MODULE UserRecords ------------------------------
(***************************************************************************)
(* What user-mcp's two user repositories have in common: records, tools'   *)
(* operations on them, and answers.                                        *)
(*                                                                         *)
(* Addresses are names; Fold gives the one an address is compared by,      *)
(* without surrounding blanks and in lower case.  Of the optional fields   *)
(* of a record first_name stands for all: they are treated alike.          *)
(***************************************************************************)
EXTENDS FiniteSets

CONSTANTS
    Address,
    Fold,           \* normalize_email, lower(email) in SQL
    FirstNames,     \* lower-case first names
    Null            \* a field without a value

ASSUME UserRecordsAssumption ==
    /\ Fold \in [Address -> Address]
    /\ \A a \in Address : Fold[Fold[a]] = Fold[a]
    /\ Null \notin FirstNames

UserRecord == [email : Address, first_name : FirstNames \cup {Null}]

SameAddress(a, b) == Fold[a] = Fold[b]

\* The users of a set an address names: at most one, one hopes.
At(users, a) == {u \in users : SameAddress(u.email, a)}

\* What the five tools ask of a repository.
Operation ==
    [kind : {"list"}]
        \cup [kind : {"search"}, first_name : FirstNames]
        \cup [kind : {"create"}, user : UserRecord]
        \cup [kind : {"delete"}, email : Address]
        \cup [kind : {"update"}, email : Address, user : UserRecord]

\* ... and what they tell: the users returned, or an AppError 400 (exists) or
\* 404 (missing), or another error.  "rejected" is the error of a table that
\* does not take a record without a value.
Answer == [status : {"none", "ok", "exists", "missing", "rejected", "failed"},
           users : SUBSET UserRecord]

NoUsers(status) == [status |-> status, users |-> {}]
Unanswered == NoUsers("none")
Exists == NoUsers("exists")
Missing == NoUsers("missing")
Rejected == NoUsers("rejected")
Failed == NoUsers("failed")
Returned(users) == [status |-> "ok", users |-> users]
===============================================================================
