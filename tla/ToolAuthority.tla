----------------------------- MODULE ToolAuthority -----------------------------
(***************************************************************************)
(* What the identity path promises about tool calls, whatever caches,      *)
(* exchanges, retries and restarts lie behind it: a tool takes effect at   *)
(* most once per call, for the user who asked, only if that user's groups  *)
(* entitle every scope the tool declares; and a call reported as done has  *)
(* taken effect.                                                           *)
(***************************************************************************)
CONSTANTS
    Tickets,            \* calls
    Users,
    Tools,
    Nobody,
    Entitled(_, _)      \* Entitled(u, t): u's groups entitle the scopes of t

VARIABLE ticket

NewTicket(state, u, t) == [state |-> state, user |-> u, tool |-> t, ran |-> FALSE]

Free == NewTicket("free", Nobody, Nobody)

Init == ticket = [c \in Tickets |-> Free]

\* A query of user u asks for tool t.
Open(c, u, t) ==
    /\ ticket[c] = Free
    /\ ticket' = [ticket EXCEPT ![c] = NewTicket("open", u, t)]

\* Opened and refused in one step: the answer was known at once.
OpenRefused(c, u, t) ==
    /\ ticket[c] = Free
    /\ ticket' = [ticket EXCEPT ![c] = NewTicket("failed", u, t)]

\* The tool takes effect, perhaps after the caller stopped waiting.
Run(c) ==
    /\ ticket[c].state \in {"open", "failed"}
    /\ ~ ticket[c].ran
    /\ Entitled(ticket[c].user, ticket[c].tool)
    /\ ticket' = [ticket EXCEPT ![c].ran = TRUE]

Succeed(c) ==
    /\ ticket[c].state = "open"
    /\ ticket[c].ran
    /\ ticket' = [ticket EXCEPT ![c].state = "succeeded"]

\* Failed calls, some or all at once: the process holding them may restart.
Fail(S) ==
    /\ \A c \in S : ticket[c].state = "open"
    /\ ticket' = [c \in Tickets |->
                    IF c \in S THEN [ticket[c] EXCEPT !.state = "failed"] ELSE ticket[c]]

Retire(c) ==
    /\ ticket[c].state \in {"succeeded", "failed"}
    /\ ticket' = [ticket EXCEPT ![c] = Free]

Next ==
    \/ \E c \in Tickets :
        \/ \E u \in Users, t \in Tools : Open(c, u, t) \/ OpenRefused(c, u, t)
        \/ Run(c)
        \/ Succeed(c)
        \/ Retire(c)
    \/ \E S \in SUBSET Tickets : Fail(S)

Spec == Init /\ [][Next]_ticket
===============================================================================
