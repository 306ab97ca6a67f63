------------------------------- MODULE Delegation -------------------------------
(***************************************************************************)
(* A tool call from the LLM's choice to the user repository: the agent     *)
(* (ScopedTools), the token-exchange service with IBM Verify behind it     *)
(* (OboBroker) and user-mcp (UserMcp), on one clock.  Call c's exchange is *)
(* request c of the broker and its tools/call is rpc c of user-mcp; each   *)
(* of the three goes on when another gave up or restarted.                 *)
(***************************************************************************)
EXTENDS OboBroker, ScopedTools, UserMcp

ASSUME DelegationAssumption ==
    /\ Requests = Calls
    /\ Rpcs = Calls
    /\ ToolNames = Tools
    /\ CacheKey = [subject : Subjects, actor : Actors,
                   scope : {RequiredScopes(t) : t \in Tools}]

vars == <<brokerVars, agentVars, rpc, now>>

BrokerKey(s, t) == [subject |-> s, actor |-> actorFile, scope |-> RequiredScopes(t)]

Init ==
    /\ BrokerInit
    /\ AgentInit
    /\ McpInit

-------------------------------------------------------------------------------
(* Agent and broker *)

\* A call starts when the traces of the identifier's last use are gone.
Start(c, s, t) ==
    /\ req[c].phase = "idle"
    /\ rpc[c].phase = "none"
    /\ \/ (ResolveCached(c, s, t) \/ ResolveFails(c, s, t)) /\ UNCHANGED brokerVars
       \/ ResolveMissing(c, s, t) /\ Submit(c, BrokerKey(s, t))
    /\ UNCHANGED rpc

\* The broker's answer reaches the agent, which still waits for it.
\* extract_obo_token_details: a 200 carries access_token and cached only, so
\* the expiry is the token's own exp claim.
ReceiveAnswer(c) ==
    /\ Deliver(c)
    /\ LET answer == req[c].answer
       IN  IF answer.status = 200 /\ answer.token.exp > now
           THEN ExchangeSucceeds(c, answer.token)
           ELSE ExchangeRefused(c)
    /\ UNCHANGED rpc

\* The agent gave up or restarted: the answer goes nowhere.
DropAnswer(c) ==
    /\ call[c].phase # "exchange"
    /\ Deliver(c)
    /\ UNCHANGED <<agentVars, rpc>>

\* The wait ends with an exception; the broker goes on with the request.
GiveUpExchange(c) ==
    /\ ExchangeBreaks(c)
    /\ UNCHANGED <<brokerVars, rpc>>

ServeExchange(c) ==
    /\ Serve(c) \/ VerifyAnswers(c)
    /\ UNCHANGED <<agentVars, rpc>>

-------------------------------------------------------------------------------
(* Agent and user-mcp *)

\* The MCP session opens and lists the tools under the call's token; then
\* tools/call goes out.
CallTool(c) ==
    /\ ListTools(c)
    /\ Accepts(call[c].token)
    /\ Post(c, call[c].tool, call[c].token)
    /\ UNCHANGED brokerVars

\* Opening the session is answered 401, or fails on the way.
SessionFails(c) ==
    /\ call[c].phase = "list"
    /\ \/ ~ Accepts(call[c].token) /\ Return(c, "expired")
       \/ Return(c, "error")
    /\ UNCHANGED <<brokerVars, rpc>>

\* The exception's text decides: a string for the LLM if it names
\* insufficient_scope, else the exception goes up.
OutcomeOf(answer) ==
    CASE answer = "output"             -> "output"
      [] answer = "insufficient_scope" -> "text"
      [] answer = "unauthorized"       -> "expired"
      [] OTHER                         -> "error"

ReceiveResult(c) ==
    /\ call[c].phase = "invoke"
    /\ rpc[c].phase = "answered"
    /\ Return(c, OutcomeOf(rpc[c].answer))
    /\ UNCHANGED <<brokerVars, rpc>>

\* Mutant of GiveUpResult: the lost call is made again.
GiveUpResultAndRetry(c) ==
    /\ call[c].phase = "invoke"
    /\ LoopIsFree
    /\ call' = [call EXCEPT ![c].phase = "list"]
    /\ rpc' = [rpc EXCEPT ![c] = NoRpc]
    /\ UNCHANGED <<brokerVars, templates, actorFile, agentCache, exchanging>>

\* The client's read timeout, or a broken connection; user-mcp goes on.
GiveUpResult(c) ==
    /\ call[c].phase = "invoke"
    /\ Return(c, "lost")
    /\ UNCHANGED <<brokerVars, rpc>>

ServeTool(c) ==
    /\ ServeRpc(c) \/ LoseRequest(c)
    /\ UNCHANGED <<brokerVars, agentVars>>

\* Bookkeeping of the model: the identifier can be used again.
Reuse(c) ==
    /\ call[c].phase = "done"
    /\ req[c].phase = "idle"
    /\ Forget(c)
    /\ call' = [call EXCEPT ![c] = IdleCall]
    /\ UNCHANGED <<brokerVars, templates, actorFile, agentCache, exchanging>>

-------------------------------------------------------------------------------
Step(c) ==
    \/ \E s \in Subjects, t \in Tools : Start(c, s, t)
    \/ ReceiveAnswer(c)
    \/ DropAnswer(c)
    \/ GiveUpExchange(c)
    \/ ServeExchange(c)
    \/ CallTool(c)
    \/ SessionFails(c)
    \/ ReceiveResult(c)
    \/ GiveUpResult(c)
    \/ ServeTool(c)
    \/ Reuse(c)

Surroundings ==
    \/ BrokerRestarts /\ UNCHANGED <<agentVars, rpc>>
    \/ AgentRestarts /\ UNCHANGED <<brokerVars, rpc>>
    \/ \E s \in Subjects : GetCachedTokens(s) /\ UNCHANGED <<brokerVars, rpc>>
    \/ \E a \in Actors \cup {NoActor} : RotateActor(a) /\ UNCHANGED <<brokerVars, rpc>>

Next ==
    \/ (\E c \in Calls : Step(c)) /\ UNCHANGED now
    \/ Surroundings /\ UNCHANGED now
    \/ Tick /\ UNCHANGED <<brokerVars, agentVars, rpc>>

Safety == Init /\ [][Next]_vars

\* Every wait of the agent ends: urlopen and the MCP client have read timeouts
\* and the loop runs what is ready.
Fairness ==
    \A c \in Calls :
        /\ WF_vars((ReceiveAnswer(c) \/ GiveUpExchange(c)) /\ UNCHANGED now)
        /\ SF_vars((CallTool(c) \/ SessionFails(c)) /\ UNCHANGED now)
        /\ SF_vars((ReceiveResult(c) \/ GiveUpResult(c)) /\ UNCHANGED now)

Spec == Safety /\ Fairness

-------------------------------------------------------------------------------
(* Correctness *)

TypeOK ==
    /\ BrokerTypeOK
    /\ AgentTypeOK
    /\ McpTypeOK

\* resolve_token's promise: the token a call works with was issued for the
\* call's own subject and carries no scope the tool does not declare, whichever
\* cache it came from and however many exchanges were abandoned before.
LeastPrivilege ==
    \A c \in Calls : call[c].phase \in {"list", "invoke"} =>
        /\ call[c].token.subject = call[c].subject
        /\ call[c].token.scope \subseteq RequiredScopes(call[c].tool)

\* A tool takes effect only for a subject whose groups entitle every scope it
\* declares, though user-mcp never sees the groups: the caches in between
\* answer nobody the policy would refuse.
EntitledExecution ==
    \A c \in Calls : rpc[c].ran =>
        AuthorizeScope(rpc[c].bearer.subject, RequiredScopes(rpc[c].tool))

\* The agent's cache has no safety buffer, and needs none: a call is refused
\* for an expired token only when more than user-mcp's leeway has passed since
\* its token was resolved.
NoPrematureExpiry ==
    \A c \in Calls : call[c].outcome = "expired" => now > call[c].since + Leeway

\* What the agent caches is as sound as what the broker answered: an entry's
\* token was issued for the subject and the scopes of its key, and the
\* policy entitles the subject to those scopes, also when the call that fetched
\* it was abandoned or is long over.
AgentCacheSound ==
    \A k \in AgentKey : agentCache[k] # NoToken =>
        /\ agentCache[k].subject = k.subject
        /\ agentCache[k].scope \subseteq k.scope
        /\ AuthorizeScope(k.subject, k.scope)

\* Every call that starts ends, whoever stops answering: no call leaves the
\* event loop held when its own wait is over.
EveryCallEnds ==
    \A c \in Calls :
        call[c].phase \in {"exchange", "list", "invoke"} ~> call[c].phase = "done"

\* The abstract view of a call: of its record q and its tools/call p.
TicketOf(q, p) ==
    IF q.phase = "idle"
    THEN [state |-> "free", user |-> NoSubject, tool |-> NoSubject, ran |-> FALSE]
    ELSE [state |-> IF q.phase # "done" THEN "open"
                    ELSE IF q.outcome = "output" THEN "succeeded" ELSE "failed",
          user  |-> q.subject,
          tool  |-> q.tool,
          ran   |-> p.ran]

tickets == [c \in Calls |-> TicketOf(call[c], rpc[c])]

\* The detailed path implements the promise.
Authority == INSTANCE ToolAuthority WITH
    Tickets  <- Calls,
    Users    <- Subjects,
    Nobody   <- NoSubject,
    Entitled <- LAMBDA u, t : AuthorizeScope(u, RequiredScopes(t)),
    ticket   <- tickets

ImplementsAuthority == Authority!Spec

\* What the docstring of make_scoped_tool says: on token-exchange failure, or
\* on insufficient_scope from the MCP server, the LLM gets a string.
ToolFailureIsText ==
    \A c \in Calls :
        /\ call[c].outcome # "timeout"
        /\ call[c].phase = "done" /\ rpc[c].answer = InsufficientScopeError.message
            => call[c].outcome \in {"text", "lost"}
===============================================================================
