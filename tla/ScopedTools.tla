------------------------------ MODULE ScopedTools ------------------------------
(***************************************************************************)
(* The agent's side of a tool call: the wrapper make_scoped_tool builds    *)
(* around each MCP tool, the OboTokenService it asks for a token of the    *)
(* tool's scopes, and invoke_mcp_tool.                                     *)
(*                                                                         *)
(* Calls of concurrent queries interleave on one event loop where they     *)
(* await user-mcp.  resolve_token awaits nothing: while its exchange is    *)
(* out the whole loop stands still, and `exchanging` names the call that   *)
(* holds it.                                                               *)
(***************************************************************************)
EXTENDS Identity

CONSTANTS
    Calls,      \* identifiers of tool calls
    NoCall,
    Tools,      \* MCP tools
    NoTool,
    NoSubject,
    NoActor     \* the actor token file is missing or blank

ASSUME ScopedToolsAssumption ==
    /\ NoCall \notin Calls
    /\ NoTool \notin Tools
    /\ Tools \subseteq DOMAIN TOOL_SCOPE_REQUIREMENTS
    /\ {"users.read", "users.write"} \subseteq Scopes
    /\ NoSubject \notin Subjects
    /\ NoActor \notin Actors

VARIABLES
    templates,  \* the tools discovered when the agent started
    actorFile,  \* what the Vault agent wrote to ACTOR_TOKEN_PATH
    agentCache, \* OboTokenService.cache
    exchanging, \* the call whose token exchange holds the event loop
    call        \* call[c] : the state of tool call c

agentVars == <<templates, actorFile, agentCache, exchanging, call>>

\* build_cache_key, less the role name, one value per deployment.  The actor
\* token is not part of it.
AgentKey == [subject : Subjects, scope : SUBSET Scopes]

RequiredScopes(t) == TOOL_SCOPE_REQUIREMENTS[t]

\* Mutants of KeyOf: the representative scope for every tool; one user's key.
KeyOfReadScope(s, t) == [subject |-> s, scope |-> {"users.read"}]
KeyOfOneUser(s, t) == [subject |-> CHOOSE u \in Subjects : TRUE, scope |-> RequiredScopes(t)]

KeyOf(s, t) == [subject |-> s, scope |-> RequiredScopes(t)]

\* How a call ends: with the tool's output, with a string for the LLM, or with
\* an exception that fails the whole query.
Raised == {"timeout", "expired", "error", "lost"}
Outcome == {"none", "output", "text"} \cup Raised

Call == [phase : {"idle", "exchange", "list", "invoke", "done"},
         subject : Subjects \cup {NoSubject}, tool : Tools \cup {NoTool},
         token : OboToken \cup {NoToken}, since : Nat, outcome : Outcome]

IdleCall == [phase |-> "idle", subject |-> NoSubject, tool |-> NoTool,
             token |-> NoToken, since |-> 0, outcome |-> "none"]

AgentInit ==
    /\ templates \in {Tools, {}}
    /\ actorFile \in Actors \cup {NoActor}
    /\ agentCache = [k \in AgentKey |-> NoToken]
    /\ exchanging = NoCall
    /\ call = [c \in Calls |-> IdleCall]

-------------------------------------------------------------------------------
(* OboTokenService *)

\* Mutant of Alive: an entry is used whatever its expiry.
AliveForEver(k) == agentCache[k] # NoToken

\* _get_cached_token finds an entry: no safety buffer here.
Alive(k) == agentCache[k] # NoToken /\ agentCache[k].exp > now

\* ... and deletes one it finds expired.
Swept(k) == [agentCache EXCEPT ![k] = IF Alive(k) THEN @ ELSE NoToken]

LoopIsFree == exchanging = NoCall

Opened(s, t) == [IdleCall EXCEPT !.subject = s, !.tool = t]
Ended(c, outcome) == [call[c] EXCEPT !.phase = "done", !.outcome = outcome]
End(c, outcome) == call' = [call EXCEPT ![c] = Ended(c, outcome)]

\* The LLM picked tool t in a query of subject s: the wrapper starts.
CanStart(c, s, t) ==
    /\ call[c].phase = "idle"
    /\ LoopIsFree
    /\ t \in templates

\* resolve_token answers from the cache.
ResolveCached(c, s, t) ==
    /\ CanStart(c, s, t)
    /\ Alive(KeyOf(s, t))
    /\ call' = [call EXCEPT ![c] = [Opened(s, t) EXCEPT
                    !.phase = "list", !.token = agentCache[KeyOf(s, t)], !.since = now]]
    /\ UNCHANGED <<templates, actorFile, agentCache, exchanging>>

\* Nothing cached, and the actor token cannot be read or the service cannot be
\* connected to: an AppError, which the wrapper turns into a string.
ResolveFails(c, s, t) ==
    /\ CanStart(c, s, t)
    /\ ~ Alive(KeyOf(s, t))
    /\ agentCache' = Swept(KeyOf(s, t))
    /\ call' = [call EXCEPT ![c] = [Opened(s, t) EXCEPT
                    !.phase = "done", !.outcome = "text"]]
    /\ UNCHANGED <<templates, actorFile, exchanging>>

\* Nothing cached: the exchange request goes out, with the actor token on file.
ResolveMissing(c, s, t) ==
    /\ CanStart(c, s, t)
    /\ ~ Alive(KeyOf(s, t))
    /\ actorFile # NoActor
    /\ agentCache' = Swept(KeyOf(s, t))
    /\ exchanging' = c
    /\ call' = [call EXCEPT ![c] = [Opened(s, t) EXCEPT !.phase = "exchange"]]
    /\ UNCHANGED <<templates, actorFile>>

\* A 200 whose token's exp is ahead is cached and used.
ExchangeSucceeds(c, token) ==
    /\ call[c].phase = "exchange"
    /\ token.exp > now
    /\ agentCache' = [agentCache EXCEPT ![KeyOf(call[c].subject, call[c].tool)] = token]
    /\ exchanging' = NoCall
    /\ call' = [call EXCEPT ![c].phase = "list", ![c].token = token, ![c].since = now]
    /\ UNCHANGED <<templates, actorFile>>

\* An HTTP error (HTTPError), or a 200 with an expired or undecodable token:
\* an AppError, hence a string.
ExchangeRefused(c) ==
    /\ call[c].phase = "exchange"
    /\ exchanging' = NoCall
    /\ End(c, "text")
    /\ UNCHANGED <<templates, actorFile, agentCache>>

\* Mutant of ExchangeBreaks: the lock and the loop stay held.
ExchangeBreaksHolding(c) ==
    /\ call[c].phase = "exchange"
    /\ End(c, "timeout")
    /\ UNCHANGED <<templates, actorFile, agentCache, exchanging>>

\* The connection breaks, or TOKEN_EXCHANGE_TIMEOUT_SECONDS pass, while the
\* answer is awaited: urlopen lets TimeoutError and ConnectionError through
\* unwrapped, so neither becomes an AppError and the wrapper raises.
ExchangeBreaks(c) ==
    /\ call[c].phase = "exchange"
    /\ exchanging' = NoCall
    /\ End(c, "timeout")
    /\ UNCHANGED <<templates, actorFile, agentCache>>

\* GET /v1/agent/tokens: read_actor_token, then get_cached_token for the
\* representative scope, which deletes an expired entry and exchanges nothing.
GetCachedTokens(s) ==
    /\ LoopIsFree
    /\ actorFile # NoActor
    /\ agentCache' = Swept([subject |-> s, scope |-> {"users.read"}])
    /\ UNCHANGED <<templates, actorFile, exchanging, call>>

-------------------------------------------------------------------------------
(* invoke_mcp_tool, with the token the call holds *)

\* client.get_tools() succeeds: tools/call goes out next.
ListTools(c) ==
    /\ call[c].phase = "list"
    /\ LoopIsFree
    /\ call' = [call EXCEPT ![c].phase = "invoke"]
    /\ UNCHANGED <<templates, actorFile, agentCache, exchanging>>

\* The call is over with an exception or the tool's result.
Return(c, outcome) ==
    /\ call[c].phase \in {"list", "invoke"}
    /\ LoopIsFree
    /\ End(c, outcome)
    /\ UNCHANGED <<templates, actorFile, agentCache, exchanging>>

-------------------------------------------------------------------------------
(* The agent's surroundings *)

\* The Vault agent replaces the actor token file, or has not written it yet.
RotateActor(a) ==
    /\ actorFile' = a
    /\ UNCHANGED <<templates, agentCache, exchanging, call>>

\* The process restarts: the cache and every call are gone, and discovery runs
\* once more; when it fails the agent serves without MCP tools.
AgentRestarts ==
    /\ templates' \in {Tools, {}}
    /\ agentCache' = [k \in AgentKey |-> NoToken]
    /\ exchanging' = NoCall
    /\ call' = [c \in Calls |->
                    IF call[c].phase \in {"idle", "done"} THEN call[c] ELSE Ended(c, "lost")]
    /\ UNCHANGED actorFile

AgentTypeOK ==
    /\ templates \in SUBSET Tools
    /\ actorFile \in Actors \cup {NoActor}
    /\ agentCache \in [AgentKey -> OboToken \cup {NoToken}]
    /\ exchanging \in Calls \cup {NoCall}
    /\ call \in [Calls -> Call]
===============================================================================
