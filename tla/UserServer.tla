------------------------------ MODULE UserServer ------------------------------
(***************************************************************************)
(* user-mcp with the file repository behind its tools: requests pass the   *)
(* middleware (UserMcp), the tool checks its scopes and calls the          *)
(* repository (FileUsers), whose answer becomes the tool's.  The lifespan  *)
(* loads the list before the server takes requests.                        *)
(***************************************************************************)
EXTENDS UserMcp, FileUsers

CONSTANT Bearers        \* the tokens clients send, or none

ASSUME UserServerAssumption ==
    /\ Rpcs = Calls
    /\ Bearers \subseteq OboToken \cup {NoToken}

serverVars == <<rpc, now, fileVars>>

ServerInit == McpInit /\ Init

\* Mutant of TakesRequests: requests are served before the lifespan has run.
TakesRequestsEarly == TRUE

\* The ASGI server takes requests when the lifespan has started up.
TakesRequests == serving

\* The operation a tool asks the repository for; the arguments are the client's.
ToolOf(o) ==
    CASE o.kind = "list"   -> "list_all_users"
      [] o.kind = "search" -> "search_users_by_first_name"
      [] o.kind = "create" -> "create_user"
      [] o.kind = "delete" -> "delete_user_by_email"
      [] o.kind = "update" -> "update_user_by_email"

SendRequest(c) ==
    /\ \E tool \in ToolNames, bearer \in Bearers : Post(c, tool, bearer)
    /\ UNCHANGED fileVars

Authenticate(c) ==
    /\ TakesRequests
    /\ Admit(c) \/ Reject(c)
    /\ UNCHANGED fileVars

NotServed(c) == LoseRequest(c) /\ UNCHANGED fileVars

\* _run_tool: the scopes are checked, then the repository is called.
RefuseScopes(c) == RefuseTool(c) /\ UNCHANGED fileVars

Dispatch(c) ==
    /\ rpc[c].phase = "admitted"
    /\ ScopesSuffice(c)
    /\ \E o \in Operations : ToolOf(o) = rpc[c].tool /\ Invoke(c, o)
    /\ UNCHANGED rpc

RunOperation(c) == Operate(c) /\ UNCHANGED rpc

\* An AppError of the repository becomes a ToolError.
AnswerTool(c) ==
    /\ Respond(c)
    /\ IF task[c].answer.status = "ok" THEN RpcAnswer(c, "output", TRUE)
       ELSE RpcAnswer(c, "tool failed", FALSE)

\* The process restarts: the requests it has taken are lost.
RestartServer ==
    /\ ServerRestarts
    /\ rpc' = [c \in Rpcs |-> IF rpc[c].phase = "admitted"
                              THEN [rpc[c] EXCEPT !.phase = "answered", !.answer = "unreachable"]
                              ELSE rpc[c]]

\* Bookkeeping of the model: the identifier can be used again.
ForgetRequest(c) ==
    /\ rpc[c].phase = "answered"
    /\ Forget(c)
    /\ \/ Reuse(c)
       \/ task[c].phase = "idle" /\ UNCHANGED fileVars

ServerNext ==
    \/ /\ \/ Startup /\ UNCHANGED rpc
          \/ RestartServer
          \/ \E c \in Calls :
                \/ SendRequest(c) \/ Authenticate(c) \/ NotServed(c)
                \/ RefuseScopes(c) \/ Dispatch(c) \/ RunOperation(c) \/ AnswerTool(c)
                \/ ForgetRequest(c)
       /\ UNCHANGED now
    \/ Tick /\ UNCHANGED <<rpc, fileVars>>

\* The lifespan runs to its end, clients give up waiting for a connection, and
\* asyncio runs what is ready and hands the lock to who waits.
ServerFairness ==
    /\ WF_serverVars(Startup /\ UNCHANGED <<rpc, now>>)
    /\ \A c \in Calls :
        /\ WF_serverVars((Authenticate(c) \/ NotServed(c)) /\ UNCHANGED now)
        /\ WF_serverVars((RefuseScopes(c) \/ Dispatch(c)) /\ UNCHANGED now)
        /\ WF_serverVars((RunOperation(c) \/ AnswerTool(c)) /\ UNCHANGED now)

ServerSpec == ServerInit /\ [][ServerNext]_serverVars /\ ServerFairness

-------------------------------------------------------------------------------
(* Properties *)

\* The repository works only for a request whose own bearer token grants every
\* scope the tool declares, whatever other requests were bound in between:
\* requests let through anonymously, for discovery, run nothing (the comment in
\* JwtAuthMiddleware.__call__).
RanWithinGrant ==
    \A c \in Calls : task[c].phase \in {"waiting", "done"} =>
        /\ rpc[c].bearer # NoToken
        /\ TOOL_SCOPE_REQUIREMENTS[ToolOf(task[c].operation)] \subseteq rpc[c].bearer.scope

\* Every request is answered: none waits for the repository's lock for ever, as
\* it would if it came before the lifespan has loaded the list.
EveryRequestAnswered ==
    \A c \in Calls : rpc[c].phase = "sent" ~> rpc[c].phase = "answered"
===============================================================================
