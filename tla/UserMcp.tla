-------------------------------- MODULE UserMcp --------------------------------
(***************************************************************************)
(* user-mcp: the JwtAuthMiddleware every HTTP request passes, the identity *)
(* it binds for the request, and the scope check and dispatch of           *)
(* tools/call (_run_tool).  The user repository behind the tools is        *)
(* abstracted to whether the tool's effect happened.                       *)
(***************************************************************************)
EXTENDS Identity

CONSTANTS
    Rpcs,                   \* identifiers of tools/call requests
    ToolNames,              \* tool names a client can send
    NoName,
    AllowUnauthDiscovery,   \* USER_MCP_ALLOW_UNAUTH_DISCOVERY
    Leeway                  \* JwtValidator leeway_seconds

ASSUME UserMcpAssumption ==
    /\ NoName \notin ToolNames
    /\ AllowUnauthDiscovery \in BOOLEAN
    /\ Leeway \in Nat

VARIABLE rpc    \* rpc[c] : a tools/call in the server

\* The text of an error result, which is all of it the client sees:
\* InsufficientScopeError's error code stays behind, its message is sent.
InsufficientScopeError == [error |-> "insufficient_scope", message |-> "requires scope(s)"]

ErrorText == {"unauthorized", "unreachable", InsufficientScopeError.message, "tool failed"}

Rpc == [phase : {"none", "sent", "admitted", "answered"}, tool : ToolNames \cup {NoName},
        bearer : OboToken \cup {NoToken}, granted : SUBSET Scopes,
        answer : ErrorText \cup {"none", "output"}, ran : BOOLEAN]

NoRpc == [phase |-> "none", tool |-> NoName, bearer |-> NoToken, granted |-> {},
          answer |-> "none", ran |-> FALSE]

RpcAnswer(c, answer, ran) ==
    rpc' = [rpc EXCEPT ![c].phase = "answered", ![c].answer = answer, ![c].ran = ran]

McpInit ==
    /\ rpc = [c \in Rpcs |-> NoRpc]
    /\ now = 1

\* JwtValidator.validate: PyJWT's exp check with leeway; exp is required.
Accepts(bearer) ==
    /\ bearer # NoToken
    /\ bearer.exp # 0
    /\ now < bearer.exp + Leeway

\* The middleware lets a request without Authorization through, anonymous.
AcceptsAnonymous(bearer) == bearer = NoToken /\ AllowUnauthDiscovery

\* A client sends tools/call.
Post(c, tool, bearer) ==
    /\ rpc[c].phase = "none"
    /\ rpc' = [rpc EXCEPT ![c] = [NoRpc EXCEPT
                    !.phase = "sent", !.tool = tool, !.bearer = bearer]]

\* Mutant of Admit: the identity is kept for the process, and not for the request.
AdmitGlobally(c) ==
    /\ rpc[c].phase = "sent"
    /\ \/ /\ Accepts(rpc[c].bearer)
          /\ rpc' = [d \in Rpcs |-> [rpc[d] EXCEPT
                        !.phase = IF d = c THEN "admitted" ELSE @,
                        !.granted = rpc[c].bearer.scope]]
       \/ /\ AcceptsAnonymous(rpc[c].bearer)
          /\ rpc' = [rpc EXCEPT ![c].phase = "admitted", ![c].granted = {}]

\* JwtAuthMiddleware.__call__ accepts the request and binds its identity.
Admit(c) ==
    /\ rpc[c].phase = "sent"
    /\ \/ /\ Accepts(rpc[c].bearer)
          /\ rpc' = [rpc EXCEPT ![c].phase = "admitted", ![c].granted = rpc[c].bearer.scope]
       \/ /\ AcceptsAnonymous(rpc[c].bearer)
          /\ rpc' = [rpc EXCEPT ![c].phase = "admitted", ![c].granted = {}]

\* ... or answers 401.
Reject(c) ==
    /\ rpc[c].phase = "sent"
    /\ ~ Accepts(rpc[c].bearer)
    /\ ~ AcceptsAnonymous(rpc[c].bearer)
    /\ RpcAnswer(c, "unauthorized", FALSE)

\* The request never reaches the server, or the key that signed its token cannot
\* be fetched: nothing runs, and the error says nothing of the token.
LoseRequest(c) ==
    /\ rpc[c].phase = "sent"
    /\ RpcAnswer(c, "unreachable", FALSE)

\* require_scopes: an undeclared tool is refused, whatever was granted.
ScopesSuffice(c) ==
    /\ rpc[c].tool \in DOMAIN TOOL_SCOPE_REQUIREMENTS
    /\ TOOL_SCOPE_REQUIREMENTS[rpc[c].tool] \subseteq rpc[c].granted

\* _run_tool refuses: ToolError(exc.message).
RefuseTool(c) ==
    /\ rpc[c].phase = "admitted"
    /\ ~ ScopesSuffice(c)
    /\ RpcAnswer(c, InsufficientScopeError.message, FALSE)

\* _run_tool runs the action, which succeeds; or fails, and then its effect may
\* have happened (a connection lost after the statement) or not.
RunTool(c) ==
    /\ rpc[c].phase = "admitted"
    /\ ScopesSuffice(c)
    /\ \/ RpcAnswer(c, "output", TRUE)
       \/ \E ran \in BOOLEAN : RpcAnswer(c, "tool failed", ran)

\* The answer has been read or its connection closed.
Forget(c) ==
    /\ rpc[c].phase \in {"none", "answered"}
    /\ rpc' = [rpc EXCEPT ![c] = NoRpc]

ServeRpc(c) == Admit(c) \/ Reject(c) \/ RefuseTool(c) \/ RunTool(c)

-------------------------------------------------------------------------------
McpTypeOK == rpc \in [Rpcs -> Rpc]
===============================================================================
