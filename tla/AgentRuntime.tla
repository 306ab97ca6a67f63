------------------------------ MODULE AgentRuntime ------------------------------
(***************************************************************************)
(* POST /v1/agent/query of ai-agent: rounds of LLM and tools, then a       *)
(* streamed answer.  The LLM is called with a blocking call in a           *)
(* coroutine, which holds the event loop; tools are awaited; the answer is *)
(* streamed from a thread that hands its chunks to the loop.  LLM and      *)
(* tools are external.                                                     *)
(***************************************************************************)
EXTENDS Naturals, Sequences

CONSTANTS
    Queries,            \* identifiers of requests
    MAX_TOOL_ROUNDS,
    Responses           \* what the LLM may ask for: sequences of tool calls

\* Calls of a tool of user-mcp, of the local shell, of no tool in the registry,
\* and with arguments that are no object.
ToolCall == {"tool", "shell", "unknown", "malformed"}

ASSUME AgentRuntimeAssumption ==
    /\ MAX_TOOL_ROUNDS \in Nat \ {0}
    /\ Responses \subseteq Seq(ToolCall) \ {<<>>}

VARIABLE run        \* run[q] : the request q

\* A request goes idle, received, (invoke, tools,)* stream, over, or failed for an
\* error status.  calls are left of the round, the first is awaited.
IdleRun == [phase |-> "idle", round |-> 0, calls |-> <<>>]

Init == run = [q \in Queries |-> IdleRun]

Running(q) == run[q].phase \in {"received", "invoke", "tools", "stream"}

\* Nobody is in llm_with_tools.invoke.
LoopIsFree == \A q \in Queries : run[q].phase # "invoke"

\* The request goes on with no round and no call to remember.
Goes(q, phase) == run' = [run EXCEPT ![q] = [IdleRun EXCEPT !.phase = phase]]

Receive(q) ==
    /\ run[q].phase = "idle"
    /\ Goes(q, "received")

\* 400: FastAPI cannot make a ChatRequest of the body.
RefuseBody(q) ==
    /\ run[q].phase = "received" /\ LoopIsFree
    /\ Goes(q, "failed")

\* 401: no bearer, none that decodes as a JWT, or one that is expired or not valid
\* yet; or 400, for a message with a role of its own.
RefuseRequest(q) ==
    /\ run[q].phase = "received" /\ LoopIsFree
    /\ Goes(q, "failed")

\* From the request to the first call of the LLM nothing is awaited.
Begin(q) ==
    /\ run[q].phase = "received" /\ LoopIsFree
    /\ Goes(q, "invoke")

Awaits(q, phase, round, calls) ==
    run' = [run EXCEPT ![q] = [phase |-> phase, round |-> round, calls |-> calls]]

\* Calls of unknown tools are passed over: the place of the first other one, if any.
Upcoming(calls) ==
    {i \in DOMAIN calls : calls[i] # "unknown" /\ \A j \in 1 .. i - 1 : calls[j] = "unknown"}

\* The call at place i is made, unless its arguments are no object: a 400.
MakeCall(q, round, calls, i) ==
    IF calls[i] = "malformed" THEN Goes(q, "failed")
    ELSE Awaits(q, "tools", round, SubSeq(calls, i, Len(calls)))

\* Mutant of Proceed: the rounds are not counted.
ProceedForEver(q, round, calls) ==
    \/ Upcoming(calls) = {} /\ Awaits(q, "invoke", 0, <<>>)
    \/ \E i \in Upcoming(calls) : MakeCall(q, round, calls, i)

\* Mutant of Proceed: nothing is streamed when the rounds are used up.
ProceedUnanswered(q, round, calls) ==
    \/ /\ Upcoming(calls) = {}
       /\ IF round < MAX_TOOL_ROUNDS THEN Awaits(q, "invoke", round, <<>>)
          ELSE Goes(q, "over")
    \/ \E i \in Upcoming(calls) : MakeCall(q, round, calls, i)

\* Mutant of Proceed: one round too many.
ProceedOneMore(q, round, calls) ==
    \/ /\ Upcoming(calls) = {}
       /\ IF round <= MAX_TOOL_ROUNDS THEN Awaits(q, "invoke", round, <<>>)
          ELSE Goes(q, "stream")
    \/ \E i \in Upcoming(calls) : MakeCall(q, round, calls, i)

\* _execute_tool_calls with these calls left, and what follows the last: after a
\* round the LLM is called again, after MAX_TOOL_ROUNDS the answer is streamed.
Proceed(q, round, calls) ==
    \/ /\ Upcoming(calls) = {}
       /\ IF round < MAX_TOOL_ROUNDS THEN Awaits(q, "invoke", round, <<>>)
          ELSE Goes(q, "stream")
    \/ \E i \in Upcoming(calls) : MakeCall(q, round, calls, i)

\* The blocking call of the LLM ends: with an exception, with text (which is
\* thrown away: the LLM is asked again for the stream), or with tool calls.
LlmFails(q) ==
    /\ run[q].phase = "invoke"
    /\ Goes(q, "failed")

LlmIsDone(q) ==
    /\ run[q].phase = "invoke"
    /\ Goes(q, "stream")

LlmAsks(q) ==
    /\ run[q].phase = "invoke"
    /\ \E calls \in Responses : Proceed(q, run[q].round + 1, calls)

\* The tool the request awaits returns, or raises.
ToolReturns(q) ==
    /\ run[q].phase = "tools" /\ LoopIsFree
    /\ Proceed(q, run[q].round, Tail(run[q].calls))

ToolRaises(q) ==
    /\ run[q].phase = "tools" /\ LoopIsFree
    /\ Goes(q, "failed")

\* The stream is at its end, or breaks: the status has been sent already.
StreamStops(q) ==
    /\ run[q].phase = "stream" /\ LoopIsFree
    /\ Goes(q, "over")

\* The identifier is used again.
Forget(q) ==
    /\ run[q].phase \in {"over", "failed"}
    /\ Goes(q, "idle")

\* Streams break off; the others get no answer.
AgentRestarts ==
    run' = [q \in Queries |->
        IF run[q].phase = "stream" THEN [IdleRun EXCEPT !.phase = "over"]
        ELSE IF Running(q) THEN [IdleRun EXCEPT !.phase = "failed"]
        ELSE run[q]]

Think(q) == LlmFails(q) \/ LlmIsDone(q) \/ LlmAsks(q)

Act(q) == ToolReturns(q) \/ ToolRaises(q)

Next ==
    \/ \E q \in Queries :
        \/ Receive(q) \/ RefuseBody(q) \/ RefuseRequest(q) \/ Begin(q)
        \/ Think(q) \/ Act(q)
        \/ StreamStops(q) \/ Forget(q)
    \/ AgentRestarts

\* A shell command may run for ever: subprocess.run has no timeout.
InShell(q) == run[q].phase = "tools" /\ Head(run[q].calls) = "shell"

\* The clients of the LLM and of user-mcp have timeouts; the loop runs what is
\* ready in order.
Fairness == \A q \in Queries :
    /\ WF_run(Think(q))
    /\ SF_run(StreamStops(q))
    /\ SF_run(RefuseBody(q) \/ RefuseRequest(q) \/ Begin(q))
    /\ SF_run(~ InShell(q) /\ Act(q))

Spec == Init /\ [][Next]_run /\ Fairness

-----------------------------------------------------------------------------
(* Properties.                                                             *)

TypeOK == run \in [Queries -> [phase : {"idle", "received", "invoke", "tools", "stream",
                                        "over", "failed"},
                               round : 0 .. MAX_TOOL_ROUNDS, calls : Seq(ToolCall)]]

\* The abstract view of a request: of its record r.
QueryOf(r) == IF r.phase \in {"invoke", "tools"} THEN "received" ELSE r.phase

queries == [q \in Queries |-> QueryOf(run[q])]

Promise == INSTANCE AgentQueries WITH query <- queries

\* A query ends in an error status or in one streamed answer, whatever LLM and
\* tools do (agent_runtime.py:79-124).
ImplementsQueries == Promise!QueriesSpec

\* A query ends, unless a shell command of it does not: the rounds are bounded, and
\* neither the loop nor another query keeps it (agent_runtime.py:79-107, 203).
EveryQueryEnds == \A q \in Queries : Running(q) ~> (~ Running(q) \/ InShell(q))
===============================================================================
