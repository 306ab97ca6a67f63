-------------------------- MODULE AgentRuntime_proofs --------------------------
(***************************************************************************)
(* Proofs about AgentRuntime, for any requests, number of rounds and       *)
(* answers of the LLM.                                                     *)
(*                                                                         *)
(* RunsSound is inductive.  It says beside the types that whoever asks the *)
(* LLM has a round left, and whoever awaits a tool has a call to await.    *)
(***************************************************************************)
EXTENDS AgentRuntime, SequenceTheorems, TLAPS

Phase == {"idle", "received", "invoke", "tools", "stream", "over", "failed"}

RunType == [phase : Phase, round : 0 .. MAX_TOOL_ROUNDS, calls : Seq(ToolCall)]

\* The record r of a request.
RunSound(r) ==
    /\ r \in RunType
    /\ r.phase = "invoke" => r.round < MAX_TOOL_ROUNDS
    /\ r.phase = "tools" => r.round > 0 /\ r.calls # <<>> /\ r.calls[1] \in {"tool", "shell"}

RunsSound ==
    /\ run \in [Queries -> RunType]
    /\ \A q \in Queries : RunSound(run[q])

-------------------------------------------------------------------------------
(* Records *)

\* What a request is when it remembers neither round nor calls.
LEMMA PlainRuns ==
    ASSUME NEW phase \in Phase \ {"invoke", "tools"}
    PROVE  /\ [IdleRun EXCEPT !.phase = phase].phase = phase
           /\ RunSound([IdleRun EXCEPT !.phase = phase])
<1> DEFINE r == [IdleRun EXCEPT !.phase = phase]
<1>1. r = [phase |-> phase, round |-> 0, calls |-> <<>>]
  BY DEF IdleRun
<1>2. 0 \in 0 .. MAX_TOOL_ROUNDS /\ <<>> \in Seq(ToolCall)
  BY AgentRuntimeAssumption
<1>3. r \in RunType
  BY <1>1, <1>2 DEF RunType
<1> QED BY <1>1, <1>3 DEF RunSound

LEMMA IdleSound == RunSound(IdleRun) /\ IdleRun.phase = "idle"
<1>1. IdleRun = [IdleRun EXCEPT !.phase = "idle"]
  BY DEF IdleRun
<1> QED BY <1>1, PlainRuns DEF Phase

\* ... when it asks the LLM for another round.
LEMMA AskingSound ==
    ASSUME NEW round \in 0 .. MAX_TOOL_ROUNDS, round < MAX_TOOL_ROUNDS
    PROVE  RunSound([phase |-> "invoke", round |-> round, calls |-> <<>>])
<1>1. <<>> \in Seq(ToolCall)
  OBVIOUS
<1> QED BY <1>1 DEF RunSound, RunType, Phase

\* ... when it makes the call at place i.
LEMMA AwaitingSound ==
    ASSUME NEW round \in 1 .. MAX_TOOL_ROUNDS, NEW calls \in Seq(ToolCall),
           NEW i \in Upcoming(calls), calls[i] # "malformed"
    PROVE  RunSound([phase |-> "tools", round |-> round, calls |-> SubSeq(calls, i, Len(calls))])
<1> DEFINE rest == SubSeq(calls, i, Len(calls))
<1>1. i \in 1 .. Len(calls) /\ Len(calls) \in Nat /\ calls[i] # "unknown"
  BY DEF Upcoming
<1>2. \A j \in i .. Len(calls) : calls[j] \in ToolCall
  BY <1>1
<1>3. /\ rest \in Seq(ToolCall)
      /\ Len(rest) = IF i <= Len(calls) THEN Len(calls) - i + 1 ELSE 0
      /\ \A j \in 1 .. Len(calls) - i + 1 : rest[j] = calls[i + j - 1]
  BY <1>1, <1>2, SubSeqProperties
<1> HIDE DEF rest
<1>4. Len(rest) > 0 /\ rest[1] = calls[i]
  BY <1>1, <1>3
<1>5. rest # <<>>
  <2>1. Len(<<>>) = 0
    OBVIOUS
  <2> QED BY <1>4, <2>1
<1>6. rest[1] \in {"tool", "shell"}
  BY <1>1, <1>4 DEF ToolCall
<1>7. round > 0 /\ round \in 0 .. MAX_TOOL_ROUNDS
  BY AgentRuntimeAssumption
<1>8. [phase |-> "tools", round |-> round, calls |-> rest] \in RunType
  BY <1>3, <1>7 DEF Phase, RunType
<1>9. RunSound([phase |-> "tools", round |-> round, calls |-> rest])
  BY <1>5, <1>6, <1>7, <1>8 DEF RunSound
<1> QED BY <1>9 DEF rest

-------------------------------------------------------------------------------
(* Steps *)

\* What every step makes of the request it is about: it goes to one of these phases,
\* and the others stay.
Moves(q, phases) ==
    \E r : /\ RunSound(r) /\ r.phase \in phases
           /\ run' = [run EXCEPT ![q] = r]

LEMMA MovesSound ==
    ASSUME RunsSound, NEW q \in Queries, NEW phases, Moves(q, phases)
    PROVE  RunsSound'
<1>1. PICK r : RunSound(r) /\ run' = [run EXCEPT ![q] = r]
  BY DEF Moves
<1>2. run' \in [Queries -> RunType]
  BY <1>1 DEF RunsSound, RunSound
<1>3. ASSUME NEW p \in Queries PROVE RunSound(run'[p])
  BY <1>1 DEF RunsSound
<1> QED BY <1>2, <1>3 DEF RunsSound

LEMMA GoesMoves ==
    ASSUME NEW q \in Queries, NEW phase \in Phase \ {"invoke", "tools"}, Goes(q, phase)
    PROVE  Moves(q, {phase})
BY PlainRuns DEF Goes, Moves

LEMMA ProceedMoves ==
    ASSUME NEW q \in Queries, NEW round \in 1 .. MAX_TOOL_ROUNDS, NEW calls \in Seq(ToolCall),
           Proceed(q, round, calls)
    PROVE  Moves(q, {"invoke", "tools", "stream", "failed"})
<1>1. CASE round < MAX_TOOL_ROUNDS /\ Awaits(q, "invoke", round, <<>>)
  <2>1. RunSound([phase |-> "invoke", round |-> round, calls |-> <<>>])
    BY <1>1, AskingSound, AgentRuntimeAssumption
  <2> QED BY <1>1, <2>1 DEF Awaits, Moves
<1>2. CASE Goes(q, "stream")
  <2>1. Moves(q, {"stream"})
    BY <1>2, GoesMoves DEF Phase
  <2> QED BY <2>1 DEF Moves
<1>3. CASE Goes(q, "failed")
  <2>1. Moves(q, {"failed"})
    BY <1>3, GoesMoves DEF Phase
  <2> QED BY <2>1 DEF Moves
<1>4. ASSUME NEW i \in Upcoming(calls), calls[i] # "malformed",
             Awaits(q, "tools", round, SubSeq(calls, i, Len(calls)))
      PROVE  Moves(q, {"invoke", "tools", "stream", "failed"})
  <2>1. RunSound([phase |-> "tools", round |-> round, calls |-> SubSeq(calls, i, Len(calls))])
    BY <1>4, AwaitingSound
  <2> QED BY <1>4, <2>1 DEF Awaits, Moves
<1> QED BY <1>1, <1>2, <1>3, <1>4 DEF Proceed, MakeCall

\* From where to where a step takes a request.
Forward(q) ==
    \/ run[q].phase = "idle" /\ Moves(q, {"received"})
    \/ run[q].phase = "received" /\ Moves(q, {"failed", "invoke"})
    \/ run[q].phase \in {"invoke", "tools"} /\ Moves(q, {"invoke", "tools", "stream", "failed"})
    \/ run[q].phase = "stream" /\ Moves(q, {"over"})
    \/ run[q].phase \in {"over", "failed"} /\ Moves(q, {"idle"})

LEMMA StepsGoForward ==
    ASSUME RunsSound, NEW q \in Queries,
           \/ Receive(q) \/ RefuseBody(q) \/ RefuseRequest(q) \/ Begin(q)
           \/ Think(q) \/ Act(q) \/ StreamStops(q) \/ Forget(q)
    PROVE  Forward(q)
<1>0. RunSound(run[q])
  BY DEF RunsSound
<1>1. ASSUME NEW from, NEW to, NEW wider, to \in wider, Moves(q, {to})
      PROVE  Moves(q, wider)
  BY <1>1 DEF Moves
<1>2. CASE Receive(q)
  BY <1>2, GoesMoves DEF Receive, Forward, Phase
<1>3. CASE RefuseBody(q) \/ RefuseRequest(q)
  <2>1. run[q].phase = "received" /\ Moves(q, {"failed"})
    BY <1>3, GoesMoves DEF RefuseBody, RefuseRequest, Phase
  <2> QED BY <2>1 DEF Forward, Moves
<1>4. CASE Begin(q)
  <2>1. /\ run[q].phase = "received"
        /\ run' = [run EXCEPT ![q] = [IdleRun EXCEPT !.phase = "invoke"]]
    BY <1>4 DEF Begin, Goes
  <2>2. [IdleRun EXCEPT !.phase = "invoke"] = [phase |-> "invoke", round |-> 0, calls |-> <<>>]
    BY DEF IdleRun
  <2>3. RunSound([phase |-> "invoke", round |-> 0, calls |-> <<>>])
    BY AskingSound, AgentRuntimeAssumption
  <2> QED BY <2>1, <2>2, <2>3 DEF Forward, Moves
<1>5. CASE LlmFails(q) \/ LlmIsDone(q)
  <2>1. run[q].phase = "invoke" /\ (Moves(q, {"failed"}) \/ Moves(q, {"stream"}))
    BY <1>5, GoesMoves DEF LlmFails, LlmIsDone, Phase
  <2> QED BY <2>1 DEF Forward, Moves
<1>6. CASE LlmAsks(q)
  <2>1. run[q].phase = "invoke"
    BY <1>6 DEF LlmAsks
  <2>2. PICK calls \in Responses : Proceed(q, run[q].round + 1, calls)
    BY <1>6 DEF LlmAsks
  <2>3. calls \in Seq(ToolCall)
    BY AgentRuntimeAssumption
  <2>4. run[q].round + 1 \in 1 .. MAX_TOOL_ROUNDS
    BY <1>0, <2>1, AgentRuntimeAssumption DEF RunSound, RunType
  <2>5. Moves(q, {"invoke", "tools", "stream", "failed"})
    BY <2>2, <2>3, <2>4, ProceedMoves
  <2> QED BY <2>1, <2>5 DEF Forward
<1>7. CASE ToolReturns(q)
  <2>1. run[q].phase = "tools" /\ Proceed(q, run[q].round, Tail(run[q].calls))
    BY <1>7 DEF ToolReturns
  <2>2. run[q].calls \in Seq(ToolCall) /\ run[q].calls # <<>>
    BY <1>0, <2>1 DEF RunSound, RunType
  <2>3. Tail(run[q].calls) \in Seq(ToolCall)
    BY <2>2, HeadTailProperties
  <2>4. run[q].round \in 1 .. MAX_TOOL_ROUNDS
    BY <1>0, <2>1, AgentRuntimeAssumption DEF RunSound, RunType
  <2>5. Moves(q, {"invoke", "tools", "stream", "failed"})
    BY <2>1, <2>3, <2>4, ProceedMoves
  <2> QED BY <2>1, <2>5 DEF Forward
<1>8. CASE ToolRaises(q)
  <2>1. run[q].phase = "tools" /\ Moves(q, {"failed"})
    BY <1>8, GoesMoves DEF ToolRaises, Phase
  <2> QED BY <2>1 DEF Forward, Moves
<1>9. CASE StreamStops(q)
  BY <1>9, GoesMoves DEF StreamStops, Forward, Phase
<1>10. CASE Forget(q)
  BY <1>10, GoesMoves DEF Forget, Forward, Phase
<1> QED BY <1>2, <1>3, <1>4, <1>5, <1>6, <1>7, <1>8, <1>9, <1>10 DEF Think, Act

\* What a restart leaves of a request r.
Restarted(r) ==
    IF r.phase = "stream" THEN [IdleRun EXCEPT !.phase = "over"]
    ELSE IF r.phase \in {"received", "invoke", "tools", "stream"} THEN [IdleRun EXCEPT !.phase = "failed"]
    ELSE r

LEMMA RestartedSound ==
    ASSUME NEW r, RunSound(r)
    PROVE  RunSound(Restarted(r))
BY PlainRuns DEF Restarted, Phase

LEMMA RestartsAll == AgentRestarts => run' = [q \in Queries |-> Restarted(run[q])]
BY DEF AgentRestarts, Restarted, Running

LEMMA RunsSoundInit == Init => RunsSound
BY IdleSound DEF Init, RunsSound, RunSound

LEMMA RunsSoundNext == RunsSound /\ [Next]_run => RunsSound'
<1> SUFFICES ASSUME RunsSound, [Next]_run PROVE RunsSound'
  OBVIOUS
<1>1. CASE \E q \in Queries : Forward(q)
  BY <1>1, MovesSound DEF Forward
<1>2. CASE AgentRestarts
  <2>1. run' = [q \in Queries |-> Restarted(run[q])]
    BY <1>2, RestartsAll
  <2>2. \A q \in Queries : RunSound(Restarted(run[q]))
    BY RestartedSound DEF RunsSound
  <2>3. \A q \in Queries : RunSound(run'[q])
    BY <2>1, <2>2
  <2>4. run' \in [Queries -> RunType]
    BY <2>1, <2>2 DEF RunSound
  <2> QED BY <2>3, <2>4 DEF RunsSound
<1>3. CASE UNCHANGED run
  BY <1>3 DEF RunsSound
<1> QED BY <1>1, <1>2, <1>3, StepsGoForward DEF Next

\* Requests keep their types, and no query is given more than MAX_TOOL_ROUNDS rounds,
\* whatever the LLM asks for (agent_runtime.py:79-107).
THEOREM RoundsStayBounded == Spec => []TypeOK
<1>1. RunsSound => TypeOK
  BY DEF RunsSound, RunType, TypeOK, Phase
<1> QED BY <1>1, RunsSoundInit, RunsSoundNext, PTL DEF Spec

-------------------------------------------------------------------------------
(* The query handler keeps the promise of its endpoint *)

LEMMA PromiseInit == Init => Promise!QueriesInit
BY IdleSound DEF Init, Promise!QueriesInit, queries, QueryOf

\* A move of one request is a move of one query.
LEMMA MovesQuery ==
    ASSUME RunsSound, NEW q \in Queries, NEW r, run' = [run EXCEPT ![q] = r]
    PROVE  queries' = [queries EXCEPT ![q] = QueryOf(r)]
<1>1. \A p \in Queries : QueryOf(run'[p]) = IF p = q THEN QueryOf(r) ELSE QueryOf(run[p])
  BY DEF RunsSound
<1>2. queries' = [p \in Queries |-> QueryOf(run'[p])]
  BY DEF queries, QueryOf
<1> QED BY <1>1, <1>2 DEF queries

LEMMA QueryAt ==
    ASSUME NEW q \in Queries
    PROVE  queries[q] = QueryOf(run[q])
BY DEF queries

LEMMA ForwardKeepsPromise ==
    ASSUME RunsSound, NEW q \in Queries, Forward(q)
    PROVE  [Promise!QueriesNext]_queries
<1>1. ASSUME NEW phases, Moves(q, phases)
      PROVE  \E r : r.phase \in phases /\ queries' = [queries EXCEPT ![q] = QueryOf(r)]
  <2>1. PICK r : r.phase \in phases /\ run' = [run EXCEPT ![q] = r]
    BY <1>1 DEF Moves
  <2>2. queries' = [queries EXCEPT ![q] = QueryOf(r)]
    BY <2>1, MovesQuery
  <2> QED BY <2>1, <2>2
<1>2. queries = [queries EXCEPT ![q] = queries[q]]
  BY DEF queries
<1>3. CASE run[q].phase = "idle" /\ Moves(q, {"received"})
  <2>1. queries[q] = "idle" /\ queries' = [queries EXCEPT ![q] = "received"]
    BY <1>1, <1>3, QueryAt DEF QueryOf
  <2> QED BY <2>1 DEF Promise!QueriesNext, Promise!Receive, Promise!Step
<1>4. CASE /\ run[q].phase \in {"received", "invoke", "tools"}
           /\ Moves(q, {"invoke", "tools", "stream", "failed"})
  <2>1. queries[q] = "received"
    BY <1>4, QueryAt DEF QueryOf
  <2>2. PICK to \in {"received", "stream", "failed"} : queries' = [queries EXCEPT ![q] = to]
    BY <1>1, <1>4 DEF QueryOf
  <2>3. CASE to = "received"
    BY <1>2, <2>1, <2>2, <2>3
  <2>4. CASE to = "stream"
    BY <2>1, <2>2, <2>4 DEF Promise!QueriesNext, Promise!Answer, Promise!Step
  <2>5. CASE to = "failed"
    BY <2>1, <2>2, <2>5 DEF Promise!QueriesNext, Promise!Fail, Promise!Step
  <2> QED BY <2>3, <2>4, <2>5
<1>5. CASE run[q].phase = "stream" /\ Moves(q, {"over"})
  <2>1. queries[q] = "stream" /\ queries' = [queries EXCEPT ![q] = "over"]
    BY <1>1, <1>5, QueryAt DEF QueryOf
  <2> QED BY <2>1 DEF Promise!QueriesNext, Promise!Stop, Promise!Step
<1>6. CASE run[q].phase \in {"over", "failed"} /\ Moves(q, {"idle"})
  <2>1. queries[q] \in {"over", "failed"} /\ queries' = [queries EXCEPT ![q] = "idle"]
    BY <1>1, <1>6, QueryAt DEF QueryOf
  <2> QED BY <2>1 DEF Promise!QueriesNext, Promise!Forget, Promise!Step
<1>7. Moves(q, {"failed", "invoke"}) => Moves(q, {"invoke", "tools", "stream", "failed"})
  BY DEF Moves
<1> QED BY <1>3, <1>4, <1>5, <1>6, <1>7 DEF Forward

LEMMA RestartKeepsPromise ==
    ASSUME RunsSound, AgentRestarts
    PROVE  Promise!AgentRestarts
<1>1. \A q \in Queries : QueryOf(run'[q]) = CASE QueryOf(run[q]) = "stream" -> "over"
                                              [] QueryOf(run[q]) = "received" -> "failed"
                                              [] OTHER -> QueryOf(run[q])
  <2> SUFFICES ASSUME NEW q \in Queries
               PROVE  QueryOf(Restarted(run[q])) = CASE QueryOf(run[q]) = "stream" -> "over"
                                                     [] QueryOf(run[q]) = "received" -> "failed"
                                                     [] OTHER -> QueryOf(run[q])
    BY RestartsAll
  <2>1. run[q].phase \in Phase
    BY DEF RunsSound, RunSound, RunType
  <2>2. /\ [IdleRun EXCEPT !.phase = "over"].phase = "over"
        /\ [IdleRun EXCEPT !.phase = "failed"].phase = "failed"
    BY PlainRuns DEF Phase
  <2> QED BY <2>1, <2>2 DEF Phase, QueryOf, Restarted
<1>2. queries' = [q \in Queries |-> QueryOf(run'[q])]
  BY DEF queries, QueryOf
<1> QED BY <1>1, <1>2, QueryAt DEF Promise!AgentRestarts

LEMMA StepKeepsPromise == RunsSound /\ [Next]_run => [Promise!QueriesNext]_queries
<1> SUFFICES ASSUME RunsSound, [Next]_run PROVE [Promise!QueriesNext]_queries
  OBVIOUS
<1>1. CASE \E q \in Queries : Forward(q)
  BY <1>1, ForwardKeepsPromise
<1>2. CASE AgentRestarts
  BY <1>2, RestartKeepsPromise DEF Promise!QueriesNext
<1>3. CASE UNCHANGED run
  BY <1>3 DEF queries, QueryOf
<1> QED BY <1>1, <1>2, <1>3, StepsGoForward DEF Next

\* The tool loop implements AgentQueries: a query ends in an error status or in one
\* streamed answer, whatever LLM and tools do (agent_runtime.py:79-124).
THEOREM LoopKeepsPromise == Spec => ImplementsQueries
BY PromiseInit, RunsSoundInit, RunsSoundNext, StepKeepsPromise, PTL
   DEF Spec, ImplementsQueries, Promise!QueriesSpec
===============================================================================
