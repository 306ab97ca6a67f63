------------------------------ MODULE Conversation ------------------------------
(***************************************************************************)
(* A chat: the browser's ChatWorkspace, the relay in web-app's server and  *)
(* ai-agent, joined by their requests and streams.  Message s is posted to *)
(* the agent as queries <<s, 1>>, <<s, 2>>, one per attempt.               *)
(***************************************************************************)
EXTENDS AgentQueries, AgentClient, ChatWorkspace

ASSUME ConversationAssumption == Queries = Sends \X (1 .. MaxAttempts)

vars == <<chatVars, clientVars, query>>

Init == ChatInit /\ ClientInit /\ QueriesInit

Attempts(s) == {q \in Queries : q[1] = s}

\* The query relay s waits for or reads.
QueryOf(s) == <<s, relay[s].attempt>>

\* The response for a browser that has left.
Left(s) == IF relay[s].phase = "idle" THEN NoReply ELSE [state |-> "gone", text |-> FALSE]

-----------------------------------------------------------------------------
(* The browser.                                                            *)

\* An identifier is fresh when nothing in the system knows it.
Fresh(s) ==
    /\ relay[s] = IdleRelay /\ reply[s] = NoReply
    /\ \A q \in Attempts(s) : ~ Running(q)
    /\ \A i \in DOMAIN log : log[i].send # s

Send(s) ==
    /\ Fresh(s)
    /\ HandleSend(s)
    /\ Accept(s)
    /\ query' = [q \in Queries |-> IF q \in Attempts(s) THEN "idle" ELSE query[q]]

HeadersArrive(s) ==
    /\ reply[s].state \in {"open", "closed", "broken"}
    /\ ResponseOk(s)
    /\ UNCHANGED <<clientVars, query>>

ChunkArrives(s) ==
    /\ reply[s].text
    /\ OnChunk(s)
    /\ reply' = [reply EXCEPT ![s].text = FALSE]
    /\ UNCHANGED <<relay, query>>

ReplyEnds(s) ==
    /\ reply[s].state = "closed" /\ ~ reply[s].text
    /\ OnDone(s)
    /\ reply' = [reply EXCEPT ![s] = NoReply]
    /\ UNCHANGED <<relay, query>>

\* An error status or a broken stream: what is left to read is lost.
ReplyFails(s) ==
    /\ reply[s].state \in {"failed", "broken"}
    /\ OnError(s)
    /\ reply' = [reply EXCEPT ![s] = Left(s)]
    /\ UNCHANGED <<relay, query>>

\* The network between browser and server fails.
ConnectionLost(s) ==
    /\ reply[s].state \in {"awaited", "open", "closed"}
    /\ OnError(s)
    /\ reply' = [reply EXCEPT ![s] = Left(s)]
    /\ UNCHANGED <<relay, query>>

Clear ==
    /\ HandleClear
    /\ reply' = [s \in Sends |-> IF stream'[s].phase = "aborted" THEN Left(s) ELSE reply[s]]
    /\ UNCHANGED <<relay, query>>

Abort(s) == OnAbort(s) /\ UNCHANGED <<clientVars, query>>

ReloadPage ==
    /\ Reload
    /\ reply' = [s \in Sends |-> IF reply[s].state = "none" THEN NoReply ELSE Left(s)]
    /\ UNCHANGED <<relay, query>>

-----------------------------------------------------------------------------
(* web-app's server, and its requests to the agent.                        *)

Refuse(s) == RefuseMessage(s) /\ UNCHANGED <<chatVars, query>>

StartFetch(s) == FirstAttempt(s) /\ UNCHANGED <<chatVars, query>>

\* The agent has the request; the relay does not know.
Reaches(s) ==
    /\ relay[s].phase = "fetch"
    /\ Receive(QueryOf(s))
    /\ UNCHANGED <<chatVars, clientVars>>

FetchRetried(s) == FetchFails(s) /\ UNCHANGED <<chatVars, query>>

FetchEnds(s) == FetchGivesUp(s) /\ UNCHANGED <<chatVars, query>>

Answers(s) ==
    /\ relay[s].phase = "fetch"
    /\ query[QueryOf(s)] = "stream"
    /\ FetchAnswers(s)
    /\ UNCHANGED <<chatVars, query>>

Streams(s) ==
    /\ relay[s].phase = "stream"
    /\ query[QueryOf(s)] = "stream"
    /\ PassChunk(s)
    /\ UNCHANGED <<chatVars, query>>

StreamEnds(s) ==
    /\ StreamDone(s)
    /\ Stop(QueryOf(s))
    /\ UNCHANGED chatVars

StreamLost(s) == StreamBroken(s) /\ UNCHANGED <<chatVars, query>>

-----------------------------------------------------------------------------
(* The agent.                                                              *)

\* A stream nobody reads, or a reader that has not started.
AbandonedStops(q) ==
    /\ ~ (relay[q[1]].phase = "stream" /\ q = QueryOf(q[1]))
    /\ Stop(q)

AgentStep(q) ==
    /\ Fail(q) \/ Answer(q) \/ AbandonedStops(q)
    /\ UNCHANGED <<chatVars, clientVars>>

Restart == AgentRestarts /\ UNCHANGED <<chatVars, clientVars>>

-----------------------------------------------------------------------------
BrowserStep(s) ==
    \/ HeadersArrive(s) \/ ChunkArrives(s) \/ ReplyEnds(s) \/ ReplyFails(s) \/ Abort(s)

RelayStep(s) ==
    \/ Refuse(s) \/ StartFetch(s)
    \/ FetchRetried(s) \/ FetchEnds(s) \/ Answers(s)

Next ==
    \/ \E s \in Sends :
        \/ Send(s) \/ BrowserStep(s) \/ ConnectionLost(s)
        \/ RelayStep(s) \/ Reaches(s)
        \/ Streams(s) \/ StreamEnds(s) \/ StreamLost(s)
    \/ Clear \/ ReloadPage
    \/ \E q \in Queries : AgentStep(q)
    \/ Restart

\* The browser takes its events in turn.  A timeout of 310 s ends whatever the relay
\* waits for, the body of the answer included; the agent may do as it likes.
Fairness ==
    /\ WF_vars(\E s \in Sends : BrowserStep(s))
    /\ WF_vars(\E s \in Sends : RelayStep(s))
    /\ WF_vars(\E s \in Sends : StreamEnds(s) \/ StreamLost(s))

Spec == Init /\ [][Next]_vars /\ Fairness

-----------------------------------------------------------------------------
(* Properties.                                                             *)

\* The question that is open, and the one the conversation was cleared on.
asking == IF sending THEN pending ELSE NoSend
cutOff == IF Settled THEN NoSend ELSE CHOOSE s \in Sends : stream[s].phase = "aborted"

Talk == INSTANCE Dialogue WITH talk <- log, asked <- asking, cleared <- cutOff

\* The log shows one question at a time, each closed once, and after Clear at most
\* the trail of the aborted stream: callbacks of a stream never reach another
\* question or a log cleared earlier (chat-workspace.tsx:45-80).
ImplementsDialogue == Talk!Spec

\* A question whose stream has begun is not put to the agent again: what the user
\* reads comes from one query (client.ts:103-123, 281-312).
NotAskedAgain ==
    [][\A s \in Sends : reply[s].state \in {"open", "closed", "broken"} =>
        \A q \in Attempts(s) :
            query'[q] = "received" => query[q] = "received"]_vars

\* What the log shows as an answer was streamed by a query: an error status or a
\* query that never got there shows as an error or as empty (stream-client.ts:38-48).
AnswersWereStreamed ==
    \A i \in DOMAIN log : log[i].role = "agent" /\ log[i].kind = "text" =>
        \E q \in Attempts(log[i].send) : query[q] \in {"stream", "over"}

\* The composer is free again whatever fails (chat-workspace.tsx:50-69).
EveryQuestionClosed == sending ~> ~ sending
===============================================================================
