------------------------------ MODULE AgentClient ------------------------------
(***************************************************************************)
(* POST /api/agent/query of web-app's server: it posts the message to the  *)
(* agent, again when the network fails, and passes the streamed answer on. *)
(* The network may fail before or after the agent has the request.         *)
(***************************************************************************)
EXTENDS ChatMessages, Naturals

CONSTANT MaxAttempts        \* agent.retry.maxAttempts

ASSUME AgentClientAssumption == MaxAttempts \in Nat \ {0}

VARIABLES
    relay,      \* relay[s] : the handler of message s
    reply       \* reply[s] : the response, as the browser will see it

clientVars == <<relay, reply>>

\* A handler goes idle, check, fetch, stream, idle.  got is streamedChunks > 0.
IdleRelay == [phase |-> "idle", attempt |-> 0, got |-> FALSE]

\* A response is none, awaited, failed (an error status), open, closed, broken,
\* or the browser is gone.  text: there is something in it not read yet.
NoReply == [state |-> "none", text |-> FALSE]

ClientInit ==
    /\ relay = [s \in Sends |-> IdleRelay]
    /\ reply = [s \in Sends |-> NoReply]

\* The browser listens, or has gone: then nothing reaches it any more.
Listening(s) == reply[s].state # "gone"
Respond(s, state) ==
    reply' = [reply EXCEPT ![s] = IF Listening(s) THEN [@ EXCEPT !.state = state] ELSE NoReply]

RelayEnds(s, state) ==
    /\ relay' = [relay EXCEPT ![s] = IdleRelay]
    /\ Respond(s, state)

\* The browser posts the message.
Accept(s) ==
    /\ relay[s].phase = "idle"
    /\ relay' = [relay EXCEPT ![s].phase = "check"]
    /\ reply' = [reply EXCEPT ![s].state = "awaited"]

\* The request does not arrive; or there is no session, or the body is not one
\* bodySchema takes (a history of more than 200 messages).
RefuseMessage(s) ==
    /\ relay[s].phase = "check"
    /\ RelayEnds(s, "failed")

FirstAttempt(s) ==
    /\ relay[s].phase = "check"
    /\ relay' = [relay EXCEPT ![s].phase = "fetch", ![s].attempt = 1]
    /\ UNCHANGED reply

\* fetch rejects with an error that isRetryableAgentNetworkError knows
\* (ENOTFOUND, EAI_AGAIN, ECONNRESET, UND_ERR_CONNECT_TIMEOUT).
FetchFails(s) ==
    /\ relay[s].phase = "fetch"
    /\ IF relay[s].attempt < MaxAttempts
       THEN relay' = [relay EXCEPT ![s].attempt = @ + 1] /\ UNCHANGED reply
       ELSE RelayEnds(s, "failed")

\* ... with another one (ECONNREFUSED, AbortSignal.timeout), or the agent
\* answers with an error status.
FetchGivesUp(s) ==
    /\ relay[s].phase = "fetch"
    /\ RelayEnds(s, "failed")

\* The agent answers 200.
FetchAnswers(s) ==
    /\ relay[s].phase = "fetch"
    /\ relay' = [relay EXCEPT ![s].phase = "stream"]
    /\ reply' = IF Listening(s) THEN [reply EXCEPT ![s].state = "open"] ELSE reply

\* A chunk goes through; for a browser that has gone enqueue throws.
PassChunk(s) ==
    /\ relay[s].phase = "stream"
    /\ IF Listening(s)
       THEN /\ relay' = [relay EXCEPT ![s].got = TRUE]
            /\ reply' = [reply EXCEPT ![s].text = TRUE]
       ELSE RelayEnds(s, "broken")

StreamDone(s) ==
    /\ relay[s].phase = "stream"
    /\ RelayEnds(s, "closed")

\* Mutant of StreamBroken: a broken stream is fetched again.
StreamBrokenRetried(s) ==
    /\ relay[s].phase = "stream"
    /\ IF relay[s].attempt < MaxAttempts
       THEN relay' = [relay EXCEPT ![s].phase = "fetch", ![s].attempt = @ + 1] /\ UNCHANGED reply
       ELSE RelayEnds(s, "broken")

\* The agent's stream breaks or takes too long: what came is kept as the answer.
StreamBroken(s) ==
    /\ relay[s].phase = "stream"
    /\ RelayEnds(s, IF relay[s].got THEN "closed" ELSE "broken")
===============================================================================
