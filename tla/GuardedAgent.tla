----------------------------- MODULE GuardedAgent -----------------------------
(***************************************************************************)
(* The Lua filter in ai-agent's Envoy sidecar, between its clients and the *)
(* agent: a request's body is posted to the guardrails service's /evaluate *)
(* before it reaches the agent, and the body of a 200, once complete, to   *)
(* /mask before it reaches the client.                                     *)
(*                                                                         *)
(* Of the agent only what AgentRuntime is shown to implement is used here. *)
(* httpCall is Envoy's: it waits no longer than its timeout, and a call    *)
(* that fails returns nothing, or an error status that Envoy makes up.     *)
(***************************************************************************)
EXTENDS AgentQueries, OpaGov, WxGov

CONSTANTS
    Prompts,        \* bodies of requests: of Text, or NoText for none
    Answers         \* what the agent streams, in all

EvaluateCall(q) == <<"evaluate", q>>
MaskCall(q) == <<"mask", q>>

ASSUME GuardedAgentAssumption ==
    /\ GovCall = {"evaluate", "mask"} \X Queries
    /\ Prompts \subseteq Text \cup {NoText}
    /\ Answers \subseteq (Text \ Binary) \cup {NoText}

VARIABLE stream     \* stream[q] : the HTTP stream of q in Envoy

vars == <<guard, gov, query, stream>>

\* A stream goes idle, (evaluate,) agent, (mask,) reply, over; or failed, for an
\* error status or a reset.  evaluate and mask say how these calls went (none,
\* skipped, lost, heard), shown what the body of the reply is: nothing, the answer,
\* the masked answer, an object or the detail of an error.
IdleStream == [phase |-> "idle", prompt |-> NoText, evaluate |-> "none", answer |-> NoText,
               mask |-> "none", shown |-> "nothing"]

GuardedInit ==
    /\ QueriesInit
    /\ GovInit
    /\ stream = [q \in Queries |-> IdleStream]

InPhase(q, phase) == stream[q].phase = phase

Turns(q, phase) ==
    /\ stream' = [stream EXCEPT ![q] = [IdleStream EXCEPT !.phase = phase]]
    /\ UNCHANGED <<guard, gov>>

-------------------------------------------------------------------------------
(* envoy_on_request *)

\* A request arrives.  There may be nothing to post, or no Consul metadata in the
\* sidecar, by which the service is found.
ReceiveUnchecked(q, prompt) ==
    /\ InPhase(q, "idle")
    /\ Receive(q)
    /\ stream' = [stream EXCEPT ![q] = [IdleStream EXCEPT
                    !.phase = "agent", !.prompt = prompt, !.evaluate = "skipped"]]
    /\ UNCHANGED <<guard, gov>>

CallEvaluate(q, prompt) ==
    /\ InPhase(q, "idle") /\ prompt # NoText
    /\ stream' = [stream EXCEPT ![q] = [IdleStream EXCEPT
                    !.phase = "evaluate", !.prompt = prompt]]
    /\ Post(EvaluateCall(q), "evaluate", prompt)
    /\ UNCHANGED <<guard, query>>

\* The request goes on to the agent, the call having gone this way.
GoesOn(q, went) ==
    /\ Receive(q)
    /\ stream' = [stream EXCEPT ![q].phase = "agent", ![q].evaluate = went]
    /\ UNCHANGED <<guard, gov>>

\* 400 blocks; any other status does not.
EvaluateBlocks(q) ==
    /\ InPhase(q, "evaluate") /\ gov[EvaluateCall(q)].phase = "replied"
    /\ gov[EvaluateCall(q)].status = 400
    /\ Turns(q, "failed")
    /\ UNCHANGED query

EvaluateAllows(q) ==
    /\ InPhase(q, "evaluate") /\ gov[EvaluateCall(q)].phase = "replied"
    /\ gov[EvaluateCall(q)].status # 400
    /\ GoesOn(q, "heard")

\* Mutant of EvaluateLost: the request is not answered.
EvaluateLostWithoutAnswer(q) ==
    /\ InPhase(q, "evaluate")
    /\ Turns(q, "over")
    /\ UNCHANGED query

\* Mutant of EvaluateLost: the call has no timeout.
EvaluateLostAtLast(q) ==
    /\ InPhase(q, "evaluate") /\ gov[EvaluateCall(q)].phase = "lost"
    /\ GoesOn(q, "lost")

\* No answer in OPA_GOV_TIMEOUT_MS, or none at all: the request goes on.
EvaluateLost(q) ==
    /\ InPhase(q, "evaluate")
    /\ GoesOn(q, "lost")

-------------------------------------------------------------------------------
(* envoy_on_response *)

Shows(q, went, shown) ==
    stream' = [stream EXCEPT ![q].phase = "reply", ![q].mask = went, ![q].shown = shown]

\* The agent's stream ends.  The filter, which waited for the whole body, posts it.
CallMask(q, answer) ==
    /\ InPhase(q, "agent") /\ answer # NoText
    /\ Stop(q)
    /\ stream' = [stream EXCEPT ![q].phase = "mask", ![q].answer = answer]
    /\ Post(MaskCall(q), "mask", answer)
    /\ UNCHANGED guard

ReplyUnmasked(q, answer) ==
    /\ InPhase(q, "agent")
    /\ Stop(q)
    /\ stream' = [stream EXCEPT ![q].phase = "reply", ![q].answer = answer,
                                ![q].mask = "skipped", ![q].shown = "answer"]
    /\ UNCHANGED <<guard, gov>>

\* The stream breaks off before its end: Envoy resets the client's.
AnswerBreaks(q) ==
    /\ InPhase(q, "agent")
    /\ Stop(q)
    /\ Turns(q, "failed")

\* The agent has gone, with the stream.
AgentGone(q) ==
    /\ InPhase(q, "agent")
    /\ query[q] = "over"
    /\ Turns(q, "failed")
    /\ UNCHANGED query

\* A status other than 200 is passed on.
PassError(q) ==
    /\ InPhase(q, "agent")
    /\ query[q] = "failed"
    /\ Turns(q, "failed")
    /\ UNCHANGED query

\* Whatever the service sent, of whatever status, is the body now.
MaskHeard(q) ==
    /\ InPhase(q, "mask") /\ gov[MaskCall(q)].phase = "replied"
    /\ Shows(q, "heard", CASE gov[MaskCall(q)].body = "echo" -> "answer"
                           [] OTHER -> gov[MaskCall(q)].body)
    /\ UNCHANGED <<guard, gov, query>>

\* No answer: the body is passed through.  But an error status Envoy makes up is
\* an answer, and its text the body.
MaskLost(q) ==
    /\ InPhase(q, "mask")
    /\ \E shown \in {"answer", "detail"} : Shows(q, "lost", shown)
    /\ UNCHANGED <<guard, gov, query>>

-------------------------------------------------------------------------------
(* Clients *)

Delivered(q) ==
    /\ InPhase(q, "reply")
    /\ Turns(q, "over")
    /\ UNCHANGED query

\* The client goes: Envoy drops the stream and its filter; service and agent go on.
ClientLeaves(q) ==
    /\ stream[q].phase \in {"evaluate", "agent", "mask", "reply"}
    /\ Turns(q, IF InPhase(q, "reply") THEN "over" ELSE "failed")
    /\ UNCHANGED query

\* The agent's stream ends unheard.
StopUnheard(q) ==
    /\ stream[q].phase \in {"over", "failed"}
    /\ Stop(q)
    /\ UNCHANGED <<guard, gov, stream>>

\* The identifier is used again.
Reuse(q) ==
    /\ stream[q].phase \in {"over", "failed"}
    /\ ~ Running(q)
    /\ Settled(EvaluateCall(q)) /\ Settled(MaskCall(q))
    /\ query' = [query EXCEPT ![q] = "idle"]
    /\ stream' = [stream EXCEPT ![q] = IdleStream]
    /\ gov' = [gov EXCEPT ![EvaluateCall(q)] = IdleCall, ![MaskCall(q)] = IdleCall]
    /\ UNCHANGED guard

-------------------------------------------------------------------------------
(* The whole *)

Alone(step) == step /\ UNCHANGED <<guard, gov, stream>>

\* What is no JSON is refused (query_agent's body).
AnswerQuery(q) ==
    /\ stream[q].prompt \notin Binary \cup {NoText}
    /\ Answer(q)

Filter(q) ==
    \/ EvaluateBlocks(q) \/ EvaluateAllows(q) \/ EvaluateLost(q)
    \/ AgentGone(q) \/ PassError(q)
    \/ MaskHeard(q) \/ MaskLost(q) \/ Delivered(q)

AnswerStops(q) ==
    \/ \E answer \in Answers : CallMask(q, answer) \/ ReplyUnmasked(q, answer)
    \/ AnswerBreaks(q) \/ StopUnheard(q)

GuardedNext ==
    \/ \E q \in Queries :
        \/ \E prompt \in Prompts : ReceiveUnchecked(q, prompt) \/ CallEvaluate(q, prompt)
        \/ ClientLeaves(q) \/ Reuse(q)
        \/ Filter(q) \/ AnswerStops(q)
        \/ Alone(Fail(q)) \/ Alone(AnswerQuery(q))
    \/ Alone(AgentRestarts)
    \/ /\ \/ \E c \in GovCall : OpaStep(c) \/ WxStep(c)
          \/ GovRestarts
       /\ UNCHANGED <<query, stream>>

\* The filter's calls have a timeout, Envoy gives up on a client that does not read,
\* and the agent ends every query (AgentRuntime!EveryQueryEnds).  Of the service
\* nothing is assumed.
GuardedFairness == \A q \in Queries :
    /\ WF_vars(Filter(q))
    /\ WF_vars(Alone(Fail(q) \/ AnswerQuery(q)))
    /\ WF_vars(AnswerStops(q))

GuardedSpec == GuardedInit /\ [][GuardedNext]_vars /\ GuardedFairness

-------------------------------------------------------------------------------
(* Properties. *)

\* What the filter has seen refused is never shown to the agent: a text in which
\* the service found more than private data, one it could not read, and, with
\* OPA_FAIL_MODE "closed", one it could ask nobody about (opa_gov_api.py:255-259;
\* service-defaults-agent-opa-gov.yaml:200).
RefusedNeverRuns == \A q \in Queries :
    LET call == gov[EvaluateCall(q)]
    IN  /\ stream[q].evaluate = "heard"
        /\ \/ call.found \ {"pii"} # {}
           \/ call.said = "failed" /\ guard = "closed"
           \/ call.text \in Binary \ Long
        => query[q] = "idle"

\* An answer with private data is shown as it is only when nobody was asked to mask
\* it, the filter heard nothing, or opa-gov-api was told to fail open
\* (opa_gov_api.py:299-311; service-defaults-agent-opa-gov.yaml:254).
PrivateAnswersMasked == \A q \in Queries :
    /\ stream[q].shown = "answer"
    /\ stream[q].answer # NoText /\ "pii" \in Findings[stream[q].answer]
    => \/ stream[q].mask \in {"skipped", "lost"}
       \/ guard = "open" /\ gov[MaskCall(q)].said = "failed"

\* The text of an error stands for an answer only when the filter heard nothing, the
\* answer is too long, or masking failed at a service that does not fail open
\* (opa_gov_api.py:205-230, 309; service-defaults-agent-opa-gov.yaml:261).
AnswersKept == \A q \in Queries :
    stream[q].shown = "detail" =>
        \/ stream[q].mask = "lost"
        \/ stream[q].answer \in Long /\ guard # "wx"
        \/ guard # "open" /\ gov[MaskCall(q)].said = "failed"

\* The queries as the clients see them.
QueryOf(s) == CASE s.phase \in {"evaluate", "agent", "mask"} -> "received"
                [] s.phase = "reply" -> "stream"
                [] OTHER -> s.phase

clientQueries == [q \in Queries |-> QueryOf(stream[q])]

ClientView == INSTANCE AgentQueries WITH query <- clientQueries

\* Behind the filter, whatever becomes of its calls, a query ends for the client as
\* it does without it: in an error or in one answer
\* (service-defaults-agent-opa-gov.yaml:160-269).
FilterKeepsPromise == ClientView!QueriesSpec

\* The service keeps no client waiting, nor its restart or its event loop, held for
\* longer than the filter waits (service-defaults-agent-opa-gov.yaml:24, 152).
EveryStreamEnds == \A q \in Queries :
    stream[q].phase \in {"evaluate", "agent", "mask", "reply"}
        ~> stream[q].phase \in {"over", "failed"}
===============================================================================
