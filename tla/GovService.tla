------------------------------ MODULE GovService ------------------------------
(***************************************************************************)
(* The calls of a guardrails service, which are the same for the two there *)
(* are: the Envoy filter of ai-agent posts a text to /evaluate or to /mask *)
(* and is sent a status and a body.  A service keeps nothing between       *)
(* calls; what it says rests on detectors of its own (OPA, watsonx), which *)
(* are external.                                                           *)
(***************************************************************************)
EXTENDS Naturals

CONSTANTS
    GovCall,        \* identifiers of calls
    Text,           \* bodies that are not empty
    Findings,       \* what the detectors may find in a text
    Binary,         \* the texts that are not UTF-8
    Long,           \* the texts of more than MAX_BODY_BYTES
    Guards,         \* the services there may be, see guard
    NoText

Finding == {"is_injection", "is_unsafe", "pii"}

ASSUME GovServiceAssumption ==
    /\ Findings \in [Text -> SUBSET Finding]
    /\ Binary \subseteq Text
    /\ Long \subseteq Text
    /\ Guards \subseteq {"open", "closed", "wx"}
    /\ NoText \notin Text

VARIABLES
    guard,  \* opa-gov-api with its OPA_FAIL_MODE, or wx-gov-api
    gov     \* gov[c] : the call c

\* A call goes idle, sent, then through the phases of its service, to replied or
\* lost.  said is what became of asking the detectors (nothing, failed, judged,
\* masked), found what they answered; status and body are the reply.
IdleCall == [endpoint |-> "none", text |-> NoText, phase |-> "idle", said |-> "nothing",
             found |-> {}, status |-> 0, body |-> "none"]

GovInit ==
    /\ guard \in Guards
    /\ gov = [c \in GovCall |-> IdleCall]

Post(c, endpoint, text) ==
    gov' = [gov EXCEPT ![c] = [IdleCall EXCEPT !.endpoint = endpoint, !.text = text,
                                               !.phase = "sent"]]

\* The service works on c: it has come to this phase.
At(c, endpoint, phase) == gov[c].endpoint = endpoint /\ gov[c].phase = phase

Enters(c, phase) ==
    /\ gov' = [gov EXCEPT ![c].phase = phase]
    /\ UNCHANGED guard

\* c is replied to, after the detectors said this, if they were asked at all.
ReplyWith(c, said, found, status, body) ==
    /\ gov' = [gov EXCEPT ![c] =
        [endpoint |-> @.endpoint, text |-> @.text, phase |-> "replied", said |-> said,
         found |-> found, status |-> status, body |-> body]]
    /\ UNCHANGED guard

\* HTTPException: FastAPI sends its text as the detail of a JSON object.
Refused(c, said, status) == ReplyWith(c, said, {}, status, "detail")

Settled(c) == gov[c].phase \in {"idle", "replied", "lost"}

\* The service restarts: calls in it are never replied to.
GovRestarts ==
    /\ gov' = [c \in GovCall |-> IF Settled(c) THEN gov[c]
                                 ELSE [gov[c] EXCEPT !.phase = "lost"]]
    /\ UNCHANGED guard
===============================================================================
