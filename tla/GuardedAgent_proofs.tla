-------------------------- MODULE GuardedAgent_proofs --------------------------
(***************************************************************************)
(* Proofs about GuardedAgent, for any queries, texts and findings, and for *)
(* either guardrails service.                                              *)
(*                                                                         *)
(* FilterSound is inductive.  It says what a service's reply allows to     *)
(* conclude about the text it was sent (Verdict), and how far a stream and *)
(* its two calls agree (Linked).  From it follow the three invariants; the *)
(* refinement only needs that the streams are records.                     *)
(***************************************************************************)
EXTENDS GuardedAgent, TLAPS

USE DEF vars

CallType == [endpoint : {"none", "evaluate", "mask"},
             text : Text \cup {NoText},
             phase : {"idle", "sent", "asked", "configure", "metrics", "token", "enforce",
                      "replied", "lost"},
             said : {"nothing", "failed", "judged", "masked"},
             found : SUBSET Finding,
             status : {0, 200, 400, 413, 500, 502},
             body : {"none", "allowed", "blocked", "echo", "masked", "object", "detail"}]

StreamType == [phase : {"idle", "evaluate", "agent", "mask", "reply", "over", "failed"},
               prompt : Text \cup {NoText},
               evaluate : {"none", "skipped", "lost", "heard"},
               answer : Text \cup {NoText},
               mask : {"none", "skipped", "lost", "heard"},
               shown : {"nothing", "answer", "masked", "object", "detail"}]

\* What a reply to /evaluate other than 400 says of a text: nothing was found that
\* blocks, somebody was asked if the service fails closed, and it could be read.
AllowsOnly(g, text, said, found, status) ==
    status # 400 => /\ found \ {"pii"} = {}
                    /\ ~ (said = "failed" /\ g = "closed")
                    /\ text \notin Binary \ Long

\* What the body of a reply to /mask says: the text itself is sent back only by a service
\* that fails open, and an error only for a long text or by one that does not.
MasksWell(g, text, said, body) ==
    /\ body \in {"echo", "masked", "object", "detail"}
    /\ body = "echo" => said = "failed" /\ g = "open"
    /\ body = "detail" => \/ text \in Long /\ g # "wx"
                          \/ said = "failed" /\ g # "open"

Verdict(g, endpoint, text, said, found, status, body) ==
    /\ endpoint = "evaluate" => AllowsOnly(g, text, said, found, status)
    /\ endpoint = "mask" => MasksWell(g, text, said, body)

\* The phases after a text has been read.
InService == {"asked", "configure", "metrics", "token", "enforce"}

CallSound(g, c, call) ==
    /\ call \in CallType
    /\ call.phase # "idle" =>
        /\ call.endpoint = c[1]
        /\ call.text \in Text
        /\ call.endpoint = "mask" => call.text \notin Binary
    /\ call.phase \in InService => call.text \notin Binary
    /\ call.phase = "replied" =>
        Verdict(g, call.endpoint, call.text, call.said, call.found, call.status, call.body)

GovSound ==
    /\ guard \in Guards
    /\ gov \in [GovCall -> CallType]
    /\ \A c \in GovCall : CallSound(guard, c, gov[c])

\* A stream s, with its calls e of /evaluate and m of /mask.
Linked(s, e, m) ==
    /\ s \in StreamType
    /\ s.evaluate = "heard" => e.phase = "replied" /\ e.status # 400
    /\ s.phase \in {"idle", "evaluate", "agent", "mask"} => s.mask = "none"
    /\ s.phase = "mask" => m.text = s.answer
    /\ s.mask = "none" => s.shown = "nothing"
    /\ s.mask = "skipped" => s.shown = "answer"
    /\ s.mask = "heard" => /\ m.phase = "replied"
                           /\ m.text = s.answer
                           /\ s.shown = IF m.body = "echo" THEN "answer" ELSE m.body

StreamsSound ==
    /\ stream \in [Queries -> StreamType]
    /\ \A q \in Queries : Linked(stream[q], gov[EvaluateCall(q)], gov[MaskCall(q)])

FilterSound == GovSound /\ StreamsSound

-------------------------------------------------------------------------------
(* Calls *)

LEMMA CallNames ==
    ASSUME NEW q \in Queries
    PROVE  /\ EvaluateCall(q) \in GovCall /\ EvaluateCall(q)[1] = "evaluate"
           /\ MaskCall(q) \in GovCall /\ MaskCall(q)[1] = "mask"
           /\ \A r \in Queries : /\ EvaluateCall(q) # MaskCall(r)
                                 /\ EvaluateCall(q) = EvaluateCall(r) => q = r
                                 /\ MaskCall(q) = MaskCall(r) => q = r
BY GuardedAgentAssumption DEF EvaluateCall, MaskCall

LEMMA IdleCallSound == \A c \in GovCall : IdleCall \in CallType /\ CallSound(guard, c, IdleCall)
BY DEF IdleCall, CallType, CallSound, InService

\* One call changes.
LEMMA CallStep ==
    ASSUME GovSound, UNCHANGED guard, NEW c \in GovCall, NEW call \in CallType,
           CallSound(guard, c, call),
           gov' = [gov EXCEPT ![c] = call]
    PROVE  GovSound' /\ \A d \in GovCall : gov'[d] = IF d = c THEN call ELSE gov[d]
<1>1. \A d \in GovCall : gov'[d] = IF d = c THEN call ELSE gov[d]
  BY DEF GovSound
<1>2. gov' \in [GovCall -> CallType]
  BY DEF GovSound, CallSound
<1>3. \A d \in GovCall : CallSound(guard, d, gov'[d])
  BY <1>1, Zenon DEF GovSound
<1> QED BY <1>1, <1>2, <1>3 DEF GovSound

\* The filter posts a text that masking can read.
LEMMA PostSound ==
    ASSUME GovSound, UNCHANGED guard, NEW c \in GovCall, NEW text \in Text,
           c[1] \in {"evaluate", "mask"}, c[1] = "mask" => text \notin Binary,
           Post(c, c[1], text)
    PROVE  /\ GovSound'
           /\ gov'[c].text = text /\ gov'[c].phase = "sent"
           /\ \A d \in GovCall : d # c => gov'[d] = gov[d]
<1> DEFINE call == [IdleCall EXCEPT !.endpoint = c[1], !.text = text, !.phase = "sent"]
<1>1. gov' = [gov EXCEPT ![c] = call]
  BY DEF Post
<1>2. call \in CallType /\ call.endpoint = c[1] /\ call.text = text /\ call.phase = "sent"
  BY DEF IdleCall, CallType
<1> HIDE DEF call
<1>3. CallSound(guard, c, call)
  BY <1>2 DEF CallSound, InService
<1>4. GovSound' /\ \A d \in GovCall : gov'[d] = IF d = c THEN call ELSE gov[d]
  BY <1>1, <1>2, <1>3, CallStep
<1> QED BY <1>2, <1>4

-------------------------------------------------------------------------------
(* The services *)

\* A step of a service leaves alone what the filter may have heard, and every text.
Serves ==
    /\ GovSound'
    /\ \A c \in GovCall : /\ gov'[c].text = gov[c].text
                          /\ gov[c].phase # "idle" => gov'[c].phase # "idle"
                          /\ gov[c].phase = "replied" => gov'[c] = gov[c]

\* What is left is a new call.
LEMMA CallServes ==
    ASSUME GovSound, UNCHANGED guard, NEW c \in GovCall, gov[c].phase \notin {"idle", "replied"},
           NEW call \in CallType, CallSound(guard, c, call),
           call.text = gov[c].text, call.phase # "idle", gov' = [gov EXCEPT ![c] = call]
    PROVE  Serves
<1>1. GovSound' /\ \A d \in GovCall : gov'[d] = IF d = c THEN call ELSE gov[d]
  BY CallStep
<1> QED BY <1>1 DEF Serves

LEMMA EntersServes ==
    ASSUME GovSound, NEW c \in GovCall, gov[c].phase \notin {"idle", "replied"},
           gov[c].text \notin Binary, NEW phase \in InService, Enters(c, phase)
    PROVE  Serves
<1> DEFINE call == [gov[c] EXCEPT !.phase = phase]
<1>0. gov[c] \in CallType /\ CallSound(guard, c, gov[c])
  BY DEF GovSound
<1>1. gov' = [gov EXCEPT ![c] = call] /\ UNCHANGED guard
  BY DEF Enters, GovSound
<1>2. /\ call \in CallType /\ call.endpoint = gov[c].endpoint /\ call.text = gov[c].text
      /\ call.phase = phase
  BY <1>0 DEF CallType, InService
<1> HIDE DEF call
<1>3. CallSound(guard, c, call) /\ call.phase # "idle"
  BY <1>0, <1>2 DEF CallSound, InService
<1> QED BY <1>1, <1>2, <1>3, CallServes

LEMMA ReplyServes ==
    ASSUME GovSound, NEW c \in GovCall, gov[c].phase \notin {"idle", "replied"},
           NEW said \in {"nothing", "failed", "judged", "masked"}, NEW found \in SUBSET Finding,
           NEW status \in {200, 400, 413, 500, 502},
           NEW body \in {"allowed", "blocked", "echo", "masked", "object", "detail"},
           Verdict(guard, gov[c].endpoint, gov[c].text, said, found, status, body),
           ReplyWith(c, said, found, status, body)
    PROVE  Serves
<1> DEFINE call == [endpoint |-> gov[c].endpoint, text |-> gov[c].text, phase |-> "replied",
                    said |-> said, found |-> found, status |-> status, body |-> body]
<1>0. gov[c] \in CallType /\ CallSound(guard, c, gov[c])
  BY DEF GovSound
<1>1. gov' = [gov EXCEPT ![c] = call] /\ UNCHANGED guard
  BY DEF ReplyWith, GovSound
<1>2. /\ call \in CallType /\ call.endpoint = gov[c].endpoint /\ call.text = gov[c].text
      /\ call.phase = "replied" /\ call.said = said /\ call.found = found
      /\ call.status = status /\ call.body = body
  BY <1>0 DEF CallType
<1> HIDE DEF call
<1>3. CallSound(guard, c, call)
  BY <1>0, <1>2 DEF CallSound, InService
<1>4. call.phase # "idle"
  BY <1>2
<1> QED BY <1>1, <1>2, <1>3, <1>4, CallServes

LEMMA TextFindings ==
    ASSUME NEW text \in Text
    PROVE  Findings[text] \in SUBSET Finding
BY GovServiceAssumption

LEMMA OpaServes ==
    ASSUME GovSound, NEW c \in GovCall, OpaStep(c)
    PROVE  Serves
<1> DEFINE call == gov[c]
<1>0. /\ call \in CallType /\ CallSound(guard, c, call)
      /\ guard \in {"open", "closed", "wx"}
  BY GovServiceAssumption DEF GovSound
<1>1. ASSUME NEW endpoint \in {"evaluate", "mask"}, RefuseBody(c, endpoint)
      PROVE  Serves
  <2>1. /\ guard # "wx" /\ call.endpoint = endpoint /\ call.phase = "sent"
        /\ \/ call.text \in Long /\ ReplyWith(c, "nothing", {}, 413, "detail")
           \/ call.text \in Binary /\ ReplyWith(c, "nothing", {}, 400, "detail")
    BY <1>1 DEF RefuseBody, Opa, At, TooLong, Unreadable, Refused
  <2>2. CASE call.text \in Long /\ ReplyWith(c, "nothing", {}, 413, "detail")
    <3>1. Verdict(guard, endpoint, call.text, "nothing", {}, 413, "detail")
      BY <2>1, <2>2 DEF Verdict, AllowsOnly, MasksWell
    <3> QED BY <2>1, <2>2, <3>1, ReplyServes
  <2>3. CASE call.text \in Binary /\ ReplyWith(c, "nothing", {}, 400, "detail")
    <3>1. Verdict(guard, endpoint, call.text, "nothing", {}, 400, "detail")
      BY <1>0, <2>1, <2>3 DEF CallSound, Verdict, AllowsOnly, MasksWell
    <3> QED BY <2>1, <2>3, <3>1, ReplyServes
  <2> QED BY <2>1, <2>2, <2>3
<1>2. ASSUME NEW endpoint \in {"evaluate", "mask"}, CallOpa(c, endpoint)
      PROVE  Serves
  BY <1>2, EntersServes DEF CallOpa, At, Unreadable, InService
<1>3. ASSUME Evaluate(c)
      PROVE  Serves
  <2> DEFINE flags == CheckSecurity(call.text)
  <2>1. call.endpoint = "evaluate" /\ call.phase = "asked" /\ call.text \in Text \ Binary
    BY <1>0, <1>3 DEF Evaluate, At, CallSound, InService
  <2>2. flags \in SUBSET Finding
    BY <2>1, TextFindings DEF CheckSecurity
  <2>3. ASSUME IsBlocked(flags)
        PROVE  Serves
    <3>1. Verdict(guard, "evaluate", call.text, "judged", flags, 400, "blocked")
      BY DEF Verdict, AllowsOnly
    <3>2. ReplyWith(c, "judged", flags, 400, "blocked")
      BY <1>3, <2>3 DEF Evaluate
    <3> QED BY <2>1, <2>2, <3>1, <3>2, ReplyServes
  <2>4. ASSUME ~ IsBlocked(flags)
        PROVE  Serves
    <3>1. flags = {}
      BY <2>4 DEF IsBlocked, CheckSecurity
    <3>2. Verdict(guard, "evaluate", call.text, "judged", flags, 200, "allowed")
      BY <2>1, <3>1 DEF Verdict, AllowsOnly
    <3>3. ReplyWith(c, "judged", flags, 200, "allowed")
      BY <1>3, <2>4 DEF Evaluate
    <3> QED BY <2>1, <2>2, <3>2, <3>3, ReplyServes
  <2> QED BY <2>3, <2>4
<1>4. ASSUME Mask(c)
      PROVE  Serves
  <2>1. call.endpoint = "mask" /\ call.phase = "asked" /\ call.text \in Text
    BY <1>0, <1>4 DEF Mask, At, CallSound
  <2>2. PICK body \in {"masked", "object"} :
            ReplyWith(c, "masked", Findings[call.text], 200, body)
    BY <1>4 DEF Mask
  <2>3. Verdict(guard, "mask", call.text, "masked", Findings[call.text], 200, body)
    BY DEF Verdict, MasksWell
  <2> QED BY <2>1, <2>2, <2>3, TextFindings, ReplyServes
<1>5. ASSUME EvaluateFails(c)
      PROVE  Serves
  <2>1. call.endpoint = "evaluate" /\ call.phase = "asked" /\ call.text \in Text \ Binary
    BY <1>0, <1>5 DEF EvaluateFails, At, CallSound, InService
  <2>2. CASE guard = "closed"
    <3>1. Verdict(guard, "evaluate", call.text, "failed", {}, 400, "blocked")
      BY DEF Verdict, AllowsOnly
    <3>2. ReplyWith(c, "failed", {}, 400, "blocked")
      BY <1>5, <2>2 DEF EvaluateFails, FailOpen
    <3> QED BY <2>1, <3>1, <3>2, ReplyServes
  <2>3. CASE guard # "closed"
    <3>1. Verdict(guard, "evaluate", call.text, "failed", {}, 200, "allowed")
      BY <2>1, <2>3 DEF Verdict, AllowsOnly
    <3>2. ReplyWith(c, "failed", {}, 200, "allowed")
      BY <1>5, <2>3 DEF EvaluateFails, FailOpen
    <3> QED BY <2>1, <3>1, <3>2, ReplyServes
  <2> QED BY <2>2, <2>3
<1>6. ASSUME MaskFails(c)
      PROVE  Serves
  <2>1. call.endpoint = "mask" /\ call.phase = "asked" /\ call.text \in Text /\ guard # "wx"
    BY <1>0, <1>6 DEF MaskFails, At, CallSound, Opa
  <2>2. CASE guard = "closed"
    <3>1. Verdict(guard, "mask", call.text, "failed", {}, 502, "detail")
      BY <2>2 DEF Verdict, MasksWell
    <3>2. ReplyWith(c, "failed", {}, 502, "detail")
      BY <1>6, <2>2 DEF MaskFails, FailOpen, Refused
    <3> QED BY <2>1, <3>1, <3>2, ReplyServes
  <2>3. CASE guard # "closed"
    <3>1. Verdict(guard, "mask", call.text, "failed", {}, 200, "echo")
      BY <1>0, <2>1, <2>3 DEF Verdict, MasksWell
    <3>2. ReplyWith(c, "failed", {}, 200, "echo")
      BY <1>6, <2>3 DEF MaskFails, FailOpen
    <3> QED BY <2>1, <3>1, <3>2, ReplyServes
  <2> QED BY <2>2, <2>3
<1> QED BY <1>1, <1>2, <1>3, <1>4, <1>5, <1>6 DEF OpaStep

LEMMA WxServes ==
    ASSUME GovSound, NEW c \in GovCall, WxStep(c)
    PROVE  Serves
<1> DEFINE call == gov[c]
<1>0. /\ call \in CallType /\ CallSound(guard, c, call)
  BY DEF GovSound
<1>1. ASSUME RefusePayload(c)
      PROVE  Serves
  <2>1. /\ call.phase = "sent" /\ call.text \in Binary
        /\ ReplyWith(c, "nothing", {}, 400, "detail")
    BY <1>1 DEF RefusePayload, Undecodable, Refused
  <2>2. Verdict(guard, call.endpoint, call.text, "nothing", {}, 400, "detail")
    BY <1>0, <2>1 DEF CallSound, Verdict, AllowsOnly
  <2> QED BY <2>1, <2>2, ReplyServes
<1>2. ASSUME NEW endpoint \in {"evaluate", "mask"}, NEW phase \in {"configure", "token"},
             Takes(c, endpoint, phase)
      PROVE  Serves
  BY <1>2, EntersServes DEF Takes, At, Undecodable, InService
<1>3. ASSUME Configure(c)
      PROVE  Serves
  <2>1. call.phase = "configure" /\ call.text \notin Binary /\ Enters(c, "metrics")
    BY <1>0, <1>3 DEF Configure, At, CallSound, InService
  <2> QED BY <2>1, EntersServes DEF InService
<1>4. ASSUME GuardrailResponse(c)
      PROVE  Serves
  <2>1. call.endpoint = "evaluate" /\ call.phase = "metrics" /\ call.text \in Text \ Binary
    BY <1>0, <1>4 DEF GuardrailResponse, At, CallSound, InService
  <2>2. PICK filters \in Triggered(call.text) :
            IF Blocks(filters) THEN ReplyWith(c, "judged", filters, 400, "blocked")
            ELSE ReplyWith(c, "judged", filters, 200, "echo")
    BY <1>4 DEF GuardrailResponse
  <2>3. filters \in SUBSET Finding
    BY <2>1, <2>2, TextFindings DEF Triggered
  <2>4. CASE Blocks(filters)
    <3>1. Verdict(guard, "evaluate", call.text, "judged", filters, 400, "blocked")
      BY DEF Verdict, AllowsOnly
    <3> QED BY <2>1, <2>2, <2>3, <2>4, <3>1, ReplyServes
  <2>5. CASE ~ Blocks(filters)
    <3>1. filters \ {"pii"} = {}
      BY <2>5 DEF Blocks
    <3>2. Verdict(guard, "evaluate", call.text, "judged", filters, 200, "echo")
      BY <2>1, <3>1 DEF Verdict, AllowsOnly
    <3> QED BY <2>1, <2>2, <2>3, <2>5, <3>2, ReplyServes
  <2> QED BY <2>4, <2>5
<1>5. ASSUME EvaluationFails(c)
      PROVE  Serves
  <2>1. /\ guard = "wx" /\ call.endpoint = "evaluate" /\ call.phase \in {"configure", "metrics"}
        /\ call.text \in Text \ Binary
    BY <1>0, <1>5 DEF EvaluationFails, Wx, At, CallSound, InService
  <2>2. PICK status \in {500, 502} : ReplyWith(c, "failed", {}, status, "detail")
    BY <1>5 DEF EvaluationFails, Refused
  <2>3. Verdict(guard, "evaluate", call.text, "failed", {}, status, "detail")
    BY <2>1 DEF Verdict, AllowsOnly
  <2> QED BY <2>1, <2>2, <2>3, ReplyServes
<1>6. ASSUME AccessToken(c)
      PROVE  Serves
  <2>1. call.phase = "token" /\ call.text \notin Binary /\ Enters(c, "enforce")
    BY <1>0, <1>6 DEF AccessToken, At, CallSound, InService
  <2> QED BY <2>1, EntersServes DEF InService
<1>7. ASSUME EnforcePolicy(c)
      PROVE  Serves
  <2>1. /\ call.endpoint = "mask" /\ call.phase = "enforce" /\ call.text \in Text
        /\ ReplyWith(c, "masked", Findings[call.text], 200, "masked")
    BY <1>0, <1>7 DEF EnforcePolicy, At, CallSound
  <2>2. Verdict(guard, "mask", call.text, "masked", Findings[call.text], 200, "masked")
    BY DEF Verdict, MasksWell
  <2> QED BY <2>1, <2>2, TextFindings, ReplyServes
<1>8. ASSUME MaskingFails(c)
      PROVE  Serves
  <2>1. guard = "wx" /\ call.endpoint = "mask" /\ call.phase \in {"token", "enforce"}
    BY <1>8 DEF MaskingFails, Wx, At
  <2>2. PICK status \in {400, 500, 502} : ReplyWith(c, "failed", {}, status, "detail")
    BY <1>8 DEF MaskingFails, Refused
  <2>3. Verdict(guard, "mask", call.text, "failed", {}, status, "detail")
    BY <2>1 DEF Verdict, MasksWell
  <2> QED BY <2>1, <2>2, <2>3, ReplyServes
<1> QED BY <1>1, <1>2, <1>3, <1>4, <1>5, <1>6, <1>7, <1>8
        DEF WxStep, TakeEvaluate, TakeMask

\* Calls that were not replied to are lost with a restart.
LEMMA RestartedCall ==
    ASSUME GovSound, GovRestarts, NEW c \in GovCall
    PROVE  /\ gov'[c] \in CallType
           /\ CallSound(guard, c, gov'[c])
           /\ gov'[c].text = gov[c].text
           /\ gov[c].phase # "idle" => gov'[c].phase # "idle"
           /\ gov[c].phase = "replied" => gov'[c] = gov[c]
<1>0. gov'[c] = IF Settled(c) THEN gov[c] ELSE [gov[c] EXCEPT !.phase = "lost"]
  BY DEF GovRestarts
<1>1. gov[c] \in CallType /\ CallSound(guard, c, gov[c])
  BY DEF GovSound
<1>2. CASE Settled(c)
  BY <1>0, <1>1, <1>2
<1>3. CASE ~ Settled(c)
  <2> DEFINE call == [gov[c] EXCEPT !.phase = "lost"]
  <2>1. /\ call \in CallType /\ call.endpoint = gov[c].endpoint /\ call.text = gov[c].text
        /\ call.phase = "lost"
    BY <1>1 DEF CallType
  <2>2. gov'[c] = call /\ gov[c].phase \notin {"idle", "replied"}
    BY <1>0, <1>3 DEF Settled
  <2> HIDE DEF call
  <2>3. CallSound(guard, c, call)
    BY <1>1, <2>1, <2>2 DEF CallSound, InService
  <2> QED BY <2>1, <2>2, <2>3
<1> QED BY <1>2, <1>3

LEMMA RestartServes ==
    ASSUME GovSound, GovRestarts
    PROVE  Serves
<1>1. \A c \in GovCall : gov'[c] \in CallType
  BY RestartedCall
<1>2. gov' \in [GovCall -> CallType] /\ guard' = guard
  BY <1>1 DEF GovRestarts
<1>3. \A c \in GovCall : CallSound(guard, c, gov'[c])
  BY RestartedCall
<1>4. GovSound'
  BY <1>2, <1>3 DEF GovSound
<1>5. \A c \in GovCall : /\ gov'[c].text = gov[c].text
                         /\ gov[c].phase # "idle" => gov'[c].phase # "idle"
                         /\ gov[c].phase = "replied" => gov'[c] = gov[c]
  BY RestartedCall
<1> QED BY <1>4, <1>5 DEF Serves

-------------------------------------------------------------------------------
(* Streams *)

LEMMA IdleStreamLinked == IdleStream \in StreamType /\ \A e, m : Linked(IdleStream, e, m)
BY DEF IdleStream, StreamType, Linked

\* A step of a service: every stream agrees with its calls as before.
LEMMA ServesSound ==
    ASSUME FilterSound, Serves, UNCHANGED stream
    PROVE  FilterSound'
<1>1. ASSUME NEW q \in Queries
      PROVE  Linked(stream[q], gov'[EvaluateCall(q)], gov'[MaskCall(q)])
  BY <1>1, CallNames DEF FilterSound, StreamsSound, Serves, Linked
<1> QED BY <1>1, Zenon DEF FilterSound, StreamsSound, Serves, EvaluateCall, MaskCall

\* A stream changes, and of the calls at most its own.
LEMMA StreamStep ==
    ASSUME FilterSound, GovSound', NEW q \in Queries, NEW s \in StreamType,
           Linked(s, gov'[EvaluateCall(q)], gov'[MaskCall(q)]),
           stream' = [stream EXCEPT ![q] = s],
           \A r \in Queries \ {q} : /\ gov'[EvaluateCall(r)] = gov[EvaluateCall(r)]
                                    /\ gov'[MaskCall(r)] = gov[MaskCall(r)]
    PROVE  FilterSound'
<1>1. \A r \in Queries : stream'[r] = IF r = q THEN s ELSE stream[r]
  BY DEF FilterSound, StreamsSound
<1>2. stream' \in [Queries -> StreamType]
  BY DEF FilterSound, StreamsSound
<1>3. \A r \in Queries : Linked(stream'[r], gov'[EvaluateCall(r)], gov'[MaskCall(r)])
  BY <1>1, Zenon DEF FilterSound, StreamsSound
<1> QED BY <1>2, <1>3, Zenon DEF FilterSound, StreamsSound, EvaluateCall, MaskCall

\* The same with the calls as they were.
LEMMA StreamMoves ==
    ASSUME FilterSound, UNCHANGED <<guard, gov>>, NEW q \in Queries, NEW s \in StreamType,
           Linked(s, gov[EvaluateCall(q)], gov[MaskCall(q)]),
           stream' = [stream EXCEPT ![q] = s]
    PROVE  FilterSound'
<1>1. GovSound'
  BY DEF FilterSound, GovSound
<1> QED BY <1>1, StreamStep

LEMMA TurnsSound ==
    ASSUME FilterSound, NEW q \in Queries, NEW phase \in {"over", "failed"}, Turns(q, phase)
    PROVE  FilterSound'
<1> DEFINE s == [IdleStream EXCEPT !.phase = phase]
<1>1. s \in StreamType /\ s.phase = phase /\ s.evaluate = "none" /\ s.mask = "none"
      /\ s.shown = "nothing"
  BY DEF IdleStream, StreamType
<1>2. stream' = [stream EXCEPT ![q] = s] /\ UNCHANGED <<guard, gov>>
  BY DEF Turns
<1> HIDE DEF s
<1>3. Linked(s, gov[EvaluateCall(q)], gov[MaskCall(q)])
  BY <1>1 DEF Linked
<1> QED BY <1>1, <1>2, <1>3, StreamMoves

LEMMA ReceiveUncheckedSound ==
    ASSUME FilterSound, NEW q \in Queries, NEW prompt \in Prompts, ReceiveUnchecked(q, prompt)
    PROVE  FilterSound'
<1> DEFINE s == [IdleStream EXCEPT !.phase = "agent", !.prompt = prompt, !.evaluate = "skipped"]
<1>1. /\ s \in StreamType /\ s.phase = "agent" /\ s.evaluate = "skipped" /\ s.mask = "none"
      /\ s.shown = "nothing"
  BY GuardedAgentAssumption DEF IdleStream, StreamType
<1>2. stream' = [stream EXCEPT ![q] = s] /\ UNCHANGED <<guard, gov>>
  BY DEF ReceiveUnchecked
<1> HIDE DEF s
<1>3. Linked(s, gov[EvaluateCall(q)], gov[MaskCall(q)])
  BY <1>1 DEF Linked
<1> QED BY <1>1, <1>2, <1>3, StreamMoves

LEMMA CallEvaluateSound ==
    ASSUME FilterSound, NEW q \in Queries, NEW prompt \in Prompts, CallEvaluate(q, prompt)
    PROVE  FilterSound'
<1> DEFINE s == [IdleStream EXCEPT !.phase = "evaluate", !.prompt = prompt]
<1>1. /\ s \in StreamType /\ s.phase = "evaluate" /\ s.evaluate = "none" /\ s.mask = "none"
      /\ s.shown = "nothing"
  BY GuardedAgentAssumption DEF IdleStream, StreamType
<1>2. stream' = [stream EXCEPT ![q] = s] /\ UNCHANGED guard /\ prompt \in Text
  BY GuardedAgentAssumption DEF CallEvaluate
<1> HIDE DEF s
<1>3. GovSound' /\ \A d \in GovCall : d # EvaluateCall(q) => gov'[d] = gov[d]
  BY <1>2, CallNames, PostSound DEF FilterSound, CallEvaluate
<1>4. \A r \in Queries \ {q} : /\ gov'[EvaluateCall(r)] = gov[EvaluateCall(r)]
                               /\ gov'[MaskCall(r)] = gov[MaskCall(r)]
  BY <1>3, CallNames
<1>5. Linked(s, gov'[EvaluateCall(q)], gov'[MaskCall(q)])
  BY <1>1 DEF Linked
<1> QED BY <1>1, <1>2, <1>3, <1>4, <1>5, StreamStep

LEMMA GoneOn ==
    ASSUME NEW s \in StreamType, NEW went \in {"lost", "heard"}
    PROVE  [s EXCEPT !.phase = "agent", !.evaluate = went] \in StreamType
BY DEF StreamType

LEMMA GoesOnSound ==
    ASSUME FilterSound, NEW q \in Queries, NEW went \in {"lost", "heard"}, InPhase(q, "evaluate"),
           went = "heard" => /\ gov[EvaluateCall(q)].phase = "replied"
                             /\ gov[EvaluateCall(q)].status # 400,
           GoesOn(q, went)
    PROVE  FilterSound'
<1> DEFINE s == [stream[q] EXCEPT !.phase = "agent", !.evaluate = went]
<1>0. /\ stream[q] \in StreamType /\ stream[q].phase = "evaluate"
      /\ stream[q].mask = "none" /\ stream[q].shown = "nothing"
  BY DEF FilterSound, StreamsSound, InPhase, Linked
<1>1. s \in StreamType
  BY <1>0, GoneOn
<1>a. /\ s.phase = "agent" /\ s.evaluate = went /\ s.mask = stream[q].mask
      /\ s.shown = stream[q].shown
  BY <1>0 DEF StreamType
<1>2. stream' = [stream EXCEPT ![q] = s] /\ UNCHANGED <<guard, gov>>
  BY DEF GoesOn, FilterSound, StreamsSound
<1> HIDE DEF s
<1>3. Linked(s, gov[EvaluateCall(q)], gov[MaskCall(q)])
  BY <1>0, <1>1, <1>a DEF Linked
<1> QED BY <1>1, <1>2, <1>3, StreamMoves

LEMMA CallMaskSound ==
    ASSUME FilterSound, NEW q \in Queries, NEW answer \in Answers, CallMask(q, answer)
    PROVE  FilterSound'
<1> DEFINE s == [stream[q] EXCEPT !.phase = "mask", !.answer = answer]
<1>0. /\ stream[q] \in StreamType
      /\ Linked(stream[q], gov[EvaluateCall(q)], gov[MaskCall(q)])
      /\ answer \in Text \ Binary
  BY GuardedAgentAssumption DEF FilterSound, StreamsSound, CallMask
<1>a. stream[q].mask = "none" /\ stream[q].shown = "nothing"
  BY <1>0 DEF CallMask, InPhase, Linked
<1>1. /\ s \in StreamType /\ s.phase = "mask" /\ s.evaluate = stream[q].evaluate
      /\ s.mask = "none" /\ s.shown = "nothing" /\ s.answer = answer
  BY <1>0, <1>a DEF StreamType
<1>2. stream' = [stream EXCEPT ![q] = s] /\ UNCHANGED guard
  BY DEF CallMask, FilterSound, StreamsSound
<1> HIDE DEF s
<1>3. /\ GovSound' /\ gov'[MaskCall(q)].text = answer
      /\ \A d \in GovCall : d # MaskCall(q) => gov'[d] = gov[d]
  BY <1>0, <1>2, CallNames, PostSound DEF FilterSound, CallMask
<1>4. /\ \A r \in Queries \ {q} : /\ gov'[EvaluateCall(r)] = gov[EvaluateCall(r)]
                                  /\ gov'[MaskCall(r)] = gov[MaskCall(r)]
      /\ gov'[EvaluateCall(q)] = gov[EvaluateCall(q)]
  BY <1>3, CallNames
<1>5. Linked(s, gov'[EvaluateCall(q)], gov'[MaskCall(q)])
  BY <1>0, <1>1, <1>3, <1>4 DEF Linked
<1> QED BY <1>1, <1>2, <1>3, <1>4, <1>5, StreamStep

LEMMA ReplyUnmaskedSound ==
    ASSUME FilterSound, NEW q \in Queries, NEW answer \in Answers, ReplyUnmasked(q, answer)
    PROVE  FilterSound'
<1> DEFINE s == [stream[q] EXCEPT !.phase = "reply", !.answer = answer, !.mask = "skipped",
                                  !.shown = "answer"]
<1>0. /\ stream[q] \in StreamType
      /\ Linked(stream[q], gov[EvaluateCall(q)], gov[MaskCall(q)])
      /\ answer \in Text \cup {NoText}
  BY GuardedAgentAssumption DEF FilterSound, StreamsSound
<1>1. /\ s \in StreamType /\ s.phase = "reply" /\ s.evaluate = stream[q].evaluate
      /\ s.mask = "skipped" /\ s.shown = "answer"
  BY <1>0 DEF StreamType
<1>2. stream' = [stream EXCEPT ![q] = s] /\ UNCHANGED <<guard, gov>>
  BY DEF ReplyUnmasked, FilterSound, StreamsSound
<1> HIDE DEF s
<1>3. Linked(s, gov[EvaluateCall(q)], gov[MaskCall(q)])
  BY <1>0, <1>1 DEF Linked
<1> QED BY <1>1, <1>2, <1>3, StreamMoves

LEMMA ShowsSound ==
    ASSUME FilterSound, NEW q \in Queries, InPhase(q, "mask"), UNCHANGED <<guard, gov>>,
           NEW went \in {"lost", "heard"},
           NEW shown \in {"answer", "masked", "object", "detail"},
           went = "heard" =>
                /\ gov[MaskCall(q)].phase = "replied"
                /\ shown = IF gov[MaskCall(q)].body = "echo" THEN "answer" ELSE gov[MaskCall(q)].body,
           Shows(q, went, shown)
    PROVE  FilterSound'
<1> DEFINE s == [stream[q] EXCEPT !.phase = "reply", !.mask = went, !.shown = shown]
<1>0. /\ stream[q] \in StreamType /\ stream[q].phase = "mask"
      /\ Linked(stream[q], gov[EvaluateCall(q)], gov[MaskCall(q)])
  BY DEF FilterSound, StreamsSound, InPhase
<1>1. /\ s \in StreamType /\ s.phase = "reply" /\ s.evaluate = stream[q].evaluate
      /\ s.mask = went /\ s.shown = shown /\ s.answer = stream[q].answer
  BY <1>0 DEF StreamType
<1>2. stream' = [stream EXCEPT ![q] = s]
  BY DEF Shows, FilterSound, StreamsSound
<1> HIDE DEF s
<1>3. Linked(s, gov[EvaluateCall(q)], gov[MaskCall(q)])
  BY <1>0, <1>1 DEF Linked
<1> QED BY <1>1, <1>2, <1>3, StreamMoves

\* A reply to /mask that was heard is a verdict on masking.
LEMMA MaskReplied ==
    ASSUME GovSound, NEW q \in Queries, gov[MaskCall(q)].phase = "replied"
    PROVE  MasksWell(guard, gov[MaskCall(q)].text, gov[MaskCall(q)].said, gov[MaskCall(q)].body)
BY CallNames DEF GovSound, CallSound, Verdict

LEMMA EvaluateReplied ==
    ASSUME GovSound, NEW q \in Queries, gov[EvaluateCall(q)].phase = "replied"
    PROVE  AllowsOnly(guard, gov[EvaluateCall(q)].text, gov[EvaluateCall(q)].said,
                      gov[EvaluateCall(q)].found, gov[EvaluateCall(q)].status)
BY CallNames DEF GovSound, CallSound, Verdict

LEMMA ReuseSound ==
    ASSUME FilterSound, NEW q \in Queries, Reuse(q)
    PROVE  FilterSound'
<1>1. \A d \in GovCall : gov'[d] = IF d \in {EvaluateCall(q), MaskCall(q)} THEN IdleCall ELSE gov[d]
  BY CallNames DEF Reuse, FilterSound, GovSound
<1>2. gov' \in [GovCall -> CallType] /\ guard' = guard
  BY CallNames, IdleCallSound DEF Reuse, FilterSound, GovSound
<1>3. \A d \in GovCall : CallSound(guard, d, gov'[d])
  BY <1>1, IdleCallSound, Zenon DEF FilterSound, GovSound
<1>4. GovSound'
  BY <1>2, <1>3 DEF FilterSound, GovSound
<1>5. \A r \in Queries \ {q} : /\ gov'[EvaluateCall(r)] = gov[EvaluateCall(r)]
                               /\ gov'[MaskCall(r)] = gov[MaskCall(r)]
  BY <1>1, CallNames
<1>6. stream' = [stream EXCEPT ![q] = IdleStream]
  BY DEF Reuse
<1> QED BY <1>4, <1>5, <1>6, IdleStreamLinked, StreamStep

LEMMA FilterStep ==
    ASSUME FilterSound, NEW q \in Queries, Filter(q) \/ ClientLeaves(q)
    PROVE  FilterSound'
<1>1. ASSUME NEW phase \in {"over", "failed"}, Turns(q, phase)
      PROVE  FilterSound'
  BY <1>1, TurnsSound
<1>2. CASE EvaluateAllows(q)
  BY <1>2, GoesOnSound DEF EvaluateAllows
<1>3. CASE EvaluateLost(q)
  BY <1>3, GoesOnSound DEF EvaluateLost
<1>4. CASE MaskHeard(q)
  <2> DEFINE call == gov[MaskCall(q)]
             shown == IF call.body = "echo" THEN "answer" ELSE call.body
  <2>1. /\ InPhase(q, "mask") /\ call.phase = "replied" /\ UNCHANGED <<guard, gov>>
        /\ Shows(q, "heard", shown)
    BY <1>4 DEF MaskHeard
  <2>2. call.body \in {"echo", "masked", "object", "detail"}
    BY <2>1, MaskReplied DEF FilterSound, MasksWell
  <2>3. shown \in {"answer", "masked", "object", "detail"}
    BY <2>2
  <2> QED BY <2>1, <2>3, ShowsSound
<1>5. CASE MaskLost(q)
  BY <1>5, ShowsSound DEF MaskLost
<1>6. CASE ClientLeaves(q)
  BY <1>1, <1>6 DEF ClientLeaves
<1>7. CASE EvaluateBlocks(q) \/ AgentGone(q) \/ PassError(q) \/ Delivered(q)
  BY <1>1, <1>7 DEF EvaluateBlocks, AgentGone, PassError, Delivered
<1> QED BY <1>2, <1>3, <1>4, <1>5, <1>6, <1>7 DEF Filter

LEMMA AnswerStopsSound ==
    ASSUME FilterSound, NEW q \in Queries, AnswerStops(q)
    PROVE  FilterSound'
<1>1. CASE AnswerBreaks(q)
  BY <1>1, TurnsSound DEF AnswerBreaks
<1>2. CASE StopUnheard(q)
  BY <1>2, Zenon DEF StopUnheard, FilterSound, GovSound, StreamsSound, EvaluateCall, MaskCall
<1> QED BY <1>1, <1>2, CallMaskSound, ReplyUnmaskedSound DEF AnswerStops

LEMMA AloneSound ==
    ASSUME FilterSound, UNCHANGED <<guard, gov, stream>>
    PROVE  FilterSound'
BY Zenon DEF FilterSound, GovSound, StreamsSound, EvaluateCall, MaskCall

LEMMA StepSound ==
    ASSUME FilterSound, [GuardedNext]_vars
    PROVE  FilterSound'
<1>1. CASE UNCHANGED <<guard, gov, stream>>
  BY <1>1, AloneSound
<1>2. ASSUME NEW q \in Queries,
             \/ \E prompt \in Prompts : ReceiveUnchecked(q, prompt) \/ CallEvaluate(q, prompt)
             \/ ClientLeaves(q) \/ Reuse(q)
             \/ Filter(q) \/ AnswerStops(q)
      PROVE  FilterSound'
  BY <1>2, ReceiveUncheckedSound, CallEvaluateSound, FilterStep, AnswerStopsSound, ReuseSound
<1>3. ASSUME UNCHANGED stream,
             \/ \E c \in GovCall : OpaStep(c) \/ WxStep(c)
             \/ GovRestarts
      PROVE  FilterSound'
  <2>1. Serves
    BY <1>3, OpaServes, WxServes, RestartServes DEF FilterSound
  <2> QED BY <1>3, <2>1, ServesSound
<1> QED BY <1>1, <1>2, <1>3 DEF GuardedNext, Alone

LEMMA FilterStaysSound == GuardedSpec => []FilterSound
<1>1. ASSUME GuardedInit
      PROVE  FilterSound
  <2>1. GovSound
    BY <1>1, IdleCallSound DEF GuardedInit, GovInit, GovSound
  <2>2. StreamsSound
    BY <1>1, IdleStreamLinked DEF GuardedInit, StreamsSound
  <2> QED BY <2>1, <2>2 DEF FilterSound
<1>2. FilterSound /\ [GuardedNext]_vars => FilterSound'
  BY StepSound
<1> QED BY <1>1, <1>2, PTL DEF GuardedSpec

-------------------------------------------------------------------------------
(* The invariants *)

\* What the filter heard refused never reaches the agent (service-defaults-agent-opa-gov.yaml).
THEOREM RefusedStaysOut == GuardedSpec => []RefusedNeverRuns
<1>1. FilterSound => RefusedNeverRuns
  <2> SUFFICES ASSUME FilterSound, NEW q \in Queries, stream[q].evaluate = "heard"
               PROVE  LET call == gov[EvaluateCall(q)]
                      IN  ~ \/ call.found \ {"pii"} # {}
                            \/ call.said = "failed" /\ guard = "closed"
                            \/ call.text \in Binary \ Long
    BY DEF RefusedNeverRuns
  <2>1. gov[EvaluateCall(q)].phase = "replied" /\ gov[EvaluateCall(q)].status # 400
    BY DEF FilterSound, StreamsSound, Linked
  <2> QED BY <2>1, EvaluateReplied DEF FilterSound, AllowsOnly
<1> QED BY <1>1, FilterStaysSound, PTL

\* Private data is shown only where the code says so (opa_gov_api.py:299-311).
THEOREM PrivateStaysMasked == GuardedSpec => []PrivateAnswersMasked
<1>1. FilterSound => PrivateAnswersMasked
  <2> SUFFICES ASSUME FilterSound, NEW q \in Queries, stream[q].shown = "answer",
                      stream[q].mask \notin {"skipped", "lost"}
               PROVE  guard = "open" /\ gov[MaskCall(q)].said = "failed"
    BY DEF PrivateAnswersMasked
  <2>1. Linked(stream[q], gov[EvaluateCall(q)], gov[MaskCall(q)])
    BY DEF FilterSound, StreamsSound
  <2>2. stream[q].mask = "heard"
    BY <2>1 DEF Linked, StreamType
  <2>3. gov[MaskCall(q)].phase = "replied"
    BY <2>1, <2>2 DEF Linked
  <2>4. MasksWell(guard, gov[MaskCall(q)].text, gov[MaskCall(q)].said, gov[MaskCall(q)].body)
    BY <2>3, MaskReplied DEF FilterSound
  <2>5. gov[MaskCall(q)].body = "echo"
    BY <2>1, <2>2, <2>4 DEF Linked, MasksWell
  <2> QED BY <2>4, <2>5 DEF MasksWell
<1> QED BY <1>1, FilterStaysSound, PTL

\* An error replaces an answer only where the code says so (opa_gov_api.py:205-230).
THEOREM AnswersStayKept == GuardedSpec => []AnswersKept
<1>1. FilterSound => AnswersKept
  <2> SUFFICES ASSUME FilterSound, NEW q \in Queries, stream[q].shown = "detail",
                      stream[q].mask # "lost"
               PROVE  \/ stream[q].answer \in Long /\ guard # "wx"
                      \/ guard # "open" /\ gov[MaskCall(q)].said = "failed"
    BY DEF AnswersKept
  <2>1. Linked(stream[q], gov[EvaluateCall(q)], gov[MaskCall(q)])
    BY DEF FilterSound, StreamsSound
  <2>2. stream[q].mask = "heard"
    BY <2>1 DEF Linked, StreamType
  <2>3. gov[MaskCall(q)].phase = "replied" /\ gov[MaskCall(q)].text = stream[q].answer
    BY <2>1, <2>2 DEF Linked
  <2>4. MasksWell(guard, gov[MaskCall(q)].text, gov[MaskCall(q)].said, gov[MaskCall(q)].body)
    BY <2>3, MaskReplied DEF FilterSound
  <2>5. gov[MaskCall(q)].body = "detail"
    BY <2>1, <2>2 DEF Linked
  <2> QED BY <2>3, <2>4, <2>5 DEF MasksWell
<1> QED BY <1>1, FilterStaysSound, PTL

-------------------------------------------------------------------------------
(* The refinement of AgentQueries *)

StreamsTyped == stream \in [Queries -> StreamType]

LEMMA QueryKinds ==
    ASSUME NEW s
    PROVE  /\ s.phase \in {"evaluate", "agent", "mask"} => QueryOf(s) = "received"
           /\ s.phase = "reply" => QueryOf(s) = "stream"
           /\ s.phase \in {"idle", "over", "failed"} => QueryOf(s) = s.phase
BY DEF QueryOf

LEMMA OneQuery ==
    ASSUME NEW q \in Queries, \A r \in Queries \ {q} : stream'[r] = stream[r]
    PROVE  clientQueries' = [clientQueries EXCEPT ![q] = QueryOf(stream'[q])]
<1>1. \A r \in Queries \ {q} : QueryOf(stream'[r]) = QueryOf(stream[r])
  BY Zenon
<1> QED BY <1>1 DEF clientQueries

\* One stream changes, and with it what its client sees.
LEMMA ClientStep ==
    ASSUME StreamsTyped, NEW q \in Queries, NEW s, stream' = [stream EXCEPT ![q] = s]
    PROVE  ClientView!Step(q, QueryOf(stream[q]), QueryOf(s))
<1>1. stream'[q] = s /\ \A r \in Queries \ {q} : stream'[r] = stream[r]
  BY DEF StreamsTyped
<1>2. clientQueries' = [clientQueries EXCEPT ![q] = QueryOf(stream'[q])]
  BY <1>1, OneQuery
<1>3. clientQueries[q] = QueryOf(stream[q])
  BY DEF clientQueries
<1> QED BY <1>1, <1>2, <1>3, Zenon DEF ClientView!Step

\* One that moves between phases its client does not tell apart.
LEMMA ClientUnaware ==
    ASSUME StreamsTyped, NEW q \in Queries, NEW s, stream' = [stream EXCEPT ![q] = s],
           QueryOf(s) = QueryOf(stream[q])
    PROVE  UNCHANGED clientQueries
<1>1. stream'[q] = s /\ \A r \in Queries \ {q} : stream'[r] = stream[r]
  BY DEF StreamsTyped
<1>2. \A r \in Queries : QueryOf(stream'[r]) = QueryOf(stream[r])
  BY <1>1, Zenon
<1> QED BY <1>2, Zenon DEF clientQueries

\* An error, or the end of an answer.
LEMMA TurnsIsAStep ==
    ASSUME StreamsTyped, NEW q \in Queries, NEW phase, Turns(q, phase),
           \/ phase = "failed" /\ stream[q].phase \in {"evaluate", "agent", "mask"}
           \/ phase = "over" /\ stream[q].phase = "reply"
    PROVE  ClientView!Fail(q) \/ ClientView!Stop(q)
<1> DEFINE s == [IdleStream EXCEPT !.phase = phase]
<1>1. s.phase = phase
  BY DEF IdleStream
<1>2. stream' = [stream EXCEPT ![q] = s]
  BY DEF Turns
<1> HIDE DEF s
<1>3. ClientView!Step(q, QueryOf(stream[q]), QueryOf(s))
  BY <1>2, ClientStep
<1>4. \/ QueryOf(stream[q]) = "received" /\ QueryOf(s) = "failed"
      \/ QueryOf(stream[q]) = "stream" /\ QueryOf(s) = "over"
  BY <1>1, QueryKinds
<1> QED BY <1>3, <1>4, Zenon DEF ClientView!Fail, ClientView!Stop

LEMMA ReceivedIsAStep ==
    ASSUME StreamsTyped, NEW q \in Queries, NEW s, stream' = [stream EXCEPT ![q] = s],
           stream[q].phase = "idle", s.phase \in {"evaluate", "agent"}
    PROVE  ClientView!Receive(q)
<1>1. QueryOf(stream[q]) = "idle" /\ QueryOf(s) = "received"
  BY QueryKinds
<1> QED BY <1>1, ClientStep, Zenon DEF ClientView!Receive

LEMMA ReplyIsAStep ==
    ASSUME StreamsTyped, NEW q \in Queries, NEW s, stream' = [stream EXCEPT ![q] = s],
           stream[q].phase \in {"agent", "mask"}, s.phase = "reply"
    PROVE  ClientView!Answer(q)
<1>1. QueryOf(stream[q]) = "received" /\ QueryOf(s) = "stream"
  BY QueryKinds
<1> QED BY <1>1, ClientStep, Zenon DEF ClientView!Answer

LEMMA GoesOnUnseen ==
    ASSUME StreamsTyped, NEW q \in Queries, NEW went, InPhase(q, "evaluate"), GoesOn(q, went)
    PROVE  UNCHANGED clientQueries
<1> DEFINE s == [stream[q] EXCEPT !.phase = "agent", !.evaluate = went]
<1>1. stream[q] \in StreamType /\ stream[q].phase = "evaluate"
  BY DEF StreamsTyped, InPhase
<1>2. s.phase = "agent"
  BY <1>1 DEF StreamType
<1>3. stream' = [stream EXCEPT ![q] = s]
  BY DEF GoesOn, StreamsTyped
<1> HIDE DEF s
<1>4. QueryOf(s) = QueryOf(stream[q])
  BY <1>1, <1>2, QueryKinds
<1> QED BY <1>3, <1>4, ClientUnaware

LEMMA CallMaskUnseen ==
    ASSUME StreamsTyped, NEW q \in Queries, NEW answer, CallMask(q, answer)
    PROVE  UNCHANGED clientQueries
<1> DEFINE s == [stream[q] EXCEPT !.phase = "mask", !.answer = answer]
<1>1. stream[q] \in StreamType /\ stream[q].phase = "agent"
  BY DEF StreamsTyped, CallMask, InPhase
<1>2. s.phase = "mask"
  BY <1>1 DEF StreamType
<1>3. stream' = [stream EXCEPT ![q] = s]
  BY DEF CallMask, StreamsTyped
<1> HIDE DEF s
<1>4. QueryOf(s) = QueryOf(stream[q])
  BY <1>1, <1>2, QueryKinds
<1> QED BY <1>3, <1>4, ClientUnaware

LEMMA ShowsIsAStep ==
    ASSUME StreamsTyped, NEW q \in Queries, NEW went, NEW shown, InPhase(q, "mask"),
           Shows(q, went, shown)
    PROVE  ClientView!Answer(q)
<1> DEFINE s == [stream[q] EXCEPT !.phase = "reply", !.mask = went, !.shown = shown]
<1>1. stream[q] \in StreamType /\ stream[q].phase = "mask"
  BY DEF StreamsTyped, InPhase
<1>2. s.phase = "reply"
  BY <1>1 DEF StreamType
<1>3. stream' = [stream EXCEPT ![q] = s]
  BY DEF Shows, StreamsTyped
<1> HIDE DEF s
<1> QED BY <1>1, <1>2, <1>3, ReplyIsAStep

LEMMA FilterIsAStep ==
    ASSUME StreamsTyped, NEW q \in Queries, Filter(q) \/ ClientLeaves(q)
    PROVE  ClientView!QueriesNext \/ UNCHANGED clientQueries
<1>1. CASE EvaluateAllows(q) \/ EvaluateLost(q)
  BY <1>1, GoesOnUnseen DEF EvaluateAllows, EvaluateLost
<1>2. CASE MaskHeard(q) \/ MaskLost(q)
  BY <1>2, ShowsIsAStep DEF MaskHeard, MaskLost, ClientView!QueriesNext
<1>3. CASE EvaluateBlocks(q) \/ AgentGone(q) \/ PassError(q) \/ Delivered(q) \/ ClientLeaves(q)
  <2>1. PICK phase :
            /\ Turns(q, phase)
            /\ \/ phase = "failed" /\ stream[q].phase \in {"evaluate", "agent", "mask"}
               \/ phase = "over" /\ stream[q].phase = "reply"
    BY <1>3 DEF EvaluateBlocks, AgentGone, PassError, Delivered, ClientLeaves, InPhase
  <2> QED BY <2>1, TurnsIsAStep DEF ClientView!QueriesNext
<1> QED BY <1>1, <1>2, <1>3 DEF Filter

LEMMA EdgesAreSteps ==
    ASSUME StreamsTyped, NEW q \in Queries,
           \/ \E prompt \in Prompts : ReceiveUnchecked(q, prompt) \/ CallEvaluate(q, prompt)
           \/ AnswerStops(q) \/ Reuse(q)
    PROVE  ClientView!QueriesNext \/ UNCHANGED clientQueries
<1>1. ASSUME NEW prompt \in Prompts, ReceiveUnchecked(q, prompt)
      PROVE  ClientView!Receive(q)
  <2> DEFINE s == [IdleStream EXCEPT !.phase = "agent", !.prompt = prompt, !.evaluate = "skipped"]
  <2>1. s.phase = "agent"
    BY DEF IdleStream
  <2>2. stream' = [stream EXCEPT ![q] = s] /\ stream[q].phase = "idle"
    BY <1>1 DEF ReceiveUnchecked, InPhase
  <2> HIDE DEF s
  <2> QED BY <2>1, <2>2, ReceivedIsAStep
<1>2. ASSUME NEW prompt \in Prompts, CallEvaluate(q, prompt)
      PROVE  ClientView!Receive(q)
  <2> DEFINE s == [IdleStream EXCEPT !.phase = "evaluate", !.prompt = prompt]
  <2>1. s.phase = "evaluate"
    BY DEF IdleStream
  <2>2. stream' = [stream EXCEPT ![q] = s] /\ stream[q].phase = "idle"
    BY <1>2 DEF CallEvaluate, InPhase
  <2> HIDE DEF s
  <2> QED BY <2>1, <2>2, ReceivedIsAStep
<1>3. ASSUME NEW answer \in Answers, ReplyUnmasked(q, answer)
      PROVE  ClientView!Answer(q)
  <2> DEFINE s == [stream[q] EXCEPT !.phase = "reply", !.answer = answer, !.mask = "skipped",
                                    !.shown = "answer"]
  <2>1. stream[q] \in StreamType /\ stream[q].phase = "agent"
    BY <1>3 DEF StreamsTyped, ReplyUnmasked, InPhase
  <2>2. s.phase = "reply"
    BY <2>1 DEF StreamType
  <2>3. stream' = [stream EXCEPT ![q] = s]
    BY <1>3 DEF ReplyUnmasked, StreamsTyped
  <2> HIDE DEF s
  <2> QED BY <2>1, <2>2, <2>3, ReplyIsAStep
<1>4. ASSUME AnswerBreaks(q)
      PROVE  ClientView!Fail(q) \/ ClientView!Stop(q)
  BY <1>4, TurnsIsAStep DEF AnswerBreaks, InPhase
<1>5. ASSUME StopUnheard(q)
      PROVE  UNCHANGED clientQueries
  BY <1>5, Zenon DEF StopUnheard, clientQueries
<1>6. ASSUME Reuse(q)
      PROVE  ClientView!Forget(q)
  <2>1. stream' = [stream EXCEPT ![q] = IdleStream] /\ IdleStream.phase = "idle"
    BY <1>6 DEF Reuse, IdleStream
  <2>2. QueryOf(IdleStream) = "idle" /\ QueryOf(stream[q]) \in {"over", "failed"}
    BY <1>6, <2>1, QueryKinds DEF Reuse
  <2>3. ClientView!Step(q, QueryOf(stream[q]), QueryOf(IdleStream))
    BY <2>1, ClientStep
  <2> QED BY <2>2, <2>3, Zenon DEF ClientView!Forget
<1> QED BY <1>1, <1>2, <1>3, <1>4, <1>5, <1>6, CallMaskUnseen
        DEF AnswerStops, ClientView!QueriesNext

\* Behind the filter the client still gets what AgentQueries promises, whatever becomes
\* of the filter's calls (service-defaults-agent-opa-gov.yaml:160-269).
THEOREM FilterIsTransparent == GuardedSpec => FilterKeepsPromise
<1>1. GuardedInit => ClientView!QueriesInit
  <2> SUFFICES ASSUME GuardedInit
               PROVE  clientQueries = [q \in Queries |-> "idle"]
    BY DEF ClientView!QueriesInit
  <2>1. IdleStream.phase = "idle"
    BY DEF IdleStream
  <2>2. QueryOf(IdleStream) = "idle"
    BY <2>1, QueryKinds
  <2> QED BY <2>2 DEF GuardedInit, clientQueries
<1>2. FilterSound /\ [GuardedNext]_vars => [ClientView!QueriesNext]_clientQueries
  <2> SUFFICES ASSUME FilterSound, [GuardedNext]_vars
               PROVE  ClientView!QueriesNext \/ UNCHANGED clientQueries
    OBVIOUS
  <2>1. StreamsTyped
    BY DEF FilterSound, StreamsSound, StreamsTyped
  <2>2. CASE UNCHANGED stream
    BY <2>2, Zenon DEF clientQueries
  <2>3. ASSUME NEW q \in Queries,
               \/ \E prompt \in Prompts : ReceiveUnchecked(q, prompt) \/ CallEvaluate(q, prompt)
               \/ ClientLeaves(q) \/ Reuse(q)
               \/ Filter(q) \/ AnswerStops(q)
        PROVE  ClientView!QueriesNext \/ UNCHANGED clientQueries
    BY <2>1, <2>3, FilterIsAStep, EdgesAreSteps
  <2> QED BY <2>2, <2>3 DEF GuardedNext, Alone
<1> QED BY <1>1, <1>2, FilterStaysSound, PTL
        DEF GuardedSpec, FilterKeepsPromise, ClientView!QueriesSpec

===============================================================================
