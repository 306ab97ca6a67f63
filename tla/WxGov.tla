-------------------------------- MODULE WxGov --------------------------------
(***************************************************************************)
(* wx-gov-api: /evaluate and /mask over watsonx.governance.  Both handlers *)
(* are coroutines that make blocking calls, so one holds the event loop to *)
(* its end, and a call waits for it longer than the filter does.           *)
(***************************************************************************)
EXTENDS GovService

Wx == guard = "wx"

\* Nobody is in a call of watsonx or of IBM Cloud.
WxLoopFree == \A c \in GovCall :
    gov[c].phase \notin {"configure", "metrics", "token", "enforce"}

\* parse_encoded_text_payload, decode_base64_text: the filter encodes what it sends, so
\* that a text is refused only when it is not UTF-8.  (A base64 string that happens to
\* be a JSON number is refused too; that is left out.)
Undecodable(c) == gov[c].text \in Binary

RefusePayload(c) ==
    /\ Wx /\ WxLoopFree
    /\ gov[c].phase = "sent" /\ Undecodable(c)
    /\ Refused(c, "nothing", 400)

Takes(c, endpoint, phase) ==
    /\ Wx /\ WxLoopFree
    /\ At(c, endpoint, "sent") /\ ~ Undecodable(c)
    /\ Enters(c, phase)

-------------------------------------------------------------------------------
(* /evaluate *)

TakeEvaluate(c) == Takes(c, "evaluate", "configure")

\* configure_environment: the service instance is given, or looked up.
Configure(c) ==
    /\ Wx /\ At(c, "evaluate", "configure")
    /\ Enters(c, "metrics")

\* evaluate_text_metrics: a metric without a numeric value is passed over, so the
\* scores over THRESHOLD are perhaps not all there are.
Triggered(text) == SUBSET Findings[text]

\* Mutant of Blocks: one finding is not enough.
BlocksTwo(filters) == \E f, g \in filters : f # g

\* guardrail_response: private data alone blocks nothing.
Blocks(filters) == \E f \in filters : f # "pii"

GuardrailResponse(c) ==
    /\ Wx /\ At(c, "evaluate", "metrics")
    /\ \E filters \in Triggered(gov[c].text) :
        IF Blocks(filters) THEN ReplyWith(c, "judged", filters, 400, "blocked")
        ELSE ReplyWith(c, "judged", filters, 200, "echo")

\* A RuntimeError is a 502; another exception, of requests or of the SDK, a 500.
EvaluationFails(c) ==
    /\ Wx
    /\ At(c, "evaluate", "configure") \/ At(c, "evaluate", "metrics")
    /\ \E status \in {500, 502} : Refused(c, "failed", status)

-------------------------------------------------------------------------------
(* /mask *)

TakeMask(c) == Takes(c, "mask", "token")

\* get_cloud_access_token
AccessToken(c) ==
    /\ Wx /\ At(c, "mask", "token")
    /\ Enters(c, "enforce")

\* enforce_policy, extract_masked_text: the text is returned as a JSON string.
EnforcePolicy(c) ==
    /\ Wx /\ At(c, "mask", "enforce")
    /\ ReplyWith(c, "masked", Findings[gov[c].text], 200, "masked")

\* As in /evaluate; but an answer that is no JSON raises a ValueError, a 400.
MaskingFails(c) ==
    /\ Wx
    /\ At(c, "mask", "token") \/ At(c, "mask", "enforce")
    /\ \E status \in {400, 500, 502} : Refused(c, "failed", status)

WxStep(c) ==
    \/ RefusePayload(c)
    \/ TakeEvaluate(c) \/ Configure(c) \/ GuardrailResponse(c) \/ EvaluationFails(c)
    \/ TakeMask(c) \/ AccessToken(c) \/ EnforcePolicy(c) \/ MaskingFails(c)
===============================================================================
