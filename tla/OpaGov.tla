-------------------------------- MODULE OpaGov --------------------------------
(***************************************************************************)
(* opa-gov-api: /evaluate and /mask, each a question to OPA, which is      *)
(* awaited.  When OPA gives no usable answer, OPA_FAIL_MODE decides.       *)
(***************************************************************************)
EXTENDS GovService

Opa == guard \in {"open", "closed"}

\* Mutant of FailOpen: the mode is not looked at.
FailOpenAlways == TRUE

\* OpaClientConfig.fail_open: whatever is not "closed" is open.
FailOpen == guard # "closed"

\* read_text_body: the size is looked at first.
TooLong(text) == text \in Long
Unreadable(text) == text \in Binary

\* _load_body_or_400
RefuseBody(c, endpoint) ==
    /\ Opa /\ At(c, endpoint, "sent")
    /\ \/ TooLong(gov[c].text) /\ Refused(c, "nothing", 413)
       \/ /\ ~ TooLong(gov[c].text) /\ Unreadable(gov[c].text)
          /\ Refused(c, "nothing", 400)

\* OpaClient._post
CallOpa(c, endpoint) ==
    /\ Opa /\ At(c, endpoint, "sent")
    /\ ~ TooLong(gov[c].text) /\ ~ Unreadable(gov[c].text)
    /\ Enters(c, "asked")

\* Mutant of IsBlocked: both flags are needed.
IsBlockedByBoth(flags) == "is_injection" \in flags /\ "is_unsafe" \in flags

IsBlocked(flags) == "is_injection" \in flags \/ "is_unsafe" \in flags

\* check_security: a flag OPA leaves out is off.
CheckSecurity(text) == Findings[text] \cap {"is_injection", "is_unsafe"}

\* evaluate
Evaluate(c) ==
    /\ Opa /\ At(c, "evaluate", "asked")
    /\ LET flags == CheckSecurity(gov[c].text)
       IN  IF IsBlocked(flags)
           THEN ReplyWith(c, "judged", flags, 400, "blocked")
           ELSE ReplyWith(c, "judged", flags, 200, "allowed")

\* mask: the policy's result is a string, or an object, which is sent as JSON.
Mask(c) ==
    /\ Opa /\ At(c, "mask", "asked")
    /\ \E body \in {"masked", "object"} :
        ReplyWith(c, "masked", Findings[gov[c].text], 200, body)

\* OpaUpstreamError: no answer in time, an error status, no JSON object, no result in it.
EvaluateFails(c) ==
    /\ Opa /\ At(c, "evaluate", "asked")
    /\ IF FailOpen THEN ReplyWith(c, "failed", {}, 200, "allowed")
       ELSE ReplyWith(c, "failed", {}, 400, "blocked")

\* Mutant of MaskFails: an answer that cannot be masked is withheld in either mode.
MaskFailsClosed(c) ==
    /\ Opa /\ At(c, "mask", "asked")
    /\ Refused(c, "failed", 502)

MaskFails(c) ==
    /\ Opa /\ At(c, "mask", "asked")
    /\ IF FailOpen THEN ReplyWith(c, "failed", {}, 200, "echo")
       ELSE Refused(c, "failed", 502)

OpaStep(c) ==
    \/ \E endpoint \in {"evaluate", "mask"} : RefuseBody(c, endpoint) \/ CallOpa(c, endpoint)
    \/ Evaluate(c) \/ EvaluateFails(c)
    \/ Mask(c) \/ MaskFails(c)
===============================================================================
