------------------------------ MODULE ChatMessages ------------------------------
(***************************************************************************)
(* The messages of web-app's chat.                                         *)
(***************************************************************************)
CONSTANTS
    Sends,      \* identifiers of messages the user sends
    NoSend

ASSUME ChatMessagesAssumption == NoSend \notin Sends

\* A user's message, and what the log shows of the agent for it: a text,
\* "(empty response)", or an error.
UserMessage(s) == [role |-> "user", kind |-> "text", send |-> s]
AgentMessage(s, kind) == [role |-> "agent", kind |-> kind, send |-> s]

DisplayMessage ==
    {UserMessage(s) : s \in Sends}
        \cup {AgentMessage(s, kind) : s \in Sends, kind \in {"text", "empty", "error"}}
===============================================================================
