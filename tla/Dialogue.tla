-------------------------------- MODULE Dialogue --------------------------------
(***************************************************************************)
(* What the chat shows its user: one question at a time, each closed by    *)
(* one answer, an error, or an answer cut off by an error, and nothing     *)
(* else, until the conversation is cleared.  Clearing closes the question; *)
(* what had come of its answer may still be written, with an error, once.  *)
(***************************************************************************)
EXTENDS ChatMessages, Sequences

VARIABLES
    talk,       \* what is written
    asked,      \* the question that is open
    cleared     \* the question the conversation was cleared on

\* How a question is closed, and how when it was cut off.
Cut(q) == {<<AgentMessage(q, "error")>>, <<AgentMessage(q, "text"), AgentMessage(q, "error")>>}
Closings(q) == {<<AgentMessage(q, "text")>>, <<AgentMessage(q, "empty")>>} \cup Cut(q)

Init == talk = <<>> /\ asked = NoSend /\ cleared = NoSend

Ask(q) ==
    /\ asked = NoSend /\ cleared = NoSend
    /\ talk' = Append(talk, UserMessage(q))
    /\ asked' = q
    /\ UNCHANGED cleared

Close ==
    /\ asked # NoSend
    /\ \E closing \in Closings(asked) : talk' = talk \o closing
    /\ asked' = NoSend
    /\ UNCHANGED cleared

Clear ==
    /\ cleared = NoSend
    /\ talk' = <<>>
    /\ cleared' = asked
    /\ asked' = NoSend

Trail ==
    /\ cleared # NoSend
    /\ \E closing \in Cut(cleared) : talk' = talk \o closing
    /\ cleared' = NoSend
    /\ UNCHANGED asked

StartOver == talk' = <<>> /\ asked' = NoSend /\ cleared' = NoSend

Next == (\E q \in Sends : Ask(q)) \/ Close \/ Clear \/ Trail \/ StartOver

Spec == Init /\ [][Next]_<<talk, asked, cleared>>
===============================================================================
