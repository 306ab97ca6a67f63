----------------------------- MODULE MCConversation -----------------------------
(* Conversation on a small instance: two messages, two attempts. *)
EXTENDS Conversation

MCQueries == Sends \X (1 .. MaxAttempts)
===============================================================================
