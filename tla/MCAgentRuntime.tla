----------------------------- MODULE MCAgentRuntime -----------------------------
(* AgentRuntime on a small instance. *)
EXTENDS AgentRuntime

MCResponses ==
    {<<"tool">>, <<"unknown">>, <<"tool", "tool">>, <<"tool", "unknown">>,
     <<"unknown", "shell">>, <<"tool", "malformed">>}
===============================================================================
