------------------------------ MODULE AgentQueries ------------------------------
(***************************************************************************)
(* What POST /v1/agent/query of ai-agent promises: a query ends in an      *)
(* error status or in one streamed answer.                                 *)
(***************************************************************************)
CONSTANT Queries        \* identifiers of requests

VARIABLE query          \* query[q] goes idle, received, stream, over; or failed

QueriesInit == query = [q \in Queries |-> "idle"]

Running(q) == query[q] \in {"received", "stream"}

Step(q, from, to) == query[q] = from /\ query' = [query EXCEPT ![q] = to]

Receive(q) == Step(q, "idle", "received")

\* An error status.
Fail(q) == Step(q, "received", "failed")

\* 200, and a stream whose end says nothing about its success.
Answer(q) == Step(q, "received", "stream")
Stop(q) == Step(q, "stream", "over")

\* The identifier is used again.
Forget(q) == \E end \in {"over", "failed"} : Step(q, end, "idle")

\* Streams break off; the others get no answer.
AgentRestarts ==
    query' = [q \in Queries |-> CASE query[q] = "stream" -> "over"
                                  [] query[q] = "received" -> "failed"
                                  [] OTHER -> query[q]]

QueriesNext ==
    \/ \E q \in Queries : Receive(q) \/ Fail(q) \/ Answer(q) \/ Stop(q) \/ Forget(q)
    \/ AgentRestarts

QueriesSpec == QueriesInit /\ [][QueriesNext]_query
===============================================================================
