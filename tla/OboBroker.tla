------------------------------- MODULE OboBroker -------------------------------
(***************************************************************************)
(* The token-exchange service's OBO path: POST /v1/identity/obo-token,     *)
(* OBOBroker.exchange_obo_token, its cache, and the retried call to IBM    *)
(* Verify (external).                                                      *)
(*                                                                         *)
(* Requests wait in the event loop until their handler runs.  The handler  *)
(* awaits nothing: from authorize_scope to the response, the calls to      *)
(* Verify and the back-off sleeps included, it holds the loop, so one      *)
(* request is served at a time and later ones queue behind it.  Whether    *)
(* the client still listens makes no difference to the handler.            *)
(***************************************************************************)
EXTENDS Identity, TokenCache

CONSTANTS
    Requests,       \* request identifiers
    NoKey,          \* the key of no request
    Lifetimes,      \* lifetimes of the tokens Verify issues
    MaxAttempts     \* tenacity stop_after_attempt

ASSUME BrokerAssumption ==
    /\ MaxAttempts \in Nat \ {0}
    /\ Lifetimes \subseteq Nat
    /\ NoKey \notin CacheKey
    /\ CacheKey \subseteq [subject : Subjects, actor : Actors, scope : SUBSET Scopes]
    /\ Absent \notin Slot(OboToken)

VARIABLES
    req,    \* req[r] : where request r is and what was answered
    obo     \* the broker's TokenCache

brokerVars == <<req, obo>>

\* The VerifyTokenExchangeErrors: Verify answered with a 4xx status other than
\* 401; or with a 5xx, with no JSON, or not at all.
Failure == {"4xx", "other"}

\* An answer to the client: an HTTP status, and the access_token and cached
\* fields of a 200.
Answer == [status : {0, 200, 401, 403, 500}, token : OboToken \cup {NoToken}, cached : BOOLEAN]

Refuse(status) == [status |-> status, token |-> NoToken, cached |-> FALSE]
NoAnswer == Refuse(0)
Grant(token, cached) == [status |-> 200, token |-> token, cached |-> cached]

\* A request record: attempts counts the failed calls to Verify, failure is
\* the last of them.
Request == [phase : {"idle", "queued", "verify", "answered"}, key : CacheKey \cup {NoKey},
            attempts : 0 .. (MaxAttempts - 1), failure : Failure \cup {"none"}, answer : Answer]

IdleRequest == [phase |-> "idle", key |-> NoKey, attempts |-> 0,
                failure |-> "none", answer |-> NoAnswer]

\* Request r answered: what the handler counted is gone with it.
Answered(r, answer) == [phase |-> "answered", key |-> req[r].key, attempts |-> 0,
                        failure |-> "none", answer |-> answer]

AnswerWith(r, answer) == req' = [req EXCEPT ![r] = Answered(r, answer)]

BrokerInit ==
    /\ req = [r \in Requests |-> IdleRequest]
    /\ obo = EmptyCache
    /\ now = 1

-------------------------------------------------------------------------------
(* The client *)

\* A request arrives.  Its scope string is not empty, but may name no scope.
Submit(r, key) ==
    /\ req[r].phase = "idle"
    /\ req' = [req EXCEPT ![r] = [IdleRequest EXCEPT !.phase = "queued", !.key = key]]
    /\ UNCHANGED obo

\* The answer is read, or thrown away because the client is gone.
Deliver(r) ==
    /\ req[r].phase = "answered"
    /\ req' = [req EXCEPT ![r] = IdleRequest]
    /\ UNCHANGED obo

-------------------------------------------------------------------------------
(* The handler *)

\* Mutant of LoopFree: the handler awaits Verify instead of blocking on it.
LoopNeverHeld == TRUE

LoopFree == \A q \in Requests : req[q].phase # "verify"

\* authorize_scope refuses: 403, before the cache is looked at.
Deny(r) ==
    /\ req[r].phase = "queued"
    /\ LoopFree
    /\ ~ AuthorizeScope(req[r].key.subject, req[r].key.scope)
    /\ AnswerWith(r, Refuse(403))
    /\ UNCHANGED obo

\* Mutant of ServeCached: a token of any scope set is served.
ServeCachedUnscoped(r) ==
    /\ req[r].phase = "queued"
    /\ LoopFree
    /\ AuthorizeScope(req[r].key.subject, req[r].key.scope)
    /\ \E k \in CacheKey :
        /\ k.subject = req[r].key.subject /\ k.actor = req[r].key.actor
        /\ Usable(obo, k, now)
        /\ AnswerWith(r, Grant(obo.slot[k].token, TRUE))
        /\ obo' = AfterGet(obo, k, now)

\* A usable cached token is the answer; Verify is not called.
ServeCached(r) ==
    /\ req[r].phase = "queued"
    /\ LoopFree
    /\ AuthorizeScope(req[r].key.subject, req[r].key.scope)
    /\ Usable(obo, req[r].key, now)
    /\ AnswerWith(r, Grant(obo.slot[req[r].key].token, TRUE))
    /\ obo' = AfterGet(obo, req[r].key, now)

\* Mutant of CallVerify: Verify is asked before the policy.
CallVerifyUnauthorized(r) ==
    /\ req[r].phase = "queued"
    /\ LoopFree
    /\ ~ Usable(obo, req[r].key, now)
    /\ req' = [req EXCEPT ![r].phase = "verify"]
    /\ obo' = AfterGet(obo, req[r].key, now)

\* No usable token: the call to Verify goes out.
CallVerify(r) ==
    /\ req[r].phase = "queued"
    /\ LoopFree
    /\ AuthorizeScope(req[r].key.subject, req[r].key.scope)
    /\ ~ Usable(obo, req[r].key, now)
    /\ req' = [req EXCEPT ![r].phase = "verify"]
    /\ obo' = AfterGet(obo, req[r].key, now)

\* Mutant of VerifyIssues: the cache key leaves out the scope.
VerifyIssuesUnscoped(r, token) ==
    /\ AnswerWith(r, Grant(token, FALSE))
    /\ \E k \in CacheKey :
        /\ k.subject = req[r].key.subject /\ k.actor = req[r].key.actor
        /\ obo' = AfterSet(obo, k, token, now)

\* Verify issues a token: it is cached and returned, whatever its lifetime.
VerifyIssues(r, token) ==
    /\ AnswerWith(r, Grant(token, FALSE))
    /\ obo' = AfterSet(obo, req[r].key, token, now)

\* Verify answers 401: VerifyAuthenticationError, which is not retried.
VerifyRejects(r) ==
    /\ AnswerWith(r, Refuse(401))
    /\ UNCHANGED obo

\* Mutants of VerifyFails: one attempt too many; no count at all.
VerifyFailsOnceMore(r, failure) ==
    /\ IF req[r].attempts < MaxAttempts
       THEN req' = [req EXCEPT ![r].attempts = @ + 1, ![r].failure = failure]
       ELSE AnswerWith(r, Refuse(500))
    /\ UNCHANGED obo

VerifyFailsForEver(r, failure) ==
    /\ req' = [req EXCEPT ![r].failure = failure]
    /\ UNCHANGED obo

\* Any other failure is a VerifyTokenExchangeError: retried, then 500.
VerifyFails(r, failure) ==
    /\ IF req[r].attempts + 1 < MaxAttempts
       THEN req' = [req EXCEPT ![r].attempts = @ + 1, ![r].failure = failure]
       ELSE AnswerWith(r, Refuse(500))
    /\ UNCHANGED obo

\* A JSON answer without access_token: KeyError, the route's catch-all 500.
VerifyOmitsToken(r) ==
    /\ AnswerWith(r, Refuse(500))
    /\ UNCHANGED obo

-------------------------------------------------------------------------------
(* IBM Verify, as the service uses it: a token for the subject and the     *)
(* actor it was given, with the requested scopes or some of them.          *)
VerifyGrants(key, exp) ==
    {[subject |-> key.subject, actor |-> key.actor, scope |-> s, exp |-> exp] :
        s \in SUBSET key.scope}

\* A token's exp claim, or 0 when it has none that can be decoded.
Expiries == {now + n : n \in Lifetimes} \cup {0}

VerifyAnswers(r) ==
    /\ req[r].phase = "verify"
    /\ \/ \E exp \in Expiries : \E token \in VerifyGrants(req[r].key, exp) : VerifyIssues(r, token)
       \/ VerifyRejects(r)
       \/ \E failure \in Failure : VerifyFails(r, failure)
       \/ VerifyOmitsToken(r)

Serve(r) == Deny(r) \/ ServeCached(r) \/ CallVerify(r)

\* The process restarts: the cache is in memory only, and the connections of
\* the requests it held are gone.
BrokerRestarts ==
    /\ req' = [r \in Requests |-> IdleRequest]
    /\ obo' = EmptyCache

-------------------------------------------------------------------------------
BrokerNext ==
    \/ \E r \in Requests :
        \/ /\ \/ \E key \in CacheKey : Submit(r, key)
              \/ Serve(r)
              \/ VerifyAnswers(r)
              \/ Deliver(r)
           /\ UNCHANGED now
    \/ BrokerRestarts /\ UNCHANGED now
    \/ Tick /\ UNCHANGED brokerVars

\* Verify answers or the client library's timeout expires (requests, 10 s);
\* the event loop runs queued handlers in turn, so none waits for ever while
\* others are served.
BrokerFairness ==
    \A r \in Requests :
        /\ SF_<<brokerVars, now>>(Serve(r) /\ UNCHANGED now)
        /\ WF_<<brokerVars, now>>(VerifyAnswers(r) /\ UNCHANGED now)

BrokerSafety == BrokerInit /\ [][BrokerNext]_<<brokerVars, now>>
BrokerSpec == BrokerSafety /\ BrokerFairness

-------------------------------------------------------------------------------
(* Correctness *)

BrokerTypeOK ==
    /\ now \in Nat
    /\ req \in [Requests -> Request]
    /\ obo \in Cache(OboToken)

\* A token may be handed to whoever sends this key: it was issued for that
\* subject and actor, carries no scope beyond the requested ones, and the
\* subject's groups entitle every scope of the key.
Entitles(token, key) ==
    /\ token.subject = key.subject
    /\ token.actor = key.actor
    /\ token.scope \subseteq key.scope
    /\ AuthorizeScope(key.subject, key.scope)

\* Different scope sets, subjects and actors never share a cache entry, and
\* nothing is cached for a key its subject is not entitled to (OBOBroker's
\* cache_slot, authorize_scope before the lookup).
CacheSound ==
    \A k \in CacheKey : obo.slot[k] # Absent => Entitles(obo.slot[k].token, k)

\* Whichever way a 200 came about, from the cache or after any number of
\* retries, its token is one the request is entitled to; and Verify is called
\* only for entitled requests.
AnswerSound ==
    \A r \in Requests :
        /\ req[r].phase = "answered" /\ req[r].answer.status = 200 =>
                Entitles(req[r].answer.token, req[r].key)
        /\ req[r].phase = "verify" => AuthorizeScope(req[r].key.subject, req[r].key.scope)

\* Single flight: while a call to Verify is out for a key, no usable token for
\* that key is cached, so the call is never redundant and its answer never
\* replaces a usable token - also when a client gave up and asked again.
ExchangeOnlyWhenMissing ==
    \A r \in Requests : req[r].phase = "verify" => ~ Usable(obo, req[r].key, now)

\* The cache never holds more than maxsize entries.
CacheBounded == Cardinality(Stored(obo)) <= CacheMaxSize

\* The recency order of the cache stays a strict total order of what it holds,
\* so there is one least recently used entry to evict.
RecencyTotal == Ordered(obo.older, Stored(obo))

\* A token served from the cache outlives the moment it is served by more than
\* the safety buffer, however long the request waited in the queue.
CachedAnswerFresh ==
    [][\A r \in Requests :
        req[r].phase = "queued" /\ req'[r].phase = "answered" /\ req'[r].answer.cached
            => now + SafetyBuffer < req'[r].answer.token.exp]_<<brokerVars, now>>

\* A usable token leaves the cache only with time, with the process or to make
\* room, and then it is the least recently used and a new key takes its place:
\* never because some other key was refused, retried, replaced or near expiry.
UsableKept ==
    [][\A k \in CacheKey :
        Usable(obo, k, now) /\ ~ Usable(obo', k, now') =>
            \/ now' # now
            \/ req' = [r \in Requests |-> IdleRequest]
            \/ LET live == Stored(Expire(obo, now))
               IN  /\ Cardinality(live) = CacheMaxSize
                   /\ Stored(obo') \ live # {}
                   /\ \A j \in live \ {k} : <<k, j>> \in obo.older]_<<brokerVars, now>>

\* Every request is answered, or lost with the process, though its
\* predecessors' retries hold the loop.
EveryRequestAnswered ==
    \A r \in Requests : req[r].phase = "queued" ~> req[r].phase \in {"answered", "idle"}
===============================================================================
