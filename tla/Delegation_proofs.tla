---------------------------- MODULE Delegation_proofs ----------------------------
(***************************************************************************)
(* Proofs about OboBroker, and about Delegation which composes it with the *)
(* agent and user-mcp, for any number of requests or calls, any keys,      *)
(* subjects, actors, scopes, tools and tokens, any TTL, cache size,        *)
(* buffer, lifetimes and number of attempts.                               *)
(*                                                                         *)
(* The broker:                                                             *)
(*   Sound         types, CacheSound and AnswerSound together with the     *)
(*                 fact that a request past "idle" has a key: inductive    *)
(*   SingleFlight  at most one request is with Verify, and no usable token *)
(*                 is cached for its key: inductive relative to Sound      *)
(*   WellKept      the cache is ordered by recency and within its size:    *)
(*                 inductive relative to Sound                             *)
(* That a usable token is kept follows from the three together.            *)
(*                                                                         *)
(* The path: every step of the composition is a step of the broker or      *)
(* leaves it alone, so what is shown of the broker holds of the path.      *)
(*   PathSound     of each call, what its record, its request at the       *)
(*                 broker and its tools/call at user-mcp have to do with   *)
(*                 each other: inductive relative to Sound                 *)
(***************************************************************************)
EXTENDS Delegation, TokenCache_proofs

USE DEF brokerVars, agentVars, vars

-------------------------------------------------------------------------------
(* Types and soundness *)

\* A request past "idle" has a key.
HasKey == \A r \in Requests : req[r].phase # "idle" => req[r].key \in CacheKey

\* A 200 has a token.
HasToken ==
    \A r \in Requests :
        req[r].phase = "answered" /\ req[r].answer.status = 200 => req[r].answer.token \in OboToken

Sound == BrokerTypeOK /\ HasKey /\ HasToken /\ CacheSound /\ AnswerSound

\* What AnswerSound asks of one request record.
RequestSound(q) ==
    /\ q \in Request
    /\ q.phase # "idle" => q.key \in CacheKey
    /\ q.phase = "answered" /\ q.answer.status = 200 =>
            q.answer.token \in OboToken /\ Entitles(q.answer.token, q.key)
    /\ q.phase = "verify" => AuthorizeScope(q.key.subject, q.key.scope)

\* ... and CacheSound and the types of one cache.
StoreSound(cache) ==
    /\ cache \in Cache(OboToken)
    /\ \A k \in CacheKey : cache.slot[k] # Absent => Entitles(cache.slot[k].token, k)

\* Sound, request by request.
LEMMA SoundByParts ==
    Sound <=> /\ now \in Nat
              /\ req \in [Requests -> Request]
              /\ \A r \in Requests : RequestSound(req[r])
              /\ StoreSound(obo)
BY DEF Sound, BrokerTypeOK, HasKey, HasToken, CacheSound, AnswerSound, RequestSound, StoreSound

\* The records the actions put in place of a request.
LEMMA IdleSound == IdleRequest \in Request /\ RequestSound(IdleRequest)
<1>1. 0 \in 0 .. (MaxAttempts - 1)
  BY BrokerAssumption
<1> QED BY <1>1 DEF IdleRequest, RequestSound, Request, Answer, NoAnswer, Refuse, Failure

LEMMA RefusalSound ==
    ASSUME NEW r \in Requests, NEW status \in {401, 403, 500},
           req[r].key \in CacheKey
    PROVE  /\ Answered(r, Refuse(status)) \in Request
           /\ RequestSound(Answered(r, Refuse(status)))
<1>1. 0 \in 0 .. (MaxAttempts - 1)
  BY BrokerAssumption
<1>2. Refuse(status) \in Answer /\ Refuse(status).status # 200
  BY DEF Refuse, Answer
<1> QED BY <1>1, <1>2 DEF Answered, RequestSound, Request, Failure

LEMMA GrantSound ==
    ASSUME NEW r \in Requests, NEW token \in OboToken, NEW cached \in BOOLEAN,
           req[r].key \in CacheKey, Entitles(token, req[r].key)
    PROVE  /\ Answered(r, Grant(token, cached)) \in Request
           /\ RequestSound(Answered(r, Grant(token, cached)))
<1>1. 0 \in 0 .. (MaxAttempts - 1)
  BY BrokerAssumption
<1>2. Grant(token, cached) \in Answer /\ Grant(token, cached).token = token
  BY DEF Grant, Answer
<1> QED BY <1>1, <1>2 DEF Answered, RequestSound, Request, Failure

\* Replacing one request by a sound one keeps them all sound.
LEMMA ReplaceRequest ==
    ASSUME Sound, NEW r \in Requests, NEW q \in Request, RequestSound(q),
           req' = [req EXCEPT ![r] = q]
    PROVE  req' \in [Requests -> Request] /\ \A p \in Requests : RequestSound(req'[p])
<1>1. req \in [Requests -> Request] /\ \A p \in Requests : RequestSound(req[p])
  BY SoundByParts
<1>2. \A p \in Requests : req'[p] = IF p = r THEN q ELSE req[p]
  BY <1>1
<1> QED BY <1>1, <1>2

LEMMA SoundByPartsNext ==
    ASSUME now' \in Nat, req' \in [Requests -> Request],
           \A r \in Requests : RequestSound(req'[r]), StoreSound(obo')
    PROVE  Sound'
BY DEF Sound, BrokerTypeOK, HasKey, HasToken, CacheSound, AnswerSound, RequestSound, StoreSound

\* A cache that only lost entries is as sound as before.
LEMMA ShrinkSound ==
    ASSUME NEW old, StoreSound(old), NEW new \in Cache(OboToken),
           \A k \in CacheKey : new.slot[k] \in {old.slot[k], Absent}
    PROVE  StoreSound(new)
BY DEF StoreSound

\* One request's record and the cache change.
LEMMA SoundStep ==
    ASSUME Sound, now' = now, NEW r \in Requests, NEW q \in Request, RequestSound(q),
           req' = [req EXCEPT ![r] = q], StoreSound(obo')
    PROVE  Sound'
BY SoundByParts, ReplaceRequest, SoundByPartsNext

\* ... or the request's record only.
LEMMA SoundReqStep ==
    ASSUME Sound, now' = now, NEW r \in Requests, NEW q \in Request, RequestSound(q),
           req' = [req EXCEPT ![r] = q], UNCHANGED obo
    PROVE  Sound'
BY SoundByParts, SoundStep

LEMMA SoundInit == BrokerInit => Sound
<1> SUFFICES ASSUME BrokerInit
             PROVE  Sound
  OBVIOUS
<1>1. StoreSound(obo)
  BY DEF BrokerInit, StoreSound, EmptyCache, Cache
<1>2. req \in [Requests -> Request] /\ \A r \in Requests : RequestSound(req[r])
  BY IdleSound DEF BrokerInit
<1>3. now \in Nat
  BY DEF BrokerInit
<1> QED BY <1>1, <1>2, <1>3, SoundByParts

\* The handler's steps.
LEMMA SoundServe ==
    ASSUME Sound, now' = now, NEW r \in Requests, Serve(r)
    PROVE  Sound'
<1>0. /\ req \in [Requests -> Request]
      /\ req[r] \in Request
      /\ RequestSound(req[r])
      /\ StoreSound(obo)
      /\ obo \in Cache(OboToken)
      /\ now \in Nat
  BY SoundByParts DEF StoreSound
<1>1. req[r].phase = "queued" /\ req[r].key \in CacheKey
  BY <1>0 DEF Serve, Deny, ServeCached, CallVerify, RequestSound
<1>2. /\ AfterGet(obo, req[r].key, now) \in Cache(OboToken)
      /\ StoreSound(AfterGet(obo, req[r].key, now))
  BY <1>0, <1>1, AfterGetShape, ShrinkSound
<1>3. CASE Deny(r)
  <2>1. UNCHANGED obo /\ AnswerWith(r, Refuse(403))
    BY <1>3 DEF Deny
  <2>2. Answered(r, Refuse(403)) \in Request /\ RequestSound(Answered(r, Refuse(403)))
    BY <1>1, RefusalSound
  <2> QED BY <2>1, <2>2, SoundReqStep DEF AnswerWith
<1>4. CASE ServeCached(r)
  <2>1. /\ AnswerWith(r, Grant(obo.slot[req[r].key].token, TRUE))
        /\ obo.slot[req[r].key] # Absent
        /\ obo' = AfterGet(obo, req[r].key, now)
    BY <1>4 DEF ServeCached, Usable, Present
  <2>2. /\ obo.slot[req[r].key].token \in OboToken
        /\ Entitles(obo.slot[req[r].key].token, req[r].key)
    BY <1>0, <1>1, <2>1 DEF StoreSound, Cache, Slot
  <2> QED BY <1>1, <1>2, <2>1, <2>2, GrantSound, SoundStep DEF AnswerWith
<1>5. CASE CallVerify(r)
  <2> DEFINE q == [req[r] EXCEPT !.phase = "verify"]
  <2>1. /\ req' = [req EXCEPT ![r] = q]
        /\ AuthorizeScope(req[r].key.subject, req[r].key.scope)
        /\ obo' = AfterGet(obo, req[r].key, now)
    BY <1>5 DEF CallVerify
  <2>2. q \in Request /\ RequestSound(q)
    BY <1>0, <1>1, <2>1 DEF Request, RequestSound
  <2> QED BY <1>2, <2>1, <2>2, SoundStep
<1> QED BY <1>3, <1>4, <1>5 DEF Serve

\* The steps that end or repeat a call to Verify.
LEMMA SoundVerify ==
    ASSUME Sound, now' = now, NEW r \in Requests, VerifyAnswers(r)
    PROVE  Sound'
<1>0. /\ req[r] \in Request
      /\ RequestSound(req[r])
      /\ StoreSound(obo)
      /\ obo \in Cache(OboToken)
      /\ now \in Nat
  BY SoundByParts DEF StoreSound
<1>1. /\ req[r].phase = "verify"
      /\ req[r].key \in CacheKey
      /\ AuthorizeScope(req[r].key.subject, req[r].key.scope)
  BY <1>0 DEF VerifyAnswers, RequestSound
<1>2. ASSUME NEW exp \in Expiries, NEW token \in VerifyGrants(req[r].key, exp),
             VerifyIssues(r, token)
      PROVE  Sound'
  <2>1. exp \in Nat
    BY <1>0, BrokerAssumption DEF Expiries
  <2>2. token \in OboToken /\ Entitles(token, req[r].key)
    <3>1. /\ req[r].key.subject \in Subjects
          /\ req[r].key.actor \in Actors
          /\ req[r].key.scope \in SUBSET Scopes
      BY <1>1, BrokerAssumption
    <3> QED BY <1>1, <2>1, <3>1 DEF VerifyGrants, OboToken, Entitles
  <2>3. StoreSound(Store(obo, req[r].key, token, now))
    <3>1. /\ Store(obo, req[r].key, token, now) \in Cache(OboToken)
          /\ Store(obo, req[r].key, token, now).slot[req[r].key]
                = [token |-> token, expires |-> now + CacheTtl]
          /\ \A j \in CacheKey \ {req[r].key} :
                Store(obo, req[r].key, token, now).slot[j] \in {obo.slot[j], Absent}
      BY <1>0, <1>1, <2>2, StoreShape
    <3> QED BY <1>0, <1>1, <2>2, <3>1 DEF StoreSound
  <2> QED BY <1>1, <1>2, <2>2, <2>3, GrantSound, SoundStep DEF VerifyIssues, AfterSet, AnswerWith
<1>3. ASSUME NEW status \in {401, 500}, AnswerWith(r, Refuse(status)), UNCHANGED obo
      PROVE  Sound'
  <2>1. /\ Answered(r, Refuse(status)) \in Request
        /\ RequestSound(Answered(r, Refuse(status)))
    BY <1>1, RefusalSound
  <2> QED BY <1>3, <2>1, SoundReqStep DEF AnswerWith
<1>4. ASSUME NEW failure \in Failure, VerifyFails(r, failure)
      PROVE  Sound'
  <2>1. CASE req[r].attempts + 1 < MaxAttempts
    <3> DEFINE q == [req[r] EXCEPT !.attempts = @ + 1, !.failure = failure]
    <3>1. req' = [req EXCEPT ![r] = q]
      BY <1>4, <2>1 DEF VerifyFails
    <3>2. req[r].attempts + 1 \in 0 .. (MaxAttempts - 1)
      BY <1>0, <2>1, BrokerAssumption DEF Request
    <3>3. q \in Request /\ RequestSound(q)
      BY <1>0, <1>1, <3>2 DEF Request, RequestSound
    <3> QED BY <1>4, <3>1, <3>3, SoundReqStep DEF VerifyFails
  <2>2. CASE ~ (req[r].attempts + 1 < MaxAttempts)
    BY <1>3, <1>4, <2>2 DEF VerifyFails
  <2> QED BY <2>1, <2>2
<1> QED BY <1>2, <1>3, <1>4 DEF VerifyAnswers, VerifyRejects, VerifyOmitsToken

LEMMA SoundNext == Sound /\ [BrokerNext]_<<brokerVars, now>> => Sound'
<1> SUFFICES ASSUME Sound, [BrokerNext]_<<brokerVars, now>>
             PROVE  Sound'
  OBVIOUS
<1>0. /\ now \in Nat
      /\ req \in [Requests -> Request]
      /\ \A r \in Requests : RequestSound(req[r])
      /\ StoreSound(obo)
  BY SoundByParts
<1>1. ASSUME NEW r \in Requests, NEW key \in CacheKey, Submit(r, key), UNCHANGED now
      PROVE  Sound'
  <2> DEFINE q == [IdleRequest EXCEPT !.phase = "queued", !.key = key]
  <2>1. q \in Request /\ RequestSound(q)
    BY IdleSound DEF Request, RequestSound
  <2> QED BY <1>1, <2>1, SoundReqStep DEF Submit
<1>2. ASSUME NEW r \in Requests, Serve(r), UNCHANGED now
      PROVE  Sound'
  BY <1>2, SoundServe
<1>3. ASSUME NEW r \in Requests, VerifyAnswers(r), UNCHANGED now
      PROVE  Sound'
  BY <1>3, SoundVerify
<1>4. ASSUME NEW r \in Requests, Deliver(r), UNCHANGED now
      PROVE  Sound'
  BY <1>4, IdleSound, SoundReqStep DEF Deliver
<1>5. CASE BrokerRestarts /\ UNCHANGED now
  <2>1. StoreSound(obo')
    BY <1>5 DEF BrokerRestarts, StoreSound, EmptyCache, Cache
  <2>2. req' \in [Requests -> Request] /\ \A r \in Requests : RequestSound(req'[r])
    BY <1>5, IdleSound DEF BrokerRestarts
  <2> QED BY <1>0, <1>5, <2>1, <2>2, SoundByPartsNext
<1>6. CASE Tick /\ UNCHANGED brokerVars
  BY <1>0, <1>6, SoundByPartsNext DEF Tick
<1>7. CASE UNCHANGED <<brokerVars, now>>
  BY <1>0, <1>7, SoundByPartsNext
<1> QED BY <1>1, <1>2, <1>3, <1>4, <1>5, <1>6, <1>7 DEF BrokerNext

LEMMA AlwaysSound == BrokerSafety => []Sound
<1>1. BrokerInit => Sound
  BY SoundInit
<1>2. Sound /\ [BrokerNext]_<<brokerVars, now>> => Sound'
  BY SoundNext
<1> QED BY <1>1, <1>2, PTL DEF BrokerSafety

\* Requests, answers and the cache keep their types: in particular no more
\* attempts are counted than tenacity makes.
THEOREM BrokerTypeCorrect == BrokerSafety => []BrokerTypeOK
<1>1. Sound => BrokerTypeOK
  BY DEF Sound
<1> QED BY <1>1, AlwaysSound, PTL

\* OBOBroker's cache never mixes subjects, actors or scope sets and holds
\* nothing the policy would refuse.
THEOREM CacheSoundness == BrokerSafety => []CacheSound
<1>1. Sound => CacheSound
  BY DEF Sound
<1> QED BY <1>1, AlwaysSound, PTL

\* exchange_obo_token answers nobody with a token they are not entitled to,
\* and asks Verify only for entitled requests.
THEOREM AnswerSoundness == BrokerSafety => []AnswerSound
<1>1. Sound => AnswerSound
  BY DEF Sound
<1> QED BY <1>1, AlwaysSound, PTL

-------------------------------------------------------------------------------
(* Single flight *)

\* At most one request is with Verify.
OneFlight == \A q, r \in Requests : req[q].phase = "verify" /\ req[r].phase = "verify" => q = r

SingleFlight == OneFlight /\ ExchangeOnlyWhenMissing

\* A get that finds nothing usable leaves nothing usable.
LEMMA MissLeavesNothing ==
    ASSUME NEW cache \in Cache(OboToken), NEW k \in CacheKey, NEW time, ~ Usable(cache, k, time)
    PROVE  ~ Usable(AfterGet(cache, k, time), k, time)
<1>1. CASE Present(cache, k, time)
  <2>1. AfterGet(cache, k, time) = Drop(cache, {k})
    BY <1>1 DEF AfterGet
  <2>2. Drop(cache, {k}).slot[k] = Absent
    BY DropShape
  <2> QED BY <2>1, <2>2 DEF Usable, Present
<1>2. CASE ~ Present(cache, k, time)
  BY <1>2 DEF AfterGet
<1> QED BY <1>1, <1>2

\* What is not usable does not become so with time.
LEMMA UsableNoLonger ==
    ASSUME NEW cache \in Cache(OboToken), NEW k \in CacheKey, NEW time \in Nat,
           Usable(cache, k, time + 1)
    PROVE  Usable(cache, k, time)
<1>1. cache.slot[k] \in Slot(OboToken)
  BY DEF Usable, Present, Cache
<1>2. cache.slot[k].expires \in Nat /\ cache.slot[k].token.exp \in Nat
  BY <1>1 DEF Slot, OboToken
<1> QED BY <1>2, TokenCacheAssumption DEF Usable, Present, IsTokenValid

LEMMA SingleFlightInit == BrokerInit => SingleFlight
BY DEF BrokerInit, IdleRequest, SingleFlight, OneFlight, ExchangeOnlyWhenMissing

\* One request leaves Verify, or was never there: the others are as they were.
LEMMA FlightEnds ==
    ASSUME Sound, SingleFlight, now' = now, NEW r \in Requests, NEW q, q.phase # "verify",
           req' = [req EXCEPT ![r] = q],
           UNCHANGED obo \/ LoopFree \/ req[r].phase = "verify"
    PROVE  SingleFlight'
<1>1. req \in [Requests -> Request]
  BY DEF Sound, BrokerTypeOK
<1>2. \A p \in Requests : req'[p] = IF p = r THEN q ELSE req[p]
  BY <1>1
<1>3. \A p \in Requests : req'[p].phase = "verify" => p # r /\ req[p] = req'[p] /\ UNCHANGED obo
  BY <1>2 DEF SingleFlight, OneFlight, LoopFree
<1> QED BY <1>3 DEF SingleFlight, OneFlight, ExchangeOnlyWhenMissing

LEMMA SingleFlightNext ==
    Sound /\ SingleFlight /\ [BrokerNext]_<<brokerVars, now>> => SingleFlight'
<1> SUFFICES ASSUME Sound, SingleFlight, [BrokerNext]_<<brokerVars, now>>
             PROVE  SingleFlight'
  OBVIOUS
<1>0. /\ now \in Nat
      /\ req \in [Requests -> Request]
      /\ obo \in Cache(OboToken)
      /\ \A r \in Requests : req[r].phase # "idle" => req[r].key \in CacheKey
  BY DEF Sound, BrokerTypeOK, HasKey
<1>1. ASSUME NEW r \in Requests, NEW key \in CacheKey, Submit(r, key), UNCHANGED now
      PROVE  SingleFlight'
  <2>1. [IdleRequest EXCEPT !.phase = "queued", !.key = key].phase = "queued"
    BY DEF IdleRequest
  <2> QED BY <1>1, <2>1, FlightEnds DEF Submit
<1>2. ASSUME NEW r \in Requests, NEW answer, AnswerWith(r, answer), UNCHANGED now,
             UNCHANGED obo \/ LoopFree \/ req[r].phase = "verify"
      PROVE  SingleFlight'
  <2>1. Answered(r, answer).phase = "answered"
    BY DEF Answered
  <2> QED BY <1>2, <2>1, FlightEnds DEF AnswerWith
<1>3. ASSUME NEW r \in Requests, CallVerify(r), UNCHANGED now
      PROVE  SingleFlight'
  <2>1. \A p \in Requests : p # r => req'[p].phase # "verify"
    BY <1>0, <1>3 DEF CallVerify, LoopFree
  <2>2. req[r].key \in CacheKey /\ req'[r].key = req[r].key
    BY <1>0, <1>3 DEF CallVerify, Request
  <2>3. ~ Usable(obo', req'[r].key, now')
    BY <1>0, <1>3, <2>2, MissLeavesNothing DEF CallVerify
  <2> QED BY <2>1, <2>3 DEF SingleFlight, OneFlight, ExchangeOnlyWhenMissing
<1>4. ASSUME NEW r \in Requests, Serve(r), UNCHANGED now
      PROVE  SingleFlight'
  BY <1>2, <1>3, <1>4 DEF Serve, Deny, ServeCached
<1>5. ASSUME NEW r \in Requests, NEW failure, VerifyFails(r, failure), UNCHANGED now,
             req[r].phase = "verify"
      PROVE  SingleFlight'
  <2>1. CASE req[r].attempts + 1 < MaxAttempts
    <3>1. \A p \in Requests : req'[p].phase = req[p].phase /\ req'[p].key = req[p].key
      BY <1>0, <1>5, <2>1 DEF VerifyFails, Request
    <3> QED BY <1>5, <3>1 DEF VerifyFails, SingleFlight, OneFlight, ExchangeOnlyWhenMissing
  <2>2. CASE ~ (req[r].attempts + 1 < MaxAttempts)
    BY <1>2, <1>5, <2>2 DEF VerifyFails
  <2> QED BY <2>1, <2>2
<1>6. ASSUME NEW r \in Requests, VerifyAnswers(r), UNCHANGED now
      PROVE  SingleFlight'
  BY <1>2, <1>5, <1>6 DEF VerifyAnswers, VerifyIssues, VerifyRejects, VerifyOmitsToken
<1>7. ASSUME NEW r \in Requests, Deliver(r), UNCHANGED now
      PROVE  SingleFlight'
  <2>1. IdleRequest.phase = "idle"
    BY DEF IdleRequest
  <2> QED BY <1>7, <2>1, FlightEnds DEF Deliver
<1>8. CASE BrokerRestarts /\ UNCHANGED now
  BY <1>8 DEF BrokerRestarts, IdleRequest, SingleFlight, OneFlight, ExchangeOnlyWhenMissing
<1>9. CASE Tick /\ UNCHANGED brokerVars
  BY <1>0, <1>9, UsableNoLonger DEF Tick, SingleFlight, OneFlight, ExchangeOnlyWhenMissing
<1>10. CASE UNCHANGED <<brokerVars, now>>
  BY <1>10 DEF SingleFlight, OneFlight, ExchangeOnlyWhenMissing, Usable, Present
<1> QED BY <1>1, <1>4, <1>6, <1>7, <1>8, <1>9, <1>10 DEF BrokerNext

LEMMA AlwaysSingleFlight == BrokerSafety => []SingleFlight
<1>1. BrokerInit => SingleFlight
  BY SingleFlightInit
<1>2. Sound /\ SingleFlight /\ [BrokerNext]_<<brokerVars, now>> => SingleFlight'
  BY SingleFlightNext
<1> QED BY <1>1, <1>2, AlwaysSound, PTL DEF BrokerSafety

\* Because the handler holds the loop, a call to Verify is never redundant and
\* never replaces a usable token, whatever the clients do.
THEOREM SingleFlightHolds == BrokerSafety => []ExchangeOnlyWhenMissing
<1>1. SingleFlight => ExchangeOnlyWhenMissing
  BY DEF SingleFlight
<1> QED BY <1>1, AlwaysSingleFlight, PTL

-------------------------------------------------------------------------------
(* Freshness *)

\* Only ServeCached gives a queued request a cached answer.
LEMMA CachedAnswerStep ==
    ASSUME Sound, [BrokerNext]_<<brokerVars, now>>, NEW r \in Requests,
           req[r].phase = "queued", req'[r].phase = "answered", req'[r].answer.cached
    PROVE  now + SafetyBuffer < req'[r].answer.token.exp
<1>0. req \in [Requests -> Request]
  BY DEF Sound, BrokerTypeOK
<1>1. ASSUME NEW p \in Requests, p # r,
             (\E key \in CacheKey : Submit(p, key)) \/ Serve(p) \/ VerifyAnswers(p) \/ Deliver(p)
      PROVE  FALSE
  <2>1. req'[r] = req[r]
    BY <1>0, <1>1
    DEF Submit, Serve, Deny, ServeCached, CallVerify, VerifyAnswers, VerifyIssues,
        VerifyRejects, VerifyFails, VerifyOmitsToken, Deliver, AnswerWith
  <2> QED BY <2>1
<1>2. ~ (\E key \in CacheKey : Submit(r, key)) /\ ~ VerifyAnswers(r) /\ ~ Deliver(r)
  BY DEF Submit, VerifyAnswers, Deliver
<1>3. ~ CallVerify(r)
  BY <1>0 DEF CallVerify, Request
<1>4. ~ Deny(r)
  BY <1>0 DEF Deny, AnswerWith, Answered, Refuse
<1>5. ASSUME ServeCached(r)
      PROVE  now + SafetyBuffer < req'[r].answer.token.exp
  <2>1. req'[r].answer.token = obo.slot[req[r].key].token
    BY <1>0, <1>5 DEF ServeCached, AnswerWith, Answered, Grant
  <2> QED BY <1>5, <2>1 DEF ServeCached, Usable, IsTokenValid
<1>6. ~ BrokerRestarts
  BY DEF BrokerRestarts, IdleRequest
<1>7. ~ UNCHANGED brokerVars
  BY <1>0
<1> QED BY <1>1, <1>2, <1>3, <1>4, <1>5, <1>6, <1>7 DEF BrokerNext, Serve

\* A cached token is never served within the safety buffer of its expiry.
THEOREM CachedAnswersFresh == BrokerSafety => CachedAnswerFresh
<1>1. Sound /\ [BrokerNext]_<<brokerVars, now>> =>
        [\A r \in Requests :
            req[r].phase = "queued" /\ req'[r].phase = "answered" /\ req'[r].answer.cached
                => now + SafetyBuffer < req'[r].answer.token.exp]_<<brokerVars, now>>
  BY CachedAnswerStep
<1> QED BY <1>1, AlwaysSound, PTL DEF BrokerSafety, CachedAnswerFresh

-------------------------------------------------------------------------------
(* The cache's order and size *)

LEMMA EmptyWellKept == WellKept(EmptyCache)
<1>1. Stored(EmptyCache) = {} /\ EmptyCache.older = {}
  BY DEF Stored, EmptyCache
<1> QED BY <1>1, FS_EmptySet, TokenCacheAssumption DEF WellKept, Ordered

LEMMA WellKeptNext == Sound /\ WellKept(obo) /\ [BrokerNext]_<<brokerVars, now>> => WellKept(obo)'
<1> SUFFICES ASSUME Sound, WellKept(obo), [BrokerNext]_<<brokerVars, now>>
             PROVE  WellKept(obo')
  BY DEF WellKept, Ordered, Stored
<1>0. /\ now \in Nat
      /\ obo \in Cache(OboToken)
      /\ \A r \in Requests : req[r].phase # "idle" => req[r].key \in CacheKey
  BY DEF Sound, BrokerTypeOK, HasKey
<1>1. ASSUME NEW r \in Requests, Serve(r)
      PROVE  WellKept(obo')
  <2>1. req[r].key \in CacheKey
    BY <1>0, <1>1 DEF Serve, Deny, ServeCached, CallVerify
  <2>2. WellKept(AfterGet(obo, req[r].key, now))
    BY <1>0, <2>1, AfterGetWellKept
  <2> QED BY <1>1, <2>2 DEF Serve, Deny, ServeCached, CallVerify
<1>2. ASSUME NEW r \in Requests, VerifyAnswers(r)
      PROVE  WellKept(obo')
  <2>1. req[r].key \in CacheKey
    BY <1>0, <1>2 DEF VerifyAnswers
  <2>2. ASSUME NEW exp \in Expiries, NEW token \in VerifyGrants(req[r].key, exp)
        PROVE  WellKept(Store(obo, req[r].key, token, now))
    <3>1. exp \in Nat
      BY <1>0, BrokerAssumption DEF Expiries
    <3>2. token \in OboToken
      BY <2>1, <3>1, BrokerAssumption DEF VerifyGrants, OboToken
    <3> QED BY <1>0, <2>1, <3>2, StoreWellKept, BrokerAssumption
  <2> QED BY <1>2, <2>2
      DEF VerifyAnswers, VerifyIssues, VerifyRejects, VerifyFails, VerifyOmitsToken, AfterSet
<1>3. CASE BrokerRestarts
  BY <1>3, EmptyWellKept DEF BrokerRestarts
<1>4. CASE UNCHANGED obo
  BY <1>4
<1> QED BY <1>1, <1>2, <1>3, <1>4 DEF BrokerNext, Submit, Deliver

LEMMA AlwaysWellKept == BrokerSafety => []WellKept(obo)
<1>1. BrokerInit => WellKept(obo)
  BY EmptyWellKept DEF BrokerInit
<1>2. Sound /\ WellKept(obo) /\ [BrokerNext]_<<brokerVars, now>> => WellKept(obo)'
  BY WellKeptNext
<1> QED BY <1>1, <1>2, AlwaysSound, PTL DEF BrokerSafety

\* However long the service runs, the cache stays within cache_maxsize.
THEOREM CacheStaysBounded == BrokerSafety => []CacheBounded
<1>1. WellKept(obo) => CacheBounded
  BY DEF WellKept, CacheBounded
<1> QED BY <1>1, AlwaysWellKept, PTL

\* There always is one least recently used entry to evict.
THEOREM RecencyStaysTotal == BrokerSafety => []RecencyTotal
<1>1. WellKept(obo) => RecencyTotal
  BY DEF WellKept, RecencyTotal
<1> QED BY <1>1, AlwaysWellKept, PTL
-------------------------------------------------------------------------------
(* What is usable is kept *)

\* What UsableKept asks of a step, for one key.
KeptOrEvicted(k) ==
    Usable(obo, k, now) /\ ~ Usable(obo', k, now') =>
        \/ now' # now
        \/ req' = [r \in Requests |-> IdleRequest]
        \/ LET live == Stored(Expire(obo, now))
           IN  /\ Cardinality(live) = CacheMaxSize
               /\ Stored(obo') \ live # {}
               /\ \A j \in live \ {k} : <<k, j>> \in obo.older

LEMMA KeptOrEvictedNext ==
    ASSUME Sound, SingleFlight, WellKept(obo), BrokerNext, NEW k \in CacheKey
    PROVE  KeptOrEvicted(k)
<1> SUFFICES ASSUME Usable(obo, k, now), ~ Usable(obo', k, now'), now' = now
             PROVE  \/ req' = [r \in Requests |-> IdleRequest]
                    \/ /\ Cardinality(Stored(Expire(obo, now))) = CacheMaxSize
                       /\ Stored(obo') \ Stored(Expire(obo, now)) # {}
                       /\ \A j \in Stored(Expire(obo, now)) \ {k} : <<k, j>> \in obo.older
  BY DEF KeptOrEvicted
<1>0. /\ now \in Nat
      /\ obo \in Cache(OboToken)
      /\ \A r \in Requests : req[r].phase # "idle" => req[r].key \in CacheKey
  BY DEF Sound, BrokerTypeOK, HasKey
<1>1. obo' # obo
  OBVIOUS
<1>2. ASSUME NEW r \in Requests, Serve(r)
      PROVE  FALSE
  <2>1. req[r].key \in CacheKey
    BY <1>0, <1>2 DEF Serve, Deny, ServeCached, CallVerify
  <2>2. Usable(AfterGet(obo, req[r].key, now), k, now)
    BY <1>0, <2>1, AfterGetKeepsUsable
  <2> QED BY <1>1, <1>2, <2>2 DEF Serve, Deny, ServeCached, CallVerify
<1>3. ASSUME NEW r \in Requests, VerifyAnswers(r)
      PROVE  /\ Cardinality(Stored(Expire(obo, now))) = CacheMaxSize
             /\ Stored(obo') \ Stored(Expire(obo, now)) # {}
             /\ \A j \in Stored(Expire(obo, now)) \ {k} : <<k, j>> \in obo.older
  <2>1. req[r].key \in CacheKey /\ k # req[r].key
    BY <1>0, <1>3 DEF VerifyAnswers, SingleFlight, ExchangeOnlyWhenMissing
  <2>2. PICK exp \in Expiries : \E token \in VerifyGrants(req[r].key, exp) : VerifyIssues(r, token)
    BY <1>1, <1>3 DEF VerifyAnswers, VerifyRejects, VerifyFails, VerifyOmitsToken
  <2>3. PICK token \in VerifyGrants(req[r].key, exp) : VerifyIssues(r, token)
    BY <2>2
  <2>4. token \in OboToken
    <3>1. exp \in Nat
      BY <1>0, BrokerAssumption DEF Expiries
    <3> QED BY <2>1, <3>1, BrokerAssumption DEF VerifyGrants, OboToken
  <2>5. obo' = Store(obo, req[r].key, token, now)
    BY <2>3 DEF VerifyIssues, AfterSet
  <2> QED BY <1>0, <2>1, <2>4, <2>5, StoreEvictsLeastRecent, BrokerAssumption
<1>4. CASE BrokerRestarts
  BY <1>4 DEF BrokerRestarts
<1> QED BY <1>1, <1>2, <1>3, <1>4 DEF BrokerNext, Submit, Deliver

\* A usable token leaves the cache only with time, with the process, or as the least
\* recently used of a full cache, to make room for a key that was not in it.
THEOREM UsableStaysKept == BrokerSafety => UsableKept
<1>1. Sound /\ SingleFlight /\ WellKept(obo) /\ [BrokerNext]_<<brokerVars, now>> =>
        [\A k \in CacheKey : KeptOrEvicted(k)]_<<brokerVars, now>>
  BY KeptOrEvictedNext
<1> QED BY <1>1, AlwaysSound, AlwaysSingleFlight, AlwaysWellKept, PTL
    DEF BrokerSafety, UsableKept, KeptOrEvicted

-------------------------------------------------------------------------------
(* What a call's records have to do with each other *)

\* A token resolve_token may hand to a call of subject s for tool t.
Fits(token, s, t) ==
    /\ token \in OboToken
    /\ token.subject = s
    /\ token.scope \subseteq RequiredScopes(t)
    /\ AuthorizeScope(s, RequiredScopes(t))

\* The call itself: q.
WorkSound(q, time) ==
    /\ q.phase # "idle" => q.subject \in Subjects /\ q.tool \in Tools
    /\ q.phase \in {"list", "invoke"} => /\ Fits(q.token, q.subject, q.tool)
                                         /\ q.since < q.token.exp
    /\ q.phase # "done" => q.outcome = "none"
    /\ q.outcome = "expired" => time > q.since + Leeway

\* ... and its exchange: the request the broker has is the one the call made.
ExchangeSound(q, request) ==
    q.phase = "exchange" /\ request.phase # "idle" =>
        request.key.subject = q.subject /\ request.key.scope = RequiredScopes(q.tool)

\* ... and its tools/call at user-mcp: p.
RpcSound(q, p, time) ==
    /\ p.phase = "none" => p = NoRpc
    /\ p.phase # "none" => /\ q.phase \in {"invoke", "done"}
                           /\ p.tool = q.tool
                           /\ Fits(p.bearer, q.subject, q.tool)
                           /\ q.since < p.bearer.exp
    /\ p.phase # "answered" => ~ p.ran
    /\ p.phase = "answered" /\ p.answer = "output" => p.ran
    /\ p.phase = "answered" /\ p.answer = "unauthorized" => time > q.since + Leeway
    /\ q.outcome = "output" => p.phase = "answered" /\ p.ran

CallSound(q, request, p, time) ==
    WorkSound(q, time) /\ ExchangeSound(q, request) /\ RpcSound(q, p, time)

PathSound ==
    /\ AgentTypeOK
    /\ McpTypeOK
    /\ AgentCacheSound
    /\ \A c \in Calls : CallSound(call[c], req[c], rpc[c], now)

-------------------------------------------------------------------------------
(* The broker inside *)

LEMMA KeysExist ==
    ASSUME NEW s \in Subjects, NEW t \in Tools
    PROVE  /\ RequiredScopes(t) \in SUBSET Scopes
           /\ RequiredScopes(t) # {}
           /\ KeyOf(s, t) \in AgentKey
           /\ actorFile \in Actors => BrokerKey(s, t) \in CacheKey
<1>1. RequiredScopes(t) \in SUBSET Scopes /\ RequiredScopes(t) # {}
  BY ScopedToolsAssumption DEF RequiredScopes, TOOL_SCOPE_REQUIREMENTS
<1> QED BY <1>1, DelegationAssumption DEF KeyOf, AgentKey, BrokerKey

\* Whatever agent and user-mcp do, the broker takes one of its own steps, or none.
LEMMA BrokerStep ==
    ASSUME AgentTypeOK, [Next]_vars
    PROVE  [BrokerNext]_<<brokerVars, now>>
<1>1. CASE UNCHANGED <<brokerVars, now>>
  BY <1>1
<1>2. ASSUME NEW c \in Calls, Step(c), UNCHANGED now, ~ UNCHANGED brokerVars
      PROVE  BrokerNext
  <2>1. c \in Requests
    BY DelegationAssumption
  <2>2. ASSUME NEW s \in Subjects, NEW t \in Tools, Start(c, s, t)
        PROVE  \E key \in CacheKey : Submit(c, key)
    <3>1. ResolveMissing(c, s, t) /\ Submit(c, BrokerKey(s, t))
      BY <1>2, <2>2 DEF Start
    <3>2. actorFile \in Actors
      BY <3>1 DEF ResolveMissing, AgentTypeOK
    <3> QED BY <3>1, <3>2, KeysExist
  <2>3. \/ \E key \in CacheKey : Submit(c, key)
        \/ Deliver(c) \/ Serve(c) \/ VerifyAnswers(c)
    BY <1>2, <2>2 DEF Step, ReceiveAnswer, DropAnswer, GiveUpExchange, ServeExchange, CallTool,
                      SessionFails, ReceiveResult, GiveUpResult, ServeTool, Reuse
  <2> QED BY <1>2, <2>1, <2>3 DEF BrokerNext
<1>3. CASE Surroundings /\ UNCHANGED now /\ ~ UNCHANGED brokerVars
  BY <1>3 DEF Surroundings, BrokerNext
<1>4. CASE Tick /\ UNCHANGED <<brokerVars, agentVars, rpc>>
  BY <1>4 DEF BrokerNext
<1> QED BY <1>1, <1>2, <1>3, <1>4 DEF Next

-------------------------------------------------------------------------------
(* One call at a time *)

LEMMA IdleCallSound ==
    ASSUME NEW request, NEW time
    PROVE  /\ IdleCall \in Call
           /\ NoRpc \in Rpc
           /\ CallSound(IdleCall, request, NoRpc, time)
<1>1. IdleCall \in Call /\ NoRpc \in Rpc
  BY DEF IdleCall, Call, Outcome, NoRpc, Rpc
<1> QED BY <1>1 DEF IdleCall, NoRpc, CallSound, WorkSound, ExchangeSound, RpcSound

LEMMA TimePasses ==
    ASSUME NEW q \in Call, NEW request, NEW p, NEW time \in Nat, CallSound(q, request, p, time)
    PROVE  CallSound(q, request, p, time + 1)
<1>1. q.since \in Nat /\ Leeway \in Nat
  BY UserMcpAssumption DEF Call
<1>2. time > q.since + Leeway => time + 1 > q.since + Leeway
  BY <1>1
<1> QED BY <1>2 DEF CallSound, WorkSound, RpcSound, ExchangeSound

\* The records of one call change, and what the agent has cached stays sound.
LEMMA PathStep ==
    ASSUME PathSound, now' = now, NEW c \in Calls,
           AgentTypeOK', McpTypeOK', AgentCacheSound',
           \A d \in Calls \ {c} : /\ call'[d] = call[d]
                                  /\ req'[d] = req[d]
                                  /\ rpc'[d] = rpc[d],
           CallSound(call'[c], req'[c], rpc'[c], now)
    PROVE  PathSound'
<1>1. ASSUME NEW d \in Calls
      PROVE  CallSound(call'[d], req'[d], rpc'[d], now')
  <2>1. CASE d = c
    BY <2>1
  <2>2. CASE d # c
    <3>1. CallSound(call[d], req[d], rpc[d], now)
      BY DEF PathSound
    <3> QED BY <2>2, <3>1
  <2> QED BY <2>1, <2>2
<1> QED BY <1>1, Zenon DEF PathSound

\* ... its own record only
LEMMA WorkStep ==
    ASSUME PathSound, UNCHANGED <<now, brokerVars, rpc>>, NEW c \in Calls,
           AgentTypeOK', AgentCacheSound', NEW q,
           call' = [call EXCEPT ![c] = q], CallSound(q, req[c], rpc[c], now)
    PROVE  PathSound'
<1>1. call \in [Calls -> Call]
  BY DEF PathSound, AgentTypeOK
<1>2. \A d \in Calls : call'[d] = IF d = c THEN q ELSE call[d]
  BY <1>1
<1>3. McpTypeOK'
  BY DEF PathSound, McpTypeOK
<1>4. CallSound(call'[c], req'[c], rpc'[c], now)
  BY <1>2
<1>5. \A d \in Calls \ {c} : call'[d] = call[d] /\ req'[d] = req[d] /\ rpc'[d] = rpc[d]
  BY <1>2
<1> QED BY <1>3, <1>4, <1>5, PathStep

\* ... its request at the broker only
LEMMA RequestStep ==
    ASSUME PathSound, UNCHANGED <<now, agentVars, rpc>>, NEW c \in Calls,
           \A d \in Calls \ {c} : req'[d] = req[d],
           ExchangeSound(call[c], req'[c])
    PROVE  PathSound'
<1>1. AgentTypeOK' /\ McpTypeOK' /\ AgentCacheSound'
  BY DEF PathSound, AgentTypeOK, McpTypeOK, AgentCacheSound
<1>2. CallSound(call[c], req'[c], rpc[c], now)
  BY DEF PathSound, CallSound
<1>3. call'[c] = call[c] /\ rpc'[c] = rpc[c]
  OBVIOUS
<1>4. \A d \in Calls \ {c} : call'[d] = call[d] /\ req'[d] = req[d] /\ rpc'[d] = rpc[d]
  OBVIOUS
<1> QED BY <1>1, <1>2, <1>3, <1>4, PathStep

\* ... its tools/call at user-mcp only
LEMMA RpcStep ==
    ASSUME PathSound, UNCHANGED <<now, agentVars, brokerVars>>, NEW c \in Calls,
           NEW p \in Rpc, rpc' = [rpc EXCEPT ![c] = p], RpcSound(call[c], p, now)
    PROVE  PathSound'
<1>1. rpc \in [Calls -> Rpc]
  BY DelegationAssumption DEF PathSound, McpTypeOK
<1>2. \A d \in Calls : rpc'[d] = IF d = c THEN p ELSE rpc[d]
  BY <1>1
<1>3. AgentTypeOK' /\ McpTypeOK' /\ AgentCacheSound'
  BY <1>1, DelegationAssumption DEF PathSound, AgentTypeOK, McpTypeOK, AgentCacheSound
<1>4. CallSound(call[c], req[c], p, now)
  BY DEF PathSound, CallSound
<1>5. CallSound(call'[c], req'[c], rpc'[c], now)
  BY <1>2, <1>4
<1>6. \A d \in Calls \ {c} : call'[d] = call[d] /\ req'[d] = req[d] /\ rpc'[d] = rpc[d]
  BY <1>2
<1> QED BY <1>3, <1>5, <1>6, PathStep
-------------------------------------------------------------------------------
(* The agent's steps *)

\* Deleting an entry the agent finds expired.
LEMMA SweptSound ==
    ASSUME AgentTypeOK, AgentCacheSound, NEW k \in AgentKey
    PROVE  /\ Swept(k) \in [AgentKey -> OboToken \cup {NoToken}]
           /\ \A j \in AgentKey : Swept(k)[j] # NoToken => Swept(k)[j] = agentCache[j]
BY DEF Swept, AgentTypeOK

\* A cached token fits the tools it is cached for.
LEMMA CachedFits ==
    ASSUME PathSound, NEW s \in Subjects, NEW t \in Tools, Alive(KeyOf(s, t))
    PROVE  Fits(agentCache[KeyOf(s, t)], s, t) /\ now < agentCache[KeyOf(s, t)].exp
<1>1. KeyOf(s, t) \in AgentKey
  BY KeysExist
<1>2. agentCache[KeyOf(s, t)] # NoToken /\ agentCache[KeyOf(s, t)] \in OboToken
  BY <1>1 DEF PathSound, AgentTypeOK, Alive
<1>3. /\ agentCache[KeyOf(s, t)].subject = s
      /\ agentCache[KeyOf(s, t)].scope \subseteq RequiredScopes(t)
      /\ AuthorizeScope(s, RequiredScopes(t))
  BY <1>1, <1>2 DEF PathSound, AgentCacheSound, KeyOf
<1>4. agentCache[KeyOf(s, t)].exp \in Nat
  BY <1>2 DEF OboToken
<1> QED BY <1>2, <1>3, <1>4 DEF Fits, Alive

LEMMA StartSound ==
    ASSUME Sound, PathSound, now' = now,
           NEW c \in Calls, NEW s \in Subjects, NEW t \in Tools, Start(c, s, t)
    PROVE  PathSound'
<1>0. /\ call \in [Calls -> Call]
      /\ rpc[c] = NoRpc
      /\ req[c].phase = "idle"
      /\ now \in Nat
      /\ AgentTypeOK /\ AgentCacheSound /\ McpTypeOK
  BY DEF PathSound, AgentTypeOK, Start, CallSound, RpcSound, Sound, BrokerTypeOK
<1> DEFINE k == KeyOf(s, t)
<1>1. k \in AgentKey
  BY KeysExist
<1>2. /\ Opened(s, t) \in Call
      /\ Opened(s, t).subject = s /\ Opened(s, t).tool = t
      /\ Opened(s, t).outcome = "none"
  <2>1. IdleCall \in Call /\ IdleCall.outcome = "none"
    BY IdleCallSound DEF IdleCall
  <2> QED BY <2>1 DEF Opened, Call
<1>3. ASSUME agentCache' = Swept(k)
      PROVE  agentCache' \in [AgentKey -> OboToken \cup {NoToken}] /\ AgentCacheSound'
  BY <1>0, <1>1, <1>3, SweptSound DEF AgentCacheSound
<1>4. CASE ResolveCached(c, s, t) /\ UNCHANGED brokerVars
  <2> DEFINE q == [Opened(s, t) EXCEPT !.phase = "list", !.token = agentCache[k], !.since = now]
  <2>1. Fits(agentCache[k], s, t) /\ now < agentCache[k].exp
    BY <1>4, CachedFits DEF ResolveCached
  <2>2. /\ q \in Call
        /\ q.phase = "list" /\ q.subject = s /\ q.tool = t
        /\ q.token = agentCache[k] /\ q.since = now /\ q.outcome = "none"
    BY <1>0, <1>2, <2>1 DEF Call, Outcome, Fits
  <2> HIDE DEF q
  <2>3. CallSound(q, req[c], rpc[c], now)
    BY <1>0, <2>1, <2>2 DEF CallSound, WorkSound, ExchangeSound, RpcSound, NoRpc
  <2>4. call' = [call EXCEPT ![c] = q]
    BY <1>4 DEF ResolveCached, q
  <2>5. AgentTypeOK' /\ AgentCacheSound'
    BY <1>0, <1>4, <2>2, <2>4 DEF ResolveCached, AgentTypeOK, AgentCacheSound
  <2>6. UNCHANGED <<now, brokerVars, rpc>>
    BY <1>4 DEF Start
  <2> QED BY <2>3, <2>4, <2>5, <2>6, WorkStep
<1>5. CASE ResolveFails(c, s, t) /\ UNCHANGED brokerVars
  <2> DEFINE q == [Opened(s, t) EXCEPT !.phase = "done", !.outcome = "text"]
  <2>1. q \in Call /\ q.phase = "done" /\ q.subject = s /\ q.tool = t /\ q.outcome = "text"
    BY <1>2 DEF Call, Outcome
  <2> HIDE DEF q
  <2>2. CallSound(q, req[c], rpc[c], now)
    BY <1>0, <2>1 DEF CallSound, WorkSound, ExchangeSound, RpcSound, NoRpc
  <2>3. call' = [call EXCEPT ![c] = q]
    BY <1>5 DEF ResolveFails, q
  <2>4. AgentTypeOK' /\ AgentCacheSound'
    BY <1>0, <1>3, <1>5, <2>1, <2>3 DEF ResolveFails, AgentTypeOK
  <2>5. UNCHANGED <<now, brokerVars, rpc>>
    BY <1>5 DEF Start
  <2> QED BY <2>2, <2>3, <2>4, <2>5, WorkStep
<1>6. CASE ResolveMissing(c, s, t) /\ Submit(c, BrokerKey(s, t))
  <2> DEFINE q == [Opened(s, t) EXCEPT !.phase = "exchange"]
             r == [IdleRequest EXCEPT !.phase = "queued", !.key = BrokerKey(s, t)]
  <2>1. q \in Call /\ q.phase = "exchange" /\ q.subject = s /\ q.tool = t /\ q.outcome = "none"
    BY <1>2 DEF Call, Outcome
  <2>2. r.key = BrokerKey(s, t)
    BY DEF IdleRequest
  <2> HIDE DEF q, r
  <2>3. CallSound(q, r, rpc[c], now)
    BY <1>0, <2>1, <2>2 DEF CallSound, WorkSound, ExchangeSound, RpcSound, NoRpc, BrokerKey
  <2>4. call' = [call EXCEPT ![c] = q] /\ req' = [req EXCEPT ![c] = r] /\ rpc' = rpc
    BY <1>6 DEF ResolveMissing, Submit, Start, q, r
  <2>5. req \in [Calls -> Request]
    BY DelegationAssumption DEF Sound, BrokerTypeOK
  <2>6. AgentTypeOK' /\ AgentCacheSound' /\ McpTypeOK'
    BY <1>0, <1>3, <1>6, <2>1, <2>4 DEF ResolveMissing, AgentTypeOK, McpTypeOK
  <2>7. CallSound(call'[c], req'[c], rpc'[c], now)
    BY <1>0, <2>3, <2>4, <2>5
  <2>8. \A d \in Calls \ {c} : call'[d] = call[d] /\ req'[d] = req[d] /\ rpc'[d] = rpc[d]
    BY <1>0, <2>4, <2>5
  <2> QED BY <2>6, <2>7, <2>8, PathStep
<1> QED BY <1>4, <1>5, <1>6 DEF Start

\* Any end of a call but success, and but for a refused token.
LEMMA EndSound ==
    ASSUME PathSound, UNCHANGED <<now, brokerVars, rpc, templates, actorFile, agentCache>>,
           exchanging' \in Calls \cup {NoCall},
           NEW c \in Calls, call[c].phase \in {"exchange", "list", "invoke"},
           NEW outcome \in Outcome \ {"none"}, End(c, outcome),
           outcome = "output" => rpc[c].phase = "answered" /\ rpc[c].answer = "output",
           outcome = "expired" => now > call[c].since + Leeway
    PROVE  PathSound'
<1>0. /\ call \in [Calls -> Call]
      /\ call[c] \in Call
      /\ CallSound(call[c], req[c], rpc[c], now)
  BY DEF PathSound, AgentTypeOK
<1>1. /\ Ended(c, outcome) \in Call
      /\ Ended(c, outcome).phase = "done"
      /\ Ended(c, outcome).outcome = outcome
      /\ Ended(c, outcome).subject = call[c].subject
      /\ Ended(c, outcome).tool = call[c].tool
      /\ Ended(c, outcome).since = call[c].since
  BY <1>0 DEF Ended, Call
<1>2. CallSound(Ended(c, outcome), req[c], rpc[c], now)
  BY <1>0, <1>1 DEF CallSound, WorkSound, ExchangeSound, RpcSound
<1>3. call' = [call EXCEPT ![c] = Ended(c, outcome)]
  BY DEF End
<1>4. AgentTypeOK' /\ AgentCacheSound'
  BY <1>0, <1>1, <1>3 DEF PathSound, AgentTypeOK, AgentCacheSound
<1> QED BY <1>2, <1>3, <1>4, WorkStep

\* Ends of a wait that touch the agent only, other than those a token explains.
LEMMA GiveUpSound ==
    ASSUME PathSound, now \in Nat, now' = now, NEW c \in Calls,
           GiveUpExchange(c) \/ GiveUpResult(c) \/ SessionFails(c) \/ ReceiveResult(c)
    PROVE  PathSound'
<1>0. /\ CallSound(call[c], req[c], rpc[c], now)
      /\ call[c] \in Call
      /\ exchanging \in Calls \cup {NoCall}
  BY DEF PathSound, AgentTypeOK
<1>1. ASSUME NEW outcome \in {"text", "error", "lost", "timeout"}, End(c, outcome),
             call[c].phase \in {"exchange", "list", "invoke"},
             UNCHANGED <<now, brokerVars, rpc, templates, actorFile, agentCache>>,
             exchanging' \in Calls \cup {NoCall}
      PROVE  PathSound'
  BY <1>1, EndSound DEF Outcome, Raised
<1>2. CASE GiveUpExchange(c)
  BY <1>1, <1>2 DEF GiveUpExchange, ExchangeBreaks
<1>3. CASE GiveUpResult(c)
  BY <1>0, <1>1, <1>3 DEF GiveUpResult, Return
<1>4. CASE SessionFails(c)
  <2>1. CASE ~ Accepts(call[c].token) /\ Return(c, "expired")
    <3>1. /\ call[c].phase = "list"
          /\ call[c].token \in OboToken
          /\ call[c].since < call[c].token.exp
      BY <1>0, <1>4 DEF SessionFails, CallSound, WorkSound, Fits
    <3>2. call[c].since \in Nat /\ call[c].token.exp \in Nat /\ Leeway \in Nat
      BY <1>0, <3>1, UserMcpAssumption DEF Call, OboToken
    <3>3. call[c].token # NoToken
      BY <3>1, NoTokenAssumption
    <3>4. now > call[c].since + Leeway
      BY <2>1, <3>1, <3>2, <3>3 DEF Accepts
    <3> QED BY <1>0, <1>4, <2>1, <3>1, <3>4, EndSound DEF SessionFails, Return, Outcome, Raised
  <2>2. CASE Return(c, "error")
    BY <1>0, <1>1, <1>4, <2>2 DEF SessionFails, Return
  <2> QED BY <1>4, <2>1, <2>2 DEF SessionFails
<1>5. CASE ReceiveResult(c)
  <2> DEFINE outcome == OutcomeOf(rpc[c].answer)
  <2>1. /\ call[c].phase = "invoke"
        /\ rpc[c].phase = "answered"
        /\ End(c, outcome)
        /\ UNCHANGED <<now, brokerVars, rpc, templates, actorFile, agentCache, exchanging>>
    BY <1>5 DEF ReceiveResult, Return
  <2>2. /\ outcome \in Outcome \ {"none"}
        /\ outcome = "output" => rpc[c].answer = "output"
        /\ outcome = "expired" => rpc[c].answer = "unauthorized"
    BY DEF OutcomeOf, Outcome, Raised
  <2>3. outcome = "expired" => now > call[c].since + Leeway
    BY <1>0, <2>1, <2>2 DEF CallSound, RpcSound
  <2> HIDE DEF outcome
  <2> QED BY <1>0, <2>1, <2>2, <2>3, EndSound
<1> QED BY <1>2, <1>3, <1>4, <1>5

LEMMA ReceiveSound ==
    ASSUME Sound, PathSound, now' = now, NEW c \in Calls, ReceiveAnswer(c)
    PROVE  PathSound'
<1>0. /\ CallSound(call[c], req[c], rpc[c], now)
      /\ call \in [Calls -> Call]
      /\ call[c] \in Call
      /\ req \in [Calls -> Request]
      /\ now \in Nat
      /\ AgentTypeOK /\ McpTypeOK /\ AgentCacheSound
  BY DelegationAssumption DEF PathSound, AgentTypeOK, Sound, BrokerTypeOK
<1>1. /\ req' = [req EXCEPT ![c] = IdleRequest]
      /\ req[c].phase = "answered"
      /\ rpc' = rpc
      /\ call[c].phase = "exchange"
  BY DEF ReceiveAnswer, Deliver, ExchangeSucceeds, ExchangeRefused
<1>2. call[c].subject \in Subjects /\ call[c].tool \in Tools /\ rpc[c] = NoRpc
  BY <1>0, <1>1 DEF CallSound, WorkSound, RpcSound
<1>3. IdleRequest.phase = "idle"
  BY DEF IdleRequest
<1>4. ASSUME NEW q \in Call, call' = [call EXCEPT ![c] = q], q.phase # "exchange",
             WorkSound(q, now), q.outcome # "output",
             UNCHANGED <<templates, actorFile>>, exchanging' = NoCall,
             agentCache' \in [AgentKey -> OboToken \cup {NoToken}], AgentCacheSound'
      PROVE  PathSound'
  <2>1. CallSound(q, IdleRequest, rpc[c], now)
    BY <1>2, <1>3, <1>4 DEF CallSound, ExchangeSound, RpcSound, NoRpc
  <2>2. CallSound(call'[c], req'[c], rpc'[c], now)
    BY <1>0, <1>1, <1>4, <2>1
  <2>3. \A d \in Calls \ {c} : call'[d] = call[d] /\ req'[d] = req[d] /\ rpc'[d] = rpc[d]
    BY <1>0, <1>1, <1>4
  <2>4. AgentTypeOK' /\ McpTypeOK'
    BY <1>0, <1>1, <1>4 DEF AgentTypeOK, McpTypeOK
  <2> QED BY <1>4, <2>2, <2>3, <2>4, PathStep
<1>5. CASE ExchangeRefused(c)
  <2>1. /\ Ended(c, "text") \in Call
        /\ WorkSound(Ended(c, "text"), now)
        /\ Ended(c, "text").phase = "done"
        /\ Ended(c, "text").outcome = "text"
    BY <1>0, <1>2 DEF Ended, Call, Outcome, WorkSound
  <2>2. agentCache' \in [AgentKey -> OboToken \cup {NoToken}] /\ AgentCacheSound'
    BY <1>0, <1>5 DEF ExchangeRefused, AgentTypeOK, AgentCacheSound
  <2> QED BY <1>4, <1>5, <2>1, <2>2 DEF ExchangeRefused, End
<1>6. CASE req[c].answer.status = 200 /\ ExchangeSucceeds(c, req[c].answer.token)
  <2> DEFINE token == req[c].answer.token
             k == KeyOf(call[c].subject, call[c].tool)
             q == [call[c] EXCEPT !.phase = "list", !.token = token, !.since = now]
  <2>1. token \in OboToken /\ Entitles(token, req[c].key)
    BY <1>1, <1>6, DelegationAssumption DEF Sound, HasToken, AnswerSound
  <2>2. Fits(token, call[c].subject, call[c].tool)
    BY <1>0, <1>1, <2>1 DEF Entitles, Fits, CallSound, ExchangeSound
  <2>3. token.exp > now /\ token.exp \in Nat
    BY <1>6, <2>1 DEF ExchangeSucceeds, OboToken
  <2>4. k \in AgentKey
    BY <1>2, KeysExist
  <2> HIDE DEF token
  <2>5. q \in Call /\ WorkSound(q, now) /\ q.phase = "list" /\ q.outcome = "none"
    <3>1. /\ q \in Call
          /\ q.phase = "list" /\ q.token = token /\ q.since = now
          /\ q.subject = call[c].subject /\ q.tool = call[c].tool /\ q.outcome = call[c].outcome
      BY <1>0, <2>1 DEF Call
    <3>2. call[c].outcome = "none"
      BY <1>0, <1>1 DEF CallSound, WorkSound
    <3> QED BY <1>0, <1>2, <2>2, <2>3, <3>1, <3>2 DEF WorkSound
  <2>6. /\ call' = [call EXCEPT ![c] = q]
        /\ agentCache' = [agentCache EXCEPT ![k] = token]
        /\ UNCHANGED <<templates, actorFile>>
        /\ exchanging' = NoCall
    <3>1. ExchangeSucceeds(c, token)
      BY <1>6 DEF token
    <3> QED BY <1>0, <3>1 DEF ExchangeSucceeds
  <2>7. agentCache' \in [AgentKey -> OboToken \cup {NoToken}]
    BY <1>0, <2>1, <2>4, <2>6 DEF AgentTypeOK
  <2>8. AgentCacheSound'
    <3>1. \A j \in AgentKey : agentCache'[j] = IF j = k THEN token ELSE agentCache[j]
      BY <1>0, <2>6 DEF AgentTypeOK
    <3>2. k.subject = call[c].subject /\ k.scope = RequiredScopes(call[c].tool)
      BY DEF KeyOf
    <3> HIDE DEF k
    <3> QED BY <1>0, <2>2, <3>1, <3>2 DEF AgentCacheSound, Fits
  <2> HIDE DEF q
  <2> QED BY <1>4, <2>5, <2>6, <2>7, <2>8
<1> QED BY <1>5, <1>6 DEF ReceiveAnswer

\* tools/call goes out with the call's own token.
LEMMA CallToolSound ==
    ASSUME PathSound, now' = now, NEW c \in Calls, CallTool(c)
    PROVE  PathSound'
<1>0. /\ CallSound(call[c], req[c], rpc[c], now)
      /\ call \in [Calls -> Call]
      /\ call[c] \in Call
      /\ rpc \in [Calls -> Rpc]
      /\ AgentTypeOK /\ AgentCacheSound
  BY DelegationAssumption DEF PathSound, AgentTypeOK, McpTypeOK
<1>1. call[c].phase = "list" /\ call[c].outcome = "none"
  BY <1>0 DEF CallTool, ListTools, CallSound, WorkSound
<1>2. /\ call[c].subject \in Subjects /\ call[c].tool \in Tools
      /\ Fits(call[c].token, call[c].subject, call[c].tool)
      /\ call[c].since < call[c].token.exp
  BY <1>0, <1>1 DEF CallSound, WorkSound
<1> DEFINE q == [call[c] EXCEPT !.phase = "invoke"]
           p == [NoRpc EXCEPT !.phase = "sent", !.tool = call[c].tool, !.bearer = call[c].token]
<1>3. /\ q \in Call
      /\ q.phase = "invoke" /\ q.subject = call[c].subject /\ q.tool = call[c].tool
      /\ q.token = call[c].token /\ q.since = call[c].since /\ q.outcome = "none"
  BY <1>0, <1>1 DEF Call
<1>4. /\ p \in Rpc
      /\ p.phase = "sent" /\ p.tool = call[c].tool /\ p.bearer = call[c].token /\ ~ p.ran
  <2>1. NoRpc \in Rpc /\ ~ NoRpc.ran
    BY IdleCallSound DEF NoRpc
  <2> QED BY <1>2, <2>1, DelegationAssumption DEF Rpc, Fits
<1>5. call' = [call EXCEPT ![c] = q] /\ rpc' = [rpc EXCEPT ![c] = p] /\ UNCHANGED brokerVars
  BY DEF CallTool, ListTools, Post
<1> HIDE DEF q, p
<1>6. CallSound(q, req[c], p, now)
  BY <1>2, <1>3, <1>4 DEF CallSound, WorkSound, ExchangeSound, RpcSound
<1>7. CallSound(call'[c], req'[c], rpc'[c], now)
  BY <1>0, <1>5, <1>6
<1>8. \A d \in Calls \ {c} : call'[d] = call[d] /\ req'[d] = req[d] /\ rpc'[d] = rpc[d]
  BY <1>0, <1>5
<1>9. AgentTypeOK' /\ AgentCacheSound' /\ McpTypeOK'
  BY <1>0, <1>3, <1>4, <1>5, DelegationAssumption
  DEF CallTool, ListTools, AgentTypeOK, AgentCacheSound, McpTypeOK
<1> QED BY <1>7, <1>8, <1>9, PathStep

\* The identifier is used again: all that is left of the call goes.
LEMMA ReuseSound ==
    ASSUME PathSound, now' = now, NEW c \in Calls, Reuse(c)
    PROVE  PathSound'
<1>0. /\ call \in [Calls -> Call]
      /\ rpc \in [Calls -> Rpc]
      /\ AgentTypeOK /\ AgentCacheSound
  BY DelegationAssumption DEF PathSound, AgentTypeOK, McpTypeOK
<1>1. /\ call' = [call EXCEPT ![c] = IdleCall]
      /\ rpc' = [rpc EXCEPT ![c] = NoRpc]
      /\ UNCHANGED <<brokerVars, templates, actorFile, agentCache, exchanging>>
  BY DEF Reuse, Forget
<1>2. CallSound(call'[c], req'[c], rpc'[c], now)
  BY <1>0, <1>1, IdleCallSound
<1>3. \A d \in Calls \ {c} : call'[d] = call[d] /\ req'[d] = req[d] /\ rpc'[d] = rpc[d]
  BY <1>0, <1>1
<1>4. AgentTypeOK' /\ AgentCacheSound' /\ McpTypeOK'
  BY <1>0, <1>1, IdleCallSound, DelegationAssumption DEF AgentTypeOK, AgentCacheSound, McpTypeOK
<1> QED BY <1>2, <1>3, <1>4, PathStep

-------------------------------------------------------------------------------
(* The services' steps *)

\* The handler of a request changes neither its key nor that it is there, and no
\* other request.
LEMMA ServeKeepsKey ==
    ASSUME Sound, NEW c \in Requests, Serve(c) \/ VerifyAnswers(c)
    PROVE  /\ \A d \in Requests \ {c} : req'[d] = req[d]
           /\ req[c].phase # "idle"
           /\ req'[c].key = req[c].key
<1>0. req \in [Requests -> Request] /\ req[c] \in Request
  BY DEF Sound, BrokerTypeOK
<1>1. ASSUME NEW answer, AnswerWith(c, answer)
      PROVE  (\A d \in Requests \ {c} : req'[d] = req[d]) /\ req'[c].key = req[c].key
  BY <1>0, <1>1 DEF AnswerWith, Answered
<1>2. CASE Serve(c)
  <2>1. CASE CallVerify(c)
    BY <1>0, <2>1 DEF CallVerify, Request
  <2>2. CASE Deny(c)
    BY <1>1, <2>2 DEF Deny
  <2>3. CASE ServeCached(c)
    BY <1>1, <2>3 DEF ServeCached
  <2> QED BY <1>2, <2>1, <2>2, <2>3 DEF Serve
<1>3. CASE VerifyAnswers(c)
  <2>1. CASE \E failure \in Failure : VerifyFails(c, failure)
    <3>1. PICK failure \in Failure : VerifyFails(c, failure)
      BY <2>1
    <3>2. CASE req[c].attempts + 1 < MaxAttempts
      BY <1>0, <1>3, <3>1, <3>2 DEF VerifyFails, VerifyAnswers, Request
    <3>3. CASE ~ (req[c].attempts + 1 < MaxAttempts)
      BY <1>1, <1>3, <3>1, <3>3 DEF VerifyFails, VerifyAnswers
    <3> QED BY <3>2, <3>3
  <2>2. CASE ~ \E failure \in Failure : VerifyFails(c, failure)
    BY <1>1, <1>3, <2>2 DEF VerifyAnswers, VerifyIssues, VerifyRejects, VerifyOmitsToken
  <2> QED BY <2>1, <2>2
<1> QED BY <1>2, <1>3

LEMMA ServicesSound ==
    ASSUME Sound, PathSound, now' = now, NEW c \in Calls,
           DropAnswer(c) \/ ServeExchange(c) \/ ServeTool(c)
    PROVE  PathSound'
<1>0. /\ CallSound(call[c], req[c], rpc[c], now)
      /\ req \in [Calls -> Request]
      /\ rpc \in [Calls -> Rpc]
      /\ rpc[c] \in Rpc
      /\ call[c] \in Call
      /\ now \in Nat
  BY DelegationAssumption DEF PathSound, AgentTypeOK, McpTypeOK, Sound, BrokerTypeOK
<1>1. CASE DropAnswer(c)
  <2>1. ExchangeSound(call[c], req'[c]) /\ \A d \in Calls \ {c} : req'[d] = req[d]
    BY <1>0, <1>1 DEF DropAnswer, Deliver, ExchangeSound
  <2> QED BY <1>1, <2>1, RequestStep DEF DropAnswer
<1>2. CASE ServeExchange(c)
  <2>1. ExchangeSound(call[c], req'[c]) /\ \A d \in Calls \ {c} : req'[d] = req[d]
    BY <1>0, <1>2, ServeKeepsKey, DelegationAssumption
    DEF ServeExchange, CallSound, ExchangeSound
  <2> QED BY <1>2, <2>1, RequestStep DEF ServeExchange
<1>3. CASE ServeTool(c)
  <2>1. UNCHANGED <<now, agentVars, brokerVars>>
    BY <1>3 DEF ServeTool
  <2>2. ASSUME Admit(c)
        PROVE  PathSound'
    <3>1. PICK granted \in SUBSET Scopes :
            rpc' = [rpc EXCEPT ![c].phase = "admitted", ![c].granted = granted]
      <4>1. CASE Accepts(rpc[c].bearer)
                 /\ rpc' = [rpc EXCEPT ![c].phase = "admitted", ![c].granted = rpc[c].bearer.scope]
        <5>1. rpc[c].bearer.scope \in SUBSET Scopes
          BY <1>0, <4>1 DEF Accepts, Rpc, OboToken
        <5> QED BY <4>1, <5>1
      <4>2. CASE AcceptsAnonymous(rpc[c].bearer)
                 /\ rpc' = [rpc EXCEPT ![c].phase = "admitted", ![c].granted = {}]
        <5> DEFINE none == {}
        <5>1. none \in SUBSET Scopes
          OBVIOUS
        <5>2. rpc' = [rpc EXCEPT ![c].phase = "admitted", ![c].granted = none]
          BY <4>2
        <5> HIDE DEF none
        <5> QED BY <5>1, <5>2
      <4> QED BY <2>2, <4>1, <4>2 DEF Admit
    <3> DEFINE p == [rpc[c] EXCEPT !.phase = "admitted", !.granted = granted]
    <3>2. /\ p \in Rpc
          /\ p.phase = "admitted" /\ p.tool = rpc[c].tool /\ p.bearer = rpc[c].bearer
          /\ p.ran = rpc[c].ran
      BY <1>0 DEF Rpc
    <3>3. rpc' = [rpc EXCEPT ![c] = p]
      BY <1>0, <3>1
    <3> HIDE DEF p
    <3>4. rpc[c].phase = "sent"
      BY <2>2 DEF Admit
    <3>5. RpcSound(call[c], p, now)
      BY <1>0, <3>2, <3>4 DEF CallSound, RpcSound
    <3> QED BY <2>1, <3>2, <3>3, <3>5, RpcStep
  <2>3. ASSUME NEW answer \in ErrorText \cup {"output"}, NEW ran \in BOOLEAN,
               RpcAnswer(c, answer, ran), rpc[c].phase \in {"sent", "admitted"},
               answer = "output" => ran,
               answer = "unauthorized" => rpc[c].phase = "sent" /\ ~ Accepts(rpc[c].bearer)
        PROVE  PathSound'
    <3> DEFINE p == [rpc[c] EXCEPT !.phase = "answered", !.answer = answer, !.ran = ran]
    <3>1. /\ p \in Rpc
          /\ p.phase = "answered" /\ p.tool = rpc[c].tool /\ p.bearer = rpc[c].bearer
          /\ p.ran = ran /\ p.answer = answer
      BY <1>0, <2>3 DEF Rpc
    <3>2. rpc' = [rpc EXCEPT ![c] = p]
      BY <1>0, <2>3 DEF RpcAnswer
    <3> HIDE DEF p
    <3>3. answer = "unauthorized" => now > call[c].since + Leeway
      <4> SUFFICES ASSUME answer = "unauthorized"
                   PROVE  now > call[c].since + Leeway
        OBVIOUS
      <4>1. rpc[c].bearer \in OboToken /\ call[c].since < rpc[c].bearer.exp
        BY <1>0, <2>3 DEF CallSound, RpcSound, Fits
      <4>2. call[c].since \in Nat /\ rpc[c].bearer.exp \in Nat /\ Leeway \in Nat
        BY <1>0, <4>1, UserMcpAssumption DEF Call, OboToken
      <4> QED BY <1>0, <2>3, <4>1, <4>2, NoTokenAssumption DEF Accepts
    <3>4. RpcSound(call[c], p, now)
      BY <1>0, <2>3, <3>1, <3>3 DEF CallSound, RpcSound
    <3> QED BY <2>1, <3>1, <3>2, <3>4, RpcStep
  <2>4. ASSUME Reject(c) \/ RefuseTool(c) \/ RunTool(c) \/ LoseRequest(c)
        PROVE  PathSound'
    <3>1. CASE Reject(c)
      BY <2>3, <3>1 DEF Reject, ErrorText
    <3>2. CASE RefuseTool(c)
      BY <2>3, <3>2 DEF RefuseTool, ErrorText, InsufficientScopeError
    <3>3. CASE RunTool(c)
      BY <2>3, <3>3 DEF RunTool, ErrorText
    <3>4. CASE LoseRequest(c)
      BY <2>3, <3>4 DEF LoseRequest, ErrorText
    <3> QED BY <2>4, <3>1, <3>2, <3>3, <3>4
  <2> QED BY <1>3, <2>2, <2>4 DEF ServeTool, ServeRpc
<1> QED BY <1>1, <1>2, <1>3

\* What no single call does: restarts, GET /v1/agent/tokens, a new actor token.
LEMMA SurroundingsSound ==
    ASSUME Sound, PathSound, now' = now, Surroundings
    PROVE  PathSound'
<1>0. /\ \A c \in Calls : CallSound(call[c], req[c], rpc[c], now)
      /\ \A c \in Calls : call[c] \in Call
      /\ AgentTypeOK /\ McpTypeOK /\ AgentCacheSound
  BY DEF PathSound, AgentTypeOK
<1>1. CASE BrokerRestarts /\ UNCHANGED <<agentVars, rpc>>
  <2>1. \A c \in Calls : req'[c].phase = "idle"
    BY <1>1, DelegationAssumption DEF BrokerRestarts, IdleRequest
  <2>2. \A c \in Calls : CallSound(call[c], req'[c], rpc[c], now)
    BY <1>0, <2>1 DEF CallSound, ExchangeSound
  <2>3. AgentTypeOK' /\ McpTypeOK' /\ AgentCacheSound'
    BY <1>0, <1>1 DEF AgentTypeOK, McpTypeOK, AgentCacheSound
  <2> QED BY <1>1, <2>2, <2>3 DEF PathSound
<1>2. CASE AgentRestarts /\ UNCHANGED <<brokerVars, rpc>>
  <2>1. ASSUME NEW c \in Calls
        PROVE  call'[c] \in Call /\ CallSound(call'[c], req[c], rpc[c], now)
    <3>1. CASE call[c].phase \in {"idle", "done"}
      BY <1>0, <1>2, <3>1 DEF AgentRestarts
    <3>2. CASE call[c].phase \notin {"idle", "done"}
      <4>1. call'[c] = Ended(c, "lost")
        BY <1>2, <3>2 DEF AgentRestarts
      <4>2. /\ Ended(c, "lost") \in Call
            /\ Ended(c, "lost").phase = "done"
            /\ Ended(c, "lost").outcome = "lost"
            /\ Ended(c, "lost").subject = call[c].subject
            /\ Ended(c, "lost").tool = call[c].tool
            /\ Ended(c, "lost").since = call[c].since
        BY <1>0 DEF Ended, Call, Outcome, Raised
      <4> QED BY <1>0, <3>2, <4>1, <4>2 DEF CallSound, WorkSound, ExchangeSound, RpcSound
    <3> QED BY <3>1, <3>2
  <2>2. call' = [c \in Calls |-> call'[c]]
    BY <1>2 DEF AgentRestarts
  <2>3. AgentTypeOK' /\ McpTypeOK' /\ AgentCacheSound'
    BY <1>0, <1>2, <2>1, <2>2 DEF AgentRestarts, AgentTypeOK, McpTypeOK, AgentCacheSound
  <2> QED BY <1>2, <2>1, <2>3 DEF PathSound
<1>3. ASSUME NEW s \in Subjects, GetCachedTokens(s), UNCHANGED <<brokerVars, rpc>>
      PROVE  PathSound'
  <2> DEFINE k == [subject |-> s, scope |-> {"users.read"}]
  <2>1. k \in AgentKey
    BY ScopedToolsAssumption DEF AgentKey
  <2>2. agentCache' = Swept(k) /\ UNCHANGED <<templates, actorFile, exchanging, call>>
    BY <1>3 DEF GetCachedTokens
  <2> HIDE DEF k
  <2>3. AgentTypeOK' /\ McpTypeOK' /\ AgentCacheSound'
    BY <1>0, <1>3, <2>1, <2>2, SweptSound DEF AgentTypeOK, McpTypeOK, AgentCacheSound
  <2> QED BY <1>0, <1>3, <2>2, <2>3 DEF PathSound
<1>4. ASSUME NEW a \in Actors \cup {NoActor}, RotateActor(a), UNCHANGED <<brokerVars, rpc>>
      PROVE  PathSound'
  <2>1. AgentTypeOK' /\ McpTypeOK' /\ AgentCacheSound'
    BY <1>0, <1>4 DEF RotateActor, AgentTypeOK, McpTypeOK, AgentCacheSound
  <2> QED BY <1>0, <1>4, <2>1 DEF PathSound, RotateActor
<1> QED BY <1>1, <1>2, <1>3, <1>4 DEF Surroundings

LEMMA PathNext ==
    ASSUME Sound, PathSound, [Next]_vars
    PROVE  PathSound'
<1>0. now \in Nat
  BY DEF Sound, BrokerTypeOK
<1>1. ASSUME NEW c \in Calls, Step(c), UNCHANGED now
      PROVE  PathSound'
  BY <1>0, <1>1, StartSound, ReceiveSound, GiveUpSound, CallToolSound, ReuseSound, ServicesSound
  DEF Step
<1>2. CASE Surroundings /\ UNCHANGED now
  BY <1>2, SurroundingsSound
<1>3. CASE Tick /\ UNCHANGED <<brokerVars, agentVars, rpc>>
  <2>1. now' = now + 1
    BY <1>3 DEF Tick
  <2>2. AgentTypeOK' /\ McpTypeOK' /\ AgentCacheSound'
    BY <1>3 DEF PathSound, AgentTypeOK, McpTypeOK, AgentCacheSound
  <2>3. ASSUME NEW c \in Calls
        PROVE  CallSound(call[c], req[c], rpc[c], now + 1)
    BY <1>0, TimePasses DEF PathSound, AgentTypeOK
  <2> QED BY <1>3, <2>1, <2>2, <2>3 DEF PathSound
<1>4. CASE UNCHANGED vars
  <2>1. AgentTypeOK' /\ McpTypeOK' /\ AgentCacheSound'
    BY <1>4 DEF PathSound, AgentTypeOK, McpTypeOK, AgentCacheSound
  <2> QED BY <1>4, <2>1 DEF PathSound
<1> QED BY <1>1, <1>2, <1>3, <1>4 DEF Next

LEMMA PathInit == Init => PathSound
<1> SUFFICES ASSUME Init
             PROVE  PathSound
  OBVIOUS
<1>1. AgentTypeOK /\ McpTypeOK /\ AgentCacheSound
  BY IdleCallSound DEF Init, AgentInit, McpInit, AgentTypeOK, McpTypeOK, AgentCacheSound
<1>2. \A c \in Calls : call[c] = IdleCall /\ rpc[c] = NoRpc
  BY DelegationAssumption DEF Init, AgentInit, McpInit
<1> QED BY <1>1, <1>2, IdleCallSound DEF PathSound

\* The invariants of the broker and of the path.
LEMMA AlwaysPathSound == Safety => [](Sound /\ PathSound)
<1>1. Init => Sound /\ PathSound
  BY SoundInit, PathInit DEF Init
<1>2. Sound /\ PathSound /\ [Next]_vars => Sound' /\ PathSound'
  <2> SUFFICES ASSUME Sound, PathSound, [Next]_vars
               PROVE  Sound' /\ PathSound'
    OBVIOUS
  <2>1. [BrokerNext]_<<brokerVars, now>>
    BY BrokerStep DEF PathSound
  <2> QED BY <2>1, SoundNext, PathNext
<1> QED BY <1>1, <1>2, PTL DEF Safety

\* Requests, calls and all three caches keep their types, whatever restarts, times out or
\* goes wrong.
THEOREM DelegationTypeCorrect == Safety => []TypeOK
<1>1. Sound /\ PathSound => TypeOK
  BY DEF Sound, PathSound, TypeOK
<1> QED BY <1>1, AlwaysPathSound, PTL

\* The token a call works with is for its own subject, and for no scope the tool does not
\* declare, though the agent's cache is shared and exchanges are abandoned.
THEOREM PrivilegeStaysLeast == Safety => []LeastPrivilege
<1>1. Sound /\ PathSound => LeastPrivilege
  BY DEF PathSound, CallSound, WorkSound, Fits, LeastPrivilege
<1> QED BY <1>1, AlwaysPathSound, PTL

\* A tool takes effect only for subjects whose groups entitle all its scopes, although
\* user-mcp decides by the token alone, and two caches stand before it.
THEOREM ExecutionStaysEntitled == Safety => []EntitledExecution
<1>1. Sound /\ PathSound => EntitledExecution
  <2> SUFFICES ASSUME PathSound, NEW c \in Calls, rpc[c].ran
               PROVE  AuthorizeScope(rpc[c].bearer.subject, RequiredScopes(rpc[c].tool))
    BY DEF EntitledExecution
  <2>1. RpcSound(call[c], rpc[c], now)
    BY DEF PathSound, CallSound
  <2>2. rpc[c].phase # "none"
    BY <2>1 DEF RpcSound
  <2> QED BY <2>1, <2>2 DEF RpcSound, Fits
<1> QED BY <1>1, AlwaysPathSound, PTL

\* user-mcp refuses a token as expired only when more than its leeway has passed since the
\* call resolved the token.
THEOREM ExpiryIsNeverPremature == Safety => []NoPrematureExpiry
<1>1. Sound /\ PathSound => NoPrematureExpiry
  BY DEF PathSound, CallSound, WorkSound, NoPrematureExpiry
<1> QED BY <1>1, AlwaysPathSound, PTL

\* Nothing in OboTokenService's cache was issued for another subject or a wider scope than
\* its key says, or for a subject the policy refuses.
THEOREM AgentCacheStaysSound == Safety => []AgentCacheSound
<1>1. Sound /\ PathSound => AgentCacheSound
  BY DEF PathSound
<1> QED BY <1>1, AlwaysPathSound, PTL

\* Between agent and user-mcp the token-exchange service is the one OboBroker specifies:
\* every guarantee of the broker proved above holds of it.
THEOREM RunsTheBroker == Safety => BrokerSafety
<1>1. Init => BrokerInit
  BY DEF Init
<1>2. Sound /\ PathSound /\ [Next]_vars => [BrokerNext]_<<brokerVars, now>>
  BY BrokerStep DEF PathSound
<1> QED BY <1>1, <1>2, AlwaysPathSound, PTL DEF Safety, BrokerSafety

-------------------------------------------------------------------------------
(* The promise the path implements *)

LEMMA AuthorityInit == Init => Authority!Init
BY DelegationAssumption DEF Init, AgentInit, IdleCall, tickets, TicketOf, Authority!Init, Authority!Free, Authority!NewTicket

\* What ticket stands for a call, by its phase.
TicketIn(state, q, p) == [state |-> state, user |-> q.subject, tool |-> q.tool, ran |-> p.ran]

LEMMA TicketKinds ==
    ASSUME NEW q, NEW p
    PROVE  /\ q.phase = "idle" => TicketOf(q, p) = Authority!Free
           /\ q.phase \notin {"idle", "done"} => TicketOf(q, p) = TicketIn("open", q, p)
           /\ q.phase = "done" /\ q.outcome = "output" => TicketOf(q, p) = TicketIn("succeeded", q, p)
           /\ q.phase = "done" /\ q.outcome # "output" => TicketOf(q, p) = TicketIn("failed", q, p)
<1>1. q.phase = "idle" => TicketOf(q, p) = Authority!Free
  BY DEF TicketOf, Authority!Free, Authority!NewTicket
<1>2. q.phase \notin {"idle", "done"} => TicketOf(q, p) = TicketIn("open", q, p)
  BY DEF TicketOf, TicketIn
<1>3. q.phase = "done" /\ q.outcome = "output" => TicketOf(q, p) = TicketIn("succeeded", q, p)
  BY DEF TicketOf, TicketIn
<1>4. q.phase = "done" /\ q.outcome # "output" => TicketOf(q, p) = TicketIn("failed", q, p)
  BY DEF TicketOf, TicketIn
<1> QED BY <1>1, <1>2, <1>3, <1>4

\* What changes of one call changes its ticket only.
LEMMA OneTicket ==
    ASSUME NEW c \in Calls,
           \A d \in Calls \ {c} : call'[d] = call[d] /\ rpc'[d] = rpc[d]
    PROVE  tickets' = [tickets EXCEPT ![c] = TicketOf(call'[c], rpc'[c])]
<1>1. \A d \in Calls \ {c} : TicketOf(call'[d], rpc'[d]) = TicketOf(call[d], rpc[d])
  BY Zenon
<1> QED BY <1>1 DEF tickets

\* A call that ends without the tool's output fails its ticket.
LEMMA FailOne ==
    ASSUME NEW c \in Calls, call \in [Calls -> Call], call[c].phase \notin {"idle", "done"},
           NEW outcome \in Outcome \ {"output"}, End(c, outcome), UNCHANGED rpc
    PROVE  Authority!Fail({c})
<1>1. tickets' = [tickets EXCEPT ![c] = TicketOf(call'[c], rpc'[c])]
  BY OneTicket DEF End
<1>2. /\ TicketOf(call[c], rpc[c]).state = "open"
      /\ TicketOf(call'[c], rpc'[c]) = [TicketOf(call[c], rpc[c]) EXCEPT !.state = "failed"]
  <2>1. call'[c] = Ended(c, outcome) /\ rpc'[c] = rpc[c]
    BY DEF End
  <2>2. /\ Ended(c, outcome).phase = "done" /\ Ended(c, outcome).outcome = outcome
        /\ Ended(c, outcome).subject = call[c].subject /\ Ended(c, outcome).tool = call[c].tool
    BY DEF Ended, Call
  <2> QED BY <2>1, <2>2, TicketKinds DEF TicketIn
<1>3. tickets = [d \in Calls |-> TicketOf(call[d], rpc[d])]
  BY DEF tickets
<1> QED BY <1>1, <1>2, <1>3 DEF Authority!Fail

\* A call that starts opens its ticket, or has it refused at once.
LEMMA OpenOne ==
    ASSUME NEW c \in Calls, NEW s \in Subjects, NEW t \in Tools,
           call \in [Calls -> Call], call[c].phase = "idle", rpc[c] = NoRpc, UNCHANGED rpc,
           NEW q, call' = [call EXCEPT ![c] = q], q.subject = s, q.tool = t,
           q.phase # "idle", q.outcome # "output"
    PROVE  Authority!Open(c, s, t) \/ Authority!OpenRefused(c, s, t)
<1>1. tickets[c] = Authority!Free
  BY TicketKinds DEF tickets
<1>2. tickets' = [tickets EXCEPT ![c] = TicketOf(q, NoRpc)]
  <2>1. call'[c] = q /\ rpc'[c] = NoRpc
    OBVIOUS
  <2> QED BY <2>1, OneTicket
<1>3. \A state : TicketIn(state, q, NoRpc) = Authority!NewTicket(state, s, t)
  <2>1. NoRpc.ran = FALSE
    BY DEF NoRpc
  <2> QED BY <2>1, Zenon DEF TicketIn, Authority!NewTicket
<1>4. CASE q.phase = "done"
  <2>1. TicketOf(q, NoRpc) = TicketIn("failed", q, NoRpc)
    BY <1>4, TicketKinds
  <2> QED BY <1>1, <1>2, <1>3, <2>1, Zenon DEF Authority!OpenRefused
<1>5. CASE q.phase # "done"
  <2>1. TicketOf(q, NoRpc) = TicketIn("open", q, NoRpc)
    BY <1>5, TicketKinds
  <2> QED BY <1>1, <1>2, <1>3, <2>1, Zenon DEF Authority!Open
<1> QED BY <1>4, <1>5

\* What moves neither the caller's view of a call nor whether the tool has run.
LEMMA SameTicket ==
    ASSUME NEW c \in Calls,
           \A d \in Calls \ {c} : call'[d] = call[d] /\ rpc'[d] = rpc[d],
           TicketOf(call'[c], rpc'[c]) = TicketOf(call[c], rpc[c])
    PROVE  UNCHANGED tickets
<1>1. \A d \in Calls : TicketOf(call'[d], rpc'[d]) = TicketOf(call[d], rpc[d])
  <2> TAKE d \in Calls
  <2>1. CASE d = c
    BY <2>1
  <2>2. CASE d # c
    BY <2>2, Zenon
  <2> QED BY <2>1, <2>2
<1> QED BY <1>1 DEF tickets

LEMMA AgentSimulates ==
    ASSUME PathSound, NEW c \in Calls,
           \/ ReceiveAnswer(c) \/ DropAnswer(c) \/ GiveUpExchange(c) \/ ServeExchange(c)
           \/ CallTool(c) \/ SessionFails(c) \/ ReceiveResult(c) \/ GiveUpResult(c)
    PROVE  Authority!Next \/ UNCHANGED tickets
<1>0. /\ CallSound(call[c], req[c], rpc[c], now)
      /\ call \in [Calls -> Call] /\ call[c] \in Call
      /\ rpc \in [Calls -> Rpc]
  BY DelegationAssumption DEF PathSound, AgentTypeOK, McpTypeOK
<1>1. Authority!Fail({c}) => Authority!Next
  BY DEF Authority!Next
<1>2. ASSUME NEW outcome \in {"text", "error", "lost", "timeout", "expired"}, End(c, outcome),
             call[c].phase \in {"exchange", "list", "invoke"}, UNCHANGED rpc
      PROVE  Authority!Next
  BY <1>0, <1>1, <1>2, FailOne DEF Outcome, Raised
<1>3. CASE ReceiveAnswer(c)
  <2>1. CASE ExchangeRefused(c)
    BY <1>2, <1>3, <2>1 DEF ReceiveAnswer, ExchangeRefused
  <2>2. ASSUME NEW token, ExchangeSucceeds(c, token)
        PROVE  UNCHANGED tickets
    <3> DEFINE q == [call[c] EXCEPT !.phase = "list", !.token = token, !.since = now]
    <3>1. q.phase = "list" /\ q.subject = call[c].subject /\ q.tool = call[c].tool
      BY <1>0 DEF Call
    <3>2. call' = [call EXCEPT ![c] = q] /\ call[c].phase = "exchange" /\ rpc' = rpc
      BY <1>0, <1>3, <2>2 DEF ExchangeSucceeds, ReceiveAnswer
    <3> HIDE DEF q
    <3>3. TicketOf(q, rpc[c]) = TicketOf(call[c], rpc[c])
      BY <3>1, <3>2, TicketKinds DEF TicketIn
    <3>4. call'[c] = q /\ \A d \in Calls \ {c} : call'[d] = call[d]
      BY <1>0, <3>2
    <3> QED BY <3>2, <3>3, <3>4, SameTicket
  <2> QED BY <1>3, <2>1, <2>2 DEF ReceiveAnswer
<1>4. CASE DropAnswer(c) \/ ServeExchange(c)
  BY <1>4 DEF DropAnswer, ServeExchange, tickets
<1>5. CASE GiveUpExchange(c)
  BY <1>2, <1>5 DEF GiveUpExchange, ExchangeBreaks
<1>6. CASE CallTool(c)
  <2> DEFINE q == [call[c] EXCEPT !.phase = "invoke"]
             p == [NoRpc EXCEPT !.phase = "sent", !.tool = call[c].tool, !.bearer = call[c].token]
  <2>1. q.phase = "invoke" /\ q.subject = call[c].subject /\ q.tool = call[c].tool
    BY <1>0 DEF Call
  <2>2. p.ran = FALSE
    BY DEF NoRpc
  <2>3. /\ call' = [call EXCEPT ![c] = q] /\ rpc' = [rpc EXCEPT ![c] = p]
        /\ call[c].phase = "list"
        /\ rpc[c] = NoRpc
    BY <1>0, <1>6 DEF CallTool, ListTools, Post, CallSound, RpcSound
  <2> HIDE DEF q, p
  <2>4. TicketOf(q, p) = TicketOf(call[c], rpc[c])
    <3>1. p.ran = rpc[c].ran
      <4>1. NoRpc.ran = FALSE
        BY DEF NoRpc
      <4> QED BY <2>2, <2>3, <4>1, Zenon
    <3>2. TicketOf(q, p) = TicketIn("open", q, p)
      BY <2>1, TicketKinds
    <3>3. TicketOf(call[c], rpc[c]) = TicketIn("open", call[c], rpc[c])
      BY <2>3, TicketKinds
    <3> QED BY <2>1, <3>1, <3>2, <3>3 DEF TicketIn
  <2>5. /\ call'[c] = q /\ rpc'[c] = p
        /\ \A d \in Calls \ {c} : call'[d] = call[d] /\ rpc'[d] = rpc[d]
    BY <1>0, <2>3
  <2> QED BY <2>4, <2>5, SameTicket
<1>7. CASE SessionFails(c)
  BY <1>2, <1>7 DEF SessionFails, Return
<1>8. CASE GiveUpResult(c)
  BY <1>2, <1>8 DEF GiveUpResult, Return
<1>9. CASE ReceiveResult(c)
  <2>1. /\ call[c].phase = "invoke" /\ rpc[c].phase = "answered"
        /\ End(c, OutcomeOf(rpc[c].answer)) /\ rpc' = rpc
    BY <1>9 DEF ReceiveResult, Return
  <2>2. CASE rpc[c].answer = "output"
    <3>1. rpc[c].ran
      BY <1>0, <2>1, <2>2 DEF CallSound, RpcSound
    <3>2. call' = [call EXCEPT ![c] = Ended(c, "output")]
      BY <2>1, <2>2 DEF End, OutcomeOf
    <3>3. /\ Ended(c, "output").phase = "done" /\ Ended(c, "output").outcome = "output"
          /\ Ended(c, "output").subject = call[c].subject /\ Ended(c, "output").tool = call[c].tool
      BY <1>0 DEF Ended, Call
    <3>4. call'[c] = Ended(c, "output") /\ \A d \in Calls \ {c} : call'[d] = call[d]
      BY <1>0, <3>2
    <3>5. tickets' = [tickets EXCEPT ![c] = TicketOf(call'[c], rpc'[c])]
      BY <2>1, <3>4, OneTicket
    <3>6. /\ TicketOf(call'[c], rpc'[c]) = TicketIn("succeeded", call[c], rpc[c])
          /\ tickets[c] = TicketIn("open", call[c], rpc[c])
      BY <2>1, <3>3, <3>4, TicketKinds DEF tickets, TicketIn
    <3>7. [tickets[c] EXCEPT !.state = "succeeded"] = TicketIn("succeeded", call[c], rpc[c])
      BY <3>6 DEF TicketIn
    <3>8. tickets[c].state = "open" /\ tickets[c].ran
      BY <3>1, <3>6 DEF TicketIn
    <3>9. Authority!Succeed(c)
      BY <3>5, <3>6, <3>7, <3>8, Zenon DEF Authority!Succeed
    <3> QED BY <3>9 DEF Authority!Next
  <2>3. CASE rpc[c].answer # "output"
    <3>1. OutcomeOf(rpc[c].answer) \in {"text", "expired", "error"}
      BY <2>3 DEF OutcomeOf
    <3> QED BY <1>2, <2>1, <3>1
  <2> QED BY <2>2, <2>3
<1> QED BY <1>3, <1>4, <1>5, <1>6, <1>7, <1>8, <1>9

LEMMA StartSimulates ==
    ASSUME PathSound, NEW c \in Calls, NEW s \in Subjects, NEW t \in Tools, Start(c, s, t)
    PROVE  Authority!Next
<1>0. /\ call \in [Calls -> Call] /\ call[c].phase = "idle"
      /\ rpc[c] = NoRpc /\ UNCHANGED rpc
  <2>1. call[c].phase = "idle" /\ rpc[c].phase = "none" /\ UNCHANGED rpc
    BY DEF Start, ResolveCached, ResolveFails, ResolveMissing, CanStart
  <2>2. RpcSound(call[c], rpc[c], now) /\ call \in [Calls -> Call]
    BY DEF PathSound, AgentTypeOK, CallSound
  <2> QED BY <2>1, <2>2 DEF RpcSound
<1>1. Opened(s, t) \in Call /\ Opened(s, t).subject = s /\ Opened(s, t).tool = t
      /\ Opened(s, t).outcome = "none"
  <2>1. IdleCall \in Call /\ IdleCall.outcome = "none"
    BY IdleCallSound DEF IdleCall
  <2> QED BY <2>1 DEF Opened, Call
<1>2. \E q : /\ call' = [call EXCEPT ![c] = q]
             /\ q.subject = s /\ q.tool = t /\ q.phase # "idle" /\ q.outcome # "output"
  <2>1. CASE ResolveCached(c, s, t)
    <3> DEFINE q == [Opened(s, t) EXCEPT
                        !.phase = "list", !.token = agentCache[KeyOf(s, t)], !.since = now]
    <3>1. q.subject = s /\ q.tool = t /\ q.phase = "list" /\ q.outcome = "none"
      BY <1>1 DEF Call
    <3>2. call' = [call EXCEPT ![c] = q]
      BY <2>1 DEF ResolveCached
    <3> HIDE DEF q
    <3> QED BY <3>1, <3>2
  <2>2. CASE ResolveFails(c, s, t)
    <3> DEFINE q == [Opened(s, t) EXCEPT !.phase = "done", !.outcome = "text"]
    <3>1. q.subject = s /\ q.tool = t /\ q.phase = "done" /\ q.outcome = "text"
      BY <1>1 DEF Call
    <3>2. call' = [call EXCEPT ![c] = q]
      BY <2>2 DEF ResolveFails
    <3> HIDE DEF q
    <3> QED BY <3>1, <3>2
  <2>3. CASE ResolveMissing(c, s, t)
    <3> DEFINE q == [Opened(s, t) EXCEPT !.phase = "exchange"]
    <3>1. q.subject = s /\ q.tool = t /\ q.phase = "exchange" /\ q.outcome = "none"
      BY <1>1 DEF Call
    <3>2. call' = [call EXCEPT ![c] = q]
      BY <2>3 DEF ResolveMissing
    <3> HIDE DEF q
    <3> QED BY <3>1, <3>2
  <2> QED BY <2>1, <2>2, <2>3 DEF Start
<1>3. Authority!Open(c, s, t) \/ Authority!OpenRefused(c, s, t)
  BY <1>0, <1>2, OpenOne
<1> QED BY <1>3 DEF Authority!Next

LEMMA ReuseSimulates ==
    ASSUME PathSound, NEW c \in Calls, Reuse(c)
    PROVE  Authority!Next
<1>1. /\ call \in [Calls -> Call] /\ rpc \in [Calls -> Rpc]
      /\ call[c].phase = "done"
      /\ call' = [call EXCEPT ![c] = IdleCall] /\ rpc' = [rpc EXCEPT ![c] = NoRpc]
  BY DelegationAssumption DEF PathSound, AgentTypeOK, McpTypeOK, Reuse, Forget
<1>2. TicketOf(IdleCall, NoRpc) = Authority!Free
  <2>1. IdleCall.phase = "idle"
    BY DEF IdleCall
  <2> QED BY <2>1, TicketKinds
<1>3. tickets' = [tickets EXCEPT ![c] = Authority!Free]
  <2>1. /\ call'[c] = IdleCall /\ rpc'[c] = NoRpc
        /\ \A d \in Calls \ {c} : call'[d] = call[d] /\ rpc'[d] = rpc[d]
    BY <1>1
  <2> QED BY <1>2, <2>1, OneTicket
<1>4. tickets[c].state \in {"succeeded", "failed"}
  <2>1. \/ TicketOf(call[c], rpc[c]) = TicketIn("succeeded", call[c], rpc[c])
        \/ TicketOf(call[c], rpc[c]) = TicketIn("failed", call[c], rpc[c])
    BY <1>1, TicketKinds
  <2> QED BY <2>1 DEF tickets, TicketIn
<1>5. Authority!Retire(c)
  BY <1>3, <1>4 DEF Authority!Retire
<1> QED BY <1>5 DEF Authority!Next

\* user-mcp runs the tool once per call, for a subject entitled to it; what else it does
\* changes no ticket.
LEMMA ServeSimulates ==
    ASSUME PathSound, NEW c \in Calls, ServeTool(c)
    PROVE  Authority!Next \/ UNCHANGED tickets
<1>0. /\ CallSound(call[c], req[c], rpc[c], now)
      /\ call[c] \in Call
      /\ rpc \in [Calls -> Rpc] /\ rpc[c] \in Rpc
      /\ call' = call
  BY DelegationAssumption DEF PathSound, AgentTypeOK, McpTypeOK, ServeTool
<1>1. rpc[c].phase \in {"sent", "admitted"} /\ call[c].phase \in {"invoke", "done"}
      /\ Fits(rpc[c].bearer, call[c].subject, call[c].tool)
      /\ call[c].outcome # "output"
      /\ rpc[c].ran = FALSE
  <2>1. rpc[c].phase \in {"sent", "admitted"}
    BY DEF ServeTool, ServeRpc, Admit, Reject, RefuseTool, RunTool, LoseRequest
  <2>2. ~ rpc[c].ran
    BY <1>0, <2>1 DEF CallSound, RpcSound
  <2>3. rpc[c].ran \in BOOLEAN
    BY <1>0 DEF Rpc
  <2> QED BY <1>0, <2>1, <2>2, <2>3 DEF CallSound, RpcSound
<1>2. ASSUME NEW p, rpc' = [rpc EXCEPT ![c] = p], p.ran = FALSE
      PROVE  UNCHANGED tickets
  <2>1. rpc'[c] = p /\ \A d \in Calls \ {c} : rpc'[d] = rpc[d]
    BY <1>0, <1>2
  <2>2. TicketOf(call[c], p) = TicketOf(call[c], rpc[c])
    BY <1>1, <1>2, Zenon DEF TicketOf
  <2> QED BY <1>0, <2>1, <2>2, SameTicket
<1>3. ASSUME NEW p, rpc' = [rpc EXCEPT ![c] = p], p.ran = TRUE
      PROVE  Authority!Run(c)
  <2>1. rpc'[c] = p /\ \A d \in Calls \ {c} : rpc'[d] = rpc[d]
    BY <1>0, <1>3
  <2>2. tickets' = [tickets EXCEPT ![c] = TicketOf(call[c], p)]
    BY <1>0, <2>1, OneTicket
  <2>3. PICK state \in {"open", "failed"} : /\ TicketOf(call[c], p) = TicketIn(state, call[c], p)
                                            /\ tickets[c] = TicketIn(state, call[c], rpc[c])
    <3>1. CASE call[c].phase = "invoke"
      BY <3>1, TicketKinds DEF tickets
    <3>2. CASE call[c].phase = "done"
      BY <1>1, <3>2, TicketKinds DEF tickets
    <3> QED BY <1>1, <3>1, <3>2
  <2>4. /\ tickets[c].state = state /\ tickets[c].user = call[c].subject
        /\ tickets[c].tool = call[c].tool /\ tickets[c].ran = FALSE
    BY <1>1, <2>3 DEF TicketIn
  <2>5. [tickets[c] EXCEPT !.ran = p.ran] = TicketIn(state, call[c], p)
    BY <2>3 DEF TicketIn
  <2>6. AuthorizeScope(tickets[c].user, RequiredScopes(tickets[c].tool))
    BY <1>1, <2>4 DEF Fits
  <2>7. tickets' = [tickets EXCEPT ![c].ran = TRUE]
    BY <1>3, <2>2, <2>3, <2>5, Zenon
  <2> QED BY <2>4, <2>6, <2>7 DEF Authority!Run
<1>4. ASSUME Admit(c)
      PROVE  UNCHANGED tickets
  <2>1. PICK granted : rpc' = [rpc EXCEPT ![c].phase = "admitted", ![c].granted = granted]
    BY <1>4 DEF Admit
  <2> DEFINE p == [rpc[c] EXCEPT !.phase = "admitted", !.granted = granted]
  <2>2. p.ran = rpc[c].ran
    BY <1>0 DEF Rpc
  <2>3. rpc' = [rpc EXCEPT ![c] = p]
    BY <1>0, <2>1
  <2> HIDE DEF p
  <2> QED BY <1>1, <1>2, <2>2, <2>3
<1>5. ASSUME NEW answer, NEW ran \in BOOLEAN, RpcAnswer(c, answer, ran)
      PROVE  Authority!Run(c) \/ UNCHANGED tickets
  <2> DEFINE p == [rpc[c] EXCEPT !.phase = "answered", !.answer = answer, !.ran = ran]
  <2>1. p.ran = ran
    BY <1>0 DEF Rpc
  <2>2. rpc' = [rpc EXCEPT ![c] = p]
    BY <1>0, <1>5 DEF RpcAnswer
  <2> HIDE DEF p
  <2>3. CASE ran = TRUE
    BY <1>3, <2>1, <2>2, <2>3
  <2>4. CASE ran = FALSE
    BY <1>2, <2>1, <2>2, <2>4
  <2> QED BY <2>3, <2>4
<1>6. Admit(c) \/ \E answer : \E ran \in BOOLEAN : RpcAnswer(c, answer, ran)
  BY DEF ServeTool, ServeRpc, Reject, RefuseTool, RunTool, LoseRequest
<1>7. Authority!Run(c) \/ UNCHANGED tickets
  BY <1>4, <1>5, <1>6
<1> QED BY <1>7 DEF Authority!Next

\* A restart of the agent fails all its open tickets at once.
LEMMA SurroundingsSimulate ==
    ASSUME PathSound, Surroundings
    PROVE  Authority!Next \/ UNCHANGED tickets
<1>0. call \in [Calls -> Call]
  BY DEF PathSound, AgentTypeOK
<1>1. ASSUME AgentRestarts, UNCHANGED rpc
      PROVE  Authority!Next
  <2> DEFINE S == {c \in Calls : call[c].phase \notin {"idle", "done"}}
  <2>1. ASSUME NEW c \in S
        PROVE  /\ tickets[c].state = "open"
               /\ TicketOf(call'[c], rpc'[c]) = [tickets[c] EXCEPT !.state = "failed"]
    <3>1. call'[c] = Ended(c, "lost")
      BY <1>1 DEF AgentRestarts
    <3>2. /\ Ended(c, "lost").phase = "done" /\ Ended(c, "lost").outcome = "lost"
          /\ Ended(c, "lost").subject = call[c].subject /\ Ended(c, "lost").tool = call[c].tool
      BY <1>0 DEF Ended, Call
    <3>3. tickets[c] = TicketIn("open", call[c], rpc[c])
      BY TicketKinds DEF tickets
    <3>4. TicketOf(call'[c], rpc'[c]) = TicketIn("failed", call'[c], rpc[c])
      BY <1>1, <3>1, <3>2, TicketKinds
    <3> QED BY <3>1, <3>2, <3>3, <3>4 DEF TicketIn
  <2>2. ASSUME NEW c \in Calls, c \notin S
        PROVE  TicketOf(call'[c], rpc'[c]) = tickets[c]
    <3>1. call'[c] = call[c] /\ rpc'[c] = rpc[c]
      BY <1>1, <2>2 DEF AgentRestarts
    <3> QED BY <3>1, Zenon DEF tickets
  <2>3. S \in SUBSET Calls
    OBVIOUS
  <2> HIDE DEF S
  <2>4. tickets' = [c \in Calls |-> IF c \in S THEN [tickets[c] EXCEPT !.state = "failed"]
                                               ELSE tickets[c]]
    BY <2>1, <2>2, <2>3 DEF tickets
  <2>5. Authority!Fail(S)
    BY <2>1, <2>4 DEF Authority!Fail
  <2> QED BY <2>3, <2>5 DEF Authority!Next
<1>2. UNCHANGED <<call, rpc>> => UNCHANGED tickets
  BY DEF tickets
<1> QED BY <1>1, <1>2 DEF Surroundings, GetCachedTokens, RotateActor

\* Whatever is cached, retried, abandoned or lost on the way, a tool takes effect at most
\* once per call, for the user who asked and whom the policy entitles to it; and a call
\* that reports the tool's output has had its effect.
THEOREM AuthorityIsImplemented == Safety => ImplementsAuthority
<1>1. Init => Authority!Init
  BY AuthorityInit
<1>2. Sound /\ PathSound /\ [Next]_vars => [Authority!Next]_tickets
  <2> SUFFICES ASSUME PathSound, [Next]_vars
               PROVE  Authority!Next \/ UNCHANGED tickets
    OBVIOUS
  <2>1. ASSUME NEW c \in Calls, Step(c)
        PROVE  Authority!Next \/ UNCHANGED tickets
    BY <2>1, StartSimulates, AgentSimulates, ServeSimulates, ReuseSimulates DEF Step
  <2>2. CASE UNCHANGED <<call, rpc>>
    BY <2>2 DEF tickets
  <2> QED BY <2>1, <2>2, SurroundingsSimulate DEF Next
<1> QED BY <1>1, <1>2, AlwaysPathSound, PTL DEF Safety, ImplementsAuthority, Authority!Spec
===============================================================================
