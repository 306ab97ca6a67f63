-------------------------- MODULE VaultBroker_proofs --------------------------
(***************************************************************************)
(* Proofs about VaultBroker, for any number of requests, keys, Vault       *)
(* tokens and roles, any TTL, cache size, buffer, lifetimes and number of  *)
(* attempts.                                                               *)
(*                                                                         *)
(*   Sound     types, and every token in the cache, in a handler or in an  *)
(*             answer belongs to the key it is there for: inductive        *)
(*   Held      one request at most has the event loop; what it read is     *)
(*             still in the cache, and nothing usable is cached for the    *)
(*             key it asks Vault for: inductive relative to Sound          *)
(*   WellKept  the cache is ordered by recency and within its size:        *)
(*             inductive relative to Sound                                 *)
(*   Forgetful no entry outlives the TTL counted from the revocation of    *)
(*             its Vault token: inductive relative to Sound                *)
(***************************************************************************)
EXTENDS VaultBroker, TokenCache_proofs, TLAPS

USE DEF vars

-------------------------------------------------------------------------------
(* Types and soundness *)

\* A token signed for this Vault token and role.
Own(token, key) ==
    /\ token \in IdentityToken
    /\ token.vault = key.vault
    /\ token.role = key.role

RequestSound(q) ==
    /\ q \in Request
    /\ q.phase # "idle" => q.key \in CacheKey
    /\ q.phase = "read" => Own(q.read, q.key)
    /\ q.phase = "answered" /\ q.answer.status = 200 => Own(q.answer.token, q.key)

StoreSound(cache) ==
    /\ cache \in Cache(IdentityToken)
    /\ \A k \in CacheKey : cache.slot[k] # Absent => Own(cache.slot[k].token, k)

Sound ==
    /\ VaultTypeOK
    /\ \A r \in Requests : RequestSound(vreq[r])
    /\ StoreSound(vcache)

\* The records the actions put in place of a request.
LEMMA IdleSound == IdleRequest \in Request /\ RequestSound(IdleRequest)
<1>1. 0 \in 0 .. (MaxAttempts - 1)
  BY VaultBrokerAssumption
<1> QED BY <1>1 DEF IdleRequest, RequestSound, Request, Answer, Refuse

\* Request r answered, as AnswerWith has it.
Answered(r, answer) ==
    [IdleRequest EXCEPT !.phase = "answered", !.key = vreq[r].key, !.answer = answer]

LEMMA AnsweredSound ==
    ASSUME NEW r \in Requests, vreq[r].key \in CacheKey, NEW answer \in Answer,
           answer.status = 200 => Own(answer.token, vreq[r].key)
    PROVE  RequestSound(Answered(r, answer)) /\ Answered(r, answer).phase = "answered"
<1> DEFINE q == Answered(r, answer)
<1>1. q.phase = "answered" /\ q.key = vreq[r].key /\ q.answer = answer
  BY IdleSound DEF Answered, Request
<1>2. q \in Request
  BY IdleSound DEF Answered, Request
<1> QED BY <1>1, <1>2 DEF RequestSound

LEMMA RefusalSound ==
    ASSUME NEW status \in {401, 500, 503}
    PROVE  Refuse(status) \in Answer /\ Refuse(status).status # 200
BY DEF Refuse, Answer

LEMMA ResultSound ==
    ASSUME now \in Nat, NEW token \in IdentityToken, NEW cached \in BOOLEAN
    PROVE  Result(token, cached) \in Answer /\ Result(token, cached).token = token
<1>1. ExtractExp(token) \in Nat
  BY VaultBrokerAssumption DEF ExtractExp, IdentityToken
<1> QED BY <1>1 DEF Result, Answer

\* A cache that only lost entries is as sound as before.
LEMMA ShrinkSound ==
    ASSUME NEW old, StoreSound(old), NEW new \in Cache(IdentityToken),
           \A k \in CacheKey : new.slot[k] \in {old.slot[k], Absent}
    PROVE  StoreSound(new)
BY DEF StoreSound

\* One request's record and the cache change.
LEMMA SoundStep ==
    ASSUME Sound, UNCHANGED <<now, revoked>>, oboServes' = oboServes, NEW r \in Requests,
           NEW q, RequestSound(q), vreq' = [vreq EXCEPT ![r] = q], StoreSound(vcache')
    PROVE  Sound'
<1>1. \A p \in Requests : vreq'[p] = IF p = r THEN q ELSE vreq[p]
  BY DEF Sound, VaultTypeOK
<1>2. vreq' \in [Requests -> Request]
  BY DEF Sound, VaultTypeOK, RequestSound
<1> QED BY <1>1, <1>2 DEF Sound, VaultTypeOK, RequestSound, StoreSound

LEMMA SoundInit == Init => Sound
<1> SUFFICES ASSUME Init
             PROVE  Sound
  OBVIOUS
<1>1. StoreSound(vcache)
  BY DEF Init, StoreSound, EmptyCache, Cache
<1>2. vreq \in [Requests -> Request] /\ \A r \in Requests : RequestSound(vreq[r])
  BY IdleSound DEF Init
<1> QED BY <1>1, <1>2 DEF Init, Sound, VaultTypeOK, StoreSound

\* The handler's steps: they read and delete.
LEMMA SoundServe ==
    ASSUME Sound, UNCHANGED <<now, revoked>>, NEW r \in Requests, Serve(r)
    PROVE  Sound'
<1>0. /\ now \in Nat
      /\ vreq \in [Requests -> Request]
      /\ vreq[r] \in Request
      /\ RequestSound(vreq[r])
      /\ StoreSound(vcache)
      /\ vcache \in Cache(IdentityToken)
  BY DEF Sound, VaultTypeOK
<1>1. vreq[r].key \in CacheKey
  BY <1>0 DEF Serve, GetIdentity, ServeCached, Delete, RequestSound
<1>2. ASSUME Get(r), UNCHANGED oboServes
      PROVE  Sound'
  <2> DEFINE q == [vreq[r] EXCEPT !.phase = "read", !.read = vcache.slot[vreq[r].key].token]
  <2>1. vreq' = [vreq EXCEPT ![r] = q]
    BY <1>0, <1>2 DEF Get
  <2>2. Own(vcache.slot[vreq[r].key].token, vreq[r].key)
    BY <1>0, <1>1, <1>2 DEF Get, Present, StoreSound
  <2>3. RequestSound(q)
    BY <1>0, <1>1, <2>2 DEF RequestSound, Request, Own
  <2>4. Touch(vcache.older, vreq[r].key, Stored(vcache)) \in SUBSET (CacheKey \X CacheKey)
    BY <1>0, <1>1 DEF Touch, Stored, Cache
  <2>5. StoreSound(vcache')
    BY <1>0, <1>2, <2>4 DEF Get, StoreSound, Cache
  <2> QED BY <1>2, <2>1, <2>3, <2>5, SoundStep
<1>3. ASSUME GetMissing(r), UNCHANGED oboServes
      PROVE  Sound'
  <2> DEFINE q == [vreq[r] EXCEPT !.phase = "vault"]
  <2>1. vreq' = [vreq EXCEPT ![r] = q] /\ vcache' = vcache
    BY <1>3 DEF GetMissing
  <2>2. RequestSound(q)
    BY <1>0, <1>1 DEF RequestSound, Request
  <2> QED BY <1>0, <1>3, <2>1, <2>2, SoundStep
<1>4. CASE ServeCached(r)
  <2>1. Own(vreq[r].read, vreq[r].key)
    BY <1>0, <1>4 DEF ServeCached, RequestSound
  <2>2. /\ Result(vreq[r].read, TRUE) \in Answer
        /\ Result(vreq[r].read, TRUE).token = vreq[r].read
    BY <1>0, <2>1, ResultSound DEF Own
  <2>3. RequestSound(Answered(r, Result(vreq[r].read, TRUE)))
    BY <1>1, <2>1, <2>2, AnsweredSound
  <2> QED BY <1>0, <1>4, <2>3, SoundStep DEF ServeCached, AnswerWith, Answered
<1>5. CASE Delete(r)
  <2> DEFINE q == [vreq[r] EXCEPT !.phase = "vault", !.read = NoToken]
  <2>1. vreq' = [vreq EXCEPT ![r] = q] /\ vcache' = Drop(vcache, {vreq[r].key})
    BY <1>0, <1>5 DEF Delete
  <2>2. RequestSound(q)
    BY <1>0, <1>1 DEF RequestSound, Request
  <2>3. StoreSound(vcache')
    BY <1>0, <2>1, DropShape, ShrinkSound
  <2> QED BY <1>5, <2>1, <2>2, <2>3, SoundStep DEF Delete
<1> QED BY <1>2, <1>3, <1>4, <1>5 DEF Serve, GetIdentity

\* Vault signs for the Vault token and role it was asked for.
LEMMA SignedIsOwn ==
    ASSUME Sound, NEW key \in CacheKey, NEW token \in VaultSigns(key)
    PROVE  Own(token, key)
<1>1. key.vault \in VaultTokens /\ key.role \in Roles
  BY VaultBrokerAssumption
<1>2. PICK e \in {now + n : n \in Lifetimes} \cup {0} :
        token = [vault |-> key.vault, role |-> key.role, exp |-> e]
  BY DEF VaultSigns
<1>3. e \in Nat
  BY VaultBrokerAssumption DEF Sound, VaultTypeOK
<1> QED BY <1>1, <1>2, <1>3 DEF Own, IdentityToken

\* The steps that end or repeat a call to Vault.
LEMMA SoundVault ==
    ASSUME Sound, UNCHANGED <<now, revoked>>, NEW r \in Requests, VaultAnswers(r)
    PROVE  Sound'
<1>0. /\ now \in Nat
      /\ vreq[r] \in Request
      /\ RequestSound(vreq[r])
      /\ StoreSound(vcache)
      /\ vcache \in Cache(IdentityToken)
      /\ oboServes' = oboServes
  BY DEF Sound, VaultTypeOK, VaultAnswers
<1>1. vreq[r].key \in CacheKey /\ vreq[r].phase = "vault"
  BY <1>0 DEF VaultAnswers, RequestSound
<1>2. ASSUME NEW token \in VaultSigns(vreq[r].key), SetIdentity(r, token)
      PROVE  Sound'
  <2>1. Own(token, vreq[r].key) /\ token \in IdentityToken
    BY <1>1, SignedIsOwn DEF Own
  <2>2. RequestSound(Answered(r, Result(token, FALSE)))
    BY <1>0, <1>1, <2>1, ResultSound, AnsweredSound
  <2>3. StoreSound(Store(vcache, vreq[r].key, token, now))
    <3>1. /\ Store(vcache, vreq[r].key, token, now) \in Cache(IdentityToken)
          /\ Store(vcache, vreq[r].key, token, now).slot[vreq[r].key]
                = [token |-> token, expires |-> now + CacheTtl]
          /\ \A j \in CacheKey \ {vreq[r].key} :
                Store(vcache, vreq[r].key, token, now).slot[j] \in {vcache.slot[j], Absent}
      BY <1>0, <1>1, <2>1, StoreShape
    <3> QED BY <1>0, <1>1, <2>1, <3>1 DEF StoreSound
  <2> QED BY <1>0, <1>2, <2>2, <2>3, SoundStep DEF SetIdentity, AfterSet, AnswerWith, Answered
<1>3. ASSUME NEW status \in {401, 500, 503}, AnswerWith(r, Refuse(status)), UNCHANGED vcache
      PROVE  Sound'
  <2> DEFINE q == Answered(r, Refuse(status))
  <2>1. RequestSound(q)
    BY <1>1, RefusalSound, AnsweredSound
  <2>2. StoreSound(vcache') /\ vreq' = [vreq EXCEPT ![r] = q]
    BY <1>0, <1>3 DEF AnswerWith, Answered
  <2>3. oboServes' = oboServes
    BY <1>0
  <2> HIDE DEF q
  <2> QED BY <2>1, <2>2, <2>3, SoundStep
<1>4. ASSUME RetryOrFail(r)
      PROVE  Sound'
  <2>1. CASE vreq[r].attempts + 1 < MaxAttempts
    <3> DEFINE q == [vreq[r] EXCEPT !.attempts = @ + 1]
    <3>1. vreq' = [vreq EXCEPT ![r] = q] /\ vcache' = vcache
      BY <1>4, <2>1 DEF RetryOrFail
    <3>2. vreq[r].attempts + 1 \in 0 .. (MaxAttempts - 1)
      BY <1>0, <2>1, VaultBrokerAssumption DEF Request
    <3>3. RequestSound(q)
      BY <1>0, <1>1, <3>2 DEF Request, RequestSound
    <3> QED BY <1>0, <3>1, <3>3, SoundStep
  <2>2. CASE ~ (vreq[r].attempts + 1 < MaxAttempts)
    BY <1>3, <1>4, <2>2 DEF RetryOrFail
  <2> QED BY <2>1, <2>2
<1> QED BY <1>2, <1>3, <1>4 DEF VaultAnswers, RejectVaultToken, Break

LEMMA SoundNext == Sound /\ [Next]_vars => Sound'
<1> SUFFICES ASSUME Sound, [Next]_vars
             PROVE  Sound'
  OBVIOUS
<1> USE DEF Timeless
<1>1. ASSUME NEW r \in Requests, NEW key \in CacheKey, Timeless(Submit(r, key))
      PROVE  Sound'
  <2> DEFINE q == [IdleRequest EXCEPT !.phase = "queued", !.key = key]
  <2>1. RequestSound(q)
    BY IdleSound DEF Request, RequestSound
  <2> QED BY <1>1, <2>1, SoundStep DEF Submit, Sound
<1>2. ASSUME NEW r \in Requests, Timeless(Deliver(r))
      PROVE  Sound'
  BY <1>2, IdleSound, SoundStep DEF Deliver, Sound
<1>3. ASSUME NEW r \in Requests, Timeless(Serve(r))
      PROVE  Sound'
  BY <1>3, SoundServe
<1>4. ASSUME NEW r \in Requests, Timeless(VaultAnswers(r))
      PROVE  Sound'
  BY <1>4, SoundVault
<1>5. CASE Timeless(OboTakesLoop) \/ Timeless(OboAnswers)
  <2>1. oboServes' \in BOOLEAN
    BY <1>5, Zenon DEF OboTakesLoop, OboAnswers
  <2>2. UNCHANGED <<now, vreq, vcache, revoked>>
    BY <1>5 DEF OboTakesLoop, OboAnswers
  <2> QED BY <2>1, <2>2 DEF Sound, VaultTypeOK, RequestSound, StoreSound
<1>6. CASE Timeless(BrokerRestarts)
  <2>1. StoreSound(vcache')
    BY <1>6 DEF BrokerRestarts, StoreSound, EmptyCache, Cache
  <2>2. vreq' \in [Requests -> Request] /\ \A r \in Requests : RequestSound(vreq'[r])
    BY <1>6, IdleSound DEF BrokerRestarts
  <2> QED BY <1>6, <2>1, <2>2 DEF BrokerRestarts, Sound, VaultTypeOK, RequestSound, StoreSound
<1>7. ASSUME NEW v \in VaultTokens, Revoke(v)
      PROVE  Sound'
  <2>1. revoked' \in [VaultTokens -> Nat \cup {Never}]
    BY <1>7 DEF Revoke, Sound, VaultTypeOK
  <2> QED BY <1>7, <2>1 DEF Revoke, Sound, VaultTypeOK, RequestSound, StoreSound
<1>8. CASE Tick
  BY <1>8 DEF Tick, Sound, VaultTypeOK, RequestSound, StoreSound
<1>9. CASE UNCHANGED vars
  BY <1>9 DEF Sound, VaultTypeOK, RequestSound, StoreSound
<1> QED BY <1>1, <1>2, <1>3, <1>4, <1>5, <1>6, <1>7, <1>8, <1>9 DEF Next

LEMMA AlwaysSound == Spec => []Sound
BY SoundInit, SoundNext, PTL DEF Spec

\* However Vault fails, no more failed attempts are counted than tenacity makes, and
\* requests, answers and the cache keep their types.
THEOREM VaultTypeCorrect == Spec => []VaultTypeOK
<1>1. Sound => VaultTypeOK
  BY DEF Sound
<1> QED BY <1>1, AlwaysSound, PTL

\* Nobody is ever answered with an identity of another Vault token or role.
THEOREM IdentityStaysOwn == Spec => []IdentityIsOwn
<1>1. Sound => IdentityIsOwn
  BY DEF Sound, RequestSound, IdentityIsOwn, Own
<1> QED BY <1>1, AlwaysSound, PTL
-------------------------------------------------------------------------------
(* Who has the event loop *)

Holds(q) == q.phase \in {"read", "vault"}

\* Request r has the loop: what it read is still what the cache has for its key, and
\* when it asks Vault, the cache has nothing usable for it.
HoldsSoundly(r) ==
    /\ \A p \in Requests \ {r} : ~ Holds(vreq[p])
    /\ vreq[r].phase = "read" => /\ vcache.slot[vreq[r].key] # Absent
                                 /\ vcache.slot[vreq[r].key].token = vreq[r].read
    /\ vreq[r].phase = "vault" => ~ Usable(vcache, vreq[r].key, now)

Held == \A r \in Requests : Holds(vreq[r]) => HoldsSoundly(r)

\* A request that holds the loop, or takes it when it is free, may change the cache;
\* the others hold nothing.
LEMMA HolderMoves ==
    ASSUME Sound, Held, NEW r \in Requests, LoopIsFree \/ Holds(vreq[r]), now' = now,
           NEW q, vreq' = [vreq EXCEPT ![r] = q],
           q.phase = "read" => /\ vcache'.slot[q.key] # Absent
                               /\ vcache'.slot[q.key].token = q.read,
           q.phase = "vault" => ~ Usable(vcache', q.key, now)
    PROVE  Held'
<1>1. \A p \in Requests : vreq'[p] = IF p = r THEN q ELSE vreq[p]
  BY DEF Sound, VaultTypeOK
<1>2. \A p \in Requests \ {r} : ~ Holds(vreq[p])
  BY DEF LoopIsFree, Held, Holds, HoldsSoundly
<1>3. \A p \in Requests \ {r} : ~ Holds(vreq'[p])
  BY <1>1, <1>2
<1>4. HoldsSoundly(r)'
  BY <1>1, <1>3 DEF HoldsSoundly
<1> QED BY <1>3, <1>4 DEF Held

\* The others only queue, or are answered: nothing the holder relies on changes.
LEMMA OthersMove ==
    ASSUME Sound, Held, NEW r \in Requests, UNCHANGED <<now, vcache>>, ~ Holds(vreq[r]),
           NEW q, vreq' = [vreq EXCEPT ![r] = q], ~ Holds(q)
    PROVE  Held'
<1>1. \A p \in Requests : vreq'[p] = IF p = r THEN q ELSE vreq[p]
  BY DEF Sound, VaultTypeOK
<1>2. SUFFICES ASSUME NEW p \in Requests, Holds(vreq'[p])
               PROVE  HoldsSoundly(p)'
  BY DEF Held
<1>3. p # r /\ vreq'[p] = vreq[p] /\ HoldsSoundly(p)
  BY <1>1, <1>2 DEF Held
<1> QED BY <1>1, <1>3 DEF HoldsSoundly, Usable, Present

\* What is not usable does not become so with time.
LEMMA UsableNoLonger ==
    ASSUME NEW cache \in Cache(IdentityToken), NEW k \in CacheKey, NEW time \in Nat,
           Usable(cache, k, time + 1)
    PROVE  Usable(cache, k, time)
<1>1. cache.slot[k] \in Slot(IdentityToken)
  BY DEF Usable, Present, Cache
<1>2. cache.slot[k].expires \in Nat /\ cache.slot[k].token.exp \in Nat
  BY <1>1 DEF Slot, IdentityToken
<1> QED BY <1>2, TokenCacheAssumption DEF Usable, Present, IsTokenValid

LEMMA HeldServe ==
    ASSUME Sound, Held, now' = now, NEW r \in Requests, Serve(r)
    PROVE  Held'
<1>0. /\ vreq[r] \in Request
      /\ RequestSound(vreq[r])
      /\ vcache \in Cache(IdentityToken)
  BY DEF Sound, VaultTypeOK
<1>1. vreq[r].key \in CacheKey
  BY <1>0 DEF Serve, GetIdentity, ServeCached, Delete, RequestSound
<1>2. ASSUME Get(r), LoopIsFree
      PROVE  Held'
  <2> DEFINE q == [vreq[r] EXCEPT !.phase = "read", !.read = vcache.slot[vreq[r].key].token]
  <2>1. vreq' = [vreq EXCEPT ![r] = q]
    BY <1>0, <1>2 DEF Get
  <2>2. q.phase = "read" /\ q.key = vreq[r].key /\ q.read = vcache.slot[vreq[r].key].token
    BY <1>0 DEF Request
  <2>3. vcache'.slot = vcache.slot /\ vcache.slot[vreq[r].key] # Absent
    BY <1>0, <1>2 DEF Get, Cache, Present
  <2> HIDE DEF q
  <2> QED BY <1>2, <2>1, <2>2, <2>3, HolderMoves
<1>3. ASSUME GetMissing(r), LoopIsFree
      PROVE  Held'
  <2> DEFINE q == [vreq[r] EXCEPT !.phase = "vault"]
  <2>1. vreq' = [vreq EXCEPT ![r] = q] /\ vcache' = vcache
    BY <1>3 DEF GetMissing
  <2>2. q.phase = "vault" /\ q.key = vreq[r].key
    BY <1>0 DEF Request
  <2>3. ~ Usable(vcache', q.key, now)
    BY <1>3, <2>1, <2>2 DEF GetMissing, Usable
  <2> HIDE DEF q
  <2> QED BY <1>3, <2>1, <2>2, <2>3, HolderMoves
<1>4. CASE ServeCached(r)
  <2> DEFINE q == Answered(r, Result(vreq[r].read, TRUE))
  <2>1. vreq' = [vreq EXCEPT ![r] = q] /\ Holds(vreq[r])
    BY <1>4 DEF ServeCached, AnswerWith, Answered, Holds
  <2>2. q.phase = "answered"
    BY IdleSound DEF Answered, Request
  <2> HIDE DEF q
  <2> QED BY <2>1, <2>2, HolderMoves
<1>5. CASE Delete(r)
  <2> DEFINE q == [vreq[r] EXCEPT !.phase = "vault", !.read = NoToken]
  <2>1. vreq' = [vreq EXCEPT ![r] = q] /\ vcache' = Drop(vcache, {vreq[r].key})
    BY <1>0, <1>5 DEF Delete
  <2>2. q.phase = "vault" /\ q.key = vreq[r].key /\ Holds(vreq[r])
    BY <1>0, <1>5 DEF Request, Delete, Holds
  <2>3. ~ Usable(vcache', q.key, now)
    <3>1. Drop(vcache, {vreq[r].key}).slot[vreq[r].key] = Absent
      BY <1>1 DEF Drop
    <3> HIDE DEF q
    <3> QED BY <2>1, <2>2, <3>1 DEF Usable, Present
  <2> HIDE DEF q
  <2> QED BY <2>1, <2>2, <2>3, HolderMoves
<1> QED BY <1>2, <1>3, <1>4, <1>5 DEF Serve, GetIdentity

LEMMA HeldVault ==
    ASSUME Sound, Held, now' = now, NEW r \in Requests, VaultAnswers(r)
    PROVE  Held'
<1>0. vreq[r] \in Request /\ Holds(vreq[r]) /\ vreq[r].phase = "vault"
  BY DEF Sound, VaultTypeOK, VaultAnswers, Holds
<1>1. ASSUME NEW answer, AnswerWith(r, answer)
      PROVE  Held'
  <2> DEFINE q == Answered(r, answer)
  <2>1. vreq' = [vreq EXCEPT ![r] = q]
    BY <1>1 DEF AnswerWith, Answered
  <2>2. q.phase = "answered"
    BY IdleSound DEF Answered, Request
  <2> HIDE DEF q
  <2> QED BY <1>0, <2>1, <2>2, HolderMoves
<1>2. ASSUME vreq[r].attempts + 1 < MaxAttempts, RetryOrFail(r)
      PROVE  Held'
  <2> DEFINE q == [vreq[r] EXCEPT !.attempts = @ + 1]
  <2>1. vreq' = [vreq EXCEPT ![r] = q] /\ vcache' = vcache
    BY <1>2 DEF RetryOrFail
  <2>2. q.phase = "vault" /\ q.key = vreq[r].key
    BY <1>0 DEF Request
  <2>3. ~ Usable(vcache', q.key, now)
    BY <1>0, <2>1, <2>2 DEF Held, HoldsSoundly
  <2> HIDE DEF q
  <2> QED BY <1>0, <2>1, <2>2, <2>3, HolderMoves
<1> QED BY <1>1, <1>2 DEF VaultAnswers, SetIdentity, RejectVaultToken, RetryOrFail, Break

LEMMA HeldNext == Sound /\ Held /\ [Next]_vars => Held'
<1> SUFFICES ASSUME Sound, Held, [Next]_vars
             PROVE  Held'
  OBVIOUS
<1> USE DEF Timeless
<1>0. IdleRequest.phase = "idle"
  BY DEF IdleRequest
<1>1. ASSUME NEW r \in Requests, NEW key \in CacheKey, Timeless(Submit(r, key))
      PROVE  Held'
  <2> DEFINE q == [IdleRequest EXCEPT !.phase = "queued", !.key = key]
  <2>1. ~ Holds(q)
    BY IdleSound DEF Request, Holds
  <2>2. vreq' = [vreq EXCEPT ![r] = q] /\ ~ Holds(vreq[r]) /\ UNCHANGED <<now, vcache>>
    BY <1>1 DEF Submit, Holds
  <2> HIDE DEF q
  <2> QED BY <2>1, <2>2, OthersMove
<1>2. ASSUME NEW r \in Requests, Timeless(Deliver(r))
      PROVE  Held'
  <2>1. /\ vreq' = [vreq EXCEPT ![r] = IdleRequest] /\ UNCHANGED <<now, vcache>>
        /\ ~ Holds(vreq[r]) /\ ~ Holds(IdleRequest)
    BY <1>0, <1>2 DEF Deliver, Holds
  <2> QED BY <2>1, OthersMove
<1>3. ASSUME NEW r \in Requests, Timeless(Serve(r))
      PROVE  Held'
  BY <1>3, HeldServe
<1>4. ASSUME NEW r \in Requests, Timeless(VaultAnswers(r))
      PROVE  Held'
  BY <1>4, HeldVault
<1>5. CASE Timeless(BrokerRestarts)
  BY <1>0, <1>5 DEF BrokerRestarts, Held, Holds
<1>6. CASE UNCHANGED <<now, vreq, vcache>>
  BY <1>6 DEF Held, Holds, HoldsSoundly, Usable, Present
<1>7. CASE Tick
  <2>1. /\ now' = now + 1 /\ UNCHANGED <<vreq, vcache>>
        /\ now \in Nat /\ vcache \in Cache(IdentityToken)
    BY <1>7 DEF Tick, Sound, VaultTypeOK
  <2>2. ASSUME NEW r \in Requests, Holds(vreq[r]), Usable(vcache, vreq[r].key, now + 1)
        PROVE  Usable(vcache, vreq[r].key, now)
    <3>1. vreq[r].key \in CacheKey
      BY <2>2 DEF Sound, RequestSound, Holds
    <3> QED BY <2>1, <2>2, <3>1, UsableNoLonger
  <2> QED BY <2>1, <2>2 DEF Held, HoldsSoundly
<1> QED BY <1>1, <1>2, <1>3, <1>4, <1>5, <1>6, <1>7 DEF Next, OboTakesLoop, OboAnswers, Revoke

LEMMA AlwaysHeld == Spec => []Held
<1>1. Init => Held
  BY DEF Init, Held, Holds, IdleRequest
<1> QED BY <1>1, HeldNext, AlwaysSound, PTL DEF Spec
-------------------------------------------------------------------------------
(* What is usable is kept *)

LEMMA EmptyWellKept == WellKept(EmptyCache)
<1>1. Stored(EmptyCache) = {} /\ EmptyCache.older = {}
  BY DEF Stored, EmptyCache
<1> QED BY <1>1, FS_EmptySet, TokenCacheAssumption DEF WellKept, Ordered

\* The token Vault signed goes into the cache.
LEMMA SignedIsStored ==
    ASSUME Sound, NEW r \in Requests, VaultAnswers(r), vcache' # vcache
    PROVE  /\ vreq[r].key \in CacheKey
           /\ vreq[r].phase = "vault"
           /\ \E token \in IdentityToken : vcache' = Store(vcache, vreq[r].key, token, now)
<1>1. vreq[r].key \in CacheKey /\ vreq[r].phase = "vault"
  BY DEF Sound, RequestSound, VaultAnswers
<1>2. PICK token \in VaultSigns(vreq[r].key) : SetIdentity(r, token)
  BY DEF VaultAnswers, RejectVaultToken, RetryOrFail, Break
<1>3. token \in IdentityToken
  BY <1>1, SignedIsOwn DEF Own
<1> QED BY <1>1, <1>2, <1>3 DEF SetIdentity, AfterSet

LEMMA WellKeptNext == Sound /\ WellKept(vcache) /\ [Next]_vars => WellKept(vcache)'
<1> SUFFICES ASSUME Sound, WellKept(vcache), [Next]_vars
             PROVE  WellKept(vcache')
  BY DEF WellKept, Ordered, Stored
<1> USE DEF Timeless
<1>0. /\ now \in Nat
      /\ vcache \in Cache(IdentityToken)
      /\ \A r \in Requests : vreq[r].phase # "idle" => vreq[r].key \in CacheKey
  BY DEF Sound, VaultTypeOK, RequestSound
<1>1. CASE vcache' = vcache
  BY <1>1
<1>2. ASSUME NEW r \in Requests, Serve(r), vcache' # vcache
      PROVE  WellKept(vcache')
  <2>1. vreq[r].key \in CacheKey
    BY <1>0, <1>2 DEF Serve, GetIdentity, ServeCached, Delete
  <2>2. CASE Get(r)
    <3>1. vreq[r].key \in Stored(vcache)
      BY <2>1, <2>2 DEF Get, Present, Stored
    <3>2. vcache' = [vcache EXCEPT !.older = Touch(vcache.older, vreq[r].key, Stored(vcache))]
      BY <2>2 DEF Get
    <3> QED BY <1>0, <3>1, <3>2, TouchWellKept
  <2>3. CASE Delete(r)
    BY <2>3, DropWellKept DEF Delete
  <2> QED BY <1>2, <2>2, <2>3 DEF Serve, GetIdentity, GetMissing, ServeCached
<1>3. ASSUME NEW r \in Requests, VaultAnswers(r), vcache' # vcache
      PROVE  WellKept(vcache')
  BY <1>0, <1>3, SignedIsStored, StoreWellKept, VaultBrokerAssumption
<1>4. CASE BrokerRestarts
  BY <1>4, EmptyWellKept DEF BrokerRestarts
<1> QED BY <1>1, <1>2, <1>3, <1>4
    DEF Next, Submit, Deliver, OboTakesLoop, OboAnswers, Revoke, Tick

LEMMA AlwaysWellKept == Spec => []WellKept(vcache)
<1>1. Init => WellKept(vcache)
  BY EmptyWellKept DEF Init
<1> QED BY <1>1, WellKeptNext, AlwaysSound, PTL DEF Spec

\* What UsableIdentityKept asks of a step, for one key.
KeptOrEvicted(k) ==
    Usable(vcache, k, now) /\ ~ Usable(vcache', k, now') =>
        \/ now' # now
        \/ vreq' = [r \in Requests |-> IdleRequest]
        \/ LET live == Stored(Expire(vcache, now))
           IN  /\ Cardinality(live) = CacheMaxSize
               /\ Stored(vcache') \ live # {}
               /\ \A j \in live \ {k} : <<k, j>> \in vcache.older

LEMMA KeptOrEvictedNext ==
    ASSUME Sound, Held, WellKept(vcache), Next, NEW k \in CacheKey
    PROVE  KeptOrEvicted(k)
<1> SUFFICES ASSUME Usable(vcache, k, now), ~ Usable(vcache', k, now'), now' = now
             PROVE  \/ vreq' = [r \in Requests |-> IdleRequest]
                    \/ /\ Cardinality(Stored(Expire(vcache, now))) = CacheMaxSize
                       /\ Stored(vcache') \ Stored(Expire(vcache, now)) # {}
                       /\ \A j \in Stored(Expire(vcache, now)) \ {k} : <<k, j>> \in vcache.older
  BY DEF KeptOrEvicted
<1> USE DEF Timeless
<1>0. now \in Nat /\ vcache \in Cache(IdentityToken)
  BY DEF Sound, VaultTypeOK
<1>1. vcache'.slot[k] # vcache.slot[k] /\ vcache' # vcache
  BY DEF Usable, Present
<1>2. ASSUME NEW r \in Requests, Serve(r)
      PROVE  FALSE
  <2>1. CASE Get(r)
    BY <1>0, <1>1, <2>1 DEF Get, Cache
  <2>2. CASE Delete(r)
    <3>1. vcache' = Drop(vcache, {vreq[r].key}) /\ ~ IsTokenValid(vreq[r].read, now)
      BY <2>2 DEF Delete
    <3>2. k = vreq[r].key
      BY <1>0, <1>1, <3>1, DropShape
    <3>3. vcache.slot[k].token = vreq[r].read
      BY <2>2, <3>2 DEF Delete, Held, Holds, HoldsSoundly
    <3> QED BY <3>1, <3>3 DEF Usable
  <2> QED BY <1>1, <1>2, <2>1, <2>2 DEF Serve, GetIdentity, GetMissing, ServeCached
<1>3. ASSUME NEW r \in Requests, VaultAnswers(r)
      PROVE  /\ Cardinality(Stored(Expire(vcache, now))) = CacheMaxSize
             /\ Stored(vcache') \ Stored(Expire(vcache, now)) # {}
             /\ \A j \in Stored(Expire(vcache, now)) \ {k} : <<k, j>> \in vcache.older
  <2>1. vreq[r].key \in CacheKey /\ vreq[r].phase = "vault"
    BY <1>1, <1>3, SignedIsStored
  <2>2. PICK token \in IdentityToken : vcache' = Store(vcache, vreq[r].key, token, now)
    BY <1>1, <1>3, SignedIsStored
  <2>3. k # vreq[r].key
    BY <2>1 DEF Held, Holds, HoldsSoundly
  <2> QED BY <1>0, <2>1, <2>2, <2>3, StoreEvictsLeastRecent, VaultBrokerAssumption
<1>4. CASE BrokerRestarts
  BY <1>4 DEF BrokerRestarts
<1> QED BY <1>1, <1>2, <1>3, <1>4
    DEF Next, Submit, Deliver, OboTakesLoop, OboAnswers, Revoke, Tick

\* Though get() decides to delete without the lock, a usable token leaves the cache only
\* with time, with the process, or as the least recently used, to make room.
THEOREM UsableIdentityStaysKept == Spec => UsableIdentityKept
<1>1. Sound /\ Held /\ WellKept(vcache) /\ [Next]_vars =>
        [\A k \in CacheKey : KeptOrEvicted(k)]_vars
  BY KeptOrEvictedNext
<1> QED BY <1>1, AlwaysSound, AlwaysHeld, AlwaysWellKept, PTL
    DEF Spec, UsableIdentityKept, KeptOrEvicted
-------------------------------------------------------------------------------
(* What was revoked is forgotten *)

\* No entry lasts longer than the TTL from now, or from when its Vault token was revoked.
Forgetful ==
    \A k \in CacheKey : vcache.slot[k] # Absent =>
        /\ vcache.slot[k].expires <= now + CacheTtl
        /\ revoked[k.vault] # Never => vcache.slot[k].expires <= revoked[k.vault] + CacheTtl

\* What Forgetful rests on: types, as far as it looks.
LEMMA ForgetfulTypes ==
    ASSUME Sound
    PROVE  /\ now \in Nat
           /\ CacheTtl \in Nat
           /\ vcache \in Cache(IdentityToken)
           /\ \A k \in CacheKey : /\ k.vault \in VaultTokens
                                  /\ revoked[k.vault] \in Nat \cup {Never}
                                  /\ vcache.slot[k] # Absent => vcache.slot[k].expires \in Nat
<1>1. \A k \in CacheKey : k.vault \in VaultTokens
  BY VaultBrokerAssumption
<1>2. vcache \in Cache(IdentityToken) /\ now \in Nat /\ revoked \in [VaultTokens -> Nat \cup {Never}]
  BY DEF Sound, VaultTypeOK
<1>3. \A k \in CacheKey : vcache.slot[k] # Absent => vcache.slot[k].expires \in Nat
  BY <1>2 DEF Cache, Slot
<1> QED BY <1>1, <1>2, <1>3, TokenCacheAssumption

\* Losing entries, or moving them in the order, keeps what is left.
LEMMA ForgetfulShrinks ==
    ASSUME Forgetful, UNCHANGED <<now, revoked>>,
           \A k \in CacheKey : vcache'.slot[k] \in {vcache.slot[k], Absent}
    PROVE  Forgetful'
BY DEF Forgetful

LEMMA ForgetfulNext == Sound /\ Forgetful /\ [Next]_vars => Forgetful'
<1> SUFFICES ASSUME Sound, Forgetful, [Next]_vars
             PROVE  Forgetful'
  OBVIOUS
<1> USE DEF Timeless
<1>0. /\ now \in Nat
      /\ CacheTtl \in Nat
      /\ vcache \in Cache(IdentityToken)
      /\ \A k \in CacheKey : /\ k.vault \in VaultTokens
                             /\ revoked[k.vault] \in Nat \cup {Never}
                             /\ vcache.slot[k] # Absent => vcache.slot[k].expires \in Nat
  BY ForgetfulTypes
<1>1. CASE UNCHANGED <<now, vcache, revoked>>
  BY <1>1 DEF Forgetful
<1>2. ASSUME NEW r \in Requests, Serve(r), UNCHANGED <<now, revoked>>
      PROVE  Forgetful'
  <2>1. CASE Get(r)
    <3>1. vcache'.slot = vcache.slot
      BY <1>0, <2>1 DEF Get, Cache
    <3> QED BY <1>2, <3>1, ForgetfulShrinks
  <2>2. CASE Delete(r)
    BY <1>0, <1>2, <2>2, DropShape, ForgetfulShrinks DEF Delete
  <2> QED BY <1>1, <1>2, <2>1, <2>2 DEF Serve, GetIdentity, GetMissing, ServeCached
<1>3. ASSUME NEW r \in Requests, VaultAnswers(r), UNCHANGED <<now, revoked>>, vcache' # vcache
      PROVE  Forgetful'
  <2> DEFINE key == vreq[r].key
  <2>1. key \in CacheKey
    BY <1>3, SignedIsStored
  <2>2. PICK token \in IdentityToken : vcache' = Store(vcache, key, token, now)
    BY <1>3, SignedIsStored
  <2>3. revoked[key.vault] = Never
    BY <1>3 DEF VaultAnswers, RejectVaultToken, RetryOrFail, Break
  <2> HIDE DEF key
  <2>4. /\ vcache'.slot[key].expires = now + CacheTtl
        /\ \A j \in CacheKey \ {key} : vcache'.slot[j] \in {vcache.slot[j], Absent}
    <3>1. /\ Store(vcache, key, token, now).slot[key]
                = [token |-> token, expires |-> now + CacheTtl]
          /\ \A j \in CacheKey \ {key} :
                Store(vcache, key, token, now).slot[j] \in {vcache.slot[j], Absent}
      BY <1>0, <2>1, StoreShape
    <3> QED BY <2>2, <3>1
  <2>5. ASSUME NEW j \in CacheKey, vcache'.slot[j] # Absent
        PROVE  /\ vcache'.slot[j].expires <= now' + CacheTtl
               /\ revoked'[j.vault] # Never =>
                    vcache'.slot[j].expires <= revoked'[j.vault] + CacheTtl
    <3>1. CASE j = key
      BY <1>0, <1>3, <2>3, <2>4, <3>1
    <3>2. CASE j # key
      BY <1>3, <2>4, <2>5, <3>2 DEF Forgetful
    <3> QED BY <3>1, <3>2
  <2> QED BY <2>5 DEF Forgetful
<1>4. CASE Timeless(BrokerRestarts)
  BY <1>4, ForgetfulShrinks DEF BrokerRestarts, EmptyCache
<1>5. ASSUME NEW v \in VaultTokens, Revoke(v)
      PROVE  Forgetful'
  <2>1. \A k \in CacheKey : revoked'[k.vault] = IF k.vault = v THEN now ELSE revoked[k.vault]
    BY <1>0, <1>5 DEF Revoke, Sound, VaultTypeOK
  <2> QED BY <1>5, <2>1 DEF Revoke, Forgetful
<1>6. CASE Tick
  <2>1. now' = now + 1 /\ UNCHANGED <<vcache, revoked>>
    BY <1>6 DEF Tick
  <2>2. ASSUME NEW k \in CacheKey, vcache.slot[k] # Absent
        PROVE  vcache.slot[k].expires <= (now + 1) + CacheTtl
    <3>1. vcache.slot[k].expires \in Nat
      BY <1>0, <2>2
    <3>2. vcache.slot[k].expires <= now + CacheTtl
      BY <2>2 DEF Forgetful
    <3> QED BY <1>0, <3>1, <3>2
  <2> QED BY <2>1, <2>2 DEF Forgetful
<1> QED BY <1>1, <1>2, <1>3, <1>4, <1>5, <1>6
    DEF Next, Submit, Deliver, OboTakesLoop, OboAnswers

LEMMA AlwaysForgetful == Spec => []Forgetful
<1>1. Init => Forgetful
  BY DEF Init, Forgetful, EmptyCache
<1> QED BY <1>1, ForgetfulNext, AlwaysSound, PTL DEF Spec

\* What RevokedIsForgotten asks of a step, for one request.
FoundInTime(r) ==
    LET since == revoked[vreq[r].key.vault]
    IN  vreq[r].phase = "queued" /\ vreq'[r].phase = "read" /\ since # Never
        => now < since + CacheTtl

LEMMA FoundInTimeNext ==
    ASSUME Sound, Forgetful, Next, NEW r \in Requests
    PROVE  FoundInTime(r)
<1> SUFFICES ASSUME vreq[r].phase = "queued", vreq'[r].phase = "read",
                    revoked[vreq[r].key.vault] # Never
             PROVE  now < revoked[vreq[r].key.vault] + CacheTtl
  BY DEF FoundInTime
<1> USE DEF Timeless
<1>1. vreq \in [Requests -> Request] /\ vreq[r].key \in CacheKey
  BY DEF Sound, VaultTypeOK, RequestSound
<1>2. Get(r)
  <2>1. ASSUME NEW p \in Requests, p # r,
               \/ \E key \in CacheKey : Submit(p, key)
               \/ Deliver(p) \/ Serve(p) \/ VaultAnswers(p)
        PROVE  vreq'[r] = vreq[r]
    BY <1>1, <2>1
    DEF Submit, Deliver, Serve, GetIdentity, Get, GetMissing, ServeCached, Delete, VaultAnswers,
        SetIdentity, RejectVaultToken, RetryOrFail, Break, AnswerWith
  <2>2. /\ ~ (\E key \in CacheKey : Submit(r, key))
        /\ ~ Deliver(r) /\ ~ ServeCached(r) /\ ~ Delete(r) /\ ~ VaultAnswers(r)
    BY DEF Submit, Deliver, ServeCached, Delete, VaultAnswers
  <2>3. ~ GetMissing(r)
    BY <1>1 DEF GetMissing, Request
  <2>4. ~ BrokerRestarts
    BY DEF BrokerRestarts, IdleRequest
  <2> QED BY <2>1, <2>2, <2>3, <2>4
      DEF Next, Serve, GetIdentity, OboTakesLoop, OboAnswers, Revoke, Tick
<1>3. /\ vcache.slot[vreq[r].key] # Absent
      /\ now < vcache.slot[vreq[r].key].expires
  BY <1>2 DEF Get, Present
<1>4. vcache.slot[vreq[r].key].expires <= revoked[vreq[r].key.vault] + CacheTtl
  BY <1>1, <1>3 DEF Forgetful
<1>5. /\ now \in Nat
      /\ vcache.slot[vreq[r].key].expires \in Nat
      /\ revoked[vreq[r].key.vault] \in Nat \cup {Never}
      /\ CacheTtl \in Nat
  BY <1>1, <1>3, ForgetfulTypes
<1>6. revoked[vreq[r].key.vault] \in Nat
  BY <1>5
<1> QED BY <1>3, <1>4, <1>5, <1>6

\* However often an identity is asked for, it is found in the cache only within the TTL
\* after its Vault token was revoked.
THEOREM RevokedStaysForgotten == Spec => RevokedIsForgotten
<1>1. Sound /\ Forgetful /\ [Next]_vars => [\A r \in Requests : FoundInTime(r)]_vars
  BY FoundInTimeNext
<1> QED BY <1>1, AlwaysSound, AlwaysForgetful, PTL DEF Spec, RevokedIsForgotten, FoundInTime
===============================================================================
