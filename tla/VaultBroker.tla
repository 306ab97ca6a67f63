------------------------------ MODULE VaultBroker ------------------------------
(***************************************************************************)
(* The token-exchange service's Vault path: POST /v1/identity/token,       *)
(* VaultIdentityBroker, its TokenCache, and the retried call to Vault      *)
(* (external).                                                             *)
(*                                                                         *)
(* TokenCache.get is not one critical section here: it reads the entry     *)
(* under the lock, looks at the token, and takes the lock again to delete  *)
(* it.  What keeps other requests out in between is the event loop, which  *)
(* a handler holds from its first step to its answer, calls to Vault and   *)
(* back-off sleeps included.  The handler of the OBO path, with a cache of *)
(* its own, holds the same loop.                                           *)
(***************************************************************************)
EXTENDS TokenCache

CONSTANTS
    Requests,       \* request identifiers
    VaultTokens,
    Roles,          \* names of OIDC roles
    NoKey,          \* the key of no request
    NoToken,
    Lifetimes,      \* lifetimes of the JWTs Vault signs
    Fallback,       \* the lifetime reported of a token without exp, 3600
    MaxAttempts,    \* tenacity stop_after_attempt
    Never,
    MaxTime         \* bound: the clock stops here

\* A JWT signed by Vault; exp = 0 when the claim cannot be decoded.
IdentityToken == [vault : VaultTokens, role : Roles, exp : Nat]

\* _make_cache_key hashes the two parts one after the other: those in use are
\* assumed not to be cut differently into the same text.
ASSUME VaultBrokerAssumption ==
    /\ MaxAttempts \in Nat \ {0}
    /\ MaxTime \in Nat
    /\ Fallback \in Nat
    /\ Lifetimes \subseteq Nat
    /\ Never \notin Nat
    /\ NoToken \notin IdentityToken
    /\ NoKey \notin CacheKey
    /\ CacheKey \subseteq [vault : VaultTokens, role : Roles]
    /\ Absent \notin Slot(IdentityToken)

VARIABLES
    now,        \* time.time()
    vreq,       \* vreq[r] : where request r is and what was answered
    vcache,     \* the broker's TokenCache
    oboServes,  \* the handler of the OBO path holds the loop
    revoked     \* revoked[v] : since when Vault refuses the token v, or Never

vars == <<now, vreq, vcache, oboServes, revoked>>

\* 401 for a Vault token refused, 503 for a connection refused, 500 for the rest.
Answer == [status : {0, 200, 401, 500, 503}, token : IdentityToken \cup {NoToken},
           expires_at : Nat, cached : BOOLEAN]

Refuse(status) == [status |-> status, token |-> NoToken, expires_at |-> 0, cached |-> FALSE]

\* _extract_exp
ExtractExp(token) == IF token.exp = 0 THEN now + Fallback ELSE token.exp

\* IdentityTokenResult
Result(token, cached) == [status |-> 200, token |-> token, expires_at |-> ExtractExp(token),
                          cached |-> cached]

\* A request: read is the token get() found, attempts the failed calls to Vault.
Request == [phase : {"idle", "queued", "read", "vault", "answered"}, key : CacheKey \cup {NoKey},
            read : IdentityToken \cup {NoToken}, attempts : 0 .. (MaxAttempts - 1), answer : Answer]

IdleRequest == [phase |-> "idle", key |-> NoKey, read |-> NoToken, attempts |-> 0,
                answer |-> Refuse(0)]

AnswerWith(r, answer) ==
    vreq' = [vreq EXCEPT ![r] = [IdleRequest EXCEPT !.phase = "answered", !.key = vreq[r].key,
                                                    !.answer = answer]]

Init ==
    /\ now = 1
    /\ vreq = [r \in Requests |-> IdleRequest]
    /\ vcache = EmptyCache
    /\ oboServes = FALSE
    /\ revoked = [v \in VaultTokens |-> Never]

-------------------------------------------------------------------------------
(* The client *)

\* TokenRequest: neither part is empty.
Submit(r, key) ==
    /\ vreq[r].phase = "idle"
    /\ vreq' = [vreq EXCEPT ![r] = [IdleRequest EXCEPT !.phase = "queued", !.key = key]]
    /\ UNCHANGED <<vcache, oboServes>>

Deliver(r) ==
    /\ vreq[r].phase = "answered"
    /\ vreq' = [vreq EXCEPT ![r] = IdleRequest]
    /\ UNCHANGED <<vcache, oboServes>>

-------------------------------------------------------------------------------
(* The handler *)

\* Mutant of LoopIsFree: handlers run in threads.
LoopIsNotHeld == TRUE

LoopIsFree ==
    /\ ~ oboServes
    /\ \A q \in Requests : vreq[q].phase \notin {"read", "vault"}

\* Mutant of Get: a read renews the entry's TTL.
GetRenewing(r) ==
    LET k == vreq[r].key
    IN  /\ Present(vcache, k, now)
        /\ vreq' = [vreq EXCEPT ![r].phase = "read", ![r].read = vcache.slot[k].token]
        /\ vcache' = [slot  |-> [vcache.slot EXCEPT ![k].expires = now + CacheTtl],
                      older |-> Touch(vcache.older, k, Stored(vcache))]

\* TokenCache.get, the first time it holds the lock: the entry is there.
Get(r) ==
    LET k == vreq[r].key
    IN  /\ Present(vcache, k, now)
        /\ vreq' = [vreq EXCEPT ![r].phase = "read", ![r].read = vcache.slot[k].token]
        /\ vcache' = [vcache EXCEPT !.older = Touch(@, k, Stored(vcache))]

GetMissing(r) ==
    /\ ~ Present(vcache, vreq[r].key, now)
    /\ vreq' = [vreq EXCEPT ![r].phase = "vault"]
    /\ UNCHANGED vcache

\* The handler's first step.
GetIdentity(r) ==
    /\ vreq[r].phase = "queued" /\ LoopIsFree
    /\ Get(r) \/ GetMissing(r)
    /\ UNCHANGED oboServes

\* What it read is valid: the answer.
ServeCached(r) ==
    /\ vreq[r].phase = "read"
    /\ IsTokenValid(vreq[r].read, now)
    /\ AnswerWith(r, Result(vreq[r].read, TRUE))
    /\ UNCHANGED <<vcache, oboServes>>

\* It is near its expiry: get() deletes what is stored at the key by now.
Delete(r) ==
    /\ vreq[r].phase = "read"
    /\ ~ IsTokenValid(vreq[r].read, now)
    /\ vreq' = [vreq EXCEPT ![r].phase = "vault", ![r].read = NoToken]
    /\ vcache' = Drop(vcache, {vreq[r].key})
    /\ UNCHANGED oboServes

\* Mutant of SetIdentity: the role is left out of the key.
SetIdentityForAnyRole(r, token) ==
    /\ AnswerWith(r, Result(token, FALSE))
    /\ \E k \in CacheKey : k.vault = token.vault /\ vcache' = AfterSet(vcache, k, token, now)

\* Vault's token is cached and returned, whatever its lifetime.
SetIdentity(r, token) ==
    /\ AnswerWith(r, Result(token, FALSE))
    /\ vcache' = AfterSet(vcache, vreq[r].key, token, now)

\* Forbidden or InvalidRequest is a VaultAuthenticationError: 401, at once.
RejectVaultToken(r) ==
    /\ AnswerWith(r, Refuse(401))
    /\ UNCHANGED vcache

\* Mutant of RetryOrFail: no end to the retries.
RetryForEver(r) ==
    /\ vreq' = [vreq EXCEPT ![r].attempts = (@ + 1) % MaxAttempts]
    /\ UNCHANGED vcache

\* Any other VaultError is a VaultTokenGenerationError: retried, then 500.
RetryOrFail(r) ==
    /\ IF vreq[r].attempts + 1 < MaxAttempts THEN vreq' = [vreq EXCEPT ![r].attempts = @ + 1]
       ELSE AnswerWith(r, Refuse(500))
    /\ UNCHANGED vcache

\* What is no VaultError is not retried: a connection refused is a 503, a timeout or
\* an answer without a token a 500.
Break(r) ==
    /\ \E status \in {500, 503} : AnswerWith(r, Refuse(status))
    /\ UNCHANGED vcache

-------------------------------------------------------------------------------
(* Vault, and the rest of the service *)

\* A token for the Vault token and the role it was asked for.
VaultSigns(key) ==
    {[vault |-> key.vault, role |-> key.role, exp |-> e] : e \in {now + n : n \in Lifetimes} \cup {0}}

\* A Vault token is revoked, or expires.
Revoke(v) ==
    /\ revoked[v] = Never
    /\ revoked' = [revoked EXCEPT ![v] = now]
    /\ UNCHANGED <<now, vreq, vcache, oboServes>>

VaultAnswers(r) ==
    /\ vreq[r].phase = "vault"
    /\ \/ /\ revoked[vreq[r].key.vault] = Never
          /\ \E token \in VaultSigns(vreq[r].key) : SetIdentity(r, token)
       \/ RejectVaultToken(r) \/ RetryOrFail(r) \/ Break(r)
    /\ UNCHANGED oboServes

OboTakesLoop ==
    /\ LoopIsFree
    /\ oboServes' = TRUE
    /\ UNCHANGED <<vreq, vcache>>

OboAnswers ==
    /\ oboServes
    /\ oboServes' = FALSE
    /\ UNCHANGED <<vreq, vcache>>

\* The process restarts: the cache is in memory, the connections are gone.
BrokerRestarts ==
    /\ vreq' = [r \in Requests |-> IdleRequest]
    /\ vcache' = EmptyCache
    /\ oboServes' = FALSE

Tick ==
    /\ now < MaxTime
    /\ now' = now + 1
    /\ UNCHANGED <<vreq, vcache, oboServes, revoked>>

Serve(r) == GetIdentity(r) \/ ServeCached(r) \/ Delete(r)

Timeless(step) == step /\ UNCHANGED <<now, revoked>>

Next ==
    \/ \E r \in Requests :
        \/ \E key \in CacheKey : Timeless(Submit(r, key))
        \/ Timeless(Deliver(r))
        \/ Timeless(Serve(r))
        \/ Timeless(VaultAnswers(r))
    \/ Timeless(OboTakesLoop) \/ Timeless(OboAnswers)
    \/ Timeless(BrokerRestarts)
    \/ \E v \in VaultTokens : Revoke(v)
    \/ Tick

\* hvac has a timeout, and the OBO path ends too; the loop runs queued handlers in turn.
Fairness ==
    /\ WF_vars(Timeless(OboAnswers))
    /\ \A r \in Requests :
        /\ SF_vars(Timeless(Serve(r)))
        /\ WF_vars(Timeless(VaultAnswers(r)))

Spec == Init /\ [][Next]_vars /\ Fairness

-------------------------------------------------------------------------------
(* Properties *)

\* In particular the failed attempts counted stay below MaxAttempts, which is what
\* ends the retries (broker.py:102-107).
VaultTypeOK ==
    /\ now \in Nat
    /\ vreq \in [Requests -> Request]
    /\ vcache \in Cache(IdentityToken)
    /\ oboServes \in BOOLEAN
    /\ revoked \in [VaultTokens -> Nat \cup {Never}]

\* A 200 carries an identity signed for the request's own Vault token and role, cached
\* or not, after any number of retries (broker.py:71-100).
IdentityIsOwn == \A r \in Requests :
    vreq[r].phase = "answered" /\ vreq[r].answer.status = 200 =>
        /\ vreq[r].answer.token.vault = vreq[r].key.vault
        /\ vreq[r].answer.token.role = vreq[r].key.role

\* get() looks at the token after it gave the lock back, yet never deletes a fresh one:
\* a usable token leaves the cache only with time, with the process, or as the least
\* recently used, to make room (cache.py:50-63).
UsableIdentityKept ==
    [][\A k \in CacheKey :
        Usable(vcache, k, now) /\ ~ Usable(vcache', k, now') =>
            \/ now' # now
            \/ vreq' = [r \in Requests |-> IdleRequest]
            \/ LET live == Stored(Expire(vcache, now))
               IN  /\ Cardinality(live) = CacheMaxSize
                   /\ Stored(vcache') \ live # {}
                   /\ \A j \in live \ {k} : <<k, j>> \in vcache.older]_vars

\* An identity is found in the cache only within the cache's TTL after its Vault token
\* was revoked, however often it was asked for (cache.py:40-43, 51).
RevokedIsForgotten ==
    [][\A r \in Requests :
        LET since == revoked[vreq[r].key.vault]
        IN  vreq[r].phase = "queued" /\ vreq'[r].phase = "read" /\ since # Never
            => now < since + CacheTtl]_vars

\* Every request is answered, or lost with the process, though Vault's failures and the
\* other path's hold the loop (routes.py:36; broker.py:102-109).
EveryIdentityAnswered ==
    \A r \in Requests : vreq[r].phase = "queued" ~> vreq[r].phase \in {"answered", "idle"}
===============================================================================
