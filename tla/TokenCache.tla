------------------------------ MODULE TokenCache ------------------------------
(***************************************************************************)
(* The token-exchange service's TokenCache (broker/cache.py): a            *)
(* cachetools.TTLCache of JWTs whose exp claim is looked at again on every *)
(* read.  The cache is a value, so that each broker keeps its own:         *)
(*                                                                         *)
(*   slot[k]   the stored token and the time the TTL drops it, or Absent   *)
(*   older     <<j, k>> when j was used less recently than k               *)
(*                                                                         *)
(* The service calls it from one thread, the event loop's (its handlers    *)
(* are coroutines that call the brokers synchronously), so each method is  *)
(* one step; VaultBroker takes get apart, and shows that nothing comes in  *)
(* between.                                                                *)
(***************************************************************************)
EXTENDS Naturals, FiniteSets

CONSTANTS
    CacheKey,       \* keys: sha256 of both parts, assumed not to collide
    Absent,         \* no entry
    CacheTtl,       \* settings.cache_ttl
    CacheMaxSize,   \* settings.cache_maxsize
    SafetyBuffer    \* SAFETY_BUFFER_SECONDS

ASSUME TokenCacheAssumption ==
    /\ CacheTtl \in Nat
    /\ CacheMaxSize \in Nat \ {0}
    /\ SafetyBuffer \in Nat
    /\ IsFiniteSet(CacheKey)

\* What is stored are tokens of a set Token: records with an exp field.
Slot(Token) == [token : Token, expires : Nat]

Cache(Token) == [slot  : [CacheKey -> Slot(Token) \cup {Absent}],
                 older : SUBSET (CacheKey \X CacheKey)]

EmptyCache == [slot |-> [k \in CacheKey |-> Absent], older |-> {}]

-------------------------------------------------------------------------------
(* cachetools.TTLCache *)

\* TTLCache.__contains__: an entry past its TTL is not there, purged or not.
Present(cache, k, time) ==
    /\ cache.slot[k] # Absent
    /\ time < cache.slot[k].expires

\* OrderedDict.move_to_end
Touch(older, k, keys) ==
    {p \in older : p[1] # k /\ p[2] # k} \cup ((keys \ {k}) \X {k})

\* TTLCache.pop on the keys of a set
Drop(cache, keys) ==
    [slot  |-> [k \in CacheKey |-> IF k \in keys THEN Absent ELSE cache.slot[k]],
     older |-> {p \in cache.older : p[1] \notin keys /\ p[2] \notin keys}]

Stored(cache) == {k \in CacheKey : cache.slot[k] # Absent}

\* older is a strict total order of the keys
Ordered(older, keys) ==
    /\ older \subseteq keys \X keys
    /\ \A k \in keys : <<k, k>> \notin older
    /\ \A j, k \in keys : j # k => <<j, k>> \in older \/ <<k, j>> \in older
    /\ \A i, j, k \in keys : <<i, j>> \in older /\ <<j, k>> \in older => <<i, k>> \in older

\* TTLCache.expire
Expire(cache, time) == Drop(cache, {k \in Stored(cache) : ~ Present(cache, k, time)})

\* TTLCache.popitem: the least recently used entry
LeastRecent(cache) ==
    {k \in Stored(cache) : \A j \in Stored(cache) : <<j, k>> \notin cache.older}

\* Mutant of Store: one entry too many before it makes room.
StoreOneTooMany(cache, k, token, time) ==
    LET live   == Expire(cache, time)
        full   == k \notin Stored(live) /\ Cardinality(Stored(live)) > CacheMaxSize
        roomy  == IF full THEN Drop(live, LeastRecent(live)) ELSE live
    IN  [slot  |-> [roomy.slot EXCEPT ![k] = [token |-> token, expires |-> time + CacheTtl]],
         older |-> Touch(roomy.older, k, Stored(roomy))]

\* Mutant of Store: makes room before it purges.
StoreUnpurged(cache, k, token, time) ==
    LET full   == k \notin Stored(cache) /\ Cardinality(Stored(cache)) >= CacheMaxSize
        roomy  == IF full THEN Drop(cache, LeastRecent(cache)) ELSE cache
    IN  [slot  |-> [roomy.slot EXCEPT ![k] = [token |-> token, expires |-> time + CacheTtl]],
         older |-> Touch(roomy.older, k, Stored(roomy))]

\* TTLCache.__setitem__: purge, make room for a new key, store, move to end.
Store(cache, k, token, time) ==
    LET live   == Expire(cache, time)
        full   == k \notin Stored(live) /\ Cardinality(Stored(live)) >= CacheMaxSize
        roomy  == IF full THEN Drop(live, LeastRecent(live)) ELSE live
    IN  [slot  |-> [roomy.slot EXCEPT ![k] = [token |-> token, expires |-> time + CacheTtl]],
         older |-> Touch(roomy.older, k, Stored(roomy))]

-------------------------------------------------------------------------------
(* token-exchange/broker/cache.py *)

\* Mutant of IsTokenValid: no safety buffer.
IsTokenUnexpired(token, time) == time < token.exp

\* _is_token_valid: exp - SAFETY_BUFFER_SECONDS is still ahead
IsTokenValid(token, time) == time + SafetyBuffer < token.exp

\* TokenCache.get returns slot[k].token exactly when this holds, else None.
Usable(cache, k, time) ==
    /\ Present(cache, k, time)
    /\ IsTokenValid(cache.slot[k].token, time)

\* What TokenCache.get leaves behind: a read moves the entry to the recent end;
\* an entry near its expiry is deleted by the same call.
AfterGet(cache, k, time) ==
    IF Usable(cache, k, time)
    THEN [cache EXCEPT !.older = Touch(cache.older, k, Stored(cache))]
    ELSE IF Present(cache, k, time) THEN Drop(cache, {k}) ELSE cache

\* TokenCache.set
AfterSet(cache, k, token, time) == Store(cache, k, token, time)
===============================================================================
