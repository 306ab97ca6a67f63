--------------------------- MODULE TokenCache_proofs ---------------------------
(***************************************************************************)
(* What the operations of TokenCache do to any cache: which entries stay,  *)
(* that the recency order stays a strict total order, that the order has a *)
(* least recent entry to evict and hence that the size stays bounded.      *)
(***************************************************************************)
EXTENDS TokenCache, FiniteSetTheorems, TLAPS

-------------------------------------------------------------------------------
(* Entries *)

\* Dropping keys leaves the other entries as they are.
LEMMA DropShape ==
    ASSUME NEW Token, NEW cache \in Cache(Token), NEW keys
    PROVE  /\ Drop(cache, keys) \in Cache(Token)
           /\ \A k \in CacheKey :
                Drop(cache, keys).slot[k] = IF k \in keys THEN Absent ELSE cache.slot[k]
BY DEF Drop, Cache

\* So does the purge of what the TTL has ended.
LEMMA ExpireShape ==
    ASSUME NEW Token, NEW cache \in Cache(Token), NEW time
    PROVE  /\ Expire(cache, time) \in Cache(Token)
           /\ \A k \in CacheKey : Expire(cache, time).slot[k] \in {cache.slot[k], Absent}
BY DropShape DEF Expire

\* A store sets its key; any other entry stays or goes.
LEMMA StoreShape ==
    ASSUME NEW Token, NEW cache \in Cache(Token), NEW k \in CacheKey,
           NEW token \in Token, NEW time \in Nat
    PROVE  /\ Store(cache, k, token, time) \in Cache(Token)
           /\ Store(cache, k, token, time).slot[k] = [token |-> token, expires |-> time + CacheTtl]
           /\ \A j \in CacheKey \ {k} :
                Store(cache, k, token, time).slot[j] \in {cache.slot[j], Absent}
<1> DEFINE live  == Expire(cache, time)
           full  == k \notin Stored(live) /\ Cardinality(Stored(live)) >= CacheMaxSize
           roomy == IF full THEN Drop(live, LeastRecent(live)) ELSE live
           entry == [token |-> token, expires |-> time + CacheTtl]
<1>1. /\ live \in Cache(Token)
      /\ \A j \in CacheKey : live.slot[j] \in {cache.slot[j], Absent}
  BY ExpireShape
<1>2. /\ roomy \in Cache(Token)
      /\ \A j \in CacheKey : roomy.slot[j] \in {cache.slot[j], Absent}
  <2>1. CASE full
    <3>1. /\ Drop(live, LeastRecent(live)) \in Cache(Token)
          /\ \A j \in CacheKey : Drop(live, LeastRecent(live)).slot[j] \in {live.slot[j], Absent}
      BY <1>1, DropShape
    <3> QED BY <1>1, <2>1, <3>1
  <2>2. CASE ~ full
    BY <1>1, <2>2
  <2> QED BY <2>1, <2>2
<1>3. Touch(roomy.older, k, Stored(roomy)) \in SUBSET (CacheKey \X CacheKey)
  <2>1. roomy.older \in SUBSET (CacheKey \X CacheKey)
    BY <1>2 DEF Cache
  <2>2. Stored(roomy) \subseteq CacheKey
    BY DEF Stored
  <2> HIDE DEF roomy
  <2> QED BY <2>1, <2>2 DEF Touch
<1>4. entry \in Slot(Token)
  BY TokenCacheAssumption DEF Slot
<1>5. Store(cache, k, token, time) =
        [slot  |-> [roomy.slot EXCEPT ![k] = entry],
         older |-> Touch(roomy.older, k, Stored(roomy))]
  BY DEF Store
<1> HIDE DEF roomy, entry
<1>6. roomy.slot \in [CacheKey -> Slot(Token) \cup {Absent}]
  BY <1>2 DEF Cache
<1>7. Store(cache, k, token, time) \in Cache(Token)
  BY <1>3, <1>4, <1>5, <1>6 DEF Cache
<1> QED BY <1>2, <1>5, <1>6, <1>7 DEF entry

\* A read keeps every entry, or drops its own.
LEMMA AfterGetShape ==
    ASSUME NEW Token, NEW cache \in Cache(Token), NEW k \in CacheKey, NEW time
    PROVE  /\ AfterGet(cache, k, time) \in Cache(Token)
           /\ \A j \in CacheKey : AfterGet(cache, k, time).slot[j] \in {cache.slot[j], Absent}
<1>1. CASE Usable(cache, k, time)
  <2>1. AfterGet(cache, k, time) = [cache EXCEPT !.older = Touch(cache.older, k, Stored(cache))]
    BY <1>1 DEF AfterGet
  <2>2. Touch(cache.older, k, Stored(cache)) \in SUBSET (CacheKey \X CacheKey)
    BY DEF Touch, Stored, Cache
  <2> QED BY <2>1, <2>2 DEF Cache
<1>2. CASE ~ Usable(cache, k, time)
  BY <1>2, DropShape DEF AfterGet
<1> QED BY <1>1, <1>2

-------------------------------------------------------------------------------
(* The recency order *)

\* Moving a key to the end orders what was there and the key.
LEMMA TouchOrdered ==
    ASSUME NEW older, NEW keys, Ordered(older, keys), NEW k
    PROVE  Ordered(Touch(older, k, keys), keys \cup {k})
<1> DEFINE new == Touch(older, k, keys)
           all == keys \cup {k}
<1>0. /\ older \subseteq keys \X keys
      /\ \A i \in keys : <<i, i>> \notin older
      /\ \A i, j \in keys : i # j => <<i, j>> \in older \/ <<j, i>> \in older
      /\ \A h, i, j \in keys : <<h, i>> \in older /\ <<i, j>> \in older => <<h, j>> \in older
  BY DEF Ordered
<1>1. ASSUME NEW i, NEW j
      PROVE  <<i, j>> \in new <=> \/ i # k /\ j # k /\ <<i, j>> \in older
                                  \/ i \in keys /\ i # k /\ j = k
  BY DEF Touch
<1>2. new \subseteq all \X all
  <2>1. {p \in older : p[1] # k /\ p[2] # k} \subseteq all \X all
    BY <1>0
  <2>2. (keys \ {k}) \X {k} \subseteq all \X all
    OBVIOUS
  <2> QED BY <2>1, <2>2 DEF Touch
<1> HIDE DEF new
<1>3. ASSUME NEW i \in all
      PROVE  <<i, i>> \notin new
  BY <1>0, <1>1
<1>4. ASSUME NEW i \in all, NEW j \in all, i # j
      PROVE  <<i, j>> \in new \/ <<j, i>> \in new
  <2>1. CASE i = k \/ j = k
    BY <1>1, <1>4, <2>1
  <2>2. CASE i # k /\ j # k
    BY <1>0, <1>1, <1>4, <2>2
  <2> QED BY <2>1, <2>2
<1>5. ASSUME NEW h \in all, NEW i \in all, NEW j \in all, <<h, i>> \in new, <<i, j>> \in new
      PROVE  <<h, j>> \in new
  <2>1. h # k /\ i # k /\ h \in keys /\ i \in keys /\ <<h, i>> \in older
    BY <1>1, <1>5
  <2>2. CASE j = k
    BY <1>1, <2>1, <2>2
  <2>3. CASE j # k
    <3>1. <<i, j>> \in older /\ j \in keys
      BY <1>1, <1>5, <2>3
    <3> QED BY <1>0, <1>1, <2>1, <2>3, <3>1
  <2> QED BY <2>2, <2>3
<1> HIDE DEF all
<1>6. Ordered(new, all)
  BY <1>2, <1>3, <1>4, <1>5 DEF Ordered
<1> QED BY <1>6 DEF new, all

\* What is left after a drop is still ordered.
LEMMA DropOrdered ==
    ASSUME NEW cache, Ordered(cache.older, Stored(cache)), NEW keys
    PROVE  /\ Ordered(Drop(cache, keys).older, Stored(Drop(cache, keys)))
           /\ Stored(Drop(cache, keys)) = Stored(cache) \ keys
<1> DEFINE new == Drop(cache, keys)
<1>1. Stored(new) = Stored(cache) \ keys
  BY DEF Drop, Stored
<1>2. new.older = {p \in cache.older : p[1] \notin keys /\ p[2] \notin keys}
  BY DEF Drop
<1>3. \A i, j \in Stored(new) : <<i, j>> \in new.older <=> <<i, j>> \in cache.older
  BY <1>1, <1>2
<1>4. new.older \subseteq Stored(new) \X Stored(new)
  BY <1>1, <1>2 DEF Ordered
<1> HIDE DEF new
<1> QED BY <1>1, <1>3, <1>4 DEF Ordered, new

\* A non-empty cache has one least recently used entry, which is what popitem
\* takes.
LEMMA LeastRecentExists ==
    ASSUME NEW cache, Ordered(cache.older, Stored(cache)), Stored(cache) # {}
    PROVE  \E k \in Stored(cache) : LeastRecent(cache) = {k}
<1> DEFINE K       == Stored(cache)
           Down(k) == {j \in K : <<j, k>> \in cache.older}
           T       == {Down(k) : k \in K}
           R       == StrictSubsetOrdering(K)
<1>1. IsFiniteSet(K)
  BY TokenCacheAssumption, FS_Subset DEF Stored
<1>2. IsWellFoundedOn(R, SUBSET K)
  BY <1>1, FS_StrictSubsetOrderingWellFounded, FS_FiniteSubsetsOfFinite
<1>3. T \subseteq SUBSET K /\ T # {}
  OBVIOUS
<1>4. PICK D \in T : \A E \in T : ~ (<<E, D>> \in R)
  <2> HIDE DEF R, T
  <2> QED BY <1>2, <1>3, WFMin
<1>5. PICK k \in K : D = Down(k)
  BY <1>4
<1>6. Down(k) = {}
  <2> SUFFICES ASSUME NEW j \in K, <<j, k>> \in cache.older
               PROVE  FALSE
    OBVIOUS
  <2>1. Down(j) \subseteq Down(k)
    BY DEF Ordered
  <2>2. j \in Down(k) /\ j \notin Down(j)
    BY DEF Ordered
  <2>3. Down(j) \in T /\ <<Down(j), Down(k)>> \in R
    BY <2>1, <2>2 DEF StrictSubsetOrdering
  <2> QED BY <1>4, <1>5, <2>3
<1>7. k \in LeastRecent(cache)
  BY <1>6 DEF LeastRecent
<1>8. ASSUME NEW j \in LeastRecent(cache)
      PROVE  j = k
  BY <1>6 DEF LeastRecent, Ordered
<1> QED BY <1>7, <1>8

-------------------------------------------------------------------------------
(* The size *)

\* What a cache may never be: out of order or too large.
WellKept(cache) ==
    /\ Ordered(cache.older, Stored(cache))
    /\ Cardinality(Stored(cache)) <= CacheMaxSize

LEMMA DropWellKept ==
    ASSUME NEW cache, WellKept(cache), NEW keys
    PROVE  /\ WellKept(Drop(cache, keys))
           /\ Stored(Drop(cache, keys)) = Stored(cache) \ keys
<1>1. /\ Ordered(Drop(cache, keys).older, Stored(Drop(cache, keys)))
      /\ Stored(Drop(cache, keys)) = Stored(cache) \ keys
  BY DropOrdered DEF WellKept
<1>2. IsFiniteSet(Stored(cache))
  BY TokenCacheAssumption, FS_Subset DEF Stored
<1>3. /\ Cardinality(Stored(cache) \ keys) <= Cardinality(Stored(cache))
      /\ Cardinality(Stored(cache)) \in Nat
      /\ Cardinality(Stored(cache) \ keys) \in Nat
  BY <1>2, FS_Subset, FS_CardinalityType
<1> QED BY <1>1, <1>3, TokenCacheAssumption DEF WellKept

\* Moving a stored key to the recent end keeps the cache well kept.
LEMMA TouchWellKept ==
    ASSUME NEW Token, NEW cache \in Cache(Token), WellKept(cache), NEW k \in Stored(cache)
    PROVE  WellKept([cache EXCEPT !.older = Touch(cache.older, k, Stored(cache))])
<1> DEFINE new == [cache EXCEPT !.older = Touch(cache.older, k, Stored(cache))]
<1>1. new.slot = cache.slot /\ new.older = Touch(cache.older, k, Stored(cache))
  BY DEF Cache
<1>2. Stored(new) = Stored(cache)
  BY <1>1 DEF Stored
<1>3. Stored(cache) \cup {k} = Stored(cache)
  OBVIOUS
<1>4. Ordered(new.older, Stored(new))
  BY <1>1, <1>2, <1>3, TouchOrdered DEF WellKept
<1> HIDE DEF new
<1>5. WellKept(new)
  BY <1>2, <1>4 DEF WellKept
<1> QED BY <1>5 DEF new

LEMMA AfterGetWellKept ==
    ASSUME NEW Token, NEW cache \in Cache(Token), WellKept(cache), NEW k \in CacheKey, NEW time
    PROVE  WellKept(AfterGet(cache, k, time))
<1>1. CASE Usable(cache, k, time)
  <2>1. k \in Stored(cache)
    BY <1>1 DEF Usable, Present, Stored
  <2> QED BY <1>1, <2>1, TouchWellKept DEF AfterGet
<1>2. CASE ~ Usable(cache, k, time)
  BY <1>2, DropWellKept DEF AfterGet
<1> QED BY <1>1, <1>2

LEMMA StoreWellKept ==
    ASSUME NEW Token, NEW cache \in Cache(Token), WellKept(cache), NEW k \in CacheKey,
           NEW token \in Token, NEW time \in Nat, Absent \notin Slot(Token)
    PROVE  WellKept(Store(cache, k, token, time))
<1> DEFINE live  == Expire(cache, time)
           full  == k \notin Stored(live) /\ Cardinality(Stored(live)) >= CacheMaxSize
           roomy == IF full THEN Drop(live, LeastRecent(live)) ELSE live
           entry == [token |-> token, expires |-> time + CacheTtl]
           new   == Store(cache, k, token, time)
<1>1. live \in Cache(Token) /\ WellKept(live)
  BY ExpireShape, DropWellKept DEF Expire
<1>2. /\ IsFiniteSet(Stored(live))
      /\ Cardinality(Stored(live)) \in Nat
      /\ Cardinality(Stored(live)) <= CacheMaxSize
  <2>1. IsFiniteSet(Stored(live))
    BY TokenCacheAssumption, FS_Subset DEF Stored
  <2> QED BY <1>1, <2>1, FS_CardinalityType DEF WellKept
<1>3. /\ roomy \in Cache(Token)
      /\ WellKept(roomy)
      /\ k \in Stored(roomy) \/ Cardinality(Stored(roomy)) < CacheMaxSize
  <2>1. CASE full
    <3>1. Stored(live) # {}
      BY <1>2, <2>1, FS_EmptySet, TokenCacheAssumption
    <3>2. PICK x \in Stored(live) : LeastRecent(live) = {x}
      BY <1>1, <3>1, LeastRecentExists DEF WellKept
    <3>3. roomy = Drop(live, {x})
      BY <2>1, <3>2
    <3>4. Stored(roomy) = Stored(live) \ {x} /\ WellKept(roomy) /\ roomy \in Cache(Token)
      <4> HIDE DEF live
      <4> QED BY <1>1, <3>3, DropShape, DropWellKept
    <3>5. Cardinality(Stored(roomy)) = Cardinality(Stored(live)) - 1
      <4> HIDE DEF live, roomy
      <4> QED BY <1>2, <3>2, <3>4, FS_RemoveElement
    <3> HIDE DEF live, roomy
    <3> QED BY <1>2, <3>4, <3>5, TokenCacheAssumption
  <2>2. CASE ~ full
    <3>1. roomy = live
      BY <2>2
    <3>2. k \in Stored(live) \/ Cardinality(Stored(live)) < CacheMaxSize
      <4> DEFINE n == Cardinality(Stored(live))
      <4>1. n \in Nat /\ (k \in Stored(live) \/ ~ (n >= CacheMaxSize))
        BY <1>2, <2>2
      <4> HIDE DEF n, live
      <4>2. k \in Stored(live) \/ n < CacheMaxSize
        BY <4>1, TokenCacheAssumption
      <4> QED BY <4>2 DEF n
    <3> QED BY <1>1, <3>1, <3>2
  <2> QED BY <2>1, <2>2
<1>4. new = [slot  |-> [roomy.slot EXCEPT ![k] = entry],
             older |-> Touch(roomy.older, k, Stored(roomy))]
  BY DEF Store
<1>5. Stored(new) = Stored(roomy) \cup {k}
  <2>1. entry \in Slot(Token)
    BY TokenCacheAssumption DEF Slot
  <2>2. entry # Absent
    BY <2>1
  <2> HIDE DEF roomy, entry, new
  <2>3. roomy.slot \in [CacheKey -> Slot(Token) \cup {Absent}]
    BY <1>3 DEF Cache
  <2>4. \A j \in CacheKey : new.slot[j] = IF j = k THEN entry ELSE roomy.slot[j]
    BY <1>4, <2>3
  <2> QED BY <2>2, <2>4 DEF Stored
<1> HIDE DEF live, full, roomy, entry, new
<1>6. Ordered(new.older, Stored(new))
  <2>1. Ordered(Touch(roomy.older, k, Stored(roomy)), Stored(roomy) \cup {k})
    BY <1>3, TouchOrdered DEF WellKept
  <2> QED BY <1>4, <1>5, <2>1
<1>7. Cardinality(Stored(new)) <= CacheMaxSize
  <2>1. IsFiniteSet(Stored(roomy))
    BY TokenCacheAssumption, FS_Subset DEF Stored
  <2>2. Cardinality(Stored(roomy)) \in Nat /\ Cardinality(Stored(roomy)) <= CacheMaxSize
    BY <1>3, <2>1, FS_CardinalityType DEF WellKept
  <2>3. CASE k \in Stored(roomy)
    <3>1. Stored(new) = Stored(roomy)
      BY <1>5, <2>3
    <3> QED BY <2>2, <3>1
  <2>4. CASE k \notin Stored(roomy)
    <3>1. Cardinality(Stored(new)) = Cardinality(Stored(roomy)) + 1
      BY <1>5, <2>1, <2>4, FS_AddElement
    <3>2. Cardinality(Stored(roomy)) < CacheMaxSize
      BY <1>3, <2>4
    <3> QED BY <2>2, <3>1, <3>2, TokenCacheAssumption
  <2> QED BY <2>3, <2>4
<1>8. WellKept(new)
  BY <1>6, <1>7 DEF WellKept
<1> QED BY <1>8 DEF new
-------------------------------------------------------------------------------
(* What is usable *)

\* A read takes nothing usable away.
LEMMA AfterGetKeepsUsable ==
    ASSUME NEW Token, NEW cache \in Cache(Token), NEW k \in CacheKey, NEW time,
           NEW j \in CacheKey, Usable(cache, j, time)
    PROVE  Usable(AfterGet(cache, k, time), j, time)
<1> DEFINE new == AfterGet(cache, k, time)
<1>1. CASE Usable(cache, k, time)
  <2>1. new.slot = cache.slot
    BY <1>1 DEF AfterGet, Cache
  <2> QED BY <2>1 DEF Usable, Present
<1>2. CASE ~ Usable(cache, k, time)
  <2>1. j # k
    BY <1>2
  <2>2. new.slot[j] = cache.slot[j]
    BY <1>2, <2>1, DropShape DEF AfterGet
  <2> QED BY <2>2 DEF Usable, Present
<1> QED BY <1>1, <1>2

\* A store ends another entry that is usable only to make room: the cache is full of
\* live entries, the key is new, and the other is the least recently used of them.
LEMMA StoreEvictsLeastRecent ==
    ASSUME NEW Token, Absent \notin Slot(Token), NEW cache \in Cache(Token), WellKept(cache),
           NEW k \in CacheKey, NEW token \in Token, NEW time \in Nat,
           NEW j \in CacheKey \ {k}, Usable(cache, j, time),
           ~ Usable(Store(cache, k, token, time), j, time)
    PROVE  /\ Cardinality(Stored(Expire(cache, time))) = CacheMaxSize
           /\ Stored(Store(cache, k, token, time)) \ Stored(Expire(cache, time)) # {}
           /\ \A i \in Stored(Expire(cache, time)) \ {j} : <<j, i>> \in cache.older
<1> DEFINE dead  == {i \in Stored(cache) : ~ Present(cache, i, time)}
           live  == Expire(cache, time)
           full  == k \notin Stored(live) /\ Cardinality(Stored(live)) >= CacheMaxSize
           roomy == IF full THEN Drop(live, LeastRecent(live)) ELSE live
           entry == [token |-> token, expires |-> time + CacheTtl]
           new   == Store(cache, k, token, time)
<1>1. /\ live = Drop(cache, dead)
      /\ live \in Cache(Token)
      /\ WellKept(live)
      /\ Stored(live) = Stored(cache) \ dead
      /\ live.older \subseteq cache.older
  <2>1. live = Drop(cache, dead)
    BY DEF Expire
  <2>2. live.older \subseteq cache.older
    BY <2>1 DEF Drop
  <2> HIDE DEF dead
  <2> QED BY <2>1, <2>2, DropShape, DropWellKept
<1>2. live.slot[j] = cache.slot[j] /\ j \in Stored(live)
  <2>1. j \in Stored(cache) /\ j \notin dead
    BY DEF Usable, Present, Stored
  <2> HIDE DEF dead
  <2> QED BY <1>1, <2>1, DropShape
<1>3. new = [slot  |-> [roomy.slot EXCEPT ![k] = entry],
             older |-> Touch(roomy.older, k, Stored(roomy))]
  BY DEF Store
<1>4. new.slot[j] # live.slot[j]
  <2> HIDE DEF new, live
  <2> QED BY <1>2 DEF Usable, Present, new
<1>5. full
  <2> SUFFICES ASSUME ~ full
               PROVE  FALSE
    OBVIOUS
  <2>1. roomy = live
    OBVIOUS
  <2> HIDE DEF roomy, live, new, entry
  <2>2. live.slot \in [CacheKey -> Slot(Token) \cup {Absent}]
    BY <1>1 DEF Cache
  <2> QED BY <1>3, <1>4, <2>1, <2>2
<1>6. PICK x \in Stored(live) : LeastRecent(live) = {x}
  <2> HIDE DEF live
  <2> QED BY <1>1, <1>2, LeastRecentExists DEF WellKept
<1>7. j = x
  <2> SUFFICES ASSUME j # x
               PROVE  FALSE
    OBVIOUS
  <2>1. roomy = Drop(live, {x})
    BY <1>5, <1>6
  <2> HIDE DEF roomy, live, new, entry
  <2>2. roomy.slot \in [CacheKey -> Slot(Token) \cup {Absent}] /\ roomy.slot[j] = live.slot[j]
    BY <1>1, <2>1, DropShape DEF Cache
  <2> QED BY <1>3, <1>4, <2>2
<1>8. Cardinality(Stored(live)) = CacheMaxSize
  <2> DEFINE n == Cardinality(Stored(live))
  <2>1. IsFiniteSet(Stored(live))
    BY TokenCacheAssumption, FS_Subset DEF Stored
  <2>2. n \in Nat
    BY <2>1, FS_CardinalityType
  <2>3. n >= CacheMaxSize
    BY <1>5
  <2>4. n <= CacheMaxSize
    BY <1>1 DEF WellKept
  <2> HIDE DEF n
  <2>5. n = CacheMaxSize
    BY <2>2, <2>3, <2>4, TokenCacheAssumption
  <2> QED BY <2>5 DEF n
<1>9. k \in Stored(new)
  <2>1. entry # Absent
    BY TokenCacheAssumption DEF Slot
  <2>2. roomy \in Cache(Token)
    <3> HIDE DEF live
    <3> QED BY <1>1, DropShape
  <2> HIDE DEF roomy, new, entry
  <2>3. roomy.slot \in [CacheKey -> Slot(Token) \cup {Absent}]
    BY <2>2 DEF Cache
  <2> QED BY <1>3, <2>1, <2>3 DEF Stored
<1>10. ASSUME NEW i \in Stored(live) \ {j}
       PROVE  <<j, i>> \in cache.older
  <2>1. <<i, j>> \notin live.older
    <3> HIDE DEF live
    <3> QED BY <1>6, <1>7 DEF LeastRecent
  <2> HIDE DEF live
  <2> QED BY <1>1, <1>2, <2>1 DEF WellKept, Ordered
<1>11. k \notin Stored(live)
  BY <1>5
<1> HIDE DEF live, new
<1> QED BY <1>8, <1>9, <1>10, <1>11 DEF live, new
===============================================================================
