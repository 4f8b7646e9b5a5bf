---------------------------- MODULE BlockCacheRecency ----------------------------
(***************************************************************************)
(* BlockCache with two auxiliary variables that record the use of keys.  A *)
(* key is used when a hit serves it and when a response is stored under it.*)
(*   usedBefore   the pairs of cached keys of which the first was last     *)
(*                used before the second,                                  *)
(*   overwritten  the cached keys whose last use was a store that found    *)
(*                the key present.                                         *)
(***************************************************************************)
EXTENDS BlockCache

VARIABLES usedBefore, overwritten

recencyVars == <<vars, usedBefore, overwritten>>

Stores(r) == End(r) /\ body[r].storable

RecencyInit == Init /\ usedBefore = {} /\ overwritten = {}

StillCached(m) == {p \in usedBefore : Has(m, p[1]) /\ Has(m, p[2])}

Used(k, m) ==
  usedBefore' = {p \in StillCached(m) : p[1] # k /\ p[2] # k}
                  \cup {<<x, k>> : x \in {y \in Keys \ {k} : Has(m, y)}}

RecencyNext ==
  \/ \E r \in Requests :
       /\ Hit(r)
       /\ Used(key[r], cache')
       /\ overwritten' = overwritten \ {key[r]}
  \/ \E r \in Requests :
       /\ Stores(r)
       /\ Used(key[r], cache')
       /\ overwritten' = {k \in overwritten : Has(cache', k)}
                           \cup {k \in {key[r]} : Has(cache, k)}
  \/ /\ Next
     /\ ~ \E r \in Requests : Hit(r) \/ Stores(r)
     /\ usedBefore' = StillCached(cache')
     /\ overwritten' = {k \in overwritten : Has(cache', k)}

RecencySpec == RecencyInit /\ [][RecencyNext]_recencyVars

(***************************************************************************)
(* block-cache.ts:28, "insertion order doubles as LRU order": through      *)
(* hits, stores, evictions and flushes in any order, keys are evicted      *)
(* least recently used first.  The keys that a store found present are the *)
(* exception: when two requests for one key both miss, the second store    *)
(* leaves the key where the first one put it.                              *)
(***************************************************************************)
LruOrderUnlessOverwritten ==
  \A i, j \in DOMAIN cache :
    {cache[i].key, cache[j].key} \cap overwritten = {} =>
      (i < j <=> <<cache[i].key, cache[j].key>> \in usedBefore)

=============================================================================
