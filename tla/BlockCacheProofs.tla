---------------------------- MODULE BlockCacheProofs ----------------------------
(***************************************************************************)
(* Proofs of the safety properties of BlockCache, for any number of keys,  *)
(* requests, entries and blocks.                                           *)
(*                                                                         *)
(* The invariant they rest on is MapInv /\ CoverageInv: the cache is a map *)
(* within its bound, and responses are covered from the moment they are    *)
(* read, not only once they are cached.                                    *)
(***************************************************************************)
EXTENDS BlockCacheRecency, DataLemmas, FiniteSetTheorems

CacheMaps == InsertionMaps(Keys, Bodies)

MapInv == TypeOK /\ CacheBounded

(* What the invariant says of the cache as a sequence. *)
LEMMA MapInvCache ==
  ASSUME MapInv
  PROVE  cache \in CacheMaps /\ DOMAIN cache = 1 .. Len(cache) /\ Len(cache) \in Nat
BY DEF MapInv, TypeOK, CacheBounded, CacheMaps, InsertionMaps

(* A stored value is the one that is looked up by its key. *)
LEMMA LookupInCache ==
  ASSUME NEW m \in CacheMaps, NEW k, Has(m, k)
  PROVE  /\ k \in Keys
         /\ Lookup(m, k) \in Bodies
         /\ \E i \in DOMAIN m : m[i] = [key |-> k, val |-> Lookup(m, k)]
<1>1. Position(m, k) \in DOMAIN m /\ m[Position(m, k)].key = k
  BY PositionOfKey
<1>2. m[Position(m, k)] \in Entries(Keys, Bodies)
  BY <1>1 DEF CacheMaps, InsertionMaps
<1>3. m[Position(m, k)] = [key |-> k, val |-> Lookup(m, k)]
  BY <1>1, <1>2 DEF Entries, Lookup
<1> QED BY <1>1, <1>2, <1>3 DEF Entries

(* A hit moves an entry to the end and adds or loses none. *)
LEMMA RefreshedProperties ==
  ASSUME NEW m \in CacheMaps, NEW k, Has(m, k)
  PROVE  /\ Refreshed(m, k) \in CacheMaps
         /\ Len(Refreshed(m, k)) = Len(m)
         /\ \A j \in DOMAIN Refreshed(m, k) : \E i \in DOMAIN m : Refreshed(m, k)[j] = m[i]
<1> DEFINE d == Delete(m, k)
           v == Lookup(m, k)
<1>1. k \in Keys /\ v \in Bodies /\ \E i \in DOMAIN m : m[i] = [key |-> k, val |-> v]
  BY LookupInCache
<1>2. /\ d \in CacheMaps /\ ~ Has(d, k) /\ Len(d) = Len(m) - 1
      /\ \A j \in DOMAIN d : \E i \in DOMAIN m : d[j] = m[i]
  BY DeleteProperties DEF CacheMaps
<1>3. Len(m) \in Nat
  BY DEF CacheMaps, InsertionMaps
<1> HIDE DEF d, v
<1>4. /\ Put(d, k, v) \in CacheMaps /\ Len(Put(d, k, v)) = Len(d) + 1
      /\ \A j \in DOMAIN Put(d, k, v) :
           \/ Put(d, k, v)[j] = [key |-> k, val |-> v]
           \/ \E i \in DOMAIN d : Put(d, k, v)[j] = d[i]
  BY <1>1, <1>2, PutProperties DEF CacheMaps
<1>5. \A j \in DOMAIN Put(d, k, v) : \E i \in DOMAIN m : Put(d, k, v)[j] = m[i]
  BY <1>1, <1>2, <1>4
<1>6. Refreshed(m, k) = Put(d, k, v)
  BY DEF Refreshed, d, v
<1> QED BY <1>2, <1>3, <1>4, <1>5, <1>6

(* A store keeps to the bound and adds nothing but the new entry. *)
LEMMA StoredProperties ==
  ASSUME NEW m \in CacheMaps, Len(m) =< MaxEntries, NEW k \in Keys, NEW b \in Bodies
  PROVE  /\ Stored(m, k, b) \in CacheMaps
         /\ Len(Stored(m, k, b)) =< MaxEntries
         /\ Len(Stored(m, k, b)) =< Len(m) + 1
         /\ \A j \in DOMAIN Stored(m, k, b) :
              \/ Stored(m, k, b)[j] = [key |-> k, val |-> b]
              \/ \E i \in DOMAIN m : Stored(m, k, b)[j] = m[i]
<1> DEFINE room == IF Len(m) >= MaxEntries THEN DropOldest(m) ELSE m
<1>1. Len(m) \in Nat /\ (m = << >> => Len(m) = 0)
  BY DEF CacheMaps, InsertionMaps
<1>2. /\ room \in CacheMaps /\ Len(room) < MaxEntries /\ Len(room) =< Len(m)
      /\ \A j \in DOMAIN room : \E i \in DOMAIN m : room[j] = m[i]
  <2>1. CASE Len(m) >= MaxEntries
    BY <1>1, <2>1, DropOldestProperties, MaxEntriesAssumption DEF CacheMaps
  <2>2. CASE ~ (Len(m) >= MaxEntries)
    BY <1>1, <2>2, MaxEntriesAssumption
  <2> QED BY <2>1, <2>2
<1>3. Stored(m, k, b) = Put(room, k, b)
  BY DEF Stored
<1>4. Len(room) \in Nat
  BY <1>2 DEF CacheMaps, InsertionMaps
<1> HIDE DEF room
<1>5. /\ Put(room, k, b) \in CacheMaps
      /\ Len(Put(room, k, b)) = IF Has(room, k) THEN Len(room) ELSE Len(room) + 1
      /\ \A j \in DOMAIN Put(room, k, b) :
           \/ Put(room, k, b)[j] = [key |-> k, val |-> b]
           \/ \E i \in DOMAIN room : Put(room, k, b)[j] = room[i]
  BY <1>2, PutProperties DEF CacheMaps
<1>6. Len(Put(room, k, b)) =< MaxEntries /\ Len(Put(room, k, b)) =< Len(m) + 1
  BY <1>1, <1>2, <1>4, <1>5, MaxEntriesAssumption
<1>7. \A j \in DOMAIN Put(room, k, b) :
         \/ Put(room, k, b)[j] = [key |-> k, val |-> b]
         \/ \E i \in DOMAIN m : Put(room, k, b)[j] = m[i]
  BY <1>2, <1>5
<1> QED BY <1>3, <1>5, <1>6, <1>7

-----------------------------------------------------------------------------

(* No body is a body. *)
LEMMA NoBodyType == NoBody \in Bodies
BY MaxHeightAssumption DEF NoBody, Bodies, Heights

(* The cache starts empty. *)
LEMMA MapInvInit == Init => MapInv
<1> SUFFICES ASSUME Init PROVE MapInv
  OBVIOUS
<1>1. cache \in Seq(Entries(Keys, Bodies)) /\ Len(cache) = 0 /\ KeysOnce(cache)
  BY DEF Init, EmptyMap, KeysOnce
<1>2. TypeOK
  BY <1>1, NoBodyType, MaxHeightAssumption DEF Init, TypeOK, Heights, Phases
<1> QED BY <1>1, <1>2, MaxEntriesAssumption DEF MapInv, CacheBounded

(* A flush leaves a map, marked responses, and counts. *)
LEMMA ClearProperties ==
  ASSUME MapInv, ClearBlockCache
  PROVE  /\ cache' \in CacheMaps /\ Len(cache') =< MaxEntries
         /\ body' \in [Requests -> Bodies]
         /\ invalidations' \in Nat
<1>1. cache' \in CacheMaps /\ Len(cache') = 0
  BY DEF ClearBlockCache, EmptyMap, CacheMaps, InsertionMaps, KeysOnce
<1>2. \A r \in Requests : [body[r] EXCEPT !.spanned = TRUE] \in Bodies
  BY DEF MapInv, TypeOK, Bodies
<1>3. body' \in [Requests -> Bodies]
  BY <1>2 DEF MapInv, TypeOK, ClearBlockCache
<1>4. invalidations' \in Nat
  BY DEF MapInv, TypeOK, ClearBlockCache
<1> QED BY <1>1, <1>3, <1>4, MaxEntriesAssumption

(* Every step keeps the cache a map of at most MaxEntries keys. *)
LEMMA MapInvStep == MapInv /\ [Next]_vars => MapInv'
<1> SUFFICES ASSUME MapInv, [Next]_vars PROVE MapInv'
  OBVIOUS
<1>0. /\ cache \in CacheMaps /\ Len(cache) =< MaxEntries
      /\ dbHeight \in Heights /\ lastSeenHeight \in Heights
      /\ phase \in [Requests -> Phases] /\ key \in [Requests -> Keys]
      /\ body \in [Requests -> Bodies]
      /\ hits \in Nat /\ misses \in Nat /\ invalidations \in Nat
  BY MapInvCache DEF MapInv, TypeOK, CacheBounded
<1> DEFINE Goal == /\ cache' \in CacheMaps /\ Len(cache') =< MaxEntries
                   /\ dbHeight' \in Heights /\ lastSeenHeight' \in Heights
                   /\ phase' \in [Requests -> Phases] /\ key' \in [Requests -> Keys]
                   /\ body' \in [Requests -> Bodies]
                   /\ hits' \in Nat /\ misses' \in Nat /\ invalidations' \in Nat
<1> SUFFICES Goal
  BY DEF MapInv, TypeOK, CacheBounded, CacheMaps, InsertionMaps
<1>1. CASE CommitBlock
  BY <1>0, <1>1, MaxHeightAssumption DEF CommitBlock, Heights, requestVars, statVars
<1>2. ASSUME NEW r \in Requests, Bypass(r) PROVE Goal
  BY <1>0, <1>2 DEF Bypass, Phases, statVars
<1>3. ASSUME NEW r \in Requests, Hit(r) PROVE Goal
  <2>1. cache' \in CacheMaps /\ Len(cache') = Len(cache)
    BY <1>0, <1>3, RefreshedProperties DEF Hit
  <2>2. Lookup(cache, key[r]) \in Bodies
    BY <1>0, <1>3, LookupInCache DEF Hit
  <2>3. body' \in [Requests -> Bodies]
    BY <1>0, <1>3, <2>2 DEF Hit
  <2> QED BY <1>0, <1>3, <2>1, <2>3 DEF Hit, Phases
<1>4. ASSUME NEW r \in Requests, Miss(r) PROVE Goal
  BY <1>0, <1>4 DEF Miss, Phases
<1>5. ASSUME NEW r \in Requests, Read(r) PROVE Goal
  <2>1. body' \in [Requests -> Bodies]
    BY <1>0, <1>5 DEF Read, FreshBody, Bodies
  <2> QED BY <1>0, <1>5, <2>1 DEF Read, Phases, statVars
<1>6. ASSUME NEW r \in Requests, End(r) PROVE Goal
  <2>1. cache' \in CacheMaps /\ Len(cache') =< MaxEntries
    BY <1>0, <1>6, StoredProperties DEF End
  <2> QED BY <1>0, <1>6, <2>1 DEF End, Phases, statVars
<1>7. ASSUME NEW r \in Requests, Abandon(r) PROVE Goal
  BY <1>0, <1>7 DEF Abandon, Phases, statVars
<1>8. ASSUME NEW h \in 1 .. dbHeight, Notified(h) PROVE Goal
  <2>1. h \in Heights
    BY <1>0, MaxHeightAssumption DEF Heights
  <2> QED BY <1>0, <1>8, <2>1, ClearProperties DEF Notified
<1>9. ASSUME NEW h \in 0 .. dbHeight, Polled(h) PROVE Goal
  <2>1. h \in Heights
    BY <1>0, MaxHeightAssumption DEF Heights
  <2>2. CASE ClearBlockCache
    BY <1>0, <1>9, <2>1, <2>2, ClearProperties DEF Polled
  <2>3. CASE UNCHANGED <<cache, invalidations, body>>
    BY <1>0, <1>9, <2>1, <2>3 DEF Polled
  <2> QED BY <1>9, <2>2, <2>3 DEF Polled
<1>10. CASE Relisten
  BY <1>0, <1>10, ClearProperties DEF Relisten
<1>11. CASE UNCHANGED vars
  BY <1>0, <1>11 DEF vars
<1> QED
  BY <1>1, <1>2, <1>3, <1>4, <1>5, <1>6, <1>7, <1>8, <1>9, <1>10, <1>11 DEF Next, Serve

(* The variables keep their types, whatever the order of events. *)
THEOREM TypeCorrect == Spec => []TypeOK
<1>1. Spec => []MapInv
  BY MapInvInit, MapInvStep, PTL DEF Spec
<1>2. MapInv => TypeOK
  BY DEF MapInv
<1> QED BY <1>1, <1>2, PTL

(* The cache stays within BLOCK_CACHE_MAX_ENTRIES and holds a key once. *)
THEOREM CacheBoundedAlways == Spec => []CacheBounded
<1>1. Spec => []MapInv
  BY MapInvInit, MapInvStep, PTL DEF Spec
<1>2. MapInv => CacheBounded
  BY DEF MapInv
<1> QED BY <1>1, <1>2, PTL

-----------------------------------------------------------------------------
(***************************************************************************)
(* Coverage.  Sound looks at the flags, at the height and at               *)
(* lastSeenHeight only, so it is kept by a step that changes none of them; *)
(* a flush leaves nothing to be sound about, in the cache because it is    *)
(* empty and in flight because every response is marked.                   *)
(***************************************************************************)
LEMMA CoverageInit == Init => CoverageInv
BY MaxHeightAssumption DEF Init, CoverageInv, EmptyMap, Heights

(* A flush empties the cache and marks what is in flight, so all of it is
   covered. *)
LEMMA ClearCovers ==
  ASSUME MapInv, ClearBlockCache, UNCHANGED phase, lastSeenHeight' =< dbHeight'
  PROVE  CoverageInv'
<1>1. \A i \in DOMAIN cache' : Sound(cache[i].val)'
  BY DEF ClearBlockCache, EmptyMap
<1>2. ASSUME NEW r \in Requests, phase'[r] = "read" PROVE body'[r].spanned
  <2>1. body'[r] = [body[r] EXCEPT !.spanned = TRUE]
    BY <1>2 DEF ClearBlockCache
  <2>2. body[r] \in Bodies
    BY DEF MapInv, TypeOK
  <2> QED BY <2>1, <2>2 DEF Bodies
<1>3. \A r \in Requests : phase'[r] = "read" => Sound(body[r])'
  BY <1>2 DEF Sound
<1> QED BY <1>1, <1>3 DEF CoverageInv

(* A step that hears of nothing, and whose bodies were there before. *)
LEMMA QuietStepCovers ==
  ASSUME CoverageInv, MapInv, UNCHANGED lastSeenHeight, dbHeight' \in Nat,
         dbHeight =< dbHeight',
         \A j \in DOMAIN cache' :
            \/ \E i \in DOMAIN cache : cache'[j] = cache[i]
            \/ \E r \in Requests : phase[r] = "read" /\ cache'[j].val = body[r],
         \A r \in Requests : phase'[r] = "read" =>
            \/ phase[r] = "read" /\ body'[r] = body[r]
            \/ Sound(body'[r])
  PROVE  CoverageInv'
<1>1. lastSeenHeight' =< dbHeight'
  BY DEF CoverageInv, MapInv, TypeOK, Heights
<1>2. \A j \in DOMAIN cache' : Sound(cache'[j].val)
  BY DEF CoverageInv
<1>3. \A r \in Requests : phase'[r] = "read" => Sound(body'[r])
  BY DEF CoverageInv
<1>4. \A j \in DOMAIN cache' : Sound(cache[j].val)'
  BY <1>2 DEF Sound, Covers
<1>5. \A r \in Requests : phase'[r] = "read" => Sound(body[r])'
  BY <1>3 DEF Sound, Covers
<1> QED BY <1>1, <1>4, <1>5 DEF CoverageInv

(* Every step keeps the entries covered. *)
LEMMA CoverageStep == MapInv /\ CoverageInv /\ [Next]_vars => CoverageInv'
<1> SUFFICES ASSUME MapInv, CoverageInv, [Next]_vars PROVE CoverageInv'
  OBVIOUS
<1>0. /\ cache \in CacheMaps /\ Len(cache) =< MaxEntries
      /\ dbHeight \in Nat /\ lastSeenHeight \in Nat /\ lastSeenHeight =< dbHeight
      /\ phase \in [Requests -> Phases] /\ key \in [Requests -> Keys]
      /\ body \in [Requests -> Bodies]
  BY MapInvCache DEF MapInv, TypeOK, CacheBounded, CoverageInv, Heights
<1>1. CASE CommitBlock
  BY <1>0, <1>1, QuietStepCovers DEF CommitBlock, requestVars
<1>2. ASSUME NEW r \in Requests, Bypass(r) PROVE CoverageInv'
  BY <1>0, <1>2, QuietStepCovers DEF Bypass
<1>3. ASSUME NEW r \in Requests, Hit(r) PROVE CoverageInv'
  <2>1. \A j \in DOMAIN cache' : \E i \in DOMAIN cache : cache'[j] = cache[i]
    BY <1>0, <1>3, RefreshedProperties DEF Hit
  <2>2. \A s \in Requests : phase'[s] = "read" => phase[s] = "read" /\ body'[s] = body[s]
    BY <1>0, <1>3 DEF Hit
  <2> QED BY <1>0, <1>3, <2>1, <2>2, QuietStepCovers DEF Hit
<1>4. ASSUME NEW r \in Requests, Miss(r) PROVE CoverageInv'
  BY <1>0, <1>4, QuietStepCovers DEF Miss
<1>5. ASSUME NEW r \in Requests, Read(r) PROVE CoverageInv'
  <2>0. PICK ok \in BOOLEAN : body' = [body EXCEPT ![r] = FreshBody(ok)]
    BY <1>5 DEF Read
  <2>1. Sound(FreshBody(ok))
    BY <1>0 DEF Sound, Covers, FreshBody
  <2>2. \A s \in Requests : phase'[s] = "read" =>
          (phase[s] = "read" /\ body'[s] = body[s]) \/ Sound(body'[s])
    <3> TAKE s \in Requests
    <3>1. CASE s = r
      BY <1>0, <2>0, <2>1, <3>1
    <3>2. CASE s # r
      BY <1>0, <1>5, <2>0, <3>2 DEF Read
    <3> QED BY <3>1, <3>2
  <2>3. /\ UNCHANGED <<cache, dbHeight, lastSeenHeight>>
        /\ \A j \in DOMAIN cache' : \E i \in DOMAIN cache : cache'[j] = cache[i]
    BY <1>5 DEF Read
  <2> QED BY <1>0, <2>2, <2>3, QuietStepCovers
<1>6. ASSUME NEW r \in Requests, End(r) PROVE CoverageInv'
  <2>1. \A j \in DOMAIN cache' :
           \/ \E i \in DOMAIN cache : cache'[j] = cache[i]
           \/ phase[r] = "read" /\ cache'[j].val = body[r]
    <3>1. CASE body[r].storable
      <4>1. cache' = Stored(cache, key[r], body[r])
        BY <1>6, <3>1 DEF End
      <4>2. \A j \in DOMAIN cache' :
               \/ cache'[j] = [key |-> key[r], val |-> body[r]]
               \/ \E i \in DOMAIN cache : cache'[j] = cache[i]
        BY <1>0, <4>1, StoredProperties
      <4> QED BY <1>6, <4>2 DEF End
    <3>2. CASE ~ body[r].storable
      BY <1>6, <3>2 DEF End
    <3> QED BY <3>1, <3>2
  <2>2. \A s \in Requests : phase'[s] = "read" => phase[s] = "read" /\ body'[s] = body[s]
    BY <1>0, <1>6 DEF End
  <2> QED BY <1>0, <1>6, <2>1, <2>2, QuietStepCovers DEF End
<1>7. ASSUME NEW r \in Requests, Abandon(r) PROVE CoverageInv'
  BY <1>0, <1>7, QuietStepCovers DEF Abandon
<1>8. ASSUME NEW h \in 1 .. dbHeight, Notified(h) PROVE CoverageInv'
  BY <1>0, <1>8, ClearCovers DEF Notified
<1>9. ASSUME NEW h \in 0 .. dbHeight, Polled(h) PROVE CoverageInv'
  <2>1. lastSeenHeight' =< dbHeight' /\ UNCHANGED <<phase, dbHeight>>
    BY <1>0, <1>9 DEF Polled
  <2>2. CASE h # lastSeenHeight /\ lastSeenHeight # 0
    BY <1>9, <2>1, <2>2, ClearCovers DEF Polled
  <2>3. CASE h = lastSeenHeight
    BY <1>0, <1>9, <2>1, <2>3, QuietStepCovers DEF Polled
  <2>4. CASE h # lastSeenHeight /\ lastSeenHeight = 0
    (* Nothing unmarked exists yet: what there is was read blind. *)
    <3>1. \A i \in DOMAIN cache : cache[i].val.spanned \/ cache[i].val.blind
      BY <2>4 DEF CoverageInv, Sound
    <3>2. \A r \in Requests : phase[r] = "read" => body[r].spanned \/ body[r].blind
      BY <2>4 DEF CoverageInv, Sound
    <3>3. UNCHANGED <<cache, phase, body>>
      BY <1>9, <2>4 DEF Polled
    <3>4. /\ \A i \in DOMAIN cache' : Sound(cache[i].val)'
          /\ \A r \in Requests : phase'[r] = "read" => Sound(body[r])'
      BY <3>1, <3>2, <3>3 DEF Sound
    <3> QED BY <2>1, <3>4 DEF CoverageInv
  <2> QED BY <2>2, <2>3, <2>4
<1>10. CASE Relisten
  BY <1>0, <1>10, ClearCovers DEF Relisten
<1>11. CASE UNCHANGED vars
  BY <1>0, <1>11, QuietStepCovers DEF vars
<1> QED
  BY <1>1, <1>2, <1>3, <1>4, <1>5, <1>6, <1>7, <1>8, <1>9, <1>10, <1>11 DEF Next, Serve

(***************************************************************************)
(* block-cache.ts:162-191: the responses on their way into the cache are   *)
(* as good as those it has, and no height heard of is ahead of the         *)
(* database.                                                               *)
(***************************************************************************)
THEOREM CoverageInvAlways == Spec => [](MapInv /\ CoverageInv)
<1>1. Init => MapInv /\ CoverageInv
  BY MapInvInit, CoverageInit
<1>2. MapInv /\ CoverageInv /\ [Next]_vars => (MapInv /\ CoverageInv)'
  BY MapInvStep, CoverageStep
<1> QED BY <1>1, <1>2, PTL DEF Spec

(***************************************************************************)
(* Every cached response that was read by a process that had heard of a    *)
(* block, and that no flush overtook, shows every block the process knows. *)
(***************************************************************************)
THEOREM CoverageAlways == Spec => []CacheCoversKnownBlocks
<1>1. CoverageInv => CacheCoversKnownBlocks
  BY DEF CoverageInv, CacheCoversKnownBlocks, CachedBodies, Sound
<1> QED BY <1>1, CoverageInvAlways, PTL

-----------------------------------------------------------------------------
(***************************************************************************)
(* The statistics.  Every entry and every counted flush is paid for by a   *)
(* miss that is no longer under way.                                       *)
(***************************************************************************)
UnderWay == {r \in Requests : phase[r] \in {"missed", "read"}}

StatisticsInv == IsFiniteSet(UnderWay) /\ StatisticsAddUp

(* The counters start in agreement. *)
LEMMA StatisticsInit == Init => StatisticsInv
<1> SUFFICES ASSUME Init PROVE StatisticsInv
  OBVIOUS
<1>1. UnderWay = {}
  BY DEF Init, UnderWay
<1>2. IsFiniteSet(UnderWay) /\ Cardinality(UnderWay) = 0
  BY <1>1, FS_EmptySet
<1>3. Len(cache) = 0 /\ invalidations = 0 /\ misses = 0
  BY DEF Init, EmptyMap
<1> QED BY <1>2, <1>3 DEF StatisticsInv, StatisticsAddUp, UnderWay

(* A step that keeps the requests under way, and the sum and the misses *)
LEMMA SameUnderWay ==
  ASSUME MapInv, StatisticsInv, UNCHANGED misses, UnderWay' = UnderWay,
         Len(cache') \in Nat, invalidations' \in Nat,
         Len(cache') + invalidations' =< Len(cache) + invalidations
  PROVE  StatisticsInv'
<1>1. Len(cache) \in Nat /\ invalidations \in Nat /\ misses \in Nat
  BY MapInvCache DEF MapInv, TypeOK
<1>2. Cardinality(UnderWay) \in Nat /\ IsFiniteSet(UnderWay)
  BY FS_CardinalityType DEF StatisticsInv
<1>3. Len(cache) + invalidations =< misses - Cardinality(UnderWay)
  BY DEF StatisticsInv, StatisticsAddUp, UnderWay
<1>4. Len(cache') + invalidations' =< misses' - Cardinality(UnderWay')
  BY <1>1, <1>2, <1>3
<1>5. IsFiniteSet(UnderWay')
  BY <1>2
<1> QED BY <1>4, <1>5 DEF StatisticsInv, StatisticsAddUp, UnderWay

(* A flush keeps them in agreement. *)
LEMMA ClearStatistics ==
  ASSUME MapInv, StatisticsInv, ClearBlockCache, UNCHANGED <<phase, misses>>
  PROVE  StatisticsInv'
<1>1. Len(cache) \in Nat /\ invalidations \in Nat /\ cache \in Seq(Entries(Keys, Bodies))
  BY MapInvCache DEF MapInv, TypeOK
<1>2. Len(cache') = 0
  BY DEF ClearBlockCache, EmptyMap
<1>3. cache # EmptyMap => Len(cache) >= 1
  BY <1>1, EmptySeq DEF EmptyMap
<1>4. /\ invalidations' \in Nat
      /\ Len(cache') + invalidations' =< Len(cache) + invalidations
  BY <1>1, <1>2, <1>3 DEF ClearBlockCache
<1>5. UnderWay' = UnderWay
  BY DEF UnderWay
<1> QED BY <1>2, <1>4, <1>5, SameUnderWay

(* So does every step. *)
LEMMA StatisticsStep == MapInv /\ StatisticsInv /\ [Next]_vars => StatisticsInv'
<1> SUFFICES ASSUME MapInv, StatisticsInv, [Next]_vars PROVE StatisticsInv'
  OBVIOUS
<1>0. /\ cache \in CacheMaps /\ Len(cache) =< MaxEntries /\ Len(cache) \in Nat
      /\ phase \in [Requests -> Phases] /\ key \in [Requests -> Keys]
      /\ body \in [Requests -> Bodies]
      /\ misses \in Nat /\ invalidations \in Nat
  BY MapInvCache DEF MapInv, TypeOK, CacheBounded
<1>1. IsFiniteSet(UnderWay) /\ Cardinality(UnderWay) \in Nat
  BY FS_CardinalityType DEF StatisticsInv
<1>2. Len(cache) + invalidations =< misses - Cardinality(UnderWay)
  BY DEF StatisticsInv, StatisticsAddUp, UnderWay
<1>3. ASSUME NEW r \in Requests, UnderWay' = UnderWay \ {r}, r \in UnderWay,
             Len(cache') \in Nat, Len(cache') =< Len(cache) + 1, UNCHANGED <<misses, invalidations>>
      PROVE  StatisticsInv'
  <2>1. IsFiniteSet(UnderWay') /\ Cardinality(UnderWay') = Cardinality(UnderWay) - 1
    BY <1>1, <1>3, FS_RemoveElement
  <2>2. Len(cache') + invalidations' =< misses' - Cardinality(UnderWay')
    BY <1>0, <1>1, <1>2, <1>3, <2>1
  <2> QED BY <2>1, <2>2 DEF StatisticsInv, StatisticsAddUp, UnderWay
<1>4. CASE CommitBlock
  BY <1>0, <1>4, SameUnderWay DEF CommitBlock, requestVars, statVars, UnderWay
<1>5. ASSUME NEW r \in Requests, Bypass(r) PROVE StatisticsInv'
  <2>1. UnderWay' = UnderWay
    BY <1>0, <1>5 DEF Bypass, UnderWay
  <2> QED BY <1>0, <1>5, <2>1, SameUnderWay DEF Bypass, statVars
<1>6. ASSUME NEW r \in Requests, Hit(r) PROVE StatisticsInv'
  <2>1. UnderWay' = UnderWay
    BY <1>0, <1>6 DEF Hit, UnderWay
  <2>2. Len(cache') = Len(cache)
    BY <1>0, <1>6, RefreshedProperties DEF Hit
  <2> QED BY <1>0, <1>6, <2>1, <2>2, SameUnderWay DEF Hit
<1>7. ASSUME NEW r \in Requests, Miss(r) PROVE StatisticsInv'
  <2>1. UnderWay' = UnderWay \cup {r} /\ r \notin UnderWay
    BY <1>0, <1>7 DEF Miss, UnderWay
  <2>2. IsFiniteSet(UnderWay') /\ Cardinality(UnderWay') = Cardinality(UnderWay) + 1
    BY <1>1, <2>1, FS_AddElement
  <2>3. Len(cache') + invalidations' =< misses' - Cardinality(UnderWay')
    BY <1>0, <1>1, <1>2, <1>7, <2>2 DEF Miss
  <2> QED BY <2>2, <2>3 DEF StatisticsInv, StatisticsAddUp, UnderWay
<1>8. ASSUME NEW r \in Requests, Read(r) PROVE StatisticsInv'
  <2>1. UnderWay' = UnderWay
    BY <1>0, <1>8 DEF Read, UnderWay
  <2> QED BY <1>0, <1>8, <2>1, SameUnderWay DEF Read, statVars
<1>9. ASSUME NEW r \in Requests, End(r) PROVE StatisticsInv'
  <2>1. UnderWay' = UnderWay \ {r} /\ r \in UnderWay
    BY <1>0, <1>9 DEF End, UnderWay
  <2>2. cache' \in CacheMaps /\ Len(cache') =< Len(cache) + 1
    BY <1>0, <1>9, StoredProperties DEF End
  <2>3. Len(cache') \in Nat
    BY <2>2 DEF CacheMaps, InsertionMaps
  <2> QED BY <1>3, <1>9, <2>1, <2>2, <2>3 DEF End, statVars
<1>10. ASSUME NEW r \in Requests, Abandon(r) PROVE StatisticsInv'
  <2>1. UnderWay' = UnderWay \ {r} /\ r \in UnderWay
    BY <1>0, <1>10 DEF Abandon, UnderWay
  <2> QED BY <1>0, <1>3, <1>10, <2>1 DEF Abandon, statVars
<1>11. ASSUME NEW h, Notified(h) PROVE StatisticsInv'
  BY <1>11, ClearStatistics DEF Notified
<1>12. ASSUME NEW h, Polled(h) PROVE StatisticsInv'
  <2>1. UNCHANGED <<phase, misses>>
    BY <1>12 DEF Polled
  <2>2. CASE ClearBlockCache
    BY <2>1, <2>2, ClearStatistics
  <2>3. CASE UNCHANGED <<cache, invalidations>>
    <3>1. UnderWay' = UnderWay
      BY <2>1 DEF UnderWay
    <3> QED BY <1>0, <2>1, <2>3, <3>1, SameUnderWay
  <2> QED BY <1>12, <2>2, <2>3 DEF Polled
<1>13. CASE Relisten
  BY <1>13, ClearStatistics DEF Relisten
<1>14. CASE UNCHANGED vars
  BY <1>0, <1>14, SameUnderWay DEF vars, UnderWay
<1> QED
  BY <1>4, <1>5, <1>6, <1>7, <1>8, <1>9, <1>10, <1>11, <1>12, <1>13, <1>14 DEF Next, Serve

(***************************************************************************)
(* What /healthz reports is consistent: no more entries and counted        *)
(* flushes than misses that have ended.                                    *)
(***************************************************************************)
THEOREM StatisticsAlways == Spec => []StatisticsAddUp
<1>1. Spec => [](MapInv /\ StatisticsInv)
  <2>1. Init => MapInv /\ StatisticsInv
    BY MapInvInit, StatisticsInit
  <2>2. MapInv /\ StatisticsInv /\ [Next]_vars => (MapInv /\ StatisticsInv)'
    BY MapInvStep, StatisticsStep
  <2> QED BY <2>1, <2>2, PTL DEF Spec
<1>2. StatisticsInv => StatisticsAddUp
  BY DEF StatisticsInv
<1> QED BY <1>1, <1>2, PTL

-----------------------------------------------------------------------------
(***************************************************************************)
(* Recency.  A use of k leaves the other keys in the order they had, and   *)
(* puts k behind them unless it was stored over.                           *)
(***************************************************************************)

(* x stands before y in m. *)
StandsBefore(m, x, y) ==
  \E i, j \in DOMAIN m : i < j /\ m[i].key = x /\ m[j].key = y

(* The keys of d stand as they do in m. *)
StandAsIn(d, m) == \A x, y : StandsBefore(d, x, y) => StandsBefore(m, x, y)

(* Deleting a key leaves the others as they stand. *)
LEMMA DeleteStands ==
  ASSUME NEW m \in CacheMaps, NEW k
  PROVE  StandAsIn(Delete(m, k), m)
<1>1. m \in Seq(Entries(Keys, Bodies)) /\ Len(m) \in Nat /\ DOMAIN m = 1 .. Len(m)
  BY DEF CacheMaps, InsertionMaps
<1>2. CASE ~ Has(m, k)
  BY <1>2 DEF Delete, StandAsIn
<1>3. CASE Has(m, k)
  <2> DEFINE p == Position(m, k)
             d == Without(m, p)
  <2>1. p \in 1 .. Len(m) BY <1>1, <1>3, PositionOfKey
  <2>2. /\ Len(d) = Len(m) - 1 /\ DOMAIN d = 1 .. Len(m) - 1
        /\ \A j \in 1 .. Len(m) - 1 : d[j] = IF j < p THEN m[j] ELSE m[j + 1]
    <3>1. /\ d \in Seq(Entries(Keys, Bodies)) /\ Len(d) = Len(m) - 1
          /\ \A j \in 1 .. Len(m) - 1 : d[j] = IF j < p THEN m[j] ELSE m[j + 1]
      <4> HIDE DEF p
      <4> QED BY <1>1, <2>1, WithoutProperties
    <3> HIDE DEF d
    <3> QED BY <3>1
  <2>3. Delete(m, k) = d BY <1>3 DEF Delete
  <2> HIDE DEF d, p
  <2>4. ASSUME NEW i \in 1 .. Len(m) - 1, NEW j \in 1 .. Len(m) - 1, i < j
        PROVE  \E a, b \in 1 .. Len(m) : a < b /\ d[i] = m[a] /\ d[j] = m[b]
    <3> DEFINE a == IF i < p THEN i ELSE i + 1
               b == IF j < p THEN j ELSE j + 1
    <3>1. a \in 1 .. Len(m) /\ b \in 1 .. Len(m) /\ a < b BY <1>1, <2>1, <2>4
    <3>2. d[i] = m[a] /\ d[j] = m[b] BY <2>2
    <3> QED BY <3>1, <3>2
  <2>5. ASSUME NEW x, NEW y, StandsBefore(d, x, y) PROVE StandsBefore(m, x, y)
    <3>1. PICK i \in 1 .. Len(m) - 1, j \in 1 .. Len(m) - 1 :
                 i < j /\ d[i].key = x /\ d[j].key = y
      BY <2>2, <2>5 DEF StandsBefore
    <3>2. PICK a \in 1 .. Len(m), b \in 1 .. Len(m) : a < b /\ d[i] = m[a] /\ d[j] = m[b]
      BY <2>4, <3>1
    <3> QED BY <1>1, <3>1, <3>2 DEF StandsBefore
  <2> QED BY <2>3, <2>5 DEF StandAsIn
<1> QED BY <1>2, <1>3

(* Evicting the oldest key leaves the others as they stand. *)
LEMMA DropOldestStands ==
  ASSUME NEW m \in CacheMaps
  PROVE  StandAsIn(DropOldest(m), m)
<1>1. m \in Seq(Entries(Keys, Bodies)) /\ Len(m) \in Nat /\ DOMAIN m = 1 .. Len(m)
  BY DEF CacheMaps, InsertionMaps
<1>2. CASE m = << >>
  BY <1>2 DEF DropOldest, StandAsIn
<1>3. CASE m # << >>
  <2>1. /\ DOMAIN Tail(m) = 1 .. Len(m) - 1
        /\ \A j \in 1 .. Len(m) - 1 : Tail(m)[j] = m[j + 1]
    BY <1>1, <1>3
  <2>2. ASSUME NEW x, NEW y, StandsBefore(Tail(m), x, y) PROVE StandsBefore(m, x, y)
    <3>1. PICK i \in 1 .. Len(m) - 1, j \in 1 .. Len(m) - 1 :
                 i < j /\ m[i + 1].key = x /\ m[j + 1].key = y
      BY <2>1, <2>2 DEF StandsBefore
    <3>2. i + 1 \in 1 .. Len(m) /\ j + 1 \in 1 .. Len(m) /\ i + 1 < j + 1 BY <1>1, <3>1
    <3> QED BY <1>1, <3>1, <3>2 DEF StandsBefore
  <2> QED BY <1>3, <2>2 DEF DropOldest, StandAsIn
<1> QED BY <1>2, <1>3

(* A key that is set stays where it was, or stands behind all others. *)
LEMMA PutStands ==
  ASSUME NEW m \in CacheMaps, NEW k, NEW v
  PROVE  /\ \A x, y : x # k /\ y # k /\ StandsBefore(Put(m, k, v), x, y) => StandsBefore(m, x, y)
         /\ ~ Has(m, k) => \A y : ~ StandsBefore(Put(m, k, v), k, y)
<1> DEFINE e == [key |-> k, val |-> v]
<1>1. m \in Seq(Entries(Keys, Bodies)) /\ Len(m) \in Nat /\ DOMAIN m = 1 .. Len(m)
  BY DEF CacheMaps, InsertionMaps
<1>2. CASE Has(m, k)
  <2>1. Put(m, k, v) = [m EXCEPT ![Position(m, k)] = e] BY <1>2 DEF Put
  <2>2. Position(m, k) \in DOMAIN m /\ m[Position(m, k)].key = k BY <1>2, PositionOfKey
  <2>3. /\ DOMAIN Put(m, k, v) = DOMAIN m
        /\ \A i \in DOMAIN m : Put(m, k, v)[i].key = m[i].key
    BY <1>1, <2>1, <2>2
  <2>4. \A x, y : StandsBefore(Put(m, k, v), x, y) => StandsBefore(m, x, y)
    BY <2>3 DEF StandsBefore
  <2> QED BY <1>2, <2>4
<1>3. CASE ~ Has(m, k)
  <2>1. /\ DOMAIN Put(m, k, v) = 1 .. Len(m) + 1
        /\ \A i \in 1 .. Len(m) : Put(m, k, v)[i] = m[i]
        /\ Put(m, k, v)[Len(m) + 1] = e
    <3>1. Put(m, k, v) = Append(m, e) BY <1>3 DEF Put
    <3> HIDE DEF e
    <3>2. /\ DOMAIN Append(m, e) = 1 .. Len(m) + 1
          /\ \A i \in 1 .. Len(m) : Append(m, e)[i] = m[i]
          /\ Append(m, e)[Len(m) + 1] = e
      BY <1>1, AppendProperties
    <3> QED BY <3>1, <3>2
  <2>2. \A i \in 1 .. Len(m) : m[i].key # k BY <1>1, <1>3 DEF Has
  <2>3. ASSUME NEW x, NEW y, x # k, y # k, StandsBefore(Put(m, k, v), x, y)
        PROVE  StandsBefore(m, x, y)
    <3>1. PICK i \in 1 .. Len(m) + 1, j \in 1 .. Len(m) + 1 :
                 i < j /\ Put(m, k, v)[i].key = x /\ Put(m, k, v)[j].key = y
      BY <2>1, <2>3 DEF StandsBefore
    <3>2. i # Len(m) + 1 /\ j # Len(m) + 1 BY <2>1, <2>3, <3>1
    <3>3. i \in 1 .. Len(m) /\ j \in 1 .. Len(m) BY <1>1, <3>2
    <3> QED BY <1>1, <2>1, <3>1, <3>3 DEF StandsBefore
  <2>4. ASSUME NEW y, StandsBefore(Put(m, k, v), k, y) PROVE FALSE
    <3>1. PICK i \in 1 .. Len(m) + 1, j \in 1 .. Len(m) + 1 :
                 i < j /\ Put(m, k, v)[i].key = k
      BY <2>1, <2>4 DEF StandsBefore
    <3>2. i \in 1 .. Len(m) BY <1>1, <3>1
    <3> QED BY <2>1, <2>2, <3>1, <3>2
  <2> QED BY <2>3, <2>4
<1> QED BY <1>2, <1>3

(* A hit puts its key behind all others and leaves those as they stand. *)
LEMMA RefreshedStands ==
  ASSUME NEW m \in CacheMaps, NEW k, Has(m, k)
  PROVE  /\ \A x, y : x # k /\ y # k /\ StandsBefore(Refreshed(m, k), x, y) => StandsBefore(m, x, y)
         /\ \A y : ~ StandsBefore(Refreshed(m, k), k, y)
<1> DEFINE d == Delete(m, k)
           v == Lookup(m, k)
<1>1. d \in CacheMaps /\ ~ Has(d, k) BY DeleteProperties DEF CacheMaps
<1>2. \A x, y : StandsBefore(d, x, y) => StandsBefore(m, x, y) BY DeleteStands DEF StandAsIn
<1>3. Refreshed(m, k) = Put(d, k, v) BY DEF Refreshed
<1> HIDE DEF d, v
<1>4. /\ \A x, y : x # k /\ y # k /\ StandsBefore(Put(d, k, v), x, y) => StandsBefore(d, x, y)
      /\ \A y : ~ StandsBefore(Put(d, k, v), k, y)
  BY <1>1, PutStands
<1> QED BY <1>2, <1>3, <1>4

(* So does a store, unless the key is there already. *)
LEMMA StoredStands ==
  ASSUME NEW m \in CacheMaps, NEW k, NEW b
  PROVE  /\ \A x, y : x # k /\ y # k /\ StandsBefore(Stored(m, k, b), x, y) => StandsBefore(m, x, y)
         /\ ~ Has(m, k) => \A y : ~ StandsBefore(Stored(m, k, b), k, y)
<1> DEFINE room == IF Len(m) >= MaxEntries THEN DropOldest(m) ELSE m
<1>1. DropOldest(m) \in CacheMaps /\ \A j \in DOMAIN DropOldest(m) : \E i \in DOMAIN m : DropOldest(m)[j] = m[i]
  BY DropOldestProperties DEF CacheMaps
<1>2. room \in CacheMaps BY <1>1
<1>3. Has(room, k) => Has(m, k) BY <1>1 DEF Has
<1>4. \A x, y : StandsBefore(room, x, y) => StandsBefore(m, x, y) BY DropOldestStands DEF StandAsIn
<1>5. Stored(m, k, b) = Put(room, k, b) BY DEF Stored
<1> HIDE DEF room
<1>6. /\ \A x, y : x # k /\ y # k /\ StandsBefore(Put(room, k, b), x, y) => StandsBefore(room, x, y)
      /\ ~ Has(room, k) => \A y : ~ StandsBefore(Put(room, k, b), k, y)
  BY <1>2, PutStands
<1> QED BY <1>3, <1>4, <1>5, <1>6

(***************************************************************************)
(* The invariant: of two keys that were not stored over, the one that      *)
(* stands before the other was used before it.  No key is used before      *)
(* itself, and of two not each before the other, so that the converse      *)
(* follows.                                                                *)
(***************************************************************************)
RecencyInv ==
  /\ \A x, y : <<x, y>> \in usedBefore => <<y, x>> \notin usedBefore
  /\ \A x, y : StandsBefore(cache, x, y) /\ x \notin overwritten /\ y \notin overwritten =>
                 <<x, y>> \in usedBefore

(* Nothing has been used at the start. *)
LEMMA RecencyInvInit == RecencyInit => RecencyInv
BY DEF RecencyInit, Init, RecencyInv, StandsBefore, EmptyMap

(* A use of k that leaves it behind all others unless it is stored over. *)
LEMMA UseKeepsRecency ==
  ASSUME RecencyInv, NEW k, Used(k, cache'), cache' \in CacheMaps,
         \A x, y : x # k /\ y # k /\ StandsBefore(cache', x, y) => StandsBefore(cache, x, y),
         k \in overwritten' \/ \A y : ~ StandsBefore(cache', k, y),
         \A x : x \notin overwritten' /\ x # k /\ Has(cache', x) => x \notin overwritten
  PROVE  RecencyInv'
<1>1. \A x, y : <<x, y>> \in usedBefore' <=>
        \/ <<x, y>> \in usedBefore /\ x # k /\ y # k /\ Has(cache', x) /\ Has(cache', y)
        \/ y = k /\ x # k /\ x \in Keys /\ Has(cache', x)
  <2>1. usedBefore' = {p \in StillCached(cache') : p[1] # k /\ p[2] # k}
                        \cup {<<x, k>> : x \in {y \in Keys \ {k} : Has(cache', y)}}
    BY DEF Used
  <2>2. \A x, y : <<x, y>> \in StillCached(cache') <=>
                    <<x, y>> \in usedBefore /\ Has(cache', x) /\ Has(cache', y)
    BY DEF StillCached
  <2> QED BY <2>1, <2>2
<1>2. \A x, y : StandsBefore(cache', x, y) =>
                  /\ Has(cache', x) /\ Has(cache', y) /\ x \in Keys /\ y \in Keys
                  /\ x # y
  <2> SUFFICES ASSUME NEW x, NEW y, StandsBefore(cache', x, y)
               PROVE  Has(cache', x) /\ Has(cache', y) /\ x \in Keys /\ y \in Keys /\ x # y
    OBVIOUS
  <2>1. PICK i \in DOMAIN cache', j \in DOMAIN cache' :
               i < j /\ cache'[i].key = x /\ cache'[j].key = y
    BY DEF StandsBefore
  <2>2. cache' \in Seq(Entries(Keys, Bodies)) /\ KeysOnce(cache') BY DEF CacheMaps, InsertionMaps
  <2>3. DOMAIN cache' = 1 .. Len(cache') BY <2>2
  <2>4. i \in Int /\ j \in Int BY <2>1, <2>3
  <2>5. i # j BY <2>1, <2>4
  <2>6. x # y BY <2>1, <2>2, <2>5 DEF KeysOnce
  <2>7. cache'[i] \in Entries(Keys, Bodies) /\ cache'[j] \in Entries(Keys, Bodies) BY <2>1, <2>2
  <2> QED BY <2>1, <2>6, <2>7 DEF Has, Entries
<1>3. \A x, y : <<x, y>> \in usedBefore' => <<y, x>> \notin usedBefore'
  BY <1>1 DEF RecencyInv
<1>4. ASSUME NEW x, NEW y, StandsBefore(cache', x, y), x \notin overwritten', y \notin overwritten'
      PROVE  <<x, y>> \in usedBefore'
  <2>1. x # k BY <1>4
  <2>2. CASE y = k BY <1>1, <1>2, <1>4, <2>1, <2>2
  <2>3. CASE y # k
    <3>1. StandsBefore(cache, x, y) BY <1>4, <2>1, <2>3
    <3>2. x \notin overwritten /\ y \notin overwritten BY <1>2, <1>4, <2>1, <2>3
    <3>3. <<x, y>> \in usedBefore BY <3>1, <3>2 DEF RecencyInv
    <3> QED BY <1>1, <1>2, <1>4, <2>1, <2>3, <3>3
  <2> QED BY <2>2, <2>3
<1> QED BY <1>3, <1>4 DEF RecencyInv

(* The steps that use no key leave the cache as it is, or empty it. *)
LEMMA UnusedCache ==
  ASSUME [Next]_vars, ~ \E r \in Requests : Hit(r) \/ Stores(r)
  PROVE  cache' = cache \/ cache' = EmptyMap
<1>1. CASE CommitBlock BY <1>1 DEF CommitBlock
<1>2. ASSUME NEW r \in Requests, Serve(r) PROVE cache' = cache
  <2>1. CASE Bypass(r) BY <2>1 DEF Bypass
  <2>2. CASE Miss(r) BY <2>2 DEF Miss
  <2>3. CASE Read(r) BY <2>3 DEF Read
  <2>4. CASE End(r) BY <2>4 DEF End, Stores
  <2>5. CASE Abandon(r) BY <2>5 DEF Abandon
  <2> QED BY <1>2, <2>1, <2>2, <2>3, <2>4, <2>5 DEF Serve
<1>3. ASSUME NEW h, Notified(h) PROVE cache' = EmptyMap BY <1>3 DEF Notified, ClearBlockCache
<1>4. ASSUME NEW h, Polled(h) PROVE cache' = cache \/ cache' = EmptyMap
  BY <1>4 DEF Polled, ClearBlockCache
<1>5. CASE Relisten BY <1>5 DEF Relisten, ClearBlockCache
<1>6. CASE UNCHANGED vars BY <1>6 DEF vars
<1> QED BY <1>1, <1>2, <1>3, <1>4, <1>5, <1>6 DEF Next

(* Every step keeps the keys in the order of their use. *)
LEMMA RecencyInvStep ==
  MapInv /\ RecencyInv /\ [RecencyNext]_recencyVars => MapInv' /\ RecencyInv'
<1> SUFFICES ASSUME MapInv, RecencyInv, [RecencyNext]_recencyVars PROVE MapInv' /\ RecencyInv'
  OBVIOUS
<1>1. [Next]_vars
  BY DEF RecencyNext, recencyVars, Next, Serve, Stores
<1>2. MapInv' BY <1>1, MapInvStep
<1>3. cache \in CacheMaps /\ cache' \in CacheMaps
  BY <1>2 DEF MapInv, TypeOK, CacheBounded, CacheMaps, InsertionMaps
<1>4. \A x, y : <<x, y>> \in StillCached(cache') <=>
                  <<x, y>> \in usedBefore /\ Has(cache', x) /\ Has(cache', y)
  BY DEF StillCached
<1>5. ASSUME NEW r \in Requests, Hit(r), Used(key[r], cache'), overwritten' = overwritten \ {key[r]}
      PROVE  RecencyInv'
  <2>1. Has(cache, key[r]) /\ cache' = Refreshed(cache, key[r]) BY <1>5 DEF Hit
  <2>2. /\ \A x, y : x # key[r] /\ y # key[r] /\ StandsBefore(cache', x, y) => StandsBefore(cache, x, y)
        /\ \A y : ~ StandsBefore(cache', key[r], y)
    BY <1>3, <2>1, RefreshedStands
  <2>3. \A x : x \notin overwritten' /\ x # key[r] /\ Has(cache', x) => x \notin overwritten
    BY <1>5
  <2> QED BY <1>3, <1>5, <2>2, <2>3, UseKeepsRecency
<1>6. ASSUME NEW r \in Requests, Stores(r), Used(key[r], cache'),
             overwritten' = {k \in overwritten : Has(cache', k)} \cup {k \in {key[r]} : Has(cache, k)}
      PROVE  RecencyInv'
  <2>1. cache' = Stored(cache, key[r], body[r]) BY <1>6 DEF Stores, End
  <2>2. /\ \A x, y : x # key[r] /\ y # key[r] /\ StandsBefore(cache', x, y) => StandsBefore(cache, x, y)
        /\ ~ Has(cache, key[r]) => \A y : ~ StandsBefore(cache', key[r], y)
    BY <1>3, <2>1, StoredStands
  <2>3. key[r] \in overwritten' \/ \A y : ~ StandsBefore(cache', key[r], y) BY <1>6, <2>2
  <2>4. \A x : x \notin overwritten' /\ x # key[r] /\ Has(cache', x) => x \notin overwritten
    BY <1>6
  <2> QED BY <1>3, <1>6, <2>2, <2>3, <2>4, UseKeepsRecency
<1>7. ASSUME ~ (\E r \in Requests : Hit(r) \/ Stores(r)), usedBefore' = StillCached(cache'),
             overwritten' = {k \in overwritten : Has(cache', k)}
      PROVE  RecencyInv'
  <2>1. cache' = cache \/ cache' = EmptyMap BY <1>1, <1>7, UnusedCache
  <2>2. \A x, y : StandsBefore(cache', x, y) =>
                    StandsBefore(cache, x, y) /\ Has(cache', x) /\ Has(cache', y)
    BY <2>1 DEF StandsBefore, Has, EmptyMap
  <2> QED BY <1>4, <1>7, <2>2 DEF RecencyInv
<1>8. ASSUME UNCHANGED recencyVars PROVE RecencyInv'
  BY <1>8 DEF recencyVars, vars, RecencyInv, StandsBefore
<1>9. RecencyInv' BY <1>5, <1>6, <1>7, <1>8 DEF RecencyNext
<1> QED BY <1>2, <1>9

(***************************************************************************)
(* Keys that no store found present are in the cache in the order of their *)
(* last use, so that the oldest of them is the one used least recently.    *)
(***************************************************************************)
THEOREM LruOrderAlways == RecencySpec => []LruOrderUnlessOverwritten
<1>1. RecencyInit => MapInv /\ RecencyInv
  BY RecencyInvInit, MapInvInit DEF RecencyInit
<1>2. RecencySpec => [](MapInv /\ RecencyInv)
  BY <1>1, RecencyInvStep, PTL DEF RecencySpec
<1>3. MapInv /\ RecencyInv => LruOrderUnlessOverwritten
  <2> SUFFICES ASSUME MapInv, RecencyInv, NEW i \in DOMAIN cache, NEW j \in DOMAIN cache,
                      cache[i].key \notin overwritten, cache[j].key \notin overwritten
               PROVE  i < j <=> <<cache[i].key, cache[j].key>> \in usedBefore
    BY DEF LruOrderUnlessOverwritten
  <2>1. DOMAIN cache = 1 .. Len(cache) BY MapInvCache
  <2>2. i \in Int /\ j \in Int BY <2>1
  <2>3. i < j => <<cache[i].key, cache[j].key>> \in usedBefore
    BY DEF RecencyInv, StandsBefore
  <2>4. j < i => <<cache[j].key, cache[i].key>> \in usedBefore
    BY DEF RecencyInv, StandsBefore
  <2>5. i = j => <<cache[i].key, cache[j].key>> \notin usedBefore
    BY DEF RecencyInv
  <2>6. <<cache[i].key, cache[j].key>> \in usedBefore => <<cache[j].key, cache[i].key>> \notin usedBefore
    BY DEF RecencyInv
  <2> QED BY <2>2, <2>3, <2>4, <2>5, <2>6
<1> QED BY <1>2, <1>3, PTL

=============================================================================
