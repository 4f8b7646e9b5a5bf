------------------------------- MODULE BlockCache -------------------------------
(***************************************************************************)
(* The block-aware response cache of cache/block-cache.ts: the express     *)
(* middleware of POST /graphql, and what the invalidator does to the cache *)
(* when it hears of a block.  Module Invalidator models how it hears.      *)
(*                                                                         *)
(* The middleware runs in one thread, but a request that missed waits for  *)
(* the database between the lookup and res.end, so lookups, stores and     *)
(* flushes of different requests interleave in any order.                  *)
(*                                                                         *)
(* A response body is abstracted to the block height its first database    *)
(* read saw, and to whether the gate of res.end lets it in.  Height 0      *)
(* stands for SQL's null: the "Chain" table is empty, or, in               *)
(* lastSeenHeight, the invalidator has not heard of any block.             *)
(***************************************************************************)
EXTENDS InsertionMap, FiniteSets

CONSTANTS
  Keys,        \* hashes of cacheable operations (keyFor)
  Requests,    \* the requests that arrive, each one once
  MaxEntries,  \* BLOCK_CACHE_MAX_ENTRIES
  MaxHeight    \* bound: the highest block the indexer commits

ASSUME MaxEntriesAssumption == MaxEntries \in Nat \ {0}
ASSUME MaxHeightAssumption  == MaxHeight \in Nat

Heights == 0 .. MaxHeight

VARIABLES
  dbHeight,        \* MAX("blockHeight") of "Chain", as committed
  cache,           \* the Map of key to response body
  lastSeenHeight,  \* the invalidator's lastSeenHeight
  phase,           \* where each request is
  key,             \* the key each request is for
  body,            \* the response each request is producing
  hits, misses, invalidations

vars == <<dbHeight, cache, lastSeenHeight, phase, key, body,
          hits, misses, invalidations>>

requestVars == <<phase, key, body>>
statVars    == <<hits, misses, invalidations>>

(***************************************************************************)
(* height and storable are the response; the two flags are auxiliary (no   *)
(* step reads them) and say under which circumstances it was read:         *)
(*   spanned  the cache was flushed after the response was read and before *)
(*            it was stored,                                               *)
(*   blind    it was read before the invalidator had heard of any block.   *)
(***************************************************************************)
Bodies == [height : Heights, storable : BOOLEAN, spanned : BOOLEAN, blind : BOOLEAN]

NoBody == [height |-> 0, storable |-> FALSE, spanned |-> FALSE, blind |-> FALSE]

Phases == {"new", "missed", "read", "done"}

Init ==
  /\ dbHeight \in Heights
  /\ cache = EmptyMap
  /\ lastSeenHeight = 0
  /\ phase = [r \in Requests |-> "new"]
  /\ key \in [Requests -> Keys]
  /\ body = [r \in Requests |-> NoBody]
  /\ hits = 0 /\ misses = 0 /\ invalidations = 0

-----------------------------------------------------------------------------
(* The indexer, another process, commits a block. *)
CommitBlock ==
  /\ dbHeight < MaxHeight
  /\ dbHeight' = dbHeight + 1
  /\ UNCHANGED <<cache, lastSeenHeight, requestVars, statVars>>

-----------------------------------------------------------------------------
(* A mutation or a tokenomics operation: next() with nothing recorded. *)
Bypass(r) ==
  /\ phase[r] = "new"
  /\ phase' = [phase EXCEPT ![r] = "done"]
  /\ UNCHANGED <<dbHeight, cache, lastSeenHeight, key, body, statVars>>

(* Mutant of Refreshed: sets the key without deleting it first. *)
SetAgain(m, k) == Put(m, k, Lookup(m, k))

Refreshed(m, k) == Put(Delete(m, k), k, Lookup(m, k))

Hit(r) ==
  /\ phase[r] = "new"
  /\ Has(cache, key[r])
  /\ cache' = Refreshed(cache, key[r])
  /\ body' = [body EXCEPT ![r] = Lookup(cache, key[r])]
  /\ phase' = [phase EXCEPT ![r] = "done"]
  /\ hits' = hits + 1
  /\ UNCHANGED <<dbHeight, lastSeenHeight, key, misses, invalidations>>

Miss(r) ==
  /\ phase[r] = "new"
  /\ ~ Has(cache, key[r])
  /\ phase' = [phase EXCEPT ![r] = "missed"]
  /\ misses' = misses + 1
  /\ UNCHANGED <<dbHeight, cache, lastSeenHeight, key, body, hits, invalidations>>

(* A response read now *)
FreshBody(ok) ==
  [height |-> dbHeight, storable |-> ok, spanned |-> FALSE, blind |-> lastSeenHeight = 0]

(* PostGraphile reads the database on behalf of a request that missed. *)
Read(r) ==
  /\ phase[r] = "missed"
  /\ phase' = [phase EXCEPT ![r] = "read"]
  /\ \E ok \in BOOLEAN : body' = [body EXCEPT ![r] = FreshBody(ok)]
  /\ UNCHANGED <<dbHeight, cache, lastSeenHeight, key, statVars>>

(* Mutant of Stored: makes room only once the map holds too many. *)
StoredThenTrimmed(m, k, b) == Put(IF Len(m) > MaxEntries THEN DropOldest(m) ELSE m, k, b)

(***************************************************************************)
(* The oldest key goes whenever the map is full, also when k is present    *)
(* and storing it needs no room.                                           *)
(***************************************************************************)
Stored(m, k, b) == Put(IF Len(m) >= MaxEntries THEN DropOldest(m) ELSE m, k, b)

(* res.end of a request that missed *)
End(r) ==
  /\ phase[r] = "read"
  /\ phase' = [phase EXCEPT ![r] = "done"]
  /\ cache' = IF body[r].storable THEN Stored(cache, key[r], body[r]) ELSE cache
  /\ UNCHANGED <<dbHeight, lastSeenHeight, key, body, statVars>>

(* The client goes away and res.end is never called. *)
Abandon(r) ==
  /\ phase[r] \in {"missed", "read"}
  /\ phase' = [phase EXCEPT ![r] = "done"]
  /\ UNCHANGED <<dbHeight, cache, lastSeenHeight, key, body, statVars>>

-----------------------------------------------------------------------------
(* Mutant of ClearBlockCache: counts a flush of an empty cache. *)
ClearAndCount ==
  /\ cache' = EmptyMap
  /\ invalidations' = invalidations + 1
  /\ body' = [r \in Requests |->
                IF phase[r] = "read" THEN [body[r] EXCEPT !.spanned = TRUE] ELSE body[r]]

(* clearBlockCache; the flag of the responses in flight is auxiliary. *)
ClearBlockCache ==
  /\ cache' = EmptyMap
  /\ invalidations' = IF cache # EmptyMap THEN invalidations + 1 ELSE invalidations
  /\ body' = [r \in Requests |->
                IF phase[r] = "read" THEN [body[r] EXCEPT !.spanned = TRUE] ELSE body[r]]

(* Mutant of Notified: leaves the flush to the next poll. *)
NotifiedWithoutFlush(h) ==
  /\ lastSeenHeight' = h
  /\ UNCHANGED <<cache, invalidations, body, dbHeight, phase, key, hits, misses>>

(* The handler of a notification with payload h. *)
Notified(h) ==
  /\ ClearBlockCache
  /\ lastSeenHeight' = h
  /\ UNCHANGED <<dbHeight, phase, key, hits, misses>>

(* Mutant of Polled: remembers the height before it compares. *)
PolledAfterAssignment(h) ==
  /\ lastSeenHeight' = h
  /\ UNCHANGED <<cache, invalidations, body, dbHeight, phase, key, hits, misses>>

(* Mutant of Polled: remembers the height it waits for, not the one it saw. *)
PolledForNext(h) ==
  /\ IF h # lastSeenHeight /\ lastSeenHeight # 0
     THEN ClearBlockCache
     ELSE UNCHANGED <<cache, invalidations, body>>
  /\ lastSeenHeight' = h + 1
  /\ UNCHANGED <<dbHeight, phase, key, hits, misses>>

(* The rest of a backstop poll, once its query has returned h. *)
Polled(h) ==
  /\ IF h # lastSeenHeight /\ lastSeenHeight # 0
     THEN ClearBlockCache
     ELSE UNCHANGED <<cache, invalidations, body>>
  /\ lastSeenHeight' = h
  /\ UNCHANGED <<dbHeight, phase, key, hits, misses>>

(* LISTEN (re)established, or its connection failed: flush all the same. *)
Relisten ==
  /\ ClearBlockCache
  /\ UNCHANGED <<dbHeight, lastSeenHeight, phase, key, hits, misses>>

-----------------------------------------------------------------------------
Serve(r) == Bypass(r) \/ Hit(r) \/ Miss(r) \/ Read(r) \/ End(r) \/ Abandon(r)

(***************************************************************************)
(* Notifications and polls may carry any height that was current at some   *)
(* time: both cross the network, polls overlap, and either may arrive late.*)
(***************************************************************************)
Next ==
  \/ CommitBlock
  \/ \E r \in Requests : Serve(r)
  \/ \E h \in 1 .. dbHeight : Notified(h)
  \/ \E h \in 0 .. dbHeight : Polled(h)
  \/ Relisten

Spec == Init /\ [][Next]_vars

-----------------------------------------------------------------------------
(* Type invariant. *)
TypeOK ==
  /\ dbHeight \in Heights
  /\ cache \in Seq(Entries(Keys, Bodies))
  /\ lastSeenHeight \in Heights
  /\ phase \in [Requests -> Phases]
  /\ key \in [Requests -> Keys]
  /\ body \in [Requests -> Bodies]
  /\ hits \in Nat /\ misses \in Nat /\ invalidations \in Nat

CachedBodies   == {cache[i].val : i \in DOMAIN cache}
InFlightBodies == {body[r] : r \in {s \in Requests : phase[s] = "read"}}

(* b shows every block the process has heard of. *)
Covers(b) == lastSeenHeight =< b.height

(***************************************************************************)
(* block-cache.ts:14-17: a response the cache would serve now shows every  *)
(* block the process knows to be committed.  It holds of every response    *)
(* that was read by a process that had heard of a block and that no flush  *)
(* overtook on its way into the cache; the two exceptions are where the    *)
(* code falls short of its claim.                                          *)
(***************************************************************************)
CacheCoversKnownBlocks ==
  \A b \in CachedBodies : ~ b.spanned /\ ~ b.blind => Covers(b)

(***************************************************************************)
(* The same claim for responses read before the first block was heard of:  *)
(* it is violated, because the first poll adopts its height without a      *)
(* flush.                                                                  *)
(***************************************************************************)
BlindEntriesCovered == \A b \in CachedBodies : ~ b.spanned => Covers(b)

(***************************************************************************)
(* The same claim for responses that a flush overtook: it is violated,     *)
(* because res.end stores without asking whether the cache was flushed     *)
(* since the response was read.                                            *)
(***************************************************************************)
OvertakenEntriesCovered == \A b \in CachedBodies : ~ b.blind => Covers(b)

(***************************************************************************)
(* block-cache.ts:112-116: stores, overwrites and refreshes in any order   *)
(* keep the map within BLOCK_CACHE_MAX_ENTRIES and each key once.          *)
(***************************************************************************)
CacheBounded == Len(cache) =< MaxEntries /\ KeysOnce(cache)

(***************************************************************************)
(* /healthz reports entries, misses and invalidations together: an entry   *)
(* comes from a miss that has answered, and a counted flush disposed of    *)
(* one, so the statistics never show more of them than such misses.        *)
(***************************************************************************)
StatisticsAddUp ==
  Len(cache) + invalidations
    =< misses - Cardinality({r \in Requests : phase[r] \in {"missed", "read"}})

(***************************************************************************)
(* What makes CacheCoversKnownBlocks inductive: responses on their way     *)
(* into the cache are covered as well, a response read by a process that   *)
(* had heard of a block stays so, and no height is ahead of the database.  *)
(***************************************************************************)
Sound(b) == ~ b.spanned /\ ~ b.blind => lastSeenHeight # 0 /\ Covers(b)

CoverageInv ==
  /\ lastSeenHeight =< dbHeight
  /\ \A i \in DOMAIN cache : Sound(cache[i].val)
  /\ \A r \in Requests : phase[r] = "read" => Sound(body[r])

=============================================================================
