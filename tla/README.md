# Verification of ixo-blocksync-api

TLA+ models of the ixo-blocksync API, the TLC configurations that check them
on small instances, and proofs for TLAPS that hold for every instance. Paths
below are those of the repository (`src/cache/block-cache.ts` is
`src/src/cache/block-cache.ts` in `PROJECT.json`, which counts from one
directory further up).

The API is a read-only Node process in front of a PostgreSQL database that
another program, the indexer ixo-blocksync, writes one block at a time. It
serves a PostGraphile schema with hand-written fields, two REST endpoints and
a response cache that is flushed with every block. The process has one
thread; what makes it hard is that everything of interest waits for the
database, so that requests, flushes, notifications, timers and the indexer's
commits interleave at every `await`.

## 1. Inventory

| component | source | state it keeps | operations |
|---|---|---|---|
| block-cache middleware | `src/cache/block-cache.ts:28-126` | the Map of responses, hit/miss/flush counters | look up, refresh, miss, record, store in `res.end`, evict, clear |
| invalidator | `src/cache/block-cache.ts:127-196` | `lastSeenHeight`, the LISTEN session, `attempts`, the reconnect timer | connect, LISTEN, notification, error, reconnect, backstop poll |
| notification trigger | `scripts/block-notify-trigger.sql` | none (PostgreSQL) | `pg_notify` with the height of a committed block |
| claims loader, REST endpoint | `src/loaders/claims.ts`, `src/rest/claims.ts` | none; the client carries the cursor | probe for unloaded types, page, next-page flag |
| entity loader | `src/loaders/entity.ts`, `src/plugins/entity.ts` | the statements kept by their columns | walk chains of classes, fetch documents, merge; read columns of the own row |
| token loader | `src/loaders/token.ts`, `src/plugins/token.ts` | DataLoaders that live for one batch | grouped queries, matching of rows to requests, folding |
| request log | `src/request-log.ts` | the parse cache (an LRU Map), per-request flags | record the first bytes, emit on finish and close |
| request-errors plugin | `src/plugins/request-errors.ts` | `res.locals.gqlErrors` | summarise an execution's errors |
| IPFS proxy | `src/rest/ipfs.ts`, `src/util/rate-limiter.ts` | the limiter's bucket | take a token, fetch, sleep, retry |
| tokenomics loader | `src/loaders/tokenomics.ts` | the shared client promise | create once, reset on failure, page through the supply |
| database pools | `src/db.ts`, `src/core-db.ts` | clients and their listeners | check out, error, release |
| v4 datetime format | `src/plugins/v4-datetime-format.ts` | none | trim PostgreSQL's fractions |
| schema plugins, preset | `src/plugins/*.ts`, `src/preset.ts` | none after boot | - |
| app, boot, environment, logger | `src/app.ts`, `src/index.ts`, `src/env.ts`, `src/logger.ts` | constants | - |

How they interact:

* A request passes `requestLogMiddleware`, the rate limiter, `express.json`,
  the block cache and then PostGraphile (`app.ts:35-64`). Cache and log both
  wrap `res.write` and `res.end`; the log reads what the cache put in
  `X-Cache` and what the errors plugin put on `res.locals`.
* The invalidator shares `cache` and `lastSeenHeight` with the middleware and
  with nothing else. It hears of blocks by a LISTEN session, which needs the
  trigger and a connection that does not go through pgbouncer, and by a poll.
* PostGraphile calls the loaders once per batch of fields; a loader runs one
  or more queries. Queries of one loader are not in a transaction: each sees
  a snapshot of its own, and the indexer commits in between.

* Upstream of the process are the IPFS gateway, the chain's RPC and two
  databases. Each is reached through state that requests share: the limiter's
  bucket, the client promise, the two pools.

What is hard, and which property speaks of it:

| behaviour | properties |
|---|---|
| responses in flight while the cache is flushed; polls, notifications and LISTEN answers in any order | `CacheCoversKnownBlocks`, `ListeningMeansFresh`, `BlindEntriesCovered`, `OvertakenEntriesCovered` |
| a session that breaks, a LISTEN that fails, a peer that vanishes, both handlers scheduling a reconnect | `ListenerNeverGivenUp`, `PollsBoundStaleness`, `ImplementsBlockCache` |
| concurrent misses of one key at the cache's limit | `CacheBounded`, `LruOrderUnlessOverwritten`, `StatisticsAddUp` |
| a response in chunks, recorded by two wrappers | `KeepsResultsAsSent`, `LogMeasuresWhatIsSent` |
| a client that pages while claims, evaluations and types arrive | `NothingSkipped`, `PagesInOrder`, `HasNextPageIsTrue`, `HasNextPageUnlessHistory`, `PagingEnds` |
| two queries with a commit between them; cycles and gaps of classes; statements kept for other operations | `InheritsFromTwoSnapshots`, `GetsWhatItReads` |
| requests collapsed into grouped queries, keys with dashes, entities that share an account, retirements of another snapshot | `TotalsAreTheFold`, `AmountsAddUp`, `RetirementsCountedOnce`, `TokensOfTwoSnapshots`, `AllRetiredCoversOwn` |
| finish, close and an aborted client; partial failures | `OneLineEach`, `ErrorsReported`, `ParseCacheIsLru`, `SummaryIsFaithful` |
| retries on top of retries, under a limit | `ArrivalsWithinRetries`, `NeverTripsTheLimit`, `DownloadsEnd` |
| callers that join an attempt which is failing | `OneAttemptAtATime`, `ImplementsSharedClient` |
| many calls to a chain that moves on | `SupplyListedOnce`, `EscrowsSummed` |
| connections cut at any moment, a pool used up | `NeverCrashes`, `MainIsServed` |

The hazards are listed one by one, at their lines, in `PROJECT.json`.

## 2. Modules

```
InsertionMap            the JavaScript Map (external)
 |- BlockCache          middleware, and what the invalidator does to the cache
 |   |- BlockCacheRecency   the same with a record of the use of keys
 |   |   `- BlockCacheProofs
 |   `- Invalidator         sessions, trigger, polls; implements BlockCache
 |       `- InvalidatorProofs
 `- RequestLog          request handling, emit, parse cache     -+
ResponseRecorder        one response as cache and log record it -+- RequestLogProofs
ErrorSummary            the errors of one execution             -+
Listing                 a finite set, listed in an order
 |- ClaimsPaging        the REST endpoint and its client
 |   `- ClaimsPagingProofs
 |- EntityReads         loadIidPassthrough    -+- EntityProofs
 |  DatetimeTrim        the text of timestamps -+
 `- ChainSupply         supplyTotal, supplyIBC against a moving chain -+
IpfsProxy               downloads, limiter, gateway                   -+
SharedClient            abstract: what callers of qc() may rely on     |
 `- TokenomicsClient    qc(); implements SharedClient                 -+
PgPool                  the two pools and their listeners             -+- UpstreamsProofs
EntityResolver          loadResolvedEntities
LoaderKeys              the string keys of the DataLoaders
 `- TokenTables         the token tables, the indexer, reference definitions
     |- TokenTotals     the four getTokensTotal* fields, one batch
     |- TokenAccounts   getAccountTokens, one batch
     `- TokenBatches    a batch for any of the five
         `- TokenProofs
DataLemmas              lemmas about sums, listings, Maps and sequences,
                        which all proofs but those of the invalidator cite
```

`MC_*` modules add what TLC needs: symmetry sets, values of constants that
are too long for a `.cfg`, and in `MC_EntityResolver`, `MC_RequestLog` and
`MC_Upstreams` one run for several small modules. The modules put together
there share no state, so a variable (`part`, `active`) chosen initially says
which of them moves; the others rest in one of their initial states or, where
fairness is assumed of them, in a state where no fair action is enabled. No
interleaving is lost: a property of either reads its own variables only.

**InsertionMap.** A Map is a sequence of key/value records in order of
insertion. `Put` on a key that is present keeps its place, which is what
makes the recency question below interesting.

**BlockCache.** A request is `new`, `missed`, `read` or `done`; each of its
steps is one run of the thread between two awaits. `Hit` refreshes and
replays (`:63-74`), `Miss` counts (`:75-82`), `Read` is PostGraphile's query
in the database of that moment, `End` is `res.end` with its gate
(`:101-125`), `Abandon` a client that went away. A body is the height its
read saw plus whether the gate lets it in (size, status, a body that does not
start with `{"data"` and so on are one nondeterministic choice). Heights of
notifications and polls are arbitrary past heights: `BlockCache` is the
abstract specification of everything an invalidator may do to the cache. Two
auxiliary flags of a body, `spanned` and `blind`, record the circumstances of
its read; no guard reads them. `BlockCacheRecency` adds `usedBefore`, the
pairs of cached keys of which the first was last used before the second, and
the keys that were stored while present; `cache` and the requests do not
depend on them.

**Invalidator.** The same cache driven by the actual machinery: one variable
per session (`connecting`, `subscribing`, `registered`, `listening`,
`rejected`), the notifications in flight, the timer with its two delays,
`attempts` counted up to the 3 where the delay changes, and the polls under
way, each with the height it read. `registered` is the window between the
server's execution of LISTEN and the client's resumption, in which a
notification may already be handled. `Sever` is a peer that vanishes without
a FIN: the client stays in its state and hears nothing. `TriggerInstalled`
says whether the SQL script was applied.

**ResponseRecorder.** One response of the kind `BlockCache` and `RequestLog`
take as one step: `Write` and `End` with chunks of bytes or text, the cache's
`record` (`:84-92`) around the log's (`request-log.ts:74-92`), the cap on
recorded bytes, and the gate of `res.end` (`:101-120`). A character may take
two bytes, which may come in two chunks.

**ClaimsPaging.** `Request`, `Probe`, `Page` are the three steps of one REST
call and its client, in the order of `getCollectionClaims`; the query is
`Rows`: Claim LEFT JOIN Evaluation, filtered, compared with the cursor,
ordered, limited to `take + 1`, where a `take` of -1 asks for the default
limit and one that is no number makes every comparison false. ORDER BY is
`Listing!InOrder`: the element of a set that has i others before it is the
one at place i + 1. `SubmitClaims`,
`Evaluate` and `LoadType` are the indexer and its cellnode cron.

**EntityResolver.** `WalkChains` and `FetchDocuments` are the two queries of
`loadResolvedEntities` with the loop that follows the second one; the loop
is `Assembled`, folding `TakeOver` over the documents along the chain, one
after the other. What is left of the linked resources without the settings is
a `Listing!Selection`. The reference definition (`Visible`, `IsInherited`) has
no chain, no batch and no loop: of every entry id, the entry of the nearest
ancestor that has one.

**EntityReads.** `ReadColumns` looks up or adds the statement for the columns
an operation reads and sends it; `RowsArrive` answers from the table of that
moment. What calls have in common is the map of statements, so they are
modelled one after the other, with the indexer's `UpdateIid` in between.

**DatetimeTrim.** `TrimFraction` is the replacement by the regular expression,
as the set of its matches and the one of them a backtracking matcher prefers;
`V5Text` and `V4Text` are what PostgreSQL's `to_char` and its own output make
of a timestamp.

**LoaderKeys, TokenTables, TokenTotals, TokenAccounts, TokenBatches.** A
string is a sequence of characters, so that dashes in names are real. A batch
of requests is turned into keys, grouped, queried group by group (in any
order, each in its own snapshot), and the rows are matched back. For the
fields over entities, each request queries its entities first
(`EntitiesReturn`) and loads the totals of their admin accounts in the tick
in which they arrive; keys loaded by an earlier dispatch of the batch are not
queried again, and an entity without an account is left out. `HandOver`
changes owners meanwhile. The reference definitions `ShownTokens` and
`FoldedTotals` say what one request should get from one snapshot.

**RequestLog.** A request is handled (`ParseBody`, `TurnAway`,
`RejectDocument`, `ServeCached`, `Execute`, `Respond`) while its connection
finishes and closes, or closes alone, at any point; handling goes on after
the client left. `Deliver` is the moment from which Node's
`res.writableFinished` is true; `finish` is emitted after it, and `close` may
come before, between the two, or after both. `Emit` is called by both events
and reads that flag (`request-log.ts:123`).

Whether the first 64 bytes of a response mention `"errors"` depends on its
data: `Misleading` are the documents whose results may do so without errors,
by a key at any depth or by a string value, and `ServeCached` and `Respond`
choose. `Streamed` are the documents with `@stream` or `@defer`, whose result
may be an AsyncGenerator: `Execute` then leaves `gqlErrors` unset although
there are errors (`request-errors.ts:74-76`).

**ErrorSummary.** `Record` is the plugin's hook on a result: the first of four
places that has a code (an empty one at the first hides the second, as `??` does
not pass over it), the first `MaxCodes` distinct codes, the count, path
and shortened message of the first error. Streamed results have no summary.

**IpfsProxy.** A download is `waiting` for a token, `asking` the gateway,
`repeating` under axios-retry, `sleeping` after a 429, or `answered`. The
gateway counts what arrives and refuses beyond the limit. Its minutes begin
with those of the limiter, which is the best a proxy could hope for: what
goes wrong here goes wrong anyway. Whether axios-retry repeats a 429 depends
on its version, so both are possible.

**SharedClient, TokenomicsClient.** `SharedClient` is a cell that is empty,
being filled, or full, with callers that wait, are served or are turned down.
`TokenomicsClient` has the promises of `qc()` and their jobs: an attempt that
settles, its catch handler that resets `clientPromise` and rethrows, and
callers that resume one by one later.

**ChainSupply.** `TotalPage` follows the keys of the bank's pages;
`ListChannels` reads one page of channels and `BalanceReturns` the escrow of
one, in any order. `ChangeSupply`, `MoveEscrow` and `OpenChannel` are blocks
of the chain between two calls.

**PgPool.** A client is a place of a pool, `connecting`, `idle`, `held` or
empty; `listeners` says who listens to its errors: the pool while it is idle
or connecting, and the process from `connect` on (`db.ts:38-42`). `Cut` loses
a connection silently, `ClientError` is the moment the process learns of it.
pg-pool is external, and modelled from what `db.ts` and `core-db.ts` ask of it.

Definitions whose comment begins "Mutant of X" stand before the definition X
they are a variant of. They are no part of any specification: each is a
plausible slip in the code of X, and TLC finds the property it is listed with
in `PROJECT.json` violated when X is replaced by it.

## 3. Runs

| run | module | checks | bounds | states |
|---|---|---|---|---|
| `block_cache` | MC_BlockCacheRecency | `TypeOK`, `CacheCoversKnownBlocks`, `CoverageInv`, `CacheBounded`, `StatisticsAddUp`, `LruOrderUnlessOverwritten` | 3 keys, 3 requests, 2 entries, 2 blocks | 562 k |
| `invalidator` | MC_Invalidator | `InvalidatorTypeOK`, `ListeningMeansFresh`, `ListeningInv`, `ListenerNeverGivenUp`, `ImplementsBlockCache` | 1 key, 1 request, 2 sessions, 1 poll, 2 blocks | 407 k |
| `invalidator_polls` | MC_Invalidator | `PollsBoundStaleness` (liveness) | no trigger, 1 session, 2 polls | 94 k |
| `claims_paging` | MC_ClaimsPaging | `TypeOK`, `PagesInOrder`, `NothingSkipped`, `HasNextPageUnlessHistory`, `PagingEnds` (liveness) | 4 claims in 2 blocks, histories of 2 evaluations, take 2, 0, -1 or no number, both orders, every filter | 206 k |
| `entity_resolver` | MC_EntityResolver | `InheritsFromTwoSnapshots`, `GetsWhatItReads`, `ExactV4Shape` | every table of 3 nodes, depth cap 2, 1 commit between the queries (before or after them it shows nothing new); 2 rows of 3 columns, 2 reads, 1 update; fractions of 6 places over 3 digits | 835 k |
| `token_batches` | MC_TokenBatches | `TotalsAreTheFold`, `AmountsAddUp`, `RetirementsCountedOnce`, `TokensOfTwoSnapshots`, `AllRetiredCoversOwn` | 2 requests, 2 addresses, 3 tokens, 4 entities, 2 commits | 1.1 M |
| `request_log` | MC_RequestLog | `OneLineEach`, `ErrorsReported`, `ParseCacheIsLru`, `KeepsResultsAsSent`, `LogMeasuresWhatIsSent`, `SummaryIsFaithful` | 3 requests, 3 documents (one plain, one that may be delivered in parts, one that may mention "errors"), parse cache of 2; 3 writes and an end, cap of 4 bytes; 4 errors, 3 codes | 1.4 M |
| `upstreams` | MC_Upstreams | `ArrivalsWithinRetries`, `OneAttemptAtATime`, `SupplyListedOnce`, `EscrowsSummed`, `NeverCrashes`, `ImplementsSharedClient`, `DownloadsEnd` and `MainIsServed` (liveness) | 2 downloads, limit 2, 2 retries; 3 callers, 3 attempts; 3 denominations, 3 channels, pages of 2, 2 blocks; 2 + 1 clients, 2 + 2 users | 39 k |
| `flush_overtakes_store` | MC_Invalidator | `OvertakenEntriesCovered`, violated | 1 key, 1 request, 1 session | - |
| `first_poll_adopts` | MC_Invalidator | `BlindEntriesCovered`, violated | no trigger, 1 poll | - |
| `claims_next_page` | MC_ClaimsPaging | `HasNextPageIsTrue`, violated | 2 evaluations of a claim | - |
| `ipfs_limit` | IpfsProxy | `NeverTripsTheLimit`, violated | 2 downloads, limit 2, 1 retry | - |

Deadlock is checked in every run: a system that may stop says so with an
explicit step (`Finished`, `Settled`, `SupplyEnded`, `ReadsDone` and the
like). In `BlockCache` and `Invalidator` it never stops, because a flush is
always possible.

### What the runs show

*Cache.* A response the cache serves shows every block the process has heard
of, with two exceptions that the two violated runs exhibit:

1. `flush_overtakes_store`: request reads, block commits, notification
   flushes an empty cache, `res.end` stores the older response. It is served
   until the next block. `block-cache.ts:14-15` says a cached response "can
   never be staler than the database itself". A flush counter compared in
   `res.end` with its value at the miss would close the gap.
2. `first_poll_adopts`: with no notification so far, the first poll sets
   `lastSeenHeight` without a flush (`:189`), although responses may have
   been cached before a block it already covers. They stay beyond the
   backstop interval until another block is committed, contrary to
   `scripts/block-notify-trigger.sql:9-11`. A LISTEN session would have
   flushed; the case is that of a process behind pgbouncer alone.

*Invalidator.* Outside those cases, a listening session with nothing on its
way means that the whole cache shows the last block, whatever was committed
around reconnects; there is always a session or a timer; polls alone suffice
in the end; and every step is a step of `BlockCache` or leaves its variables
alone, so what holds of `BlockCache` holds here.

*Claims.* Nothing is skipped and pages are in order, with and without a
history of evaluations; an odd page size ends in a failed request or a page of
the default limit. Without a history the next-page flag is exact. With one,
`hasNextPage` counts rows of the join: `claims_next_page` shows a page that
announces a successor which is empty (or, in the same way, a page that repeats
one claim in several rows). A client that is told to try again comes to its
end once the types are loaded.

*Entities.* The answers equal the reference definition on every instance, with
the classes of the first query's snapshot and the documents of the second's;
an operation gets the columns it reads, whatever statements were kept before;
every timestamp gets the text PostgreSQL writes.

*Tokens.* Whatever else is in the batch, a request gets the fold over its own
tokens, of its address or of each of its entities, in the snapshot that the
query for that account saw. The amounts of a collection are the sums over its
entities, an account counted once for every entity that has it. With
`allEntityRetired` the retirements of a token that one of the accounts minted
are counted once, if no two entities share an account and no token was minted
at two of the accounts; that condition is in `RetirementsCountedOnce`, and the
code does not test for it.

*Log.* Every request has one log line. It says that the client went away
exactly if the response was not handed over in full, also when the handling
ends the response before or after the client left. It reports the errors of
every response that was handed over, with two exceptions that
`ErrorsReported` names: results in parts, whose errors may be missed, and data
that mentions `"errors"` early, which is taken for an error. A response
is kept byte for byte as the client got it, or not at all, and the summary of
its errors names the first distinct codes.

*Gateway.* The gateway never sees more requests a minute than axios-retry can
make of the tokens taken (`ArrivalsWithinRetries`), but it may see more than
there were tokens: `ipfs_limit` shows a download that fails on the network and
is repeated underneath without one, contrary to `util/rate-limiter.ts:3-4`.
Downloads end nevertheless.

*Chain.* One attempt to make the client is under way at a time, a failed one
is never shared, and `qc()` is a step-by-step implementation of
`SharedClient`. A total supply read in pages lists no denomination twice and
misses none that was there all the while. The sum of the escrows is off by no
more than what moved while it was read, provided there are no more channels
than one page has.

*Pools.* No lost connection finds nobody listening, and users of the main pool
get their turn even if those of the core pool hold theirs for ever. (A user may
also leave the queue by `connectionTimeoutMillis` or a connection that fails,
and `MainIsServed` counts that; but `GiveUp` is under no fairness, so that it
has to hold for users who never give up.)

### Disagreements met without a run of their own

* The second store of two concurrent misses leaves its key where the first
  put it (`Map.set` on a present key), so "insertion order doubles as LRU
  order" (`block-cache.ts:28`) has an exception; `LruOrderUnlessOverwritten`
  is the claim without it. The same store may evict another key although it
  needs no room (`:112-115`).
* A LISTEN that the server rejects leaves its client open
  (`block-cache.ts:175-178`): a later error of that client schedules another
  reconnect, and two sessions may listen at a time. Harmless (a flush
  twice), and why `Invalidator` has several sessions; `ListenerNeverGivenUp`
  is about a lost attempt, not about this.
* `orderBy=DESC` sorts downwards but compares upwards (`claims.ts:90,97`).
  `AfterCursor` and `RowBefore` model it; the runs use the lower case that
  the code's type names.
* A chain of classes and the documents along it come from two snapshots
  (`entity.ts:137-140`): an answer may combine a class link from before a
  commit with documents from after it. `InheritsFromTwoSnapshots` says this
  is all that may happen.
* `request-log.ts:139` looks for `"errors"` anywhere in the first 64 bytes of
  a response. Data that has it there, as a key at any depth (an alias, a key of
  a JSON value) or as a whole string value, is logged as failed without having
  failed, although the head check is meant for "a 400 whose body starts
  {"errors":" (`:82-84`). `ErrorsReported` names the exception.
* The errors of a result that comes in parts are not recorded
  (`request-errors.ts:74-76` says so of `@stream` and `@defer`), which
  `README.md:115-117` of the repository does not mention.
* Sums over the entities of a collection add up what `allEntityRetired`
  shows of each (`token.ts:406-417`), which is every retirement of a token,
  not those of that entity. A token minted at two accounts of a collection,
  or an account shared by two entities, is counted twice.
* `getIBCEscrows` reads one page of channels (`tokenomics.ts:66`), while
  `supplyTotal` follows `nextKey`: from the 1001st channel on, escrows are
  missing. `EscrowsSummed` names the condition.
* The indexer's crons write schema types and device external ids between
  blocks, which flush nothing. `block-cache.ts:10-15` argues from data that
  changes with blocks only; a response that shows such a field missing is
  served until the next block.

### Bounds

* Two blocks suffice for every order of "read before / after what was heard";
  a third only repeats the comparison of two heights. Requests are used once,
  so three of them over three keys with two entries give: a hit, a miss at
  the limit, two concurrent misses of one key, an eviction in between.
  Symmetry makes keys and requests interchangeable in the safety runs only.
* Two sessions: a rejected one that stays open, and its successor. Two polls:
  one that overtakes the other. `attempts` is counted to 3, beyond which the
  code does not tell values apart.
* Claims: two dates with two ids give ties of date inside a page and across
  its end. One schema type suffices, since a filter by type sees a claim as
  matching, not matching or not loaded, and a claim of a second type never
  becomes visible to the client (its being left out is the first `owed`
  condition); status 0 and one other status cover the three cases of the
  filter. `take` is 2, so that four claims make two pages and rows of a history
  fall on a page's end, or one of the odd sizes; who asks for an odd size asks
  for ascending claims of any status (`OddSizesArePlain`), since filter and
  order act before the limit does.
* Entities: three nodes give cycles of length 1, 2 and 3, a chain longer than
  the depth cap of 2 (20 in the code), missing classes and shared ancestors.
  The documents were chosen so that entry ids clash within a document, between
  documents, and between a Settings and a plain resource. `SomeReads` are
  everything, a derived field alone, and a field without documents of the
  other kind. Two reads suffice for one that finds the other's statement.
* Tokens: the names `n` and `n-1` make each the other's confusion when keys
  are taken apart at dashes; two tokens of one name and collection make sums.
  The tables begin empty or with tokens traded and retired, and two commits
  then come between queries. Batches are two requests that share address or
  filter; for entities, two requests of which one finds accounts of the other
  loaded. Two entities share an account, one has none.
* Log: three requests over a cache of two documents evict. Chunks include
  empty text, half a character and an end with a callback; results have one
  to five bytes around the cap of four. Four errors exceed three codes.
* Gateway: two downloads and a limit of two let every token be taken and one
  repetition more arrive; two retries are a first and a last one. `arrived`
  needs no bound of its own, as `ArrivalsWithinRetries` is one.
* Chain's client: three attempts are a failure, a failure after a retry, and
  one that is kept; the third caller comes while the others are served.
* Chain: three denominations make two pages, three channels one more than a
  page; two blocks move a token back and forth, or remove the denomination the
  next page begins with.
* Pools: two main users with two clients both wait and are both served; a pool
  of one core client with two users is used up.

### Fairness

* `PollFairness`: `setInterval` fires as long as the process lives (weak
  fairness of `PollRead`), and among polls that are started again and again
  not all fail (strong fairness of `PollAnswered`; `query_timeout` makes each
  of them return). Nothing is assumed of the LISTEN session, the trigger, the
  indexer or the requests.
* `ClaimsPaging!Fairness`: the server answers and the client goes on (weak
  fairness of `Client`), and the indexer's cron fetches the type of every
  claim eventually. Without the latter the endpoint tells its client to try
  again for ever, by design.
* `ProxyFairness`: timers fire, minutes pass and the gateway answers (weak
  fairness); a gateway that again and again accepts a download has a document
  or a definite "no" for it at some time (strong fairness of `Found` or
  `NotFound`). Without that, a gateway that is broken whenever it is not
  refusing keeps a download in the handler for ever: there is no limit on the
  times it starts over.
* `PoolFairness`: connecting ends (`connectionTimeoutMillis`), main users
  release (`query_timeout`), and pg-pool serves its queue in order (strong
  fairness of getting a client). Nothing is assumed of the core pool's users:
  that is the point of the second pool.

## 4. Proofs

TLAPS proves every safety property and action property that a passing run
checks, for any sets of keys, requests, sessions, claims, tokens, entities,
downloads, callers, channels, users and clients, and any bounds:

| theorem | statement |
|---|---|
| `TypeCorrect`, `CacheBoundedAlways`, `CoverageAlways`, `StatisticsAlways` | `Spec => []TypeOK`, `[]CacheBounded`, `[]CacheCoversKnownBlocks`, `[]StatisticsAddUp` of BlockCache |
| `CoverageInvAlways` | `Spec => [](MapInv /\ CoverageInv)`, the inductive invariant behind coverage |
| `LruOrderAlways` | `RecencySpec => []LruOrderUnlessOverwritten` |
| `InvalidatorImplementsBlockCache`, `InvalidatorCoverage` | `InvalidatorSpec => ImplementsBlockCache`, and what follows from it |
| `InvalidatorTypeCorrect`, `NeverGivenUpAlways`, `ListeningMeansFreshAlways` | `InvalidatorSpec => []InvalidatorTypeOK`, `[]ListenerNeverGivenUp`, `[]ListeningMeansFresh` |
| `ListeningInvAlways` | `InvalidatorSpec => []ListeningInv`, the inductive invariant behind freshness |
| `PagingTypeCorrect`, `NothingSkippedAlways`, `PagesInOrderAlways`, `HasNextPageAlways` | `Spec => []TypeOK`, `[]NothingSkipped`, `[]PagesInOrder`, and the action property `HasNextPageUnlessHistory`, of ClaimsPaging |
| `InheritsFromTwoSnapshotsAlways` | `Spec => []InheritsFromTwoSnapshots` of EntityResolver |
| `GetsWhatItReadsAlways`, `ExactV4ShapeAlways` | `ReadsSpec => []GetsWhatItReads`, `TrimSpec => []ExactV4Shape` |
| `BalancesKeyRoundTrip`, `TotalsKeyRoundTrip` | an address without a dash and any name other than the literal `NULL`, and the retired mode, survive the key of a DataLoader |
| `TokensOfTwoSnapshotsAlways`, `AllRetiredCoversOwnAlways`, `TotalsAreTheFoldAlways`, `AmountsAddUpAlways`, `RetirementsCountedOnceAlways` | the five invariants of TokenBatches |
| `OneLineEachAlways`, `ErrorsReportedAlways`, `ParseCacheIsLruAlways` | `Spec => []OneLineEach`, `[]ErrorsReported`, `[]ParseCacheIsLru` of RequestLog |
| `KeepsResultsAsSentAlways`, `LogMeasuresWhatIsSentAlways` | the two invariants of ResponseRecorder |
| `SummaryIsFaithfulAlways` | `SummarySpec => []SummaryIsFaithful` |
| `ArrivalsWithinRetriesAlways` | `ProxySpec => []ArrivalsWithinRetries` |
| `ClientTypeCorrect`, `OneAttemptAlways`, `ClientImplementsSharedClient` | `ClientSpec => []ClientTypeOK`, `[]OneAttemptAtATime`, `ImplementsSharedClient` |
| `SupplyListedOnceAlways`, `EscrowsSummedAlways` | the two invariants of ChainSupply |
| `PoolTypeCorrect`, `NeverCrashesAlways` | `PoolSpec => []PoolTypeOK`, `[]NeverCrashes` |

Assumptions are the named ASSUMEs of the modules, which TLC evaluates in the
runs. They say:

* bounds are natural numbers; those of the cache, the parse cache, the
  limiter, a page of the chain, a claims page by default, the codes of a
  summary and the places of a fraction are positive;
* what is counted or listed is finite (downloads, dates and ids of claims,
  addresses, tokens, entities, denominations, channels), and dates and ids are
  numbers, since the database compares them;
* addresses have no dash; names, addresses and keys are strings over a set of
  characters that has the dash and those of the words `NULL` and `0`, `1`;
  ids of entities are unique (a primary key), and what an address holds are
  natural numbers;
* the class of a row is a node or none, and its documents are sequences;
* the columns of an IID are declared once each, and `Sorted` has the same ones;
* texts around a fraction have no dot, and a zone begins with no digit;
* written bodies and the errors of a result are sequences, no beginning of a
  chunk is the value that stands for "nothing yet", and no bytes at all are
  not a result;
* the pools share neither clients nor users.

The properties of pages are guarded by `OrderInSignature`: an order is `asc`
or `desc`, as the signature of the query says. The model has `DESC` too,
which sorts one way and compares the other, but nothing is claimed of it.

**Data.** What the models compute with (sums over sets, sets listed in an
order, Maps, flattened chunks, folds over errors) is defined by recursion. The
library's induction theorems take an operator, which no prover here can
instantiate; `NatInductionOnSet` and `FiniteSetInductionOnSet` take a set
instead (the numbers, or subsets, of which a fact holds) and are proved from
the well-foundedness of `<` on the naturals. With them, each recursive
definition is reduced once to a function that satisfies its equation: that
such a function exists is one induction (`IsSumExists`, `FlattensExists`,
`CodesExist`, `AscendsExists`, `TakenExists`), that its value does not depend on the chosen one or on the set
it is defined over is another. After that `DataLemmas` has algebra: a sum over
a set is what one element contributes and the sum over the others, sums over
disjoint sets, over parts, over an image under an injection (`SumReindexed`),
monotone in the summands, changed at one place. `InOrderProperties` says that
`InOrder` lists a strictly and totally ordered finite set: each element once,
in order. `PutProperties`, `DeleteProperties` and `DropOldestProperties` are
about the Map, `FlattenProperties` about one more chunk.

*Bounded cache.* `CacheBounded` is inductive given the types once one knows
what the Map operators preserve. `Stored` needs the case of a full map,
`Refreshed` that deleting makes the room that putting takes.

*Coverage.* `CacheCoversKnownBlocks` speaks of cached bodies only and is not
inductive: `End` caches a body that was in flight. `CoverageInv` adds that
bodies in flight are sound, that a body that is neither blind nor overtaken
was read by a process that had heard of a block (else a first poll could move
`lastSeenHeight` past it with no flush), and that no height heard of is ahead
of the database (else a body read now could already be behind). A notification
or a poll that raises the height flushes the cache and marks what is in
flight; a poll that finds the same height changes neither side. TLC checks
`CoverageInv` in `block_cache`.

*Recency.* `StandsBefore` is the order of the Map. Deleting, evicting and
appending never bring a key in front of another, so `RecencyInv` needs one
direction only: what stands before was used before, and `usedBefore` is
asymmetric. The property's equivalence follows because any two cached keys
stand one before the other.

*Refinement of BlockCache.* The mapping is the identity on the variables of
`BlockCache`. A delivery or an answered poll maps to `Notified(h)` or
`Polled(h)` with `h <= dbHeight`, which needs an invariant on what travels
(`HeardHeights`: every height in an inbox is one the database has had and is
above 0, so is every poll's read, 0 included). All other steps map to
`CommitBlock`, `Serve`, `Relisten` or a stutter. `InvalidatorCoverage` then
follows from `CoverageAlways` without another look at the invalidator.

*Listening and freshness.* `ListenerNeverGivenUp` is proved from the types of
the session and timer variables: every step that leaves a session without hope
schedules, and `Reconnect`, which stops the timer, opens a session.
`ListeningMeansFresh` speaks of an empty inbox and of cached bodies.
`ListeningInv` generalises both: no response, cached or in flight, that a flush
has not overtaken misses more blocks than are in the inbox of a session that
hears. A commit adds one to both sides; a delivery flushes everything, which
marks every response in flight; what is read later misses nothing. That LISTEN
flushes when it is answered starts the induction for a session, and is what
`ListenAnsweredWithoutFlush` breaks.

*Statistics.* An entry or a counted flush is paid for by a miss that has
ended. The invariant adds that the requests under way are finitely many
(they start as none and grow one at a time), so that cardinalities can be
computed with; no assumption on `Requests` is needed.

*Pages.* A page is described once, by `PageHandsOver`: it hands over the first
k of the rows that are left after the cursor. `PagingInv` says that the pages
so far are in order (`Ordered`), that the cursor is their last claim, and that
whatever is owed still matches and has been received or is ahead of the cursor
(`OwedAhead`); between probe and page, what is owed has its type loaded
(`OwedLoaded`), because the probe found nothing without a type and types are
never taken back. New claims are later than those there are, but an evaluation
makes rows appear anywhere: a claim gains rows next to those it has, which is
why `Ordered` allows `j - i < Len(history)`. `HasNextPageAlways` needs more
than the invariant: without a history every claim is one row, so that the row
behind the page is a claim after the new cursor.

*Inheritance.* The invariant, `ResolverInv`, is short: the chains are those
of the first snapshot, and the answer is what `Assembled` makes of them and of
the documents of the second. The work is in `AssembledIsInherited`, which
relates the loop to the reference for any table and any documents.
`ChainProperties`: a chain of k nodes has the ancestors of depth 0 to k - 1,
and there are none above, be it for a missing class or for the cap.
`PlacesOfChain`: put one after the other, the documents of the chain have at
their positions exactly the entries of the ancestors, and a position is before
another just when its entry is nearer. `FoldMerges`, by induction on the
length: the fold takes over the positions whose id has not been before. So
`MergedIsVisible`: the loop lists the visible entries, from the nearest on. A
list of this kind has each entry at the place that the count of those nearer
gives it (`ListedIsVisible`), stays one when its entries are mapped
(`MappedIsVisible`) or settings are left out (`PlainIsVisible`), and the first
setting of a description in it is the nearest (`SettingsAreNearest`).

*Entity reads.* `ReadsInv`: a statement is kept under the columns it selects,
and the one on its way selects those of its operation. `ColumnsForProperties`
gives that the columns an operation reads are among them, sorted or declared.

*Timestamps.* `TrimOfText` finds the match the regular expression prefers in a
text of a whole, a fraction and a zone: of the positions where zeros run up to
the end of the digits the lazy group takes the first, and the dot goes when no
digit is left. The end of a fraction's digits is found by induction.

*Keys.* The round trips rest on `FirstDashAfterAddress` and
`LastDashBeforeFlag`: as the address has no dash, the first dash of a key is
the separator, and as the flag has none, so is the last, wherever the name
has others.

*Token batches.* `AccountsInv` and `TotalsInv` say what has been gathered while
queries of a batch are out: the rows of a group are pending or those of the
snapshot its query saw, with the addresses that the keys of the batch give
(here the round trips come in); whatever a request needs has been dispatched;
what is answered is `Got` or `AnswerOf`, with nothing pending left. For
retirements it adds that they only grow from snapshot to snapshot. The rest is
about sums: `FoldedTotals` folds rows that the database has already summed per
class and collection, and the reference sums over tokens, so each is brought
into the other's form by `SumByParts` and `SumReindexed`. In
`RetirementsCountedOnce` a token has at most one minter among the accounts,
which makes the map from tokens to the rows that show their retirements an
injection.

*Log lines.* `LogInv` adds to the types what makes a line true when it is
written and keeps it true afterwards. `HandlingInv`: before a request was
executed it shows no error, and after that it failed exactly if the plugin or
the first bytes say so, results in parts and misleading data aside.
`DeliveryInv`: only a response that was ended is handed over, and finish comes
after that. `CountInv`: a
request has been logged exactly if its connection is no longer open, and has
no line before. `LinesInv`: every line agrees with its request, which does not
change any more what the line speaks of: nothing is handed over once there is a
line, because `Deliver` needs the connection open. `Finish` and `Close` share one lemma
about `Emit`; that one line is exactly one is a cardinality of the index set.

*Parse cache.* `LruInv` aligns the cache with the record of what was looked
up: place i of the cache is place `Recent + i` of the record. An entry that
is taken out and appended moves the same way in both (`MadeLastProperties`,
`LookedProperties`), and a lookup that misses a full cache moves `Recent` by
one.

*Recorded bytes.* `RecorderInv`: as long as the cache has not given up, its
chunks flattened are what was sent and its size is their length; once it has,
its size is above the cap and below what was sent, so that the response does
not fit. The log's count is the length of what was sent, and its first bytes
are a beginning of it, which appending does not change.

*Summaries.* `CodesListed` is the invariant of the loop: after n errors the
codes are as many of the distinct ones as there is room for, all of them while
there is room, and the k-th is that of the error with which the distinct codes
became k. A round leaves the codes alone or appends the code that makes them
one more.

*Arrivals.* `ArrivalsWithinRetries` is not inductive, since a repetition adds
an arrival and no token. `ArrivalsInv` counts with the arrivals the requests
that axios-retry may yet make of the calls under way (`LeftOf`): a token brings
a whole call's worth, a repetition uses up one that was counted, every other
step leaves no more of them, and when a minute begins they are no more than all
retries of all downloads. They are counted as the set `Left` of pairs of a
download and a number.

*Shared client.* The mapping takes `clientPromise` and the state of its attempt
to the cell (`CellOf`), and each caller with the state of the attempt it awaits
to a holder (`HolderOf`). A caller that awaits a failed attempt maps to one
turned down before it resumes, since `Broke` turns down everybody at once; an
attempt counts as broken when its catch handler runs, not when it rejects,
because until then others join it. `Catch` maps to `Broke`, the later `Resume`
of each caller to a stutter. What makes this work is `ClientInv`: with
`OneAttemptAtATime`, an attempt that has not failed is the shared one, and
so every caller that waits for one waits for the same.

*Supplies.* `ListedInv`: the pages so far list, in ascending order, nothing
from the next page's key on, and all that lasted before it. `EscrowsInv`: the
escrows that have answered and those still pending are the channels asked, at
most a page of them; the sum of the answers and that of the escrows as they are
now differ by no more than the blocks so far, as a block moves one of the two
by one at most.

*Pools.* `PoolInv` adds to the types: idle and connecting clients have the
pool as a listener, idle and held ones the process (`PlacesInv`); what a user
holds is connecting or held as its state says (`HoldersInv`), and no client has
two users (`ExclusiveInv`). `NeverCrashes`
is `PlacesInv` at the moment of `ClientError`.

Only model-checked: the liveness properties `PollsBoundStaleness`,
`PagingEnds`, `DownloadsEnd` and `MainIsServed`, because fairness and ENABLED
are out of the prover's reach.

## 5. Not modelled

* The schema plugins, preset, boot sequence and environment: static
  configuration without state. What they leave to the models are constants
  (`TriggerInstalled`, the bounds of caches, whether `RPC` is set) and the order
  of the middleware.
* Timing and the wording of log lines; encodings other than UTF-8; a stored
  response is bytes and one decision in `BlockCache`, and chunks in
  `ResponseRecorder`, without a run of both together.
* Other claims collections, what a row of claims shows, parsing of `status`;
  `getCollectionClaimsTypeNull`, which nothing calls.
* `batchDeviceExternalIdsLoaded`, `claimSchemaTypesLoaded`, `supplyStaked`, `supplyCommunityPool` and
  `inflation`: one query or call each, whose answer is sent as it is. The traces
  of IBC denominations are looked up after the supply and change no sum.
* The catch of `removeTokens(1)`: the library rejects only what a full bucket
  could not give.
* The crons of the indexer, but for the one that loads claim types.
* Several replicas, each with a cache and a listener of its own: each is a
  `BlockCache`, and nothing in the code relates them.
* JavaScript numbers: sums of bigints beyond 2^53 lose units
  (`token.ts:317-319`); the models' amounts are small.
* The trigger's payload is a height as text, compared for equality only; it
  is a number here, and SQL's null is 0.

## 6. What could follow

The modules came in this order: cache and invalidator, with their refinement;
claims; entities; tokens; request log; then what is upstream of the process.
What is left, the most valuable first:

1. **CacheContract**: a served response shows every block heard of, without
   the exceptions. `BlockCache` does not implement it; a variant that compares
   a flush counter in `res.end` and flushes on the first poll would.
2. **Replicas**: several `BlockCache`s over one database, and what a client
   that is sent from one to another may see.
3. Proofs that the violated claims hold of the corrected code: a gate in
   `res.end` that compares a flush counter, and a first poll that flushes.
