# CloudVitta: TLA+ models and proofs

CloudVitta ingests the public price lists of cloud providers, keeps a history
of prices in Postgres, and serves comparisons and cost estimates over REST and
MCP to a web client. This directory holds TLA+ modules that model the parts of
it in which order, failure and concurrency matter, the TLC configurations that
check them on small instances, and theorems that TLAPS proves for instances of
any size. Paths below are relative to the repository's root.

## 1. Inventory

| Part | State it keeps | Operations | Talks to |
|---|---|---|---|
| Ingestion job: `cmd/ingest/main.go`, `internal/service/ingest_orchestrator.go` | none beyond one execution: context deadline, batch, position in it | start, lock, fetch with retries, compare and record each observation, clear DLQ, warm cache, release | every store below, the adapters |
| Price history: table `price_observations`, `internal/store/queries/price_observations.sql` | rows (price, billing dimensions, `fetched_at`, `last_seen_at`, `anomaly_status`) | latest row of an item, insert with `ON CONFLICT`, bump `last_seen_at`; list for readers | ingestion, read path, freshness |
| Ingestion lock: `internal/cache/lock.go` | one Redis key per (provider, category), token, TTL 35 min | `SETNX`, compare-and-delete script | ingestion |
| Dead letter queue: `internal/dlq/dlq.go` | one Redis entry per (provider, category): status, count of consecutive failures | `Record` (GET, then SET), `Clear`, `Get` | ingestion, freshness |
| Retry policy, factory: `internal/adapter/provider/retry.go`, `factory.go` | attempt, last error | `Do`, back-off, the threshold on unmapped items | ingestion, adapters |
| Provider adapters: `internal/adapter/provider/<provider>/adapter.go` | per fetch: region, endpoint and page loops, a pipe shared by storage and normalizer, quarantine sink | `Fetch` | provider HTTP, GCS, normalizers |
| Normalizers: `normalize.go`, `kubernetes.go`, `serverless.go` (AWS, Azure, GCP); `compute.go`, `storage.go`, `network.go` (the others) | per document: SKUs seen, parts of composed prices, counts | `Normalize`, `FinalizeComposedObservations` | taxonomy maps, quarantine sink |
| Raw storage: `internal/storage` | objects | `WriteStream` | adapters |
| Read path: `internal/service/read.go`, `internal/cache/warm.go` | Redis lists per region (TTL 24 h), singleflight group | `GetPrices`, `Warm` | price history, ingestion's warming |
| Authentication: `internal/service/auth.go`, `internal/auth/rotate.go` | users, refresh-token families, verification tokens; replay cache per instance | signup, login, refresh, logout, verify, resend | Postgres transactions, e-mail |
| Rate limiter: `internal/middleware/ratelimit` | Redis counters per key and minute | check-and-increment, fails open | every request |
| FX rates: `internal/fx/service.go` | in-memory rates, table `fx_rates` | convert, refresh, lazy look-up | Frankfurter, Postgres |
| Compute catalog: `internal/service/catalog_sync.go`, `catalog.go` | `compute_instance_catalog` | upsert from a batch, list | ingestion |
| Freshness: `internal/service/freshness.go` | none (derived) | provider status from rows and DLQ | price history, DLQ |
| Quarantine: `internal/quarantine` | objects per fetch | record, flush, digest | adapters, GCS |
| Matching and calculation: `internal/service/*match*.go`, `pricing_calc.go`, `calculate.go`, `compare.go` | none | match, price, total | read path, FX rates |
| Taxonomy maps: `internal/matching` | static maps | look-ups | normalizers, transports |
| REST, MCP, SPA: `internal/transport`, `cmd/api` | none | read parameters, call a service, map errors | all services |
| Web client: `web/src/api/refreshQueue.ts`, `client.ts` | tokens in memory, flag and queue of the single-flight refresh | fetch, refresh on 401, replay | REST |
| Migrations: `cmd/migrate` | `schema_migrations` | apply what is missing | Postgres |

What is hard, and what makes each part correct:

* **Ingestion.** The scheduler, the deployment pipeline and an engineer can
  each start an execution at any moment. Executions meet in the lock, the
  table, the DLQ entry and the cache, and each can die between any two
  statements, lose the reply to a command, or reach its deadline. Look-up and
  insert are separate statements; `Record` is a GET and a SET; only a lock that
  expires by itself keeps them apart. Correct means: rows tell changes and
  nothing else, every flag belongs to the change it is on, the periods of the
  prices do not overlap, no failure is lost from the count, the cache does not
  go back, everything ends, and the lock comes free.
* **Read path.** A reader may warm the cache with what it read before an
  execution committed; a singleflight outlives its callers. Correct: a list is
  not older than what was cached, and a cancelled caller harms nobody else.
* **Authentication.** Rotation, replay of a lost reply, detection of theft and
  logout race on one token row and a replay cache filled before the commit.
  Correct: at most one live token per family; a theft ends the family; a retry
  with the same key gets the same pair; a verification token serves once.
* **Adapters.** Several regions, some of which fail; two consumers of one
  stream, each of which may stop first. Correct: no deadlock, no price without
  its raw response, and a fetch that succeeds means something.
* **Normalizers.** Long chains of checks, one for each provider and category,
  that separate prices, drift and what is out of scope. Correct: drift is never
  passed over in silence, parts are composed across pages without being mixed.
* **E-mail verification.** Look-up and consumption, count and insertion are
  separate statements. Correct: nobody logs in without a mailed token.
* **Rate limiter.** INCR and EXPIRE are two commands, the window is read before
  both, and an INCR whose reply is lost is sent again. Correct: the limit holds per
  minute, and what a request is refused for was counted under its own keys.
* **FX rates.** One conversion looks at the map twice. Correct: an amount says
  whether it was made of a fallback rate.
* **Web client.** A queue behind one refresh, with logins and logouts in
  between. Correct: a refresh token serves once, every call is settled.
* **Matching and calculation.** Distances, free tiers, joined rows; loops that
  collect results and failures. Correct: exact means what was asked, more never
  costs less, a total is the total.
* **Transports.** Every check is written once per transport. Correct: they hold
  one contract.

`PROJECT.json` lists each hazard at its line and the properties that cover it.

## 2. Modules

```
PriceHistory   IngestionLock   DLQ          data, and the stores' operations
      \             |          /
       `------ Orchestrator ---'            executions of one (provider, category)
                    |    \___ INSTANCE PriceLedger WITH ledger <- rows
             MCOrchestrator                 instances for TLC

PriceHistoryProofs -> PriceLedgerProofs     the ledger keeps its promises
PriceHistoryProofs -> OrchestratorProofs -> OrchestratorLedgerProofs

RotationCache                               the replay cache of a process
      |
RefreshRotation --- INSTANCE TokenFamily WITH current <- Current, spent <- ...
      |       \___ RefreshRotationProofs
MCRefreshRotation                           instances for TLC

ReadPath  RateLimiter  EmailVerification  FxRates  WebSession  AdapterFetch
     \        \            \        |        /           |         /
      `--------`------------- Services ------'-----------'--------'
                             /        \                     one of them runs
                  Normalizers          Matching  Calculation  Requests
      /      |         |      \           |
   Aws-    Azure-    Gcp-    Doc-         |
   Normalizer  ...   Normalizer(s)        |
       \______|_________|______/__________|
                       Rules                                first rule that applies

Services <- MCServices -> MCNormalizers, MCPricing          instances for TLC

AccessProofs    about RateLimiter, EmailVerification, WebSession
ServingProofs   about ReadPath, FxRates, Matching, Calculation, Requests
FetchProofs     about AdapterFetch, Normalizers, and Services as a whole
```

**PriceHistory** is the table, item by item. The history of an item, a
(sku, region) pair, is the sequence of its rows in the order of their
insertion, and a row's id is its position. `LatestId` is
`ORDER BY fetched_at DESC LIMIT 1`, *not* the last position: that the two agree
is a lemma, and false as soon as executions write out of order.
`InsertPriceObservation` includes the `ON CONFLICT ... DO UPDATE` on equal
`fetched_at`. `AnomalyStatus` is the orchestrator's comparison of prices
(lines 287-336). A price is a natural number; `unit` stands for unit, pricing
model and currency together. The column is an unscaled `NUMERIC`, so storing a
price does not round it; the rounding of `decimal.Div` to 16 digits when the
ratio is taken is abstracted to exact arithmetic.

**IngestionLock** is the Redis key with its expiry on a discrete clock; **DLQ**
the entry, with the two commands of `Record` apart and the classification of
errors by their text. The text of an `ErrPermanentFailure` contains none of the
words looked for, but may contain numbers, so both statuses are possible for it.

**Orchestrator** composes them. `pc[r]` is where an execution is, `run[r]` its
local state:

| `pc` | code | leaves by |
|---|---|---|
| `idle` | not started | `Start` |
| `acquire` | step 1, 164-198 | `Acquire`, `Skip`, `AcquireFails`, `AcquireReplyLost` |
| `fetch`, `fetching` | step 2, `provider.Do` | `BeginFetch`, `FetchCancelled`, `FetchReturns`, `FetchFails` |
| `record`, `recording` | step 2b, `dlq.Record` | `ReadDLQ`, `WriteDLQ`, `RecordFails` |
| `persist`, `write` | step 3, the loop of 232-357 | `Lookup`, `LookupFails`, `BumpLastSeen`, `InsertRow`, `WriteFails`, `PersistDone` |
| `clear` | step 4 | `ClearDLQ`, `ClearFails` |
| `warm` | step 5, `warmCache` | `Warm`, `WarmDone` |
| `release` | the deferred `Release` | `Release`, `ReleaseFails` |

`Crash` may happen anywhere. Each statement is one step, so executions
interleave between any two statements. A statement that takes the job's context
fails from the deadline on; the writes of `warmCache` do not take it. A command
whose effect took place but whose reply was lost is `AcquireReplyLost` for
`SETNX`; for the others it is the same as the command, because the code goes on
in the same way. `blind` and `failures` are history variables: the rows
inserted after a failed look-up, and the failures recorded since the entry was
last deleted.

**PriceLedger** is what ingestion promises, with no executions in it: an
observation later than everything recorded of its item is compared with the
last row and recorded, in one step, or recorded blindly when the last row could
not be read.

**RotationCache** is the map of `rotate.go`; one tick of the clock stands for
part of the cache's lifetime. `PruneAbove` is the size (100) above which `Put`
drops the stale items.

**RefreshRotation** is the traffic for the tokens of one login, one row each in
`row`: refreshes and logouts, served by several processes that share the table
and keep a replay cache each. A transaction runs at PostgreSQL's default level,
READ COMMITTED. It keeps the rows it locks (`rowLock`) until it ends, and its
writes are seen by others when it commits, so `Rotate` only draws the new token
and fills the replay cache, which is not part of the transaction, and `Commit`
writes both rows. The UPDATE of a family waits for the rows that were live when
it began (`wanted`) and skips those that are no longer live when it gets them.
What it writes is always rolled back, because `Refresh` returns an error; the
model therefore keeps its locks and leaves its writes out.

| `pc` | code | leaves by |
|---|---|---|
| `idle` | not arrived | `Refresh`, `Logout` |
| `select` | `GetRefreshTokenByHashForUpdate` | `Select`, `SelectNothing` |
| `branch` | what the row says, `auth.go:285-355` | `AnswerExpired`, `Rotate`, `Replay`, `Reuse` |
| `commit` | the end of `ExecTx` | `Commit`, `CommitReplyLost` |
| `family`, `rollback` | `RevokeRefreshTokenFamily`, `ErrTokenFamilyRevoked` | `RevokeFamily`, `RevokeFamilyFails`; `AnswerReused` |
| `logout`, `purge` | `RevokeRefreshTokenByHash`, `rotationCache.Delete` | `LogoutRevoke`; `LogoutPurge` |

`Fail` is an error of a statement, of the commit or of the request's context;
`Stop(i)` the end of a process, whose requests get no answer and whose
transactions PostgreSQL rolls back. A member of `Instances` is a process for its
lifetime: a restart is a stop and another member, with an empty cache. A client
presents only tokens that a response has brought it (`known`); a response that
is lost on its way is a client that does not use what it got.

**TokenFamily** is what rotation promises: one current token, replaced by one
never used before or ended; a spent token never comes back.

### The components around the ingestion job

They share no state with each other: what one hands to the next is an input of
the next (a batch, a list of rows, an outcome). **Services** therefore puts them
side by side, and a behaviour runs one of them, its `component`; `MCServices`
gives it its constants.

**ReadPath** is `GetPrices` for one cache key. `cached` is the Redis list,
`flight` the singleflight's query, `reader[c]` where a request is. A request
looks into the cache (`CacheHit`, `CacheMiss`), joins or starts the flight
(`Join`) and waits; the flight queries (`Query`, `QueryFails`), warms the cache
(`WarmList`, `WarmListFails`) and hands its list to whoever waits (`Deliver`).
`Cancel` ends a request's context, not the flight's. `CommitPrice` and
`CachePrice` are the ingestion's half, `CacheExpires` is Redis. The list holds
every row of the item's history, newest first, as the query returns it.

**RateLimiter** is `Handler` and `WithProfile`: per request one blunt counter of
the address unless the user is known, then one of its tier, both keyed by the
minute. `Incr` and `Expire` are steps of their own, `ExpireFails` loses the TTL
or its reply. The client of `cache/client.go:49-61` keeps go-redis's default of
three retries: `IncrUnanswered` is an INCR that took effect without an answer, after
which the request sends it again and pays twice, and `FailOpen` is an error of INCR
after the last retry or the two-second timeout, by which any number of attempts may
have counted. `admitted`, `counted`, `lost` and `leaked` are histories.

**EmailVerification** is one account from `Signup` to its first login. The
look-up of a token (`VerifyLookup`) and the transaction that consumes it
(`VerifyCommit`) are apart, as are `ResendLookup`, `ResendCount` and
`ResendInsert`. `late` marks a visit that began after another had succeeded with
the same token; `raced` the resends that counted before another's insert.

**FxRates** is the map of rates in an API process: `RefreshFromUpstream`,
`RefreshFromTable` or `RefreshFails` before it serves, then conversions that
resolve a rate from the map (`LookInCache`), load it from the table
(`LookInTable`, `StoreRate`), and look again for the metadata (`Apply`).

**WebSession** is a browser tab: `fetching` its requests, `leader` the one whose
401 began the refresh, `refreshQueue` those that wait for it. A 401 begins a
refresh whenever the tab has a refresh token, whatever the call carried
(`client.ts:184-218`). JavaScript runs one callback at a time, so a step is what
happens between two awaits. An answer of 200 with an empty access token
(`refreshQueue.ts:31`) is not modelled: the server signs one or fails.

**AdapterFetch** is `Fetch` of all seven adapters, which differ in a record
(`shape`): several streams or one, pages, a cap, skipping, and what a panic of
the normalizer comes to. `store` and `norm` are the two goroutines and `pipe`
the two ends of the `io.Pipe` between them; a chunk passes when the normalizer
takes it (`WriteChunk`, `TakeChunk`), is dropped (`ChunkIgnored`) or returns the
reader's error (`ChunkRefused`). `JoinGoroutines` is `g.Wait`, `Finish` what
`Job.Fetch` makes of the unmapped ratio.

**AwsNormalizer**, **AzureNormalizer**, **GcpNormalizer** and
**DocNormalizers** (Alibaba, DigitalOcean, IBM, Oracle) are the normalizers. A
branch of the code is a sequence of rules, in the order of its checks, of which
the first that applies decides (`Rules`): an item is observed, quarantined,
ignored, dropped without being counted, or fails the document. An item is the
record of what the checks read: known or unknown region and value, and the set
of words looked for in its names, not the names. What is kept between items is
state: the top-level keys that AWS's stream has shown (`ReadOfferCode`,
`ReadProducts`, `ReadTerms`, in any order; terms none of which are on demand fail
the document), the counts of a page, the parts of
GCP's composed machines over the pages of a stream, the SKUs taken per region,
Oracle's flexible shape. **Normalizers** puts the four together and states what
ADR 0037 asks of all of them.

**Matching** is `MatchAndCalculate`: the rows of one read are joined into
candidates, scored, classified by the thresholds and priced. Distances are
hundredths, rounded up, so that only what was asked for is at distance 0; prices
and costs are whole numbers. A class that stands on no scale is compared with nothing,
as in the code. GCP's branch of the serverless cost has no case for a fee per ten
requests and charges it for each (`UnitsCharged`). The formulas keep the shape of the
code's: hours of a month, free tiers, the clock table of first-generation
functions, capacity units that are rounded up, joins that keep the last row.

**Calculation** is what loops over it: `Calculate`, `Compare`, and the loops of
their own that the REST handlers of compute, storage and network run. Its input
is what `MatchAndCalculate` answered for a pair of provider and category.

**Requests** is the reading of parameters, by REST and by MCP. A field is a name,
what its raw values mean and what its absence means; a raw value is a class
(below 1, usual, at the limit, beyond it, zero, blank, unknown, not a number).
`iops` is a whole number: REST's `Atoi` refuses one below 1, and the tool's schema
refuses the document before the handler. The two names of the relational section are
compared as `ResolveAliasedField` compares them, decoded: what is left out is the
zero of its type (`Decoded`).

### Assumptions

* `RunTimeout <= LockTTL`. Both are 35 minutes (`cmd/ingest/main.go:45`,
  `ingest_orchestrator.go:48`). This is what the proofs need of them.
* The task timeout of the Cloud Run job (`.github/workflows/deploy.yml:123`) is
  also 35 minutes; `Tick` therefore never leaves an execution behind its
  deadline. Of the properties only `CacheNeverGoesBack` depends on it.
* The containers' clocks agree with each other and with Redis.
* A fetch takes time: `fetchedAt` is read before the first request and the
  clock has moved on when the answer is there. Ticks stand for the resolution
  of `fetched_at`, one microsecond.
* A statement takes effect before its context ends, or not at all.
* Jobs of different (provider, category) pairs share only the deadline: keys,
  rows (the look-up is by category) and entries are per pair. One pair is
  modelled. `RunAll`'s limit of three only delays a job's start, which the
  model allows anyway between `Start` and `Acquire`.
* The clocks of the API processes agree. Generated tokens are distinct, and
  tokens and hashes correspond one to one.
* Families share nothing but the size of the replay cache: one family is
  modelled. `Login` creates its first token; access tokens, which are not
  stored, and the checks on blank arguments are left out.
* The TTL of a rate counter is at least a minute and the timeout of Redis
  (`CounterTTL >= MinuteTicks + RedisTimeout`: 70, 60 and 2 seconds). It is what
  `LimitHolds` needs; with a TTL of the minute alone it is violated.
* An API process refreshes its rates once, before it serves
  (`cmd/api/main.go:110`); the ingestion does so in a process of its own.
* A verification token's mail reaches the address it was sent to, or nobody.
* What a curated map knows does not change while a document is read.
* What the proofs need of the constants is in the modules' `ASSUME`s, which TLC
  evaluates for the instances: the calls of the rate limiter and the resends of a
  mail are finitely many, providers are listed once, sizes and prices of rows
  and the numbers of a request are whole, of the smallest step, and not negative,
  the lists of rows are sequences, a request fee is for one request, ten or a
  million (`serverlessunitmap`), Azure's services map to the seven categories of
  `catalogmap/azure.go`, and a body of `/calculate` has no section but those of
  its categories (both decoders refuse others).

## 3. Checks

| Run | Instance | Result |
|---|---|---|
| `history` | 3 executions (symmetric), 1 item, batches with a price of 0 to 3, another unit, or nothing; threshold 2; starts up to time 3, clock up to 5; deadline and TTL 2 ticks | 3.1 M states: all invariants hold |
| `steps` | 2 executions (symmetric), 2 items in 2 regions, batches in both orders | 0.6 M states: refines the ledger; the cache does not go back |
| `liveness` | 2 executions with or without Redis, 2 attempts, TTL longer than the deadline, clock up to 8 | 0.19 M states: both liveness properties hold |
| `tiers` | one fetch carries two prices of one item | `AdjacentRowsDiffer` violated |
| `restart` | an execution starts after a crash | `ResumesAfterCrash` violated |
| `blocked` | an error wrapped in `ErrPermanentFailure` | `PermanentFailuresBlocked` violated |
| `tokens` | 3 requests, 3 tokens, 2 keys, 2 processes (all symmetric); both lifetimes 1 tick, clock up to 2 | 0.8 M states: invariants hold, refines the family |
| `tokens_pairs` | 4 requests, 3 tokens, 1 key, 2 processes (all symmetric), clock stopped | 0.14 M states: pairs handed out are in the table, or stranded |
| `tokens_end` | 3 requests, 4 tokens, 2 keys, 1 process, clock stopped | 0.6 M states: every request is answered |
| `tokens_reuse` | as `tokens` | `ReuseRevokesFamily` violated |
| `services` | the thirteen other components, one at a time; bounds below | 0.5 M states: 19 invariants and 4 properties hold |
| `raw_archive` | `AdapterFetch` with the same bounds | `RawKept` violated |

The properties:

* `ExclusiveIngestion` -- at most one execution that uses the lock is inside the
  job with a live context.
* `AdjacentRowsDiffer`, `AnomalyFlagsExact`, `PricePeriodsDisjoint` -- the
  histories. The first two except exactly the rows in `blind`.
* `DLQCountExact` -- the stored count is the number of failures recorded since
  the last clearing.
* `IndInv` -- the inductive strengthening of section 4, checked here before it
  was proved.
* `ImplementsLedger` -- refinement: `Orchestrator` implements `PriceLedger`.
* `CacheNeverGoesBack` -- an action property of the cache.
* `RunsEnd`, `LockComesFree` -- liveness.
* `OneLiveToken` -- of the tokens of a login at most one can be exchanged.
* `ImplementsTokenFamily` -- refinement: `RefreshRotation` implements
  `TokenFamily`.
* `RetryIsNotReuse` -- a request that repeats a committed rotation, with the
  same key, at the same process and in the replay window, is not taken for a
  reuse of the token, unless a logout was asked for. The code fills the cache
  *before* it commits, and this is why the property holds: a retry that waits
  for the row lock finds the item as soon as it has the lock. The order drawn in
  `docs/diagrams/05-auth-token-rotation.md:94-95`, commit and then `Put`,
  violates it. Its price is that an item may outlive a commit that failed.
* `PairsCommitted` -- that price: a pair handed out is in the table, unless its
  rotation was undone and a logout or another process has revoked the parent
  since. A new rotation at the same process replaces the item.
* `RequestsEnd` -- liveness: transactions that lock several rows of a family do
  not wait for each other for ever.
* `IndInv` in `tokens` -- the inductive strengthening of `RefreshRotation`.

and of `services`:

* `OnlyTheCancelledGiveUp`, `ReadersAnswered` -- a caller that gives up harms no
  other, and everybody is answered. `ListNotOlderThanItsQuery` -- the cached list
  is not older than what was cached when its query began. It may be older than
  what is cached while the query runs: that race the code has.
* `LimitHolds`, `RejectionsEarned`, `CountersExpire` -- the limiter lets no more
  through than the limit; what rejects a request was counted under one of its own
  keys, by as many others as the limit less one for each INCR of that key whose
  reply was lost (with no loss: by as many others as the limit); and only a lost
  EXPIRE, or a lost reply to the first INCR, leaves a counter behind.
* `SessionsNeedMailedToken`, `UsedLinkRefused`, `ActiveTokensBounded` -- what the
  verification of an address keeps in spite of its races. The last two state the
  weaker promise that holds: two visits that overlap both succeed, and each
  resend that overlaps another may exceed the limit by one.
* `ConversionsHonest` -- an amount made of a fallback rate is flagged, although
  flag and amount come from two looks at the map.
* `RefreshTokensServeOnce`, `FetchesSettle` -- the web client's refresh.
* `RawBeforePrices`, `PagesLostOnlyBySkipping`, `FetchEnds` -- no price from a
  page whose raw response is not stored as a whole; pages are lost only where the
  adapter skips failed regions or GCP's normalizer panicked; the two ends of the
  pipe never wait for each other for ever.
* `DriftSurfaces` -- an item that would be a price, if only the curated maps knew
  the names it goes by (`AwsNamed`, `AzureNamed`, `GcpNamed`, `DocNamed`), is
  quarantined if they do not (ADR 0037), for all seven providers. Where the code
  departs from the decision the property says so, and says that the item leaves no
  trace: GCP's machine types that cannot be read, and parts of a machine or database
  of an unknown family, engine or region (`GcpPassedOver`); Oracle's products and
  fixed shapes that are on no list (`OraclePassesOver`). Names the code does not look
  up are no drift to it (`AwsUnread`, `AzureUnread`, `GcpUnread`).
* `ComposedAcrossPages` -- a family with both parts in a hub is priced, by prices
  the stream offered for those parts, however the pages divide it.
* `PricedOnceInARegion` -- one price per SKU and region of a document. Oracle's
  compute shapes are not looked up in the code, and are excepted.
* `ExactMeansAsked` -- an exact match with nothing missing agrees with the
  request in size, IOPS, availability, engine, class, data model, billing mode and,
  for AWS and Azure, serverless tier. What no score looks at is outside, and named in
  the property: a class on no scale (a finding), a family that is not strict, the
  storage class of a NoSQL request, and GCP's serverless tier, which the offer copies
  from the request (`ServerlessTierPriced`, below). `key_value` and `document` are one
  model to the scorer.
  `GrowthNeverCheaper` -- asking for more of the same offer never costs less.
* `HonestTotals` -- ADR 0022: a total is the sum of the provider's own prices and
  complete exactly when it says so; what is left out is explained.
* `OneContract` -- a body of `/calculate`, and a comparison whose values have the
  types of the tool's input, is refused by both transports for the same parameter or
  means the same target to both. Two differences are stated in it: a query string can
  hold what the tool's schema refuses before the handler (`NaN`, which REST accepts, a
  switch that is no Boolean, an `iops` that is no integer), and such a request is
  outside; and a name left blank in a body of `/calculate` stays blank over REST and
  is replaced by its default over MCP.

**Why the bounds are enough.** Three executions with two ticks of life and five
ticks of clock let one die and keep its lock, the second skip, and the third
take over after the expiry; or three follow one another and an item go through
two changes, the second compared with the result of the first. The prices 0 to 3
with a threshold of two take every branch of `AnomalyStatus`: from and to free,
at the threshold (1 and 2), above it (1 and 3), below it (2 and 3), and a change
of unit that is no change of price. Two items and
two regions let a batch be interrupted half-way and a cache be warmed half-way.
Three requests let a rotation, its retry and either
a logout or a rotation of the new token overlap; with lifetimes of one tick and
a clock of two, an item and a token are valid, on the edge, and expired. With
two processes a retry can meet an empty cache; with `PruneAbove = 0` one item is
enough for the next `Put` to prune, as 101 are in the code. Four requests, in
`tokens_pairs`, let a client present a pair that never reached the table. In `tokens_end` nothing
expires: every way to wait is there, and time is not one of them.

In `services` the bounds are chosen per component. Two readers and two prices
let one query be overtaken by a commit and its warming while the other request
joins, gives up or starts the next flight. Three calls with limits of one and a
ceiling of two reach every limit and exceed it; two tables of callers have
requests of one user, of one cookie, of a profile and of nobody behind the same
address; the clock of two minutes has one window's edge, and a counter's life of
two ticks outlives it; one retry (`MaxRetries`, three in the code) and one lost reply
(`MaxLost`) let a request pay twice, reject itself on its own count, run out of
retries, and leave a counter without a TTL. Two verifiers and two resends overlap on
one account with two active tokens allowed and four issued in all. Two conversions between USD and
two currencies, one of which may be missing, zero or stale. Three calls of the
tab and three pairs let a second refresh follow the first while the third call
still carries the oldest pair. Two streams of two pages in two chunks let the
first stream fail and the second succeed, the cap of three pages bite inside the
second stream, and either goroutine stop before, between and after the chunks.
A product of AWS is triaged alone, an item of Azure too; GCP's stream has two
pages of one SKU, enough to separate a core from its memory; the documents of
the other four have two items, enough for a SKU to come twice. The lists of rows
for matching hold every component a formula joins, complete, with a component
missing, and with two rows that a join has to choose between, all in one region;
volumes lie on both sides of each free tier and step. Two providers, of which one
supports the basic categories only, and one or two categories per request. The
run does not check for deadlocks, because each part really stops when the
requests it is bounded to have been served.

Every bound (`MaxStart`, `MaxTime`) is a guard of `Start` or `Tick`; `Finished`
lets the model stop where the bound is reached, so that TLC's check for
deadlocks stays meaningful everywhere else. Symmetry is used in the runs
that check safety only.

**Fairness.** `WF_vars(Proceed(r))`: every call an execution makes carries a
context with a deadline (the back-off too, `retry.go:29-39`), or a time-out of
its own (`warmCache`), and the loops are over finite batches and attempts, so an
execution that is not killed gets on. `WF_vars(Tick)`: time passes. Nothing is
assumed of starts or crashes, nor that a command ever succeeds. For requests,
`WF_vars(Serve(r))`: a handler that is not waiting for a row goes on, and
PostgreSQL gives a free row to who waits for it. Failures are not in `Serve`,
so `RequestsEnd` does not rely on a transaction failing to release its rows.

In `services`: `ReadFairness`, a goroutine that can run is run, and query and
warming have timeouts; clients, the ingestion and Redis owe nothing.
`SessionFairness`, a request the tab sent is answered or times out.
`FetchFairness`, the loop and both goroutines run, and a normalizer that will be
offered nothing more, because the writer's end is closed, ends; while the writer
is open nothing is assumed of when, or whether, it ends. Nothing that is fair in a
component can happen before its first action, so the fairness of the components
that do not run binds nothing.

**What the violations show.**

1. `tiers`: Azure's storage branch keeps every tier of a meter under one sku
   (`azure/normalize.go:220`), while its network branch keeps only the first
   (273). The rows of such an item change at every execution although no price
   does, against ADR 0006. The proofs' condition `UniqueItems` is exactly what
   is missing.
2. `restart`: ADR 0017 describes a checkpoint table from which a restarted
   worker resumes. There is none; the restarted worker finds the lock of the
   dead one and skips the job it left incomplete.
3. `blocked`: the ingestion-flow document says that permanent failures bypass
   the retries and are recorded as blocked. They are retried and recorded as
   failed.
4. `tokens_reuse`: the diagram of the token rotation (lines 106-107) and
   ADR 0007 say that reuse of a spent token ends the family: the family's rows
   are revoked and the transaction commits. `Refresh` reports the reuse by
   returning `ErrTokenFamilyRevoked` from the function it runs inside `ExecTx`
   (`auth.go:377`), which rolls back on any error, so the family's live token
   stays live although the answer says otherwise.
5. `raw_archive`: `gcp/adapter.go:197` says that a response is stored even if it
   cannot be normalized, and ADR 0012 wants to replay it after a parsing bug.
   The failing normalizer closes its end of the pipe with its error, the tee's
   next write returns it to the storage, and the object is not committed. The
   adapters' tests use bodies of one chunk, which are read before that.

Four more properties are stated in the modules, with the text they come from,
and belong to no run because the code does not have them; each one added to the
INVARIANTS of `Services.cfg` gives a counterexample:

* `QuotesCurrentPrice` (ReadPath): after a cache miss the list holds superseded
  prices, and the joins that keep the last row quote the oldest one.
* `LogoutIsFinal` (WebSession): a refresh in flight signs the tab in again after
  the logout.
* `ServerlessTierPriced` (Matching): GCP's candidate takes the tier asked for and
  is priced from rows of any tier.
* `OutageReported` (Calculation): when every provider that declares a category
  fails, the others count as unsupported and the answer is an empty success.

`findings` in `PROJECT.json` lists these and what else the documents say
differently.

Also noticed: the comment on `AnomalyThreshold` says "more than 10x" where the
code flags a ratio of exactly ten (`ingest_orchestrator.go:26,323`); the models
follow the code.

## 4. Proofs

Eight modules hold theorems. Each is about every instance that satisfies the
`ASSUME`s of the modules it extends; where a theorem needs more, it says so in
its own `ASSUME`. A component's proof has one inductive invariant, a conjunction
of named parts, and under it one lemma or step per action.

Every safety property and action property of a passing run is stated by a
theorem. The run says that the property is not idle and the bounds are met; the
theorem says that the bounds do not matter. Of the six liveness properties the
safety half is proved: that whoever waits waits for somebody who is about to go
on, and that nobody goes round in circles. What fairness adds is TLC's to check.

### Ingestion: `OrchestratorProofs`, `PriceLedgerProofs`, `OrchestratorLedgerProofs`

For any sets of executions, items, regions, prices and batches and any values of
the time-outs that satisfy `RunTimeout <= LockTTL`:

* `TypeCorrect`: `Spec => []TypeOK`.
* `MutualExclusion`: `Spec => []ExclusiveIngestion`. Mutual exclusion is not
  inductive: that a second execution cannot enter follows from what the first
  one's lock says. `LockInv` states it -- a live execution inside the job is the
  holder, and its deadline is no later than the key's expiry, so the key cannot
  expire under it. `Tick` preserves it because the expiry and the deadline do
  not move, `SETNX` because the new deadline is at most `clock + RunTimeout` and
  the expiry is `clock + LockTTL`.
* `DLQCountsFailures`: `Spec => []DLQCountExact`, with `QueueInv`: what `Record`
  read is still the count when it writes, because every other execution that
  could write the entry would have to be live and inside the job.
* `CacheGoesForward`: `Spec => CacheNeverGoesBack`. Warming does not take the
  job's context, so it may go on when the lock is gone. `CacheInv` says why that
  does no harm: an execution is killed at its deadline (`KilledInTime`), so it
  overlaps another only in the tick of that deadline (`Overlap`), in which the
  other cannot have finished a fetch, a fetch taking time; whatever is cached is
  older than the fetch of any execution that has still to warm
  (`CacheIsOlder`, `StampsPast`).
* `ExecutionsGoForward`: `Spec => [][RunsGoForward]_vars`. Every step of its own
  leads an execution to a later `Phase`, spends one of its attempts, leaves one
  observation of the batch behind or warms one region, and nobody else's step
  moves it. It takes `WritesSomething`: an execution that writes has an
  observation to leave behind. With a step that is always possible (every
  statement can fail) this is what `RunsEnd`, and through it `LockComesFree`,
  rests on besides fairness.

`LedgerKeepsPromises` says that the abstract ledger keeps its types and its three
promises for histories of any length. Under the conditions `AllReachRedis` (every
execution uses the lock) and `UniqueItems` (no batch names an item twice):

* `ImplementsTheLedger`: `Spec => ImplementsLedger`. The inductive invariant is
  `TableInv`: the rows of each item follow each other in time and are all over
  (`Chronological`), the fetch of a live execution is later than everything
  recorded of the items it has still to persist (`FetchIsNews`), and what it
  looked up is still the last row when it writes (`PriorIsLast`). Under it the
  `ON CONFLICT` branch is dead, the latest row is the last one, and a write is
  one step of the ledger; every other step is a stutter.
* `HistoriesAreExact`, `FlagsAreExact`, `PeriodsNeverOverlap`: the three
  promises for the table, by the refinement and `LedgerKeepsPromises`.

Both conditions are needed: without Redis two executions run side by side
(`cmd/ingest/main.go:115` goes on without it), and without unique items the
`tiers` run refutes the first property. `StrengtheningHolds` needs neither: of
`IndInv`, the parts on the lock and the DLQ always hold, and the part on the
table is stated under the two conditions in `IndInv` itself.

`PriceHistoryProofs` holds the lemmas about the operators of the table.

### Token rotation: `RefreshRotationProofs`

For any sets of tokens, keys, processes and requests and any lifetimes.
`Inductive` is `Spec => []IndInv`; the rest follows from it.

* `TypesCorrect`: `Spec => []TypeOK`.
* `AtMostOneLive`: `Spec => []OneLiveToken`. What a transaction read is true
  until it ends, because it holds the row (`RowsHeld`): the row that `Commit`
  revokes is the live one. The token it inserts is in no row yet and in no other
  request (`Rotations`), and a row that has a successor is revoked, with the
  successor in the table (`RowsLinked`).
* `RetriesAreServed`: `Spec => RetryIsNotReuse`. `Remembered` says that the cache
  holds the item of a rotation from its `Put` to the end of the window, through
  commits, pruning and the `Put` of others: a second rotation of the same token
  cannot happen before the first one is rolled back, and a rolled back one is
  owed nothing.
* `ImplementsTheFamily`: `Spec => ImplementsTokenFamily`. `Commit` of a rotation
  is `Replace`, `LogoutRevoke` of a live token is `End`, everything else after
  the login a stutter.
* `PairsAreCommitted`: `Spec => []PairsCommitted`. It needs the origin of what
  the replay caches hold (`PairsInv`): an item was put there by a rotation that
  its process served (`ItemsFromRotations`); the process of a token's last
  rotation holds no other item of it (`ItemsAreLatest`); a rotation that is over
  is in the table or was not confirmed (`RotationsEnd`); and a revoked token was
  replaced or logged out, because a family is never revoked
  (`RevokedBySomebody`). A pair that is in no table can therefore be replayed
  only if its parent was revoked by a logout or by another process.
* `WaitsAreShort`: `Spec => []HoldersGetOn`, the safety half of `RequestsEnd`.
  `WaitsFor(r, q)` is the wait of a statement of `r` for a row that `q` has
  locked. Who waits waits for a transaction, and that one waits for nobody or,
  to revoke its family, for one that waits for nobody: a chain has at most two
  links and no cycle. The inductive part is `LocksOwned`: a lock belongs to a
  transaction, and is that of the row it read until it has locked its family; and
  a transaction begins to lock the family because the row it holds is revoked. So
  what it holds is no live row, and nobody's UPDATE of a family waits for it. At
  most one row of a family is live (`AtMostOneLive`), so the model, which locks the
  rows of a family at once, differs in nothing from PostgreSQL, which locks one
  after the other.

### Access: `AccessProofs`

* `LimitsHold`, `EveryRejectionEarned`, `CountersComeToAnEnd`, for any callers,
  tables, limits and lengths of a minute with
  `CounterTTL >= MinuteTicks + RedisTimeout`. After `Deadline`, the end of the
  minute and the timeout, no request counts under a key any more; a counter that
  exists outlives it (`CountersOutlive`), so it was never deleted in between and
  is the number of requests counted under it (`CountsExact`, `CountsOnce`). That
  the sum of TTLs is needed is the one delicate step: a request may read its
  minute in the last tick and INCR after it. With lost replies `CountsExact` counts
  the pairs of request and attempt in `lost` too, so the bound of `RejectionsEarned`
  is what the counter says.
* `LoginNeedsTheMail`, `LinksServeOnce`, `ActiveTokensStayBounded`, for any number
  of visits and resends. The first two from `VerificationInv`: a link was mailed,
  a verified account consumed one, and who began after a success finds the token
  consumed. The bound on active tokens is a count (`ActiveAccounted`): they are
  at most the limit and the overtaken resends that have inserted (`Spent`), and a
  resend that was not overtaken still finds room when it inserts.
* `TokensServeOnce`, for any number of calls, logins and pairs: the pair that is
  presented is the one of the refresh in flight (`PresentedInFlight`) and leaves
  the memory when that ends. `NobodyWaitsInVain` is no property of a run but what
  `FetchesSettle` rests on: a waiting call is the leader or in the queue of a
  refresh that is in flight.

### Answers: `ServingProofs`

* `OthersAreServed`, `ListsAreNotOlder`, for any readers and prices. The query
  does not take a caller's context, so the flight's error is never a cancellation;
  what the ingestion has cached it has committed (`HistoryOrder`), so a list that
  is about to be cached begins with a row no older than what was cached when its
  query began (`WarmingIsNews`).
* `WaitersAreExpected`, the safety half of `ReadersAnswered`: a request that waits
  is cancelled, or a flight has it in its list. The singleflight forgets a key only
  when it answers, so no request joins a flight that does not know of it.
* `ConversionsAreHonest`, for any currencies and dates: a rate that is about to be
  stored replaces none from upstream (`StoresAreFallbacks`), so between the two
  looks at the map the rate stays resolved and its flag true (`FlagsStayTrue`).
* `TotalsAreHonest`, for any providers, requests and outcomes: a provider's tally
  is the sum of its own prices (`TallyIsOwn`), what is missing has its outcome
  among the reasons (`OutcomesExplained`), and the results are those of the
  providers that were asked and had a price (`ResultsOfAsked`).
* `ExactIsAsked`, for any requests and lists of rows, with the exceptions of
  `ExactMeansAsked`: distance 0 leaves nothing to round away (`OffIsExact`; half a
  difference in IOPS is rounded up), a join takes a row of the list or none
  (`JoinedIsRow`), and one lemma per category.
* `MoreNeverCostsLess`, for any requests and lists of rows, whatever the prices in
  them: `MatchSpec => GrowthNeverCheaper`. The join and the choice of the storage
  row do not depend on a volume (`JoinedAlways`, `StorageAlways`); products, sums,
  rounded units, clocks and free tiers are monotone (`BothGrow`, `QuotientGrows`,
  `ClockGrows`, `NetGrows`); one lemma per provider and category puts them
  together, and `CostGrows` adds the monthly credit. It rests on whole,
  non-negative prices and on request fees in the units of `serverlessunitmap`.
* `TransportsAgree`: `RequestsSpec => []OneContract`, for every body and every typed
  comparison; where a name is left blank in a body, that both refuse it or both
  accept it. Field by field (`FieldsAlike`), then for the list of fields of
  an endpoint (`ParsedAlike`), then for the sections of a body.
* `MatchTypesCorrect`, `RequestsTypesCorrect`. That what is priced has a quality
  takes more than a type: the nearest candidates are chosen by their distance, and
  that the choice is of one quality needs every candidate's distance to be a whole
  number, category by category (`QualityRule`, and the lemmas `...Exact`). A
  refusal has no target (`RefusedWithoutTarget`).

### Fetching: `FetchProofs`

* `RawComesFirst`, `PagesAreAccountedFor`, for any streams, pages, chunks and cap,
  and any shape of adapter. A page's prices are used only after both goroutines
  have ended well (`PageSettled`), and a writer ends well only after every chunk;
  the pages used are those before the current one (`UsedAreBefore`), except those
  skipped or lost to a panic (`PagesAccounted`).
* `GoroutinesNeverBothWait` and `FetchesGoForward`, the safety half of `FetchEnds`.
  `EndsAgree` says that an end of the pipe is open exactly as long as its
  goroutine runs, and that a normalizer that still reads has taken every chunk
  that has passed it; so when the storage offers a chunk it is taken, ignored or
  refused, and when it is over the normalizer has all it will get. And every step
  leads to a later stage, to a later page, or leaves less of the copy to do
  (`ToDo`, a natural number): a page that was asked for is never asked for again.
* `ComposedWhateverThePages`, for any catalog and any division of it into pages:
  a part is known exactly if the stream offered a price for it, and its price is
  one of those (`GcpPartsInv`).
* `OneScrapeOnePrice`, for any documents: what is in `docSeen` has one price,
  everything else none (`DocInv`).
* `NoSilentDrift`: `AwsSpec /\ AzureSpec /\ GcpSpec /\ DocSpec => []DriftSurfaces`,
  for any sets of products, items, SKUs and documents. A triage is `Decide` of a
  list of rules, often of several joined by `\o`. `First` is the nested condition
  such a list comes to; `HeadDecides` and `FirstJoined` compute it rule by rule,
  one lemma per list, and the property is then a question about conditions: of the
  item and of the item under known names (`AwsNamedIs`, `AzureNamedIs`, `GcpNamedIs`).
  The theorem is about both halves of the property, the items that surface and those
  the code passes over.

* `AwsTypesCorrect`, `AzureTypesCorrect`, `GcpTypesCorrect`, `DocTypesCorrect`:
  every list of rules decides on one of the results that the code knows.

### All components together: `FetchProofs`, last section

`ServicesTypesCorrect`: `ServicesSpec => []ServicesTypeOK`, and
`ServicesKeepTheirPromises`: `ServicesSpec` implies every safety and action
property of the `services` run, each as its own comment states it. A step of
`ServicesNext` is a step of one component and leaves the variables of the others alone
(`EachStepIsOneComponents`); so a behaviour of all of them is one of each, its own
fairness included (`ServicesRunThem`), and what was proved of each alone carries
over.

### What is only model-checked

* Liveness -- `RunsEnd`, `LockComesFree`, `RequestsEnd`, `ReadersAnswered`,
  `FetchesSettle`, `FetchEnds` -- needs fairness and ENABLED, which are out of the
  prover's reach. Proved are `ExecutionsGoForward`, `WaitsAreShort`,
  `WaitersAreExpected`, `NobodyWaitsInVain`, `GoroutinesNeverBothWait` and
  `FetchesGoForward`, on which they rest.
* That the runs with `expect: violation` fail is TLC's to show.

## 5. Next, and what is not modelled

Worth proving next, in this order:

1. An abstract counter that admits and rejects in one step, with `RateLimiter`
   refining it under the assumption on the TTL: the safety part of what its three
   invariants say one by one.
2. The same for `EmailVerification`: an account that is verified once.
3. Components that are not modelled yet, if their code grows a state of its own:
   freshness first, whose staleness by `MAX(fetched_at)` is a listed hazard.

Not modelled:

* **Freshness** (a comparison of a maximum with a threshold), **compute catalog**
  (attributes copied from a batch, under the job's lock), **migrations**
  (forward-only, run by one job), the **quarantine digest** (an offline report):
  small, mostly pure, and without the interleavings the other modules are about.
* **Taxonomy maps**, configuration, observability, and the user interface:
  tables and wiring.
* The parsing of names, sizes and prices into the fields of an observation, and
  decimal rounding. What a check makes of them is modelled.
* The NoSQL and serverless candidates of providers that declare neither
  category: no read ever returns rows for them.
* A panic inside `WriteStream`, and a missing Redis client in the rate limiter,
  with which every request passes.
* Password hashing, access tokens, sessions of the MCP SDK, HTTP clients and
  their signatures.
