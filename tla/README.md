# Verification of the multi-level cache service

TLA+ models of the service under `src/app`: a HTTP service in Go that answers
batches of keys from a stack of cache layers (Ristretto in memory, Redis,
RocksDB), asks an external API for what no layer has, and writes and evicts in
the background. The models are checked with TLC on small instances; theorems
about them are proved with TLAPS for every value of the constants.

## 1. The system

| Component | Source | State | Operations |
|---|---|---|---|
| HTTP API | `internal/httpserver` | none | `get_all`, `put_all`, `evict_all`; body limit, gzip in and out, a status counted per request |
| Asynchronous adapter | `internal/manager/async_adapter.go` | `tokens`, a channel of capacity 64 | `GetAll` (synchronous), `PutAll`, `EvictAll` (a goroutine each, with a timeout) |
| Manager | `internal/manager/cache_manager.go` | none; one background goroutine per GET | `GetAll` = cascade + external source + `fillMissingLevels`; `PutAll`; `EvictAll` |
| Layers controller | `internal/cache/controller.go` | the list of layers | `GetAll` (top down, hits leave, misses and skipped go on), `PutAll` up to a level, `DeleteAll` |
| Layer service | `internal/cache/providers/service.go` | none | splits a batch by the caches that enable its level, calls its provider |
| Providers | `providers/ristretto.go`, `redis.go`, `rocks_db.go` | the stored values and their expiry; RocksDB: two column families and a map of timestamps in memory | `BatchGet`, `BatchPut`, `BatchDelete`; RocksDB: `StartTTLCollector` |
| External source | `internal/integration` | a limiter of 8 slots per request | groups by cache, one HTTP request per group, all in parallel |
| Configuration | `internal/cache/config` | read twice, at the start | caches, layers, TTLs, validation |
| Mapper, DTOs | `api/dto` | none | cache + key to storage key, unknown caches are dropped |
| Start | `cmd/server/main.go`, `internal/cache/factory.go` | the providers it opened | builds everything, serves until it is killed |
| Command line client | `src/cli` | none | sends the three batches |
| Metrics, logger | `internal/metrics`, `internal/logger` | counters | output |

How they interact. A handler decodes a batch and calls the adapter. A GET runs
in the handler: the manager maps the ids, walks the layers, asks the external
source for the misses of the *last* layer, starts the goroutine of the fill
and returns. Its deferred `cancel` ends the context of the fill at that moment.
A PUT or EVICT takes a token (and blocks when there is none), starts a goroutine
and is answered; the goroutine walks all layers with a context of its own. So at
any time there may be many GETs, each with a fill that outlives it, and up to 64
writers, all on the same keys of the same layers, with no lock and no version:
what keeps the layers right is only the order of the levels and the rule which
levels a fill may touch.

What is hard to test here, and what the properties are for: the interleavings of
fills and writers (an evicted or replaced value coming back), layers that fail
or apply a part of a batch, contexts that end between two layers, restarts that
empty some layers, tokens lost on panics, and the window between the map and the
database in the RocksDB provider; two ids with one storage key, a value that
spoils the answer of a whole batch; a configuration that is read twice and a
provider that does not open. `PROJECT.json` lists the hazards, each at its
line with the properties that cover it.

What makes each component right:

- cascade: every id of a request is found at exactly one level or is still looked
  for, whatever is skipped or fails; a layer never gets keys of caches that
  disable it;
- fill: it writes found values only, only above the level that had them;
- layers together: when the last write of a key was undisturbed, no layer and no
  GET gives an older value; whatever overlaps, the last layer ends up with one of
  the writes that were in flight last;
- adapter: at most 64 goroutines, every token comes back, every blocked handler
  gets on;
- external source: no id is lost or doubled by the parallel fetches, caches fail
  alone and whole, the limiter neither blocks for ever nor lets too many in;
- Redis provider: what succeeds has touched every key, no chunk is too large, no
  request is wasted;
- RocksDB provider: values and timestamps agree, an expired value is not served;
- HTTP API: no value crosses from one id to another, an id nobody else writes
  holds its last write and a GET tells it, writes in flight together leave what
  one of them asked for and nothing older, a lost answer has its reason in the
  batch;
- configuration and start: what validation lets through makes layers that stand
  apart and caches that fit them, and only a provider that cannot be opened
  leaves the service without layers;
- everything that starts ends.

## 2. Modules

| Module | What it models |
|---|---|
| `LayeredCache` | manager, controller, layer services and the layers as sets of keys: GETs with their fills, writers, expiry, failures, restarts |
| `WriterPool` | what the adapter promises of its goroutines (abstract) |
| `AsyncRunner` | `runAsync` with its channel of tokens; implements `WriterPool` |
| `ExternalSource` | what the integration promises a GET (abstract) |
| `ExternalFetch` | groups, limiter, goroutines, merge and wait of the integration; implements `ExternalSource` |
| `TtlStore` | what a local provider with expiring keys promises (abstract) |
| `RocksDbCF` | the RocksDB provider, one step per access of the map or the database; implements `TtlStore` for one caller |
| `LayerStore` | what a provider in another process promises (abstract) |
| `RedisLayer` | the Redis provider with chunks, retries, errors and late commands; implements `LayerStore` |
| `CacheApi` | handlers and middleware, storage keys, join of hits and ids, the client's bodies; its goroutines are those of `WriterPool`, the manager is one store |
| `Startup` | reading and validating the configuration, opening the providers, a process that fails, is killed and starts again |
| `MC...` | the instances for TLC |
| `LayeredCacheProofs`, `LastWriteProofs`, `AsyncRunnerProofs`, `ExternalProofs`, `RocksDbProofs`, `RedisProofs`, `CacheApiProofs`, `StartupProofs` | theorems and proofs |

The modules describe different parts at different grain. `CacheApi` composes the
handlers with the pool of `WriterPool`, which `AsyncRunner` implements; the others
share no variables:
`LayeredCache` takes a provider call as one step, `RocksDbCF` and `RedisLayer`
open that call; its `FetchExternal` takes an answer of `ExternalSource`; it has a
set of writers, and `AsyncRunner` is what bounds them. What one module assumes
another shows: `CacheApi` assumes prefixes that differ, which `validateCaches`
refuses otherwise (`PrefixesOnce` in `Startup`), and `LayeredCache` assumes a
setting of each cache for each layer (`LevelsConfigured`).

Definitions that start with the comment "Mutant" are wrong on purpose: each
stands for a plausible mistake in the definition below it, and `PROJECT.json`
says which property notices it. No specification uses them.

### LayeredCache

A *getter* is one GET with the fill it spawns; a *writer* is one goroutine of
`runAsync`. Both are used again when they are done, so an instance with two
writers has sequences of any length of at most two concurrent writes.

| Action | Code |
|---|---|
| `StartGet` | `ManagerImpl.GetAll` up to the cascade; the mapper drops ids of unknown caches |
| `LayerAnswers`, `LayerUnavailable` | one iteration of `ControllerImpl.GetAll`: the service splits the ids, calls the provider; an error makes all ids skipped |
| `FetchExternal` | the external call for the last layer's misses, creation of the fill's context, `go fillMissingLevels` |
| `Return` | the answer, with the deferred `cancel` |
| `ContextDone` | the client leaves, or the second of the fill's context passes |
| `FillPass`, `FillRefused`, `FillCall`, `FillLand` | `fillMissingLevels`: one layer of the `PutAll` for one result; a provider call begins after a look at the context, and lands, in full or in part |
| `StartPut`, `StartEvict`, `PutLayer`, `DeleteLayer`, `Expire` | the goroutines of `PutAll` and `EvictAll`, one layer a step, and their timeout |
| `Lose` | TTL or eviction inside a layer |
| `Crash` | the process is killed and started again |

A layer is `[key -> value or NoValue]`: what a `BatchGet` would answer. The state
of a request (`results`, `found`) is kept until its fill ends, because the fill
refers to it. `latest`, `recent`, `overlapped` and `failed` are history: no guard
reads them. They say what was written last, what the last write and those in
flight with it would leave, whether another use of the key ran at the same time,
and whether an error touched it.

Abstractions. A call of a provider is atomic for its layer, except those of a
fill, which begin and land because the request may be answered in between. A
write that fails may have applied a part (any part; all or nothing in
`AtomicLevels`), but does not apply later. The same id twice in a request is the
same as once. Values are opaque; a stored value is never changed by JSON
compaction. There is at least one layer. Keys of different caches are different
at every layer, as `CacheApi` shows of `prefix:key` when no prefix goes on where
another one and a `:` end.

### AsyncRunner

One request is a handler and the goroutine it starts. `Acquire`/`Block` are the
send on the channel with and without room, `Spawn` the `go` statement and the
return of the handler, `Finish`/`Panic` the end of `f`, `Recover` and `Release`
the deferred functions in their order. A receive hands its place to the first
blocked sender, as the Go runtime does, so the channel stays full while somebody
waits. All of it lives in memory: a restart is the initial state.

### RocksDbCF

`val` and `exp` are the column families, `ttlCache` the map. Each record in
`call` is a call with its program counter: the loop of `BatchGet` (`LookUp`,
`Load`, `Refill`, `Read`), its cleanup (`CleanUp`, then `Forget` and
`WriteDelete` of `BatchDelete`), `SetTtl` and `WritePut` of `BatchPut`, `Abort`
for a context that ends in a loop, and `CollectStart`, `CollectKey`,
`CollectWrite` of `collectOnce`. The keys of a batch are visited in any order.
The loops look at their context every 100 keys; batches of one or two keys stand
for such long ones, so `Abort` may happen at each key. Time is a counter, and the
TTL of a key is a constant. A batch is written atomically and survives a kill of
the process. The server never calls `StartTTLCollector`; `CollectorRuns`
says whether it was called. `doubtful` is history: the keys whose last put
overlapped another put, failed or was abandoned.

### ExternalFetch

One call of `GetAll`: `Call` groups the ids, `Spawn` is one turn of the loop
(`wg.Add`, a slot of the limiter, `go`), `GroupFails` and `GroupAnswers` are
`handleGroup` with its HTTP exchange, `Merge`, `Free` and `Done` the merge and the
two deferred functions in their order, `Return` the wait. All variables of the
code are local to a call, so calls do not meet and one at a time is enough. A
group fails when its body cannot be made (one key that is no number fails the
group), when its API has no URL, when the API fails, or when the client leaves.
`handleGroup` does not look at `Api.Enabled`: an API that is disabled but
described is asked, and the instance has one. Headers, JSON and the connection
pool are left out; an answer holds values or it does not.

### RedisLayer

`Begin` computes the size of the chunks as `calcChunkSize` does. `Send` takes any
keys for the next chunk, because a Go map and a client's request have no order.
`Execute` is one command of the server: MGET and UNLINK of the whole chunk, or
one SET of a pipeline, which is no transaction. `Retry` and `Fail` are a late or
lost reply: the commands that were not executed may be lost or be executed later
(`wire`, `Late`). How often the library tries is a constant: `redis.go` leaves
it at the library's default. `Expire` is the TTL in the server. Abstraction: Redis
evicts nothing on its own.

### CacheApi

| Action | Code |
|---|---|
| `Refuse` | `decompressGzip`, the Content-Type, the decoding and the empty batch |
| `HandleBatchGet` | `handleBatchGet` with the manager's answer: `Namesake` is the map from storage keys to requests, `Result` the join by cache and key |
| `HandleBatchPut`, `HandleBatchDelete` | the handlers up to the send on `tokens` (`Ask` of `WriterPool`) |
| `Spawn` | the token is there, `go`, the answer 200 (`Admit`) |
| `Run` | the goroutine: the whole batch is written, or the mapper panics and none of it is (`Leave`) |

The manager is one store that is read and written in one step: what happens
between the layers is in `LayeredCache`, what this module adds is whose value is
under which key and in which order batches start. A panic is a batch with an
entry without an id: the embedded `*CacheId` stays nil when the JSON has neither
`c` nor `k`. `Sent` is the body as it leaves the client; that of the command line
client has no `c` and `k` at all. A null is stored as the empty string, which
`json.Encoder` refuses: the status 200 is sent and nothing behind it. `outcomes`
is history: what an id may hold after its last write, that is what this write
asked for and what those asked for that were in flight when it came. Validation
lets a prefix hold the separator, so the instance has such prefixes: the ids of
two caches, one with prefix `l` and one with prefix `l:u`, do share storage keys,
in the code too. `Apart` names the ids of all other caches, and the properties
speak of them. What `MetricsMiddleware` counts is left out.

### Startup

`file` is what is at `configFilePath`, and `Edit` may replace it at any time.
`CreateCacheService` and `NewLayerProviderService` are the two readings;
`ValidProviders`, `ValidLayers`, `ValidCaches` are the checks of `model.go` with
the same names. `CreateDisabled`, `CreateService` and `CreateServiceFails` are the
turns of the loop of `CreateNewServiceList`: a Redis may not answer, a RocksDB
directory may be unreadable or locked, also by this process, and one that passes
validation may be no directory at all, or hold no database that
`createIfMissing` would make (`MayOpen`); Ristretto opens with what validation
lets through. A failure leaves no service in the list and
open what was opened; the process serves on. `Kill` stands for every end of the
process, also for a port that is taken. Names, prefixes and paths are strings that
are compared and never taken apart; the text of a size is a number, `NotASize` or
`NoSize`; a url is a class.

## 3. Runs

Passing runs:

| Run | Question | Bounds and why they are enough |
|---|---|---|
| `races` | `LayersReflectLastWrite`, `AnswersLastWrite`: is an older value ever seen after an undisturbed write? `LastLayerFollowsWrites`: what does the last layer hold when writes and fills overlap? `MissesAreAboveHits`, `FillLandsOnlyAbove`: where may a fill write? | one key, two values, three layers (volatile and lossy; lossy and failing; reliable), one getter with its fill, two writers, timeouts, restarts. Three layers are the smallest stack in which a fill writes at all when the value comes from a layer. |
| `batches` | `TypeOK`, `DisabledLayersEmpty`, `CascadeAccounts`, and that everything ends (`GoroutinesEnd`, fair) | two keys of two caches, one of which uses the first layer only, and a key of an unknown cache; partial writes, a failing layer and a failing API; clients that leave, fills and writers whose timeout passes. States that differ in the history variables only count as one (`VIEW NoHistory`): no guard, and none of the four properties but the types, reads them |
| `runner` | `TypeOK`, `TokensAreHeld`, `NobodyWaitsInVain`, `IsWriterPool`, and that who blocks gets on (`BlockedIsAnswered`, fair) | five requests for two tokens: a queue of up to three |
| `rocks_races` | `TypeOK`, `FamiliesAgree`, `MapNeverProlongs` | two callers of anything, the collector, failures, abandoned calls, an expiring and a lasting key, one value. `MapNeverProlongs` is about timestamps, which tell puts apart without values |
| `rocks_store` | `IsTtlStore` | one caller, both kinds of key in one batch, gets and deletes abandoned at any key, five units of time (two lives of a key), a restart |
| `external` | `TypeOK`, `CountsAgree`, `EveryIdOnce`, `IsExternalSource`, and that calls return (`CallReturns`, fair) | up to four groups for two slots; every way a group can fail; a client that leaves |
| `redis` | `TypeOK`, `FewestRequests`, `IsLayerStore` | one caller with batches of two chunks, one with single keys, two attempts a request, one late command at a time (`MaxWire`), chunks of one or two keys. `FewestRequests` is arithmetic: the theorem covers every size, also those raised to `MinChunk` |
| `http` | `TypeOK`, `AnswersArePuts`, `LastWriteHolds`, `GetsSeeLastWrite`, `GetsAreAnswered` | three requests for two goroutines (one always may wait), two caches whose prefixes and keys run into each other without the separator, one of them with the separator in its prefix, two caches whose storage keys collide, an id of an unknown cache, batches with duplicates, a null, an entry without an id. Requests are symmetric |
| `start` | `TypeOK`, `LevelsConfigured`, `LayersAreApart`, `LayerlessByFailure`, `HeldAreServed` | a sound file with three layers and two caches, and 25 that differ from it in one part: each kind of provider refused, databases that pass validation and are created or never open, layers that repeat or lack a provider, two RocksDB layers on one directory, caches with repeated prefixes or a setting too few. The file may change at any step |

Runs that end in a violation, each of a sentence of the documentation:

| Run | Property | What happens |
|---|---|---|
| `found_is_stored` | `FoundIsStored` | the answer ends the context of the fill before its first call |
| `evict_sticks` | `EvictSticks` | a fill in flight stores an evicted value again |
| `cli_put` | `PutsAreStored` | the body of `put-all` names the id in a way the server does not read; the batch is answered 200 and panics |

Read off the code while modelling, without a run of their own:

- a fill covers the levels up to the hit minus two (`cache_manager.go:101`), so the
  layer directly above a hit is never filled, nor the last layer from the
  external source, against `app/README.md:38` (`FillsSkipTheLayerAbove` proves
  it);
- a key that the last layer skips is never asked of the external source
  (`cache_manager.go:63`), against `app/README.md:39`;
- the cleanup of `BatchGet` may remove a value put after the key was judged
  expired (`rocks_db.go:230`), against `rocks_db.go:49`;
- one null in the store loses the answers of all other ids of a batch
  (`router.go:135`), against `app/README.md:50`; `GetsAreAnswered` says that this
  is the only way to lose an answer;
- `router_test.go:123` expects 413 for a large body, the code answers 400;
  `metrics.go:22` says each request is counted, a refused gzip body is not;
- the documented key `Api:` is not the tag `api` the code reads, and its url
  has no scheme, so that it would not pass `validateIntegrationApi`;
- `handleGroup` does not look at `Api.Enabled`.

`LayersReflectLastWrite` holds because fills write so little as much as in spite
of it: it speaks of keys whose last write overlapped no GET, fill or
write, and was not hit by an error. `EvictSticks` is the same without that
premise, and fails. What is left without the premise is `LastLayerFollowsWrites`:
no fill reaches the last layer, so what overlaps there are writes only, and one of
those that were in flight last is the one that stays.

`MapNeverProlongs` leaves out `doubtful` keys because the code does: `setTTL`
changes the map before the batch is written (`rocks_db.go:170`), and when the
write fails, or stops half way, or another put of the key overtakes it, the map
is ahead of the database until the next put, delete or restart.

`LastWriteHolds` allows a settled id several `outcomes` because the code orders
nothing: two batches of one id that wait or run together end in either order
(`async_adapter.go:87`).

CHECK_DEADLOCK is left on everywhere: there is always another request.

### Fairness

Only the system's own steps are fair, weakly: the steps of a cascade, of a fill,
of a writer, of the runner's goroutines, of a provider call. The Go scheduler
runs every runnable goroutine, and each provider or HTTP call ends because of a
context or a client timeout (`async_adapter.go:106`, `http_fetcher.go:63`). No
request, timeout, loss, failure, tick or restart has to happen. In `ExternalFetch`
the loop and each group's goroutine are fair by themselves: an HTTP exchange ends
by `cfg.Timeout` or the default of 15 seconds (`http_fetcher.go:63-68`).

## 4. Theorems

All are of the form `Spec => []I` or an action property, for any keys, values,
callers, layers, configurations and bounds, from the named assumptions on the
constants only (`LevelsAssumption`: there is a layer; `CachesAssumption`,
`SourceAssumption`, `CapAssumption`, `TtlAssumption`, ...: the types of the
constants; `NoValueAssumption`, `NeverAssumption`: the marks differ from data;
`PrefixAssumption`: prefixes differ; `FilesAssumption`: a
file is three lists). Five theorems assume more:

- `LastWriteIsHeld`, `RestPutsAreStored`, `GetsTellLastWrite` and
  `GetsFindAnAnswer` of `CacheApi`: the clients send the documented bodies,
  `Clients \subseteq {"rest"}`; `cli_put` shows that they need it;
- `ProviderIsTtlStore`: `Alone`, that is one caller at a time, no failing
  database, no put abandoned half way (gets and deletes may be), and the collector
  not started, which is how the server runs it. An abandoned put leaves the map
  ahead of the database (`rocks_db.go:170`), and the refinement does not hold. With two callers the cleanup of a get may remove a
  value put meanwhile (`rocks_db.go:230`) and the refinement does not hold; what
  still does, for any callers and failures, is in `FamiliesAlwaysAgree` and
  `MapNeverProlongsALife`.

| Theorem | States | Argument |
|---|---|---|
| `TypeCorrect` | `TypeOK` of `LayeredCache` | inductive by itself |
| `DisabledLayersStayEmpty` | `DisabledLayersEmpty` | inductive with `TypeOK`: every change of a layer is of `EnabledKeys` |
| `CascadeAccountsForAll`, `MissesStayAboveHits` | `CascadeAccounts`, `MissesAreAboveHits` | inductive only together and with `CascadeProgress` (levels not reached have no result; only ids of the request are looked for): `CascadeInv` |
| `FillsLandOnlyAbove`, `FillsSkipTheLayerAbove` | `FillLandsOnlyAbove`, and that a layer between is left out | from `CascadeInv`: what a fill puts was missed at a level, hence found strictly below it, and a fill puts strictly above the level that missed (`FillInv`) |
| `LayersFollowLastWrite`, `AnswersFollowLastWrite` | `LayersReflectLastWrite`, `AnswersLastWrite` | `LastWriteInv`, see below |
| `LastLayerFollows` | `LastLayerFollowsWrites` | `LastLayerInv`: what a write in flight puts is in `recent`, and when a write of a key ends without an error it has just left that in the last layer; a fill stays above its level (`FillInv`), hence above the last |
| `RunnerTypeCorrect` | `TypeOK` of `AsyncRunner` | inductive together with the two that follow |
| `TokensAreAlwaysHeld` | `TokensAreHeld` | inductive with `TypeOK` and `NobodyWaitsInVain`; the cardinality of the holders follows each step |
| `NobodyEverWaitsInVain` | `NobodyWaitsInVain` | inductive with `TypeOK` |
| `RunnerIsWriterPool` | `IsWriterPool` | each step is an `Ask`, `Admit`, `Leave` or a stutter; an admission is below the capacity because the admitted handler holds a token |
| `FetchTypeCorrect`, `CountsAlwaysAgree` | `TypeOK`, `CountsAgree` of `ExternalFetch` | together: the counters stay natural because they are cardinalities, and the cardinalities follow the goroutines |
| `EveryIdOnceForAll` | `EveryIdOnce` | with `CallState` (a merging goroutine holds one of the two results of its group) and `FinalState` (the merged result is made of those of the merged groups) |
| `FetchIsExternalSource` | `IsExternalSource` | the step is `Return`: the counter is zero, so all goroutines have merged, and the failing caches are those whose result was skipped; every other step stutters or is an `Ask` or a `Take` |
| `RedisTypeCorrect` | `TypeOK` of `RedisLayer` | with `Accounted`: a chunk is of `ChunksOf`, and sizes are at most `MaxChunk` (`SizeBounds`) |
| `FewestRequestsForAll` | `FewestRequests` | requests done plus those needed for what is left is constant; `OneLess` shows it for one chunk, from `|rest| <= size * Ceil(|rest|, MaxChunk)` |
| `RedisIsLayerStore` | `IsLayerStore` | `Send` and `Reply` stutter, `Retry` and `Fail` leave commands behind, and a call that succeeds has applied what is no longer left |
| `ProviderTypeCorrect`, `FamiliesAlwaysAgree` | `TypeOK`, `FamiliesAgree` of `RocksDbCF` | inductive with `CallsComplete`: a put carries a value, a get at a key names it |
| `MapNeverProlongsALife` | `MapNeverProlongs` | `MapInv`, see below |
| `ProviderIsTtlStore` | `IsTtlStore` | `AloneInv`, see below |
| `StorageKeysInjective` | two configured ids with one storage key are one id, when one of them is `Apart` | of two prefixes of one storage key the shorter begins the longer and is followed by the separator there, which `Apart` excludes; so they are equal, hence the caches, hence the keys |
| `TypeCorrect`, `NoValueCrosses` | `TypeOK`, `AnswersArePuts` of `CacheApi` | what is stored under an id was put under it or is a null's (`StoreOK`), for the map keyed by storage keys (`WrittenIs`) and for the join (`HitsAreHeld`, `ResultIs`) |
| `LastWriteIsHeld`, `RestPutsAreStored` | `LastWriteHolds`, `PutsAreStored` | with `WritersOK`: what a batch in flight will leave under an id is one of its `outcomes`; when none is in flight the store holds one of them |
| `GetsTellLastWrite`, `GetsFindAnAnswer` | `GetsSeeLastWrite`, `GetsAreAnswered` | the step is `HandleBatchGet`, which reads the store that `LastWriteHolds` speaks of |
| `TypeCorrect`, `EveryLevelIsConfigured`, `LayersStandApart`, `LayersGoByFailureOnly`, `HeldAreTheServed` | the invariants of `Startup` | one inductive invariant: what a file that loads gives (`LoadedCaches`, `LoadedLayers`), that both readings agree unless the file was edited (`ReadOK`), and what is held in each phase (`Phases`) |

The three longest arguments:

`LastWriteInv` (`LastWriteProofs`). The two properties speak of settled keys,
whose write is over; while it runs nothing is settled, so neither is inductive.
The invariant speaks of the *clean* keys, whose last write has met no other use
and no error, whether it still runs or not. For such a key (`KeyInv`) a running
write is the only use of the key (`Alone`); the layers it has passed hold what
the property says, and all of them do when it is over (`Follows`); a GET that
came later has found one of these values, or nothing so far, and has found one
if it passed a layer that surely holds it (`Learns`). A GET whose context ended
may have gone past such a layer empty-handed; the proof needs that its fill then
calls no layer, or the older value of the source would be stored above the put.

`MapInv` (`RocksDbProofs`). The map may be behind the database, never ahead of
it, except by what a put has set and not written yet. An older timestamp may be
on its way from the database to the map, in a get that has read it and not
stored it. So the invariant bounds three places at once for each key that is not
doubtful: no timestamp in the database, the map or such a get is later than the
running put's, nor than the stored one's when no put runs; and none is later
than now plus the TTL, from which the next put starts (`PutsInOrder`).

`AloneInv` (`RocksDbProofs`). With one caller the map is at most ahead of the
database by the running put (`MapOK`), and what a get has collected of the keys
it has come to is what the abstract store answers for the time at which the get
began, the keys it is about to remove as expired included (`Answered`, `GetOK`).
Then `Begin` and `Return` are `Begin` and `Get`,
`WritePut` is `Put`, `WriteDelete` is `Delete` or, for the cleanup of a get,
`Purge` of expired keys, an abandoned get or delete is `GiveUp`; each other step
stutters, but `Tick` and `Restart`.

Left to TLC: what fairness is needed for (`GoroutinesEnd`, `BlockedIsAnswered`,
`CallReturns`), which the prover does not reach. Every other property of the
passing runs is a theorem. `FewestRequests` is about the cardinality of what is
left, not about a recursion, so its proof needs no induction over data.

## 5. What is not modelled, and the plan

Open, in this order:

1. A restart with other TTLs, which reaches the stale timestamp of
   `rocks_db.go:261`: a key put without TTL over one that had a TTL still expires,
   against `config/model.go:426` (`0 = no expiration`). `Ttl` is a constant of
   `RocksDbCF`, so `FamiliesAgree` and `IsTtlStore` speak of one configuration.
2. Writes of `LayeredCache` that land after their call, as `LayerStore` allows.

Not modelled:

- the buffered `Set` of Ristretto and the insides of the other libraries, which
  are external and modelled by what the code relies on: for Ristretto that a
  pair may be missing at any time (`Lose`);
- the flags and the output of the command line client;
- the Prometheus registry and the logger, which nothing in the service reads;
- the bytes of JSON, gzip and YAML: what they keep, lose or refuse is modelled.
