# TLA+ models, checks and proofs of xlgo-core

xlgo-core is a Go web framework: an `App` that opens configuration, logger,
database, Redis, storage, tracing and scheduler, serves HTTP with gin, and
closes all of it again. Most of its own logic is not in the handlers but in
what surrounds them: goroutines that start and stop, defaults that are swapped
under running callers, retries, timeouts and roll-backs, middlewares that a
request meets in any order, and loops that end for one of several reasons.
These modules model that part. Every definition is translated from the source,
and `PROJECT.json` says from which lines.

Names in the modules are those of the code wherever TLA+ allows it; labels such
as C11b, M1 or P1 #8 in comments are those the source and `CHANGELOG.md` use for
the same guarantee.

## 1. Inventory

### Modelled

| component | source | state | operations | what is hard |
|---|---|---|---|---|
| cron scheduler | `cron/cron.go` | task table, `running` guard of each task, `NextRun`, context, `wg` | `AddTask`, `RemoveTask`, `EnableTask`, `DisableTask`, `RunTask`, `Start`, `StopWithTimeout`, the loop, the jobs | the loop, its jobs, manual runs, a stop that gives up and a restart overlap |
| schedules | `cron/cron.go` | none but the schedule of a task | `ParseCronStrict`, `Next` of the four schedules | two names of Sunday, days and weekdays, steps, ends of ranges |
| application | `app.go` | `state`, `initMu`, `lifecycleMu`, `shutdownOnce`, parts, hooks, `wg`, HTTP server | `Init`, `failAfterInit`, `Run`, `StartServer`, `Shutdown`, `Go` | anyone may call anything at any time; one time budget for hooks, requests and goroutines |
| defaults and logger | `app.go`, `logger/logger.go`, `database/manager.go` | default manager, global writers, generation, snapshot of each App | start, commit, roll-back and shutdown of several Apps | each App replaces globals that another still uses |
| websocket hub | `ws/ws.go` | three bounded queues, connection map, send buffers, `stop`, `runDone` | `Register`, `Unregister`, `Broadcast`, `Run`, `Stop`, `Handle`, `writePump` | full queues, slow clients, `Stop` before, during and after `Run` starts |
| database manager | `database/manager.go` | master, replicas, health flags, failure counter | `InitDB`, `InitDBWithReplicas`, `Close`, `StartProbing`, `Replica` | rebuild and close under readers and the prober |
| repository | `repository/repository.go`, `database/manager.go` | frames of nested transactions, what a replica has seen | `Transaction`, reads, writes, `FindPage` | which connection an operation reaches; others write in between |
| distributed lock | `cache/lock.go` | the key in Redis with its time to live | `NewLock`, `TryLock`, `WithLock`, `WithLockAutoExtend`, `Unlock`, `ExtendLock`, `ForceUnlock` | expiry, lost replies, the extender beside the function |
| cache | `cache/cache.go` | the keys in Redis, the cursor of `SCAN` | `Set`, `Delete`, `DeleteByPattern` | keys come and go during a scan; the client may be missing |
| configuration | `config/config.go` | typed and viper view, watcher of each manager, default manager | `Load`, `LoadWithWatch`, `SetDefaultManager`, `StartWatcher`, `StopWatcher`, `Reload`, `Set`, the watch loop | a file that changes while managers are replaced |
| limiters in memory | `middleware/ratelimit.go` | registry slots, windows, cleanup goroutines | the handlers, `Allow`, `Stop`, `Init`, `CustomRateLimit`, `cleanupLoop` | created by a request, stopped by another, created again |
| limiter in Redis | `middleware/ratelimit.go` | the sorted set and its time to live | `Allow` with both policies, `Reset`, `GetCount` | the clock is read before the call; replies are lost |
| JWT | `jwt/jwt.go`, `middleware/auth.go` | tokens, blacklist, secret | `GenerateToken`, `ParseToken`, `InvalidateToken`, `RefreshToken` | check, revoke and issue are three steps, and Redis may fail in each |
| CSRF tokens | `middleware/csrf.go` | the map of API tokens and their ages | `GenerateAPIToken`, `CSRFForAPI`, both cleanups | one token used by two requests while a third cleans up |
| chain of middlewares | `middleware/*.go` | the request's keys, body, answers | `Recover`, `Metrics`, `Timeout`, `Logger`, `CORS`, `CSRF`, `AuthRequired`, `RequireRoles` | every order, and a panic anywhere |
| router | `router/router.go` | global middlewares, modules, versions, `applied` | `Use`, `Register`, `RegisterVersion`, `Apply` | `Apply` works on a snapshot outside of the mutex |
| health checks | `router/router.go` | one slot for each check | the probe handlers and their checks | an answer that comes after its receiver has left |
| storage | `storage/storage.go` | the instance, files, parts of files | `Upload`, `UploadFromBytes`, `Get`, `Delete`, `Init` | any read, write, close or removal fails |
| archives | `compress/compress.go` | what is on disk | `UnzipWithOptions`, `UnGzipWithOptions`, `Zip`, `Gzip` | three limits that meet at one byte |
| HTTP client | `utils/http.go` | configuration, transport and client | setters, requests, `Upload` | a writer, a reader and a caller that wait for one another |
| tracing | `trace/trace.go` | global provider, provider, tracer | `Init`, `Close` | globals replaced one after the other; a shutdown that its deadline cuts short |
| event streams | `sse/sse.go` | the channel, what was written | both stream loops | one `select` for items and for the end |

How they interact. `App.Init` creates a manager per component, opens it and
swaps it into the package's default pointer; package functions (`database.GetDB`,
`config.Get`, `logger.Info`, `cache.NewLock`) act on the default of the moment.
`App.Go` runs the prober of the database under the App's root context; the App
owns one cron scheduler. `Shutdown` runs the `OnStop` hooks, cancels the root
context, drains HTTP, waits for the goroutines of `Go`, stops cron, closes the
parts. So the contexts of `CronScheduler` and `DbManager` are cancelled by steps
of `AppLifecycle`, and `MultiApp` has the steps of `AppLifecycle` that touch
globals, for several Apps. A request passes `RequestChain`; the guards of the
chain ask `RateLimits`, `SlidingLimit`, `JwtTokens` and `CsrfTokens`. A handler
behind them uses `RepoTx`, `CacheService`, `RedisLock`, `Storage`, `Archive`,
`HttpClient` and `SseStream`. Those share no state with one another: what they
have in common is a Redis or a database that fails or is missing, and each
module lets it fail at every call.

What makes each of them correct is stated with the runs in section 4.

### Not modelled

| component or part | source | why |
|---|---|---|
| Redis manager | `database/redis.go` | one mutex around the swap of a client; its default is swapped like the one of `MultiApp`, and its users may find it missing or replaced at any step |
| dialects, TLS | `database/dialect.go`, `database/tls.go` | formatting of SQL and DSN strings, a registry written at start-up |
| key building, the other cache operations, counters | `cache/keybuilder.go`, `cache/cache.go` | strings; one Redis command per call |
| queries | `repository/repository.go` | what a query returns is GORM's; `Create` and `Delete` stand for the writes |
| responses, handlers, validation, the other utilities | `response`, `handler`, `validation`, `utils` | stateless functions of one request |
| checks of names, paths and file types | `storage`, `compress` | string processing; a refused entry is one that was refused |
| options of `New`, log levels, layout of log lines and metrics | `app.go`, `logger`, `middleware` | set before anything runs, or text |
| upgrade, origin check, ping and read limits | `ws/ws.go` | of the websocket library |
| console, command line, examples, fixtures | `console`, `cmd`, `examples`, `test` | output and code generation |

A change of the configuration file between its first reading and the watching of
its directory (`config.go:716`) is seen by nobody until the next change: the
model speaks of changes the watcher was told of. An OSS upload whose answer is
lost (`storage.go:567`) is in the model, but whether the object is there is
promised by nobody. The calendar of `CronSchedules` is a small one; as in the code
the search ends after the longer of two years (`cron.go:487`), so that the day a
leap year adds may be given up, and the property says no more than that. Sizes
have no width in `Archive`: with `MaxBytes` at the largest `int64`, `limit + 1`
(`compress.go:101`, `191`) is negative and an archive unpacks to nothing without
an error. `SlidingLimit` takes the members of the sorted set to be distinct, as
`ratelimit.go:190` wants: of two requests in one millisecond that is so only as
far as Redis gives the script different random numbers.

## 2. Plan

Written, in this order: `CronScheduler` and its proofs, `AppLifecycle`, `WsHub`,
`DbManager`, `RedisLock`, `MultiApp`, `ConfigManager`; then the guards
(`RateLimits`, `SlidingLimit`, `JwtTokens`, `CsrfTokens`, `RequestChain`), the
services (`HealthChecks`, `RouteRegistry`, `Storage`, `RepoTx`, `HttpClient`,
`Tracing`, `CacheService`, `SseStream`, `Archive`, `CronSchedules`), and
`AbstractLock`, which `RedisLock` implements. Then their proofs, component by
component, the compositions last.

Abstract specifications still worth stating: a set of running tasks, which
`CronScheduler` implements; one configuration cell for `ConfigManager`.

Every safety property that a passing run checks is a theorem too. Still worth proving:
that `CronScheduler` and `ConfigManager` implement those two abstractions.

## 3. Modules

| module | models | checked or proved by |
|---|---|---|
| `CronScheduler` | `cron/cron.go`, one scheduler | `MCCron`, `CronSchedulerProofs` |
| `CronSchedules` | `cron/cron.go`, the parser and `Next` | `Services`, `ServiceProofs` |
| `AppLifecycle` | `app.go`, one App | `MCApp`, `AppProofs` |
| `MultiApp` | the globals several Apps share | `MCManagers`, `AppProofs` |
| `WsHub` | `ws/ws.go`, one hub | `MCWs`, `WsHubProofs` |
| `DbManager` | `database/manager.go`, one manager with its prober | `MCManagers`, `DbManagerProofs` |
| `RepoTx` | `repository/repository.go` over `database/manager.go` | `Services`, `ServiceProofs`, `MCPages.cfg` |
| `AbstractLock` | what a lock with leases promises; no code | `RedisLockProofs` |
| `RedisLock` | `cache/lock.go`, one key; implements `AbstractLock` | `MCLock`, `RedisLockProofs` |
| `CacheService` | `cache/cache.go` | `Services`, `ServiceProofs` |
| `ConfigManager` | `config/config.go`, all managers and the default | `MCConfig`, `ConfigManagerProofs` |
| `RateLimits`, `SlidingLimit` | `middleware/ratelimit.go`, in memory and in Redis | `Guards`, `GuardProofs` |
| `JwtTokens`, `CsrfTokens` | `jwt/jwt.go` with `middleware/auth.go`; `middleware/csrf.go` | `Guards`, `GuardProofs` |
| `RequestChain` | the handlers of `middleware/` around one request | `Guards`, `GuardProofs` |
| `Archive` | `compress/compress.go` | `Guards`, `GuardProofs` |
| `RouteRegistry`, `HealthChecks` | `router/router.go` | `Services`, `ServiceProofs` |
| `Storage` | `storage/storage.go` | `Services`, `ServiceProofs` |
| `HttpClient`, `Tracing`, `SseStream` | `utils/http.go`, `trace/trace.go`, `sse/sse.go` | `Services`, `ServiceProofs` |
| `Sums` | the sum of the first values of a function, with which the limiters and the archives count | `Guards`, `GuardProofs` |

`Guards` and `Services` put modules that share no state into one specification
each; both are parametric. `MCGuards.cfg` gives the first its bounds, `MCServices`
the second its expressions and buckets. A variable (`part`, `service`) names the
module a behaviour belongs to; the others stay in an initial state. Nothing is
checked of an interaction between parts, because the code has none. `MCManagers`
does the same for a database manager and for the Apps that swap such managers.
Its Apps are alike, so they start in the order of their numbers, and at most
`MaxMoving` of them start or shut down at once; the theorems about `MultiApp` have
neither bound.

Conventions. A section that runs under a mutex is one step; between two such
sections everything else may happen. A blocking receive, a `Wait` or a `select`
is a step with a guard. Where a critical section is itself of interest
(`lifecycleMu` held from the check to `wg.Add` in `Go`) its lock is a variable.
Failures of a database, of Redis, of the file system, of fsnotify or of a hook
are nondeterministic steps, and a call to Redis that fails may have been carried
out. Where the code compares a time only with *now*, the model keeps an age
instead of a clock.

Operators marked *mutant* are deliberate errors that no specification uses; each
stands before the definition it can replace. `PROJECT.json` pairs one with each
property that is checked; the others break the remaining conjuncts of a property
that has several. Variables that the code does not have (`overdue`, `lost`,
`overlapped`, `raced`, `passed`, `unlucky`, ...) remember what a property needs to
say.

Correspondences that are not obvious:

- `CronScheduler`: a spawned goroutine is named by its task object and the slot
  it runs for, so `jobPc` is also the record of which slots ran. The goroutine
  that a timed `StopWithTimeout` leaves in `wg.Wait` is `waiter`; `wg.Add` on a
  WaitGroup whose waiter has been released and has not yet returned is a panic
  (`crashed`), as the documentation of `sync.WaitGroup` has it.
- `AppLifecycle`: `part` says whether a component is open, `own` whether the
  package default is this App's. `expired` is the deadline of `doShutdown`;
  `overdue` remembers that a wait was given up, after which the code closes
  parts under running goroutines on purpose.
- `WsHub`: `hand` is what Run has received from a queue and not yet applied. A
  broadcast is applied to all connections in one step because it holds `h.mu`.
- `DbManager`: a pool is an identity with the server it was opened for. The
  prober's copies (`probePool`, `probeSnap`, `probeShared`) are the slices it read
  before it pinged.
- `RedisLock`: the key holds the token of a call (worker and call number) and a
  counted time to live; `lost` are tokens whose key expired or was deleted by
  force while they held it.
- `MultiApp`: each App's log files are one unit; the generation is the counter of
  `logger.go`. `overlapped` remembers that two Apps were started or stopped at the
  same time.
- `ConfigManager`: a configuration is its age and whether it is accepted. Events
  of fsnotify reach every open watcher at once; the debounce timer is a flag.
- `RateLimits`: a window is the age of its start and a count; `holder` is the
  request that has made a limiter and not yet registered it. `SlidingLimit`: the
  set holds the ages of its scores, and a late script works with an old one.
- `JwtTokens`: a token is its `jti`; it counts as signed with the secret of its
  time. A parse is split where it asks the blacklist, a refresh where it checks,
  revokes and issues.
- `RequestChain`: a chain is a sequence of handler names, any order included; `at`
  and `way` say how far the request came and whether it is on its way in, on its
  way back or unwinding from a panic.
- `RepoTx`: a frame is a transaction or a savepoint; what was written in it is
  applied to the frame below at its end. The code asks for no isolation level, so
  `Snapshots` is the default of the driver: whether a transaction reads the rows
  of its beginning (`snap`, MySQL) or those committed by each statement
  (PostgreSQL).
- `Storage`, `Archive`: sizes are counted in units; `breaks` is the unit at which
  a source fails. `given` is what a caller was told, `litter` a part of a file
  whose removal failed.
- `HttpClient`: `pipe` says which end of the `io.Pipe` is closed; the writer's
  goroutine, the caller and the transport each take steps of their own.
- `Tracing`: `live` are the providers whose exporter runs, `cut` those of them whose
  shutdown its deadline or its context cut short (`trace.go:187-194`,
  `app.go:1276`): `Init` drops the error of that, `Close` returns it, and nobody
  can shut the provider down again. `EndsLate` is such an exporter that ends
  after all.
- `CacheService`: `SCAN` goes through buckets. A key that is there from beginning
  to end is returned, any other may be.
- `CronSchedules`: a field is a set of parsed items, a time is counted in half
  minutes. The properties compare `Next` with a definition of its own of which
  minutes a schedule names (`Says`), written from the syntax that the comments
  document and not from the search: a range of weekdays goes on past Sunday,
  stepped or not. Where the code does not keep to that (`StepsOverSunday`) the
  properties say so. The calendar has two months and a leap day every other year.

## 4. Runs

| run | bounds | states | shows |
|---|---|---|---|
| `cron` | 2 names, 2 task objects, 2 edits, 2 contexts, a clock of 3 s, 1 caller | 420,000 | `GuardMutex`: no task overlaps itself and no guard is left taken. `StopIsRespected`: the WaitGroup counts what lives, a stop cancels the context of every job, a stopped loop spawns nothing, and a stop that says so left none of its goroutines. `TasksRun`: `NextRun` only grows, stops end, due tasks run |
| `app` | Run and 2 callers, 3 parts, 2 hooks, 1 request, 2 goroutines of `Go` | 150,000 | `PartsStandWhileUsed`: one goroutine changes the parts, and nothing in use is closed before the budget is spent, hooks included. `RollbackRestoresDefaults`: no default points to a closed part. `ShutdownIsFinal`: every call of `Shutdown` returns, with the App stopped, and no goroutine is added after the cancellation |
| `ws` | 2 connections, 2 stoppers, queues and buffers of 1, 3 calls | 430,000 | `NothingStaysOpen`: a connection handed to the hub is queued, registered or closed, and after any `Stop` everything is closed and drained. `HubKeepsGoing`: `Stop` returns, broadcasts are consumed, goroutines end |
| `managers` | master, 2 replicas, 8 pools, 2 attempts, threshold 2, 3 calls, 2 outages; 3 Apps, of which 2 move at once | 683,000 | `PoolsAreKnown`: what Master and Replica return is open, an open pool is published or in hand, and a health flag belongs to the replica at its index. `FlagsSettle`: with a prober running, flags and routing come back to the truth. `RunningKeepsResources`: no App closes what a running one uses. `RollbackIsClean`: a failed start puts back the defaults and the generation |
| `lock` | 2 workers with 2 calls each, time to live 2, interval 1, 2 tries, 1 forced unlock | 480,000 | `MutualExclusion`: two holders only after expiry or force. `ExtendedLockIsKept`: an extender that has not failed keeps the lock. `LockComesBack`: releases return, a lock left behind is free again. `IsALock`: all of it is a lock with leases |
| `config` | 2 callers, 2 managers beside the blank one, 2 watch loops, 2 changes, 3 calls | 455,000 | `NoForgottenLoop`: a running watch loop can be stopped or is being stopped. `NoOrphanWatcher`: replacing the default leaves no watcher. `ChangeIsServed`: an accepted change that is watched reaches `Get` |
| `guards` | 2 callers; limiters: 1 slot, 1 handler, 2 limiters, rate 2; sliding window of 3; 2 tokens, 2 secrets, lifetime 2; 3 API tokens; chains of 3; archives of 3 units | 1,180,000 | see below |
| `services` | 2 callers (1 where they share nothing), 2 probes, 2 modules, files of 3 units, 2 nested transactions, 3 providers, 2 keys, 3 items, 2 uploads over HTTP, 4 minutes in 2 hours, 179 expressions | 202,000 | see below |
| `cron_reuse`, `db_closed`, `config_views`, `pages` | as above; `pages`: 1 caller, 2 rows, pages of 2 | | a disagreement of the code with its own documentation each; see section 6 |

Of the guards:

- `BurstBound`: the fixed window lets less than twice its rate through in one
  span, which is the most a fixed window can promise. `RefusedOnlyWhenFull`: a
  client below the rate is never refused. `LimitersCanBeStopped`: a cleanup
  goroutine belongs to a limiter of the registry or of the request that is
  registering it, also when a request creates it after `Stop`.
- `SlidingBound`: in whatever order its scripts run, Redis lets no more than the
  rate through in a window shortened by their lateness; with the closed policy a
  request is let through only if it was counted.
- `RevokedIsRefused`: a token whose revocation was confirmed is refused by every
  parse that begins later and fails closed, whatever Redis does meanwhile.
  `RefreshReplaces`: a refresh that issued a token has killed the old one.
- `TokensSingleUse`: an API token passes at most once, whatever is cleaned up
  meanwhile, and a fresh one is refused only when it was spent.
- `HandlerIsGuarded`: in no order of the chain is a handler reached past a guard
  in front of it. `AnsweredOnce`: a request is answered, once, unless its handler
  panics before it writes and the chain has no `Recover`; it is counted in and
  out; credentials go only to an admitted origin.
- `LimitsHold`: nothing beyond a limit stays on disk, what is within is unpacked,
  and success means everything.

Of the services:

- `AcceptedIsApplied`: what a registration accepted reaches the engine, once.
- `OneCheckInFlight`: a check never overlaps itself. `BegunIsEnded`: every probe is
  answered, the slot of a check that ends comes back, every upload returns, every
  stream ends after its client left.
- `StoredIsWhole`: an upload that was confirmed is whole, what failed leaves
  nothing unless its removal failed, and a read is whole. The two exceptions of
  the code are stated in the property: a probe for one byte more whose error is
  dropped, and an OSS answer that is lost.
- `TransactionsAreWhole`: what was created through a transaction is committed with
  it and never before, and reads that join it see it, however far a replica lags.
- `UploadIsWhole`: an upload that succeeded was written to the end; the client in
  use has every setting made so far.
- `OneExporterRuns`: of `Init` and `Close` that overlap none asks the current
  provider to shut down or forgets another one: an exporter that is left was asked
  to end, and its shutdown was cut short.
- `PatternIsDeleted`: a key that was there when the deletion began is gone.
- `DoneMeansAll`: the closing event means that every item was sent, in order.
- `NextIsTheEarliest`: `Next` answers a later minute that the schedule names by the
  documented syntax. It is the earliest, and `Next` gives up only when none is
  named in the span it searches, unless a range of weekdays steps over Sunday
  (section 6).

Why the bounds are enough. Each is the smallest at which the interesting case
exists: two objects under one name (removed and added again while the first
still runs), two contexts (a restart while the old loop and the old waiter
live), two stoppers (the second joins the first), queues of one entry (the third
call finds them full), eight pools (a rebuild of three while three old ones are
being closed and the prober holds more), a second call of the same worker (it
meets the lock it left behind), a third App (one starts while one fails and one
runs), a second change of the file (during the callbacks of the first), two
limiters (the one that was stopped and the one a request creates after it),
chains of three (a guard, a handler that fails, one that recovers), a third API
token (above the threshold of the cleanup), a rate of two (a request that meets
the limit and one that does not), three units of size with limits of one and two
(below, at and above each), three tracing providers (two that overlap and the
one before them), three buckets of keys (an empty one between two that are not).
Where a part of `services` has one caller, two would not meet: each has its own
transaction, upload or file. Counters of calls, edits, outages, probes and
uploads only bound the number of such events. Systems with these bounds come to
rest, so deadlock is not an error in them.

### Fairness

Only what the Go runtime guarantees: a goroutine that can take a step takes one,
and timers and tickers fire. Nothing is assumed of callers, of hooks, requests or
functions that the application supplies, with these exceptions, which the source
asks of its users: a cron handler returns once its context is cancelled
(`StopReturns` of `cron`), and the callbacks of a configuration return. In
`WsHub` a client may never take a message; in `RedisLock` the function may never
end; in `AppLifecycle` hooks and goroutines may never end, and `Shutdown` returns
all the same; in `HealthChecks` a check may never return, and its probes are
answered all the same. `DbManager` assumes that a ping ends, as `pingWithTimeout`
makes it, `HttpClient` that a request ends, as its timeout makes it. In
`SseStream` a `select` that finds the context done again and again takes it in
the end (strong fairness): Go chooses among ready cases at random. The items a
producer sends are not assumed to be infinitely many or to end.

## 5. Proofs

What holds is proved for any sets and bounds that satisfy the named assumption of
the module; each assumption is evaluated by TLC in the run of its module. Most
assumptions say that bounds are naturals, that sets which are counted are finite
and that a constant such as `NoTask` or `None` is no member of a set. Beyond that
two restrict something: `LockAssumption` has `Interval < TTL`, and
`SlidingAssumption` has `Late < SlideWindow`, a script that is late by less than the
window. Limits of archives are not zero, because the code reads zero as its default.

| theorem | module | states | for any |
|---|---|---|---|
| `TypeInvariant` | `CronSchedulerProofs` | `[]TypeOK` | names, callers, bounds |
| `MutualExclusion` | | `[]GuardMutex` | |
| `StopRespected` | | `StopIsRespected` | |
| `NextRunOnlyAdvances` | | `NextRunAdvances` | |
| `PartsStand` | `AppProofs` | `[]PartsStandWhileUsed` | callers, workers, requests, parts, hooks |
| `RollbackRestores` | | `[]RollbackRestoresDefaults` | |
| `ShutdownReturnsOnlyStopped` | | `ShutdownReturnsStopped` | |
| `NothingStartsAfterCancel` | | `NoAddAfterCancel` | |
| `RunningAppsKeepTheirs` | | `[]RunningKeepsResources` | finite set of Apps |
| `FailedInitsLeaveNothing` | | `RollbackIsClean` | |
| `HubLeavesNothingOpen` | `WsHubProofs` | `[]NothingStaysOpen` | connections, stoppers, capacities |
| `PoolsStayKnown` | `DbManagerProofs` | `[]PoolsAreKnown` | pools, replicas, retries, threshold |
| `LockTypes`, `LockExcludes`, `ExtensionKeepsLock` | `RedisLockProofs` | `[]TypeOK`, `[]MutualExclusion`, `[]ExtendedLockIsKept` | workers, calls, retries, times with `Interval < TTL` |
| `LockIsALock` | | `IsALock`, the refinement of `AbstractLock` | |
| `LeasesExclude` | | `[]Exclusive` of `AbstractLock` | tokens |
| `ConfigTypes`, `LoopsAreRemembered`, `OrphansAreNone` | `ConfigManagerProofs` | `[]TypeOK`, `[]NoForgottenLoop`, `[]NoOrphanWatcher` | callers, managers, loops, changes |
| `RevocationHolds`, `RefreshRevokes` | `GuardProofs` | `[]RevokedIsRefused`, `[]RefreshReplaces` | callers, tokens, lifetimes, secrets |
| `TokensPassOnce` | | `[]TokensSingleUse`, with `RefusedWasSpent` | callers, tokens, times |
| `NoForgottenCleanup` | | `[]LimitersCanBeStopped` | callers, slots, handlers, limiters |
| `NobodyPassesAGuard`, `EveryoneIsAnswered` | | `[]HandlerIsGuarded`, `[]AnsweredOnce`, with `CredentialsNeedAnOrigin` | length and order of the chain |
| `BurstsStayBounded` | | `[]BurstBound` | rate, window, visitors, limiters, requests |
| `OnlyFullWindowsRefuse` | | `RefusedOnlyWhenFull` | |
| `SlidesStayBounded` | | `[]SlidingBound` | rate, window, lateness below the window |
| `UnpackedWithinLimits` | | `[]LimitsHold` | archive, sizes, limits |
| `OneCheckRuns` | `ServiceProofs` | `OneCheckInFlight` | probes, checks |
| `AcceptedStaysApplied` | | `[]AcceptedIsApplied` | callers, middlewares, modules, versions |
| `StoredStaysWhole` | | `[]StoredIsWhole` | callers, calls, sizes, limits |
| `TransactionsCommitWhole` | | `[]TransactionsAreWhole` | callers, rows, depth |
| `UploadsStayWhole` | | `[]UploadIsWhole` | callers, parts, uploads |
| `OneExporterIsLeft` | | `[]OneExporterRuns` | callers, providers |
| `PatternsStayDeleted` | | `PatternIsDeleted` | callers, keys, buckets |
| `DoneStaysAll` | | `[]DoneMeansAll` | items, buffer |
| `NextStaysTheEarliest` | | `[]NextIsTheEarliest` | expressions, minutes of an hour, hours of a day |

Hardly any of these properties is inductive. What each argument adds:

**Cron scheduler.** `GuardMutex` with `TypeOK` is inductive because it says not
only that holders exclude one another but that the guard is set exactly while
there is one; without the second half a step that claims a free guard could meet
a holder. `CronInv` has four parts more: `WgCountsGoroutines` (the counter is the
cardinality of live loops and jobs; one round of the loop adds the cardinality of
what it spawns, hence `SpawnedFinite`), `Contexts` and `StopReachesHandlers`
(a loop or a job that lives has the current context or one that is cancelled, and
after a stop the current one is cancelled too), `SlotsArePast` (a slot that was run
lies before the clock and before `NextRun`, so every claim is of a new slot, and
`NextRun` only grows) and `WaitSawZero` (the `Wait` of a stop has returned only
with the counter at zero, and nothing is added before that stop returns).

**Application.** The difficulty is that what has happened to the components is
known only from where the holder of `initMu` is. `Stage` is that place, and
`Past(S)` says that it has come to one of `S` or that the App is stopped. `AppInv`
then relates each piece of state to the stage: the root context is cancelled
exactly past the cancellation (`CancelFits`), goroutines, cron and requests have
come to rest in that order unless a wait was given up (`QuietInOrder`), every part
stands from the end of `open` until `OnStop` is over (`WholeUntilStop`), and only
`Shutdown` leaves a default on a closed part (`OwnAreOpen`). `GoingIsCounted` says
that the readers of `lifecycleMu` are exactly those between the check and the
`Add` of `Go`, and that while there is one no closing state is written: that is
why `NothingStartsAfterCancel` holds.

**Several Apps.** `SharedInv`: `GenerationFits` (the generation is at most the
number of Apps that have begun, which bounds it), `ManagerFits` and `DefaultFits`
(an App that never swapped its manager in is nobody's previous one) hold always;
`LogFits` holds while no two Apps have moved at once. Its heart is that the
generation tells whose the writers are (`mine[a] = generation => writers = a`),
and that the snapshot of an App that starts tells the same of the others, so that
a roll-back, which sets the generation back, does not make it lie. A failed App
keeps a stale number that a later one is given again; it does no harm because a
failed App is never shut down.

**Hub.** `NothingStaysOpen` with `CleanedUp`: once `stopped` is set no client is in
a call, so what has been drained stays drained; `Run` leaves a clean hub when it
ends, and `Stop` does when `Run` has not started by then. The lemmas
`QueuedAppend` and `QueuedTail` say what a queue holds after one more entry and
after the first was taken.

**Database manager.** `Holding` says what an operation has in hand in each phase,
`Apart` that no pool is in two places, so closing what is in hand closes nothing
published. `NoPoolLeaks` and `FlagsFitReplicas` are inductive with these. A
pool is opened only while one that was never used is left (`PoolLeft`): pools are
identities, which bound the model and of which the code never runs out.

**Lock.** The invariant `IInv` has seven parts:

- `TypeOK`; `Counted` (who has called has a number, so its token is a token);
  `Retrying` (`TryLock` is not past its last try when it tries); `Stored` (only a
  key that is there has a time to live);
- `Holding`: whoever is between taking and releasing the lock has it or its token
  is in `lost`. A step of one worker keeps this for another because a free key is
  nobody's token and a script changes the key only under the caller's own token
  (`TokensDiffer`);
- `Extending`: an extender that runs belongs to a caller of `WithLockAutoExtend`
  in its function or at its end; while the key holds that caller's token
  `due < ttl`, and unless somebody used force it does hold it. Taking or extending
  the lock sets `ttl` to `TTL` and `due` to `Interval`, which is where
  `Interval < TTL` is used; after that both fall together, and time does not pass
  an extender that is due. The first half is needed where force was used: expiry
  must not take a lease that is being extended even then;
- `Fresh`: the token of a call that has not taken the lock yet was never lost, so
  in the abstract lock each token takes it at most once.

For `LockIsALock` the key is the holder, callers between the reply to `SET` and
their `Unlock` are those at work, and callers with a running extender those whose
lease is extended: every step is one of `AbstractLock` or a stutter. `SET` is
`Take` (a reply that is lost is a `Take` whose caller never learns of it), the end
of a function and its `Unlock` are `Release`, an extender that stops is `Neglect`,
the clock is `Expire`, `ForceUnlock` is `TakenAway`.

**Configuration.** `IInv` is `TypeOK`, `OnUsed` (callers work on managers that
exist, which the type of the default needs) and `NoForgottenLoop`, which is
inductive with these: a loop starts as its manager's watcher and only if the
manager has none; `StopWatcher` takes the watcher away in the step in which it
notes the loop it will wait for; and it returns only once that loop has ended.
`OrphansAreNone` needs `SwapInv` besides: `pkgLoadMu` is held by the call that
loads; while no call has raced, callers swap the default one at a time and find it
as they read it, and a watched manager that is not the default is in the hand of
the caller that swaps, about to become the default or just replaced (`Serial`,
`InHand`).

**Guards.** Each part is proved first by itself, from its own specification and
assumption, and `Guards` implies the specification of each (`JwtIsPart`,
`LimitIsPart`, ..., `ChainIsPart` and `ArchiveIsPart` for the behaviours that are a
request or an archive), which gives the theorems of the table under
`GuardAssumption`.

- JWT: a revoked token is covered by an entry that lasts as long as the token, or
  was signed with a secret that is gone for good; and a call that is about to
  acknowledge a revocation has stored such an entry (`RevokedAreCovered`).
- CSRF: a token is in the map or in one hand or spent, and whoever passed took it
  out (`OneHand`, `GoneAreSpent`).
- Limiters in memory: whoever is about to register a limiter has one, and a
  `sync.Once` that is not fresh has made one (`HandsAreFull`). The counts are sums
  over the last `Window` units, and `WindowOk` says where they come from: an open
  window began with a request exactly at its age and counts what came since, and
  everything else that is still in the span is less than a rate, because the
  request that began the window before has just left it. Hence twice the rate less
  one. A visitor whose window has run out has, by the same argument, less than a
  rate in the span when the next window opens.
- Limiter in Redis: `Behind` compares sums over every beginning of the two
  histories. Who was let through in the last `k` units is among the entries of the
  last `k + Late`, since a score is at most `Late` older than the entry. Trimming
  takes only what is older than the window, so the whole set, and with it what was
  let through in `SlideWindow - Late` units, is at most the rate. The time to live
  is known to outlast every entry that still counts.
- Chain: `Inside(m)` says that the request has entered a handler and not left it.
  What is in the context tells what the request is inside of (`KeysTell`), on the
  way in it has passed every guard it is inside of, at the end of the chain it is
  inside of all (`OnlyAdmittedRun`), and after a guard that refused, or after the
  handler, `runs` is what admission says it should be. `AnswersFit` follows a panic
  to the `Recover` it is still inside of.
- Archives: the total is the sum of the entries done, at most its limit, and an
  archive is refused only for a reason (`Refused`), one of which is that the total
  was used up exactly and another file follows.

**Services.** The same way, from nine specifications and `ServiceAssumption`.

- Event streams: the channel holds the items after those that were taken, what
  was taken was written or is in hand (`StreamInv`).
- Tracing: each exporter that runs is the current provider's or one call's, which
  will install it or shut it down, and no two calls have the same; or its shutdown
  was cut short, and then it is neither (`EachHasAnOwner`).
- HTTP client: a goroutine that ended without an error has written every part
  (`WriterInv`), and the settings are kept for the next rebuild (`SettingsKept`).
- Health checks: the slot of a check is held exactly while its goroutine lives.
- Cache: of the keys that were there all the time, those of the buckets scanned so
  far are in hand (`ScannedIsInHand`).
- Repository: a row added in a transaction was never committed and is in no other
  transaction, and what the transaction means to create is in its frames without
  the rows below them (`RowsApart`, `MeantIsThere`). The lemma `OverlayRow` says
  which rows a list of frames adds: it replaces the induction over frames.
- Router: one `Apply` takes the snapshot, nothing is accepted from then on, and
  what is still to do is the end of that snapshot while the engine has its
  beginning (`AppliedByOne`, `RestOfSnapshot`, `Begun`).
- Storage: names are numbered by the calls, so a name leads to one file; the file
  of an upload in progress has as many units as were copied (`UploadOk`), and one
  whose name was given is whole until it is deleted (`FilesOk`).
- Schedules: a time is a day, an hour and a minute in one way only (the lemmas on
  quotients and remainders, `Reads`). For each of the four kinds the minute found
  is named by the schedule, and a minute before it is on a day, in an hour or at a
  minute that the search has passed over; `FirstNamed` says this of every answer.
  The full expression gives up only after a span in which no minute is named. For
  a field the search and the documented syntax agree unless a range of weekdays
  steps over Sunday (`ItemMeans`); of those it is proved that what is found is
  named.

Induction over data. The library's induction theorems take an operator as a
parameter and are out of reach here, but the minimum of a set of naturals
(`WFMin` over `OpToRel(<, Nat)`) is not: `Least` and `SetInduction` prove that a
set of naturals with 0 and all successors is `Nat`, and the sums of `Sums` exist,
are unique, grow with their length and add up (`SumsExist` and the lemmas after
it) by way of such sets.

Model-checked only:

- liveness under fairness, which is out of the prover's reach: `HubKeepsGoing`,
  `FlagsSettle`, `LockComesBack`, `ChangeIsServed`, `BegunIsEnded`, and what
  `TasksRun` and `ShutdownIsFinal` say beyond their action properties, which are
  the theorems `NextRunOnlyAdvances`, `ShutdownReturnsOnlyStopped` and
  `NothingStartsAfterCancel`.

## 6. Where the code and its documentation disagree

- `cron_reuse`: `StopWithTimeout` that gave up, then `Start`: the `wg.Add` of the
  new run may meet the old `Wait` on its way out, and the WaitGroup panics.
- `db_closed`: a probe in flight marks a manager healthy that `Close` has closed.
- `config_views`: a rejected reload stays in the viper view, so `GetString` serves
  what `Get` refused.
- `pages`: `FindPage` promises total and items of one snapshot
  (`repository.go:312-313`) and asks for no isolation level (`322`, `343`, `361`,
  `386`). PostgreSQL, a driver that is built in (`dialect.go:178`), reads what is
  committed at each statement by default: a commit between the count and the list
  shows.

Stated in the modules and false of the code, without a run of their own:

- `RequestsFindPartsOpen` (`AppLifecycle`): a `StartServer` that loses the race with
  `Shutdown` serves requests after the parts were closed.
- `WritersClosedByShutdown` (`MultiApp`): A starts, B starts, A shuts down: A's log
  files stay open, although a comment says that A's shutdown closes them.
- `StopTrueMeansAllTasksExited` (`CronScheduler`): a run started by `RunTask` may
  outlive a stop that returned true.
- `InitNilMeansInitialized` (`AppLifecycle`): a panic in `doInit` (`app.go:500`),
  then another `Init`, which returns nil.
- `UnregisterRemoves` (`WsHub`): `Unregister` overtakes the `Register` before it.
- `NoOrphanWatcher` without its premise `~raced` (`ConfigManager`):
  `SetDefaultManager` takes no `pkgLoadMu`, so it and `LoadWithWatch` may replace
  the same default, and the manager that loses stays watched.
- `NextIsTheEarliest` and `LostOnlyIfNothingIsNamed` without the exception
  `StepsOverSunday` (`CronSchedules`): weekdays such as `6-1/2` or `1-7/2` pass
  `ParseCronStrict`, and by `cron.go:514-515` a range whose low end is above its
  high end wraps; with a step `matchCronItem` does not wrap it (`545-551`), so it
  never matches, and a task that names no other day is never run.
- `OneExporterRuns` without `cut` (`Tracing`): `Init` drops the error of a shutdown
  that timed out (`trace.go:112`, `166`), `Close` returns it, and the exporter may
  run on with no provider of its own in reach.
