------------------------------- MODULE Services -------------------------------
(* What a handler uses and what stands around it: health checks, the route   *)
(* registry, storage, repository, HTTP client, tracing, cache, event streams *)
(* and the schedules of cron.                                                *)
(* They share no state, so each behaviour is one of one of them, which       *)
(* service names, while the others stay as they are.                         *)
EXTENDS Naturals

CONSTANTS
    Clients,                                        \* callers that share a component
    Lone,                                           \* callers that share nothing
    Probes, NumChecks, MaxProbes,                                   \* health checks
    Middlewares, Modules, Keys, Versions, KeyOf, Metrics, Nobody,   \* registry
    UploadLimit, MaxRead, MaxSize, MaxCalls,                        \* storage
    Rows, Snapshots, MaxDepth, MaxPage, DefaultPageSize, MaxPageSize,   \* repository
    UploadParts, MaxUploads,                                        \* HTTP client
    MaxProviders,                                                   \* tracing
    CacheKeys, Buckets, BucketOf,                                   \* cache
    MaxItems, Buffer,                                               \* event streams
    Expressions, Minutes, Hours, MaxAsked, ZeroTime                 \* schedules

VARIABLES
    service,
    checkPc, on, expired, status, errCh, checkSlot, check, probes,
    use, metrics, modules, versions, parts, applied, applyOnce, routePc, sliceRead, todo,
    groups, used, routes, accepted, broken,
    current, storePc, store, job, copied, calls, files, given, litter, deleted, got,
    master, replica, frames, snap, meant, page,
    cfg, transport, client, settings, httpPc, using, writer, werr, partsLeft, pipe, answer,
    uploaded, uploads,
    tracePc, mine, old, provider, tracer, otel, providersMade, live, cut, overlapped,
    injected, ready, cache, cursor, scanned, since, deletedAll,
    kind, streamPc, item, chan, closed, sent, heeds, producer, gone, out, streamed,
    sched, asked, next

HC == INSTANCE HealthChecks WITH pc <- checkPc, result <- status, sent <- errCh,
          slot <- checkSlot
RR == INSTANCE RouteRegistry WITH Callers <- Clients, global <- use, pc <- routePc,
          once <- applyOnce, has <- sliceRead
ST == INSTANCE Storage WITH Callers <- Lone, Limit <- UploadLimit, pc <- storePc,
          gone <- deleted
RT == INSTANCE RepoTx WITH Callers <- Lone
HT == INSTANCE HttpClient WITH Callers <- Lone, Parts <- UploadParts, asked <- settings,
          pc <- httpPc, left <- partsLeft, result <- uploaded
TR == INSTANCE Tracing WITH Callers <- Clients, pc <- tracePc, global <- otel,
          made <- providersMade
CS == INSTANCE CacheService WITH Callers <- Clients, Keys <- CacheKeys, found <- scanned,
          result <- deletedAll
SS == INSTANCE SseStream WITH pc <- streamPc, result <- streamed
CF == INSTANCE CronSchedules WITH Never <- ZeroTime

ASSUME ServiceAssumption ==
    /\ RR!RegistryAssumption /\ ST!StorageAssumption /\ RT!RepoAssumption /\ HT!UploadAssumption
    /\ TR!TraceAssumption /\ CS!CacheAssumption /\ SS!StreamAssumption /\ CF!ScheduleAssumption

-----------------------------------------------------------------------------
health == <<checkPc, on, expired, status, errCh, checkSlot, check, probes>>
registry == <<use, metrics, modules, versions, parts, applied, applyOnce, routePc,
              sliceRead, todo, groups, used, routes, accepted, broken>>
storage == <<current, storePc, store, job, copied, calls, files, given, litter, deleted, got>>
repository == <<master, replica, frames, snap, meant, page>>
http == <<cfg, transport, client, settings, httpPc, using, writer, werr, partsLeft, pipe,
          answer, uploaded, uploads>>
trace == <<tracePc, mine, old, provider, tracer, otel, providersMade, live, cut,
           overlapped>>
caching == <<injected, ready, cache, cursor, scanned, since, deletedAll>>
stream == <<kind, streamPc, item, chan, closed, sent, heeds, producer, gone, out, streamed>>
cron == <<sched, asked, next>>

ServiceNames == {"health", "registry", "storage", "repository", "http", "trace", "caching",
                 "stream", "cron"}

(* Where one has many initial states, one will do while it stays there.      *)
ServicesInit ==
    /\ service \in ServiceNames
    /\ HC!Init /\ RR!Init /\ ST!Init /\ RT!Init /\ HT!Init /\ TR!Init /\ CF!Init
    /\ CS!Init /\ (service # "caching" => injected)
    /\ SS!Init /\ (service # "stream" => kind = "text" /\ heeds)

ServicesNext ==
    /\ UNCHANGED service
    /\ \/ /\ service = "health" /\ HC!Next
          /\ UNCHANGED <<registry, storage, repository, http, trace, caching, stream, cron>>
       \/ /\ service = "registry" /\ RR!Next
          /\ UNCHANGED <<health, storage, repository, http, trace, caching, stream, cron>>
       \/ /\ service = "storage" /\ ST!Next
          /\ UNCHANGED <<health, registry, repository, http, trace, caching, stream, cron>>
       \/ /\ service = "repository" /\ RT!Next
          /\ UNCHANGED <<health, registry, storage, http, trace, caching, stream, cron>>
       \/ /\ service = "http" /\ HT!Next
          /\ UNCHANGED <<health, registry, storage, repository, trace, caching, stream, cron>>
       \/ /\ service = "trace" /\ TR!Next
          /\ UNCHANGED <<health, registry, storage, repository, http, caching, stream, cron>>
       \/ /\ service = "caching" /\ CS!Next
          /\ UNCHANGED <<health, registry, storage, repository, http, trace, stream, cron>>
       \/ /\ service = "stream" /\ SS!Next
          /\ UNCHANGED <<health, registry, storage, repository, http, trace, caching, cron>>
       \/ /\ service = "cron" /\ CF!Next
          /\ UNCHANGED <<health, registry, storage, repository, http, trace, caching, stream>>

(* Of the parts that stay as they are no fair action is enabled.             *)
ServicesSpec ==
    /\ ServicesInit
    /\ [][ServicesNext]_<<service, health, registry, storage, repository, http, trace, caching,
                          stream, cron>>
    /\ HC!ProbeFairness /\ HT!UploadFairness /\ SS!StreamFairness

-----------------------------------------------------------------------------
(* The properties of the parts, each stated and explained in its module; the *)
(* type invariants stand in the conjunctions.                                *)
OneCheckInFlight == HC!OneCheckInFlight
AcceptedIsApplied == RR!AcceptedIsApplied /\ RR!AppliedOnce
StoredIsWhole == ST!TypeOK /\ ST!UploadedIsWhole /\ ST!NothingHalfStays /\ ST!ReadIsWhole
TransactionsAreWhole == RT!TypeOK /\ RT!TransactionsAreWhole /\ RT!ReadsSeeOwnWrites
UploadIsWhole == HT!TypeOK /\ HT!ClientAsConfigured /\ HT!UploadIsWhole
OneExporterRuns == TR!TypeOK /\ TR!OneExporterRuns /\ TR!TracerIsCurrent
PatternIsDeleted == CS!PatternIsDeleted
DoneMeansAll == SS!TypeOK /\ SS!DoneMeansAll
NextIsTheEarliest == CF!NextIsTheEarliest /\ CF!LostOnlyIfNothingIsNamed

(* What is begun comes to an end under the fairness of its service: a probe is  *)
(* answered and its slot comes back, an upload returns, a stream ends.       *)
BegunIsEnded ==
    /\ HC!ProbesAreAnswered /\ HC!SlotsComeBack
    /\ HT!UploadsReturn /\ SS!StreamEnds
=============================================================================
