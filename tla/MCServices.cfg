SPECIFICATION ServicesSpec
CONSTANTS
    Clients = {c1, c2}
    Lone = {c1}
    Probes = {p1, p2}
    NumChecks = 1
    MaxProbes = 2
    Middlewares = {m}
    Modules = {a, b}
    Keys = {1}
    Versions = {v1}
    KeyOf <- MCKeyOf
    Metrics = metrics
    Nobody = nobody
    UploadLimit = 2
    MaxRead = 1
    MaxSize = 3
    MaxCalls = 2
    Rows = {1, 2}
    Snapshots = FALSE
    MaxDepth = 2
    MaxPage = 2
    DefaultPageSize = 2
    MaxPageSize = 2
    UploadParts = 2
    MaxUploads = 2
    MaxProviders = 3
    CacheKeys = {1, 2}
    Buckets = 3
    BucketOf <- MCBucketOf
    MaxItems = 3
    Buffer = 2
    Expressions <- MCExpressions
    Minutes = 4
    Hours = 2
    MaxAsked = 60
    ZeroTime = ZeroTime
INVARIANTS AcceptedIsApplied StoredIsWhole TransactionsAreWhole UploadIsWhole
           OneExporterRuns DoneMeansAll NextIsTheEarliest
PROPERTIES OneCheckInFlight PatternIsDeleted BegunIsEnded
\* Bounded probes, uploads, items and times; a registry is applied once.
CHECK_DEADLOCK FALSE
