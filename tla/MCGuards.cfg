SPECIFICATION Spec
CONSTANTS
    Callers = {c1, c2}
    Visitors = {v}
    Slots = {s}
    Handlers = {h}
    Limiters = {l1, l2}
    ApiTokens = {t1, t2, t3}
    MaxChain = 3
    Rate = 2
    Window = 1
    SlideRate = 2
    SlideWindow = 3
    Late = 1
    MaxTokens = 2
    Expire = 2
    MaxSecrets = 2
    TTL = 2
    Paths = {n1, n2}
    MaxEntry = 2
    MaxEntries = 3
    EntryLimit = 1
    TotalLimit = 2
    Threshold = 1
    NoLimiter = NoLimiter
    NoCaller = NoCaller
    NoToken = NoToken
INVARIANTS BurstBound LimitersCanBeStopped SlidingBound RevokedIsRefused RefreshReplaces
           TokensSingleUse HandlerIsGuarded AnsweredOnce LimitsHold
PROPERTIES RefusedOnlyWhenFull
\* A request that is over, tokens that have all expired, a call that returned: the bounds end there.
CHECK_DEADLOCK FALSE
