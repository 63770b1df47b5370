SPECIFICATION FairSpec
CONSTANTS
    Workers = {w1, w2}
    TTL = 2
    Interval = 1
    MaxRetry = 2
    MaxCalls = 2
    MaxForced = 1
INVARIANTS MutualExclusion ExtendedLockIsKept
PROPERTIES LockComesBack IsALock
\* The calls are bounded.
CHECK_DEADLOCK FALSE
