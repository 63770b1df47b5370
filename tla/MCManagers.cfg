SPECIFICATION ManagersSpec
CONSTANTS
    Pools = {p1, p2, p3, p4, p5, p6, p7, p8}
    Primary = primary
    Secondaries = {r1, r2}
    Retries = 2
    Threshold = 2
    MaxOps = 3
    MaxFlips = 2
    None = None
    Apps = {1, 2, 3}
    Initial = 0
    MaxMoving = 2
INVARIANTS PoolsAreKnown RunningKeepsResources
PROPERTIES FlagsSettle RollbackIsClean
\* The calls are bounded: with no prober running the manager comes to rest.
\* Every App ends up failed or stopped.
CHECK_DEADLOCK FALSE
