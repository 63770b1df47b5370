SPECIFICATION Spec
CONSTANTS
    Pools = {p1, p2, p3, p4, p5, p6, p7, p8}
    Primary = primary
    Secondaries = {r1, r2}
    Retries = 2
    Threshold = 2
    MaxOps = 3
    MaxFlips = 2
    None = None
INVARIANT ClosedIsNotHealthy
\* The calls are bounded: with no prober running the system comes to rest.
CHECK_DEADLOCK FALSE
