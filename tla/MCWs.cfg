SPECIFICATION FairSpec
CONSTANTS
    Conns = {c1, c2}
    Stoppers = {s1, s2}
    QueueCap = 1
    BufCap = 1
    MaxOps = 3
INVARIANT NothingStaysOpen
PROPERTY HubKeepsGoing
\* The clients' calls are bounded and a hub that was stopped stays stopped.
CHECK_DEADLOCK FALSE
