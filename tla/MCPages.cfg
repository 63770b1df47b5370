\* One caller and two rows; the driver's transactions read what is committed
\* at each statement, as PostgreSQL's do.
SPECIFICATION Spec
CONSTANTS
    Callers = {c1}
    Rows = {1, 2}
    Snapshots = FALSE
    MaxDepth = 2
    MaxPage = 2
    DefaultPageSize = 2
    MaxPageSize = 2
INVARIANT PageIsSnapshot
CHECK_DEADLOCK FALSE
