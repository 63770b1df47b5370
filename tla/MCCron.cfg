SPECIFICATION FairSpec
CONSTANTS
    Names = {a, b}
    Callers = {m}
    MaxTasks = 2
    MaxEdits = 2
    MaxCtx = 2
    MaxTime = 3
    Period = 1
    NoTask = NoTask
INVARIANT GuardMutex
PROPERTIES StopIsRespected TasksRun
\* The clock, the tasks and the restarts are bounded, and a scheduler that is
\* stopped for good has nothing left to do.
CHECK_DEADLOCK FALSE
