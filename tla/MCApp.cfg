SPECIFICATION FairSpec
CONSTANTS
    Main = main
    Callers = {c1, c2}
    Probe = probe
    Workers = {w}
    Requests = {q}
    Parts <- MCParts
    NumHooks = 2
    NoProc = NoProc
INVARIANTS PartsStandWhileUsed RollbackRestoresDefaults
PROPERTY ShutdownIsFinal
\* An App that was shut down stays stopped.
CHECK_DEADLOCK FALSE
