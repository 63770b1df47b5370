SPECIFICATION Spec
CONSTANTS
    Callers = {c1, c2}
    Fresh = {m1, m2}
    Blank = blank
    MaxLoops = 2
    MaxChanges = 2
    MaxCalls = 3
    None = None
    Manual = Manual
INVARIANT ViewsAgree
\* The calls and the changes are bounded.
CHECK_DEADLOCK FALSE
