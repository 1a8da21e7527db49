SPECIFICATION Spec
CONSTANTS
    Spinners = {s1}
    Workers = {w1, w2}
    Callers = {x1}
    Callbacks = {c1, c2}
    MaySuspend = FALSE
    Timeouts = {FALSE}
    Joins = {FALSE}
    MaxShutdowns = 1
    MaxSpins = 2
    NoThread = NoThread
INVARIANT NoCallbackAfterShutdown
CHECK_DEADLOCK FALSE
