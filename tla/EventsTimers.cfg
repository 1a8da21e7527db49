SPECIFICATION Spec
CONSTANTS
    Timers = {t1, t2}
    Period = 1
    MaxTime = 1
    MaxRequests = 0
    None = None
INVARIANT CalledWhenDue
CHECK_DEADLOCK FALSE
