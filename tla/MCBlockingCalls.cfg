SPECIFICATION MCSpec
CONSTANTS
    Spinners = {s1, s2}
    Workers = {}
    Callers = {x1}
    Callbacks = {c1, c2}
    MaySuspend = FALSE
    Timeouts = {TRUE, FALSE}
    Joins = {TRUE}
    MaxShutdowns = 3
    MaxSpins = 2
    NoThread = NoThread
    Requests = {r1, r2}
    Calls = {r1}
    ClientWorkers = {v1, v2}
    Sleepers = {t1, t2, t3}
    Nodes = {n1, n2}
    Clocks = {k1}
    Dozers = {d1}
    MaxTime = 2
    Subscriptions = {q1}
    MaxRequests = 3
    None = None
INVARIANTS
    
    NothingIsOverlooked
PROPERTIES
    
    AnswerIsDelivered
    SleepersWake
    SpinEnds
CHECK_DEADLOCK FALSE
