SPECIFICATION MCSpec
CONSTANTS
    Sources = {s1, s2}
    Guards = {e3}
    Groups <- MCGroups
    GroupOf <- MCGroupOf
    Exclusive <- MCExclusive
    Coroutines = {s1}
    Handlers = {h1, h2}
    NumWorkers = 2
    Inlines = {TRUE, FALSE}
    Faulty = {s2}
    MaxArrivals = 1
    None = None
    s1 = s1
    s2 = s2
    e3 = e3
    exclusive = exclusive
    reentrant = reentrant
    PlainFutures = {f}
    Tasks = {a, b}
    DoneCallbacks = {d}
    Program <- MCProgram
    f = f
    a = a
    b = b
    d = d
    Workers = {w1, w2}
    Externals = {x1, x2}
    Yield = Yield
    MaxCalls = 2
    MaxWork = 1
    Timers = {t1, t2}
    Period = 1
    MaxTime = 1
    MaxRequests = 2
SYMMETRY Symmetry
INVARIANTS
    MutualExclusion
    IInv
    NoWorkIsLost
    OneThreadPerTask
    WokenOnce
    SleeperIsWoken
    TimerIsCovered
CHECK_DEADLOCK FALSE
