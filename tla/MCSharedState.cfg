SPECIFICATION MCSpec
CONSTANTS
    Threads = {t1, t2, t3}
    Callbacks = {c1, c2, c3}
    ThirdThread = t3
    ThirdCallback = c3
    NoThread = NoThread
    ResumeAnywhere = FALSE
    Spinners = {s1}
    Pool = {w1}
    Callers = {x1}
    Handlers = {a1, a2}
    MaySuspend = TRUE
    Timeouts = {TRUE, FALSE}
    Joins = {TRUE, FALSE}
    MaxShutdowns = 2
    MaxSpins = 1
    Users = {u1, u2}
    Entities = {e1, g1}
    Guards = {g1}
    WithEvents = {e1}
    Node = Node
    Managed = {m1, m2}
    MaxChanges = 3
    ParamNames = {"p", "sim"}
    SimTime = "sim"
    User = User
    Service = Service
    Declarations <- MCDeclarations
    Settings <- MCSettings
    Overrides <- MCOverrides
    MaxCalls = 3
    Handles = {h1, h2}
    EventNames = {p}
    EventNodes = {n, m}
    Nodes = {n1, n2}
    Contexts = {k1, k2}
    OnShutdown = {o1}
    Goals = {g}
    None = None
INVARIANTS
    IInv
    NothingGoesUnderSpinner
    WaitSetIsCurrent
    HandlesGoWhenUnused
    
    ListenersFollowTheStore
    CallbacksFollowTheRegistry
    OneTransition
    EnabledFollowsState
    LoggingFollowsContexts
    ShutdownCallbacksRun
    RequestsAndFuturesAgree
    FeedbackArrives
PROPERTY DrainedMeansCommitted
CHECK_DEADLOCK FALSE
