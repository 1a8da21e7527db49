SPECIFICATION FairSpec
CONSTANTS
    Futures <- MCFuture
    Tasks <- MCTasks
    Callbacks <- MCCallbacks
    Program <- MCProgram
    Workers = {w1, w2}
    Externals = {x1}
    Yield = Yield
    None = None
    f = f
    a = a
    b = b
    d = d
PROPERTY TaskResumes
CHECK_DEADLOCK FALSE
