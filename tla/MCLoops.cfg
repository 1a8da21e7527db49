SPECIFICATION MCSpec
CONSTANTS
    Readers = {s1}
    Client = cl
    Messages = {m1, m2}
    Calls = {c1}
    None = None
    Sleepers = {d1}
    Period = 1
    MaxTime = 2
    MaxChanges = 2
    Resolution = 1
    MaxCalls = 1
    MaxWork = 0
INVARIANTS
    NoMessageForgotten
    NothingOutlivesTheNode
    SleepsLongEnough
PROPERTIES
    LeavingEnds
    TimersFireAndSleepsEnd
    ReturnsOnceDone
CHECK_DEADLOCK FALSE
