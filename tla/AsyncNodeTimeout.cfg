SPECIFICATION Spec
CONSTANTS
    Readers = {}
    Client = cl
    Messages = {}
    Calls = {c1}
    None = None
INVARIANT TimedOutCallIsHarmless
CHECK_DEADLOCK FALSE
