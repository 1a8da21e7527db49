SPECIFICATION Spec
CONSTANTS
    Contexts = {k1}
    Nodes = {n1, n2}
    Callbacks = {o1}
    None = None
INVARIANT EveryNodeIsDestroyed
CHECK_DEADLOCK FALSE
