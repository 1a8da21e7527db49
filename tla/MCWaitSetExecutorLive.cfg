SPECIFICATION FairSpec
CONSTANTS
    Sources = {s1, s2}
    Guards = {e3}
    Groups <- MCGroups
    GroupOf <- MCGroupOf
    Exclusive <- MCExclusive
    Coroutines = {s1}
    Handlers = {h1, h2}
    NumWorkers = 2
    Inlines = {TRUE, FALSE}
    Faulty = {}
    MaxArrivals = 1
    None = None
    s1 = s1
    s2 = s2
    e3 = e3
    exclusive = exclusive
    reentrant = reentrant
PROPERTIES
    
    TriggerIsHandled
CHECK_DEADLOCK FALSE
