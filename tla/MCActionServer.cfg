SPECIFICATION MCSpec
CONSTANTS
    Goals = {g1, g2}
    Cancels = {c1}
    Asks = {q1}
    Ids = {i1, i2}
    Handlers = {h1, h2}
    Ended = {"SUCCEED", "CANCELED"}
    None = None
    Gone = Gone
    g1 = g1
    g2 = g2
    c1 = c1
    q1 = q1
    i1 = i1
    i2 = i2
INVARIANTS
    AnswersMatchGoals
    DictionariesFollowRcl
    SingleCancelIsHonest
PROPERTIES
    TakenIsAnswered
    ResultIsAnswered
CHECK_DEADLOCK FALSE
