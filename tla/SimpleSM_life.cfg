SPECIFICATION FairSpec
CONSTANTS
    sl1 = sl1
    sl2 = sl2
    w1 = w1
    w2 = w2
    c1 = c1
    c2 = c2
    NoMethod = NoMethod
    Slots = {sl1, sl2}
    Workers = {w1, w2}
    Callers = {c1, c2}
INVARIANTS
    OneExecutor
    AssertsHold
    DeletedUnused
    StatusDelivered
PROPERTIES
    EventuallyResumed
    EventuallyDeleted
