SPECIFICATION FairSpec
CONSTANTS
    c1 = c1
    c2 = c2
    h1 = h1
    h2 = h2
    h3 = h3
    Nothing = Nothing
    Requests = {c1, c2}
    Handles = {h1}
    FileOf <- MCFileOf
    Reads = {}
    Writes <- MCWrites
    SchedAlgos = {"merge"}
    batch_size_ = 2
    default_quantum_ = 1
    Exits = TRUE
    NoRange = Nothing
CHECK_DEADLOCK FALSE
PROPERTIES
    SchedulerFinishes
