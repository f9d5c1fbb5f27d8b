SPECIFICATION FairSpec
CONSTANTS
    c1 = c1
    c2 = c2
    h1 = h1
    h2 = h2
    h3 = h3
    Nothing = Nothing
    Requests = {c1, c2}
    Handles = {h1, h2, h3}
    FileOf <- MCFileOf
    Reads <- MCReads
    Writes <- MCWrites
    SchedAlgos = {"fifo", "merge"}
    batch_size_ = 2
    default_quantum_ = 1
    Exits = TRUE
    NoRange = Nothing
INVARIANTS
    QueuesCanonical
    MergesFaithfully
    SegmentsCounted
PROPERTIES
    EventuallyCalledBack
