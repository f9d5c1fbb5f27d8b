SPECIFICATION FairSpec
CONSTANTS
    s1 = s1
    s2 = s2
    h1 = h1
    h2 = h2
    l1 = l1
    l2 = l2
    t1 = t1
    t2 = t2
    t3 = t3
    t4 = t4
    NoWork = NoWork
    Submitters = {s1, s2}
    Work = {h1, h2, l1, l2}
    High = {h1, h2}
    Threads = {t1, t2, t3, t4}
    MaxHigh = 1
    MaxNorm = 1
    MaxRefs = 2
CHECK_DEADLOCK FALSE
INVARIANTS
    Accounted
PROPERTIES
    RunsWorkOnce
    AllWorkRuns
