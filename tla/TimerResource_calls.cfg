SPECIFICATION FairSpec
CONSTANTS
    c1 = c1
    c2 = c2
    Cancellers = {c1,c2}
    Delays <- MCDelays
    MaxTimers = 2
    Garbage = {"entry", "other", "null"}
INVARIANT CalledOnce
PROPERTIES LostByCollision EventuallyCalled CancelAndStopReturn
