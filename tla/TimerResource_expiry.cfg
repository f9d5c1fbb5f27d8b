SPECIFICATION FairSpec
CONSTANTS
    c1 = c1
    c2 = c2
    Cancellers = {}
    Delays <- MCDelays
    MaxTimers = 3
    Garbage = {"entry", "other", "null"}
PROPERTY CalledWhenExpired
