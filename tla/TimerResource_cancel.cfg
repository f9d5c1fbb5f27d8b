SPECIFICATION Spec
CONSTANTS
    c1 = c1
    c2 = c2
    Cancellers = {c1}
    Delays <- MCDelays
    MaxTimers = 2
    Garbage = {"entry", "other", "null"}
INVARIANT NoCallAfterCancel
