SPECIFICATION MCSpec
CONSTANTS
    c1 = c1
    c2 = c2
    c3 = c3
    a1 = a1
    a2 = a2
    a3 = a3
    Nobody = Nobody
    Clients = {c1, c2, c3}
    Addrs = {a1, a2, a3}
    NoHandle = Nobody
    InitialTokens = 2
    MaxTokens = 2
    MaxSupply = 3
    Limits = {0, 3}
    Cancels = TRUE
    COUNT = 3
    Failing = {FALSE, TRUE}
    MaxPending = 2
INVARIANTS
    Conservation
    NoStranding
    QueuedOnce
    ChainsMatch
    NoMissedWait
PROPERTIES
    FIFOGrants
    EventuallyGranted
    
    EventuallyCalled
