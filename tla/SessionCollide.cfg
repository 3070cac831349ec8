SPECIFICATION Spec
CONSTANTS
    C = C
    M = M
    S = S
    cm = cm
    ms = ms
    k1 = k1
    k2 = k2
    Nodes = {C, M}
    Links = {cm}
    EndA <- PairEndA
    EndB <- PairEndB
    Cid <- PairCid
    Sid0 <- MeetingSid0
    Calls = {k1, k2}
    Caller <- PairCaller
    Route <- PairRoute
    MaxData <- OneEach
    MaxEnd = 1
    MaxFailures = 0
    Closers = {}
INVARIANTS
    DeliveredInOrder
CHECK_DEADLOCK FALSE
