SPECIFICATION Spec
CONSTANTS
    C = C
    M = M
    S = S
    cm = cm
    ms = ms
    k1 = k1
    k2 = k2
    Nodes = {C, M, S}
    Links = {cm, ms}
    EndA <- LineEndA
    EndB <- LineEndB
    Cid <- LineCid
    Sid0 <- LineSid0
    Calls = {k1}
    Caller <- LineCaller
    Route <- LineRoute
    MaxData <- NoData
    MaxEnd = 1
    MaxFailures = 1
    Closers = {}
INVARIANTS
    SyncDialTold
CHECK_DEADLOCK FALSE
