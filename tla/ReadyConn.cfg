SPECIFICATION FairSpec
CONSTANTS
    Waiters = {w1, w2}
    Closers = {c1, c2}
    Answerer = Answerer
    New = New
INVARIANTS
    NoFatalUnlock
PROPERTIES
    IsLatch
CHECK_DEADLOCK FALSE
