SPECIFICATION FairSpec
CONSTANTS
    r1 = r1
    r2 = r2
    d1 = d1
    d2 = d2
    h = h
    Nil = Nil
    Requests = {r1, r2}
    Sids = {r1, r2}
    Dialers = {d1, d2}
    Hosts = {h}
    HostOf <- MCHostOf
    Matching <- MCMatching
    Confs <- MCConfs
    Setups <- MCSetups
    Rounds = 2
    Cap = 1
INVARIANTS
    TypeOK
    TriesBounded
    LimitSlack
    NoSendOnClosed
PROPERTIES
    RequestEnds
    WebServed
    EndsTogether
CHECK_DEADLOCK FALSE
