SPECIFICATION FairSpec
CONSTANTS
    a = a
    t = t
    w = w
    v = v
    u1 = u1
    u2 = u2
    p1 = p1
    p2 = p2
    AnyPort = AnyPort
    NoUri = NoUri
    Names = {a, t, w, v}
    Ports = {p1, p2, AnyPort}
    Uris = {u1, u2}
    Locs <- MCLocs
    Configs <- MCConfigs
    DialLists <- MCDialLists
    Found <- MCFound
    Listed <- MCListed
    MaxErrors = 1
    MaxEdits = 1
    MaxStarts = 2
INVARIANTS
    TypeOK
    ServedOrReported
    LeftoversKnown
    EntryOpen
    LostByOldLoop
PROPERTIES
    ForwardsSpec
    DialsConfigured
    WebRequestEnds
CHECK_DEADLOCK FALSE
