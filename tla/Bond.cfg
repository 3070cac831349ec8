SPECIFICATION FairSpec
CONSTANTS
    Slots = {s1, s2}
    MaxEvents = 1
INVARIANTS
    TypeOK
    LiveIsRegistered
    OneLogin
    ClosedUnlessLate
PROPERTIES
    SelectsRegistered
    KeepsAlive
    LeakedLeaves
CHECK_DEADLOCK FALSE
