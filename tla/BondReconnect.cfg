SPECIFICATION FairSpec
CONSTANTS
    Slots = {s1}
    MaxEvents = 1
PROPERTIES
    AutoReconnect
CHECK_DEADLOCK FALSE
