SPECIFICATION FairSpec
CONSTANTS
    MaxData = 2
INVARIANTS
    NoFatalUnlock
    ToldOnce
PROPERTIES
    SessionForgotten
    WriteReleased
    ReadyDecides
CHECK_DEADLOCK FALSE
