SPECIFICATION Spec
CONSTANTS
    MaxData = 1
INVARIANTS
    IoHasBase
CHECK_DEADLOCK FALSE
