SPECIFICATION Spec
CONSTANTS
    ReadLimit = 3
    ReadMayFail = FALSE
    MaxEvents = 2
INVARIANTS
    HandoffHasNoGap
CHECK_DEADLOCK FALSE
