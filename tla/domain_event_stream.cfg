SPECIFICATION Spec
CONSTANTS
    ReadLimit = 3
    ReadMayFail = TRUE
    MaxEvents = 4
INVARIANTS
    SentInOrderWithoutGap
PROPERTIES
    NothingLostIsSent
CHECK_DEADLOCK FALSE
