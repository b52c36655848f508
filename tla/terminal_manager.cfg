SPECIFICATION Spec
CONSTANTS
    Keys = {k1, k2}
    MaxValues = 3
    MaxRetained = 1
    MaxCalls = 2
    MaxOutputs = 1
    MaxFaults = 1
INVARIANTS
    NothingStranded
    DrainKeySound
    SessionsMatchProcesses
PROPERTIES
    ReopenKeepsHistory
    EveryValueHandled
CHECK_DEADLOCK FALSE
