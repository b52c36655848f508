SPECIFICATION Spec
CONSTANTS
    MaxTurns = 2
    MaxEdits = 1
    EndStates = {"completed", "interrupted"}
    MaxEvents = 2
    MaxThreadCheckpoints = 2
INVARIANTS
    ReadySnapshotsExist
    QuietWorkspaceCheckpointed
    ConversationFollowsCheckpoints
PROPERTIES
    ReadyStaysReady
    RevertsAnswered
CHECK_DEADLOCK FALSE
