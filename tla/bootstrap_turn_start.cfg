SPECIFICATION BootstrapSpec
CONSTANTS
    first = first
    again = again
    later = later
    user = user
    thread = thread
    project = project
    Attempts = {first, again, later}
    Request <- MCRequest
    ChatsProject = chats
    NoProject = NoProject
    NoThread = NoThread
    MaxSeedMessages = 1
    MaxStorageErrors = 1
    MaxInterrupted = 1
INVARIANTS
    CleansUpOnlyItsOwn
    FailureLeavesNoThread
    TurnFollowsPreparation
CHECK_DEADLOCK FALSE
