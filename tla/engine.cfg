SPECIFICATION Spec
CONSTANTS
    p = p
    t1 = t1
    t2 = t2
    createProject = createProject
    createThread1 = createThread1
    createThread2 = createThread2
    archive1 = archive1
    deleteProject = deleteProject
    Projects = {p}
    Threads = {t1, t2}
    ChatsProject = chats
    NoProject = NoProject
    NoThread = NoThread
    MaxSeedMessages = 1
    Commands = {createProject, createThread1, createThread2, deleteProject}
    Content <- MCContent
    ReadLimit = 3
    MaxDispatches = 4
    MaxCrashes = 1
INVARIANTS
    AppendedOnceAsDecided
    ReadModelFollowsLog
    RepliesDurable
PROPERTIES
    ImplementsCommandLog
    ImplementsEventFeed
    EveryDispatchAnswered
CHECK_DEADLOCK FALSE
