SPECIFICATION Spec
CONSTANTS
    p = p
    chats = chats
    t1 = t1
    t2 = t2
    createProject = createProject
    createChats = createChats
    createThread1 = createThread1
    createThread1InChats = createThread1InChats
    forkThread1 = forkThread1
    deleteProject = deleteProject
    deleteThread1 = deleteThread1
    archive1 = archive1
    archive1Again = archive1Again
    unarchive1 = unarchive1
    Projects = {p, chats}
    Threads = {t1, t2}
    ChatsProject = chats
    NoProject = NoProject
    NoThread = NoThread
    MaxSeedMessages = 1
    Commands = {createProject, createChats, createThread1, createThread1InChats,
                forkThread1, deleteProject, deleteThread1,
                archive1, archive1Again, unarchive1}
    Content <- MCContent
SYMMETRY MCSymmetry
INVARIANTS
    ThreadHistoriesWellFormed
    DeletionCascades
CHECK_DEADLOCK FALSE
