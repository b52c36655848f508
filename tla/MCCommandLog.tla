---------------------------- MODULE MCCommandLog -----------------------------
(* Two projects, one of them the built-in one, and two threads: they are     *)
(* created, forked, archived, unarchived and deleted in every order.         *)
EXTENDS CommandLog, TLC

CONSTANTS p, chats, t1, t2,
          createProject, createChats, createThread1, createThread1InChats,
          forkThread1, deleteProject, deleteThread1,
          archive1, archive1Again, unarchive1

Cmd(type, project, thread) ==
    [type |-> type, project |-> project, thread |-> thread, parent |-> NoThread, seeds |-> 0]

MCContent ==
    [c \in Commands |->
        CASE c = createProject        -> Cmd("project.create", p, t1)
          [] c = createChats          -> Cmd("project.create", chats, t1)
          [] c = createThread1        -> Cmd("thread.create", p, t1)
          [] c = createThread1InChats -> Cmd("thread.create", chats, t1)
          [] c = forkThread1          -> [Cmd("thread.create", p, t2) EXCEPT
                                              !.parent = t1, !.seeds = 1]
          [] c = deleteProject        -> Cmd("project.delete", p, t1)
          [] c = deleteThread1        -> Cmd("thread.delete", p, t1)
          [] c = unarchive1           -> Cmd("thread.unarchive", p, t1)
          [] OTHER                    -> Cmd("thread.archive", p, t1)]

\* The two archive commands ask for the same.
MCSymmetry == Permutations({archive1, archive1Again})
=============================================================================
