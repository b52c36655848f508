----------------------- MODULE MCOrchestrationEngine ------------------------
(* A project, two threads of it, and commands whose effects depend on their *)
(* order: creations, an archive that needs its thread, a project deletion   *)
(* that cascades.                                                           *)
EXTENDS OrchestrationEngine

CONSTANTS p, t1, t2, createProject, createThread1, createThread2, archive1, deleteProject

Cmd(type, thread, seeds) ==
    [type |-> type, project |-> p, thread |-> thread, parent |-> NoThread, seeds |-> seeds]

MCContent ==
    [c \in Commands |->
        CASE c = createProject -> Cmd("project.create", t1, 0)
          [] c = createThread1 -> Cmd("thread.create", t1, 1)
          [] c = createThread2 -> [Cmd("thread.create", t2, 0) EXCEPT !.parent = t1]
          [] c = archive1      -> Cmd("thread.archive", t1, 0)
          [] c = deleteProject -> Cmd("project.delete", t1, 0)]
=============================================================================
