------------------------------- MODULE Decider -------------------------------
(***************************************************************************)
(* The command decider of the orchestration server: which events a command *)
(* produces when it is decided against a read model, or that it violates   *)
(* an invariant and produces none.                                         *)
(*                                                                         *)
(* A read model is represented by the sequence of the events it has        *)
(* folded.  The projector is a deterministic fold, so this loses nothing,  *)
(* and every fact a decider reads from the model (a project exists, a      *)
(* thread is archived, ...) is a predicate on that sequence.               *)
(***************************************************************************)
EXTENDS Naturals, Sequences, FiniteSets

CONSTANTS Commands,         \* command ids
          Content,          \* what each command asks for
          Projects,         \* project ids
          Threads,          \* thread ids
          ChatsProject,     \* BUILT_IN_CHATS_PROJECT_ID, or any other value
          NoProject,        \* absent project field of an event
          NoThread,         \* absent thread field of a command or an event
          MaxSeedMessages   \* MAX_SEED_MESSAGES: 200 in the code

\* Commands that an existing thread takes in whatever state it is, and the one
\* event each of them emits.
FieldEvents ==
    {<<"thread.meta.update",          "thread.meta-updated">>,
     <<"thread.runtime-mode.set",     "thread.runtime-mode-set">>,
     <<"thread.interaction-mode.set", "thread.interaction-mode-set">>}

TurnEvents ==
    {<<"thread.turn.interrupt",             "thread.turn-interrupt-requested">>,
     <<"thread.approval.respond",           "thread.approval-response-requested">>,
     <<"thread.user-input.respond",         "thread.user-input-response-requested">>,
     <<"thread.checkpoint.revert",          "thread.checkpoint-revert-requested">>,
     <<"thread.session.stop",               "thread.session-stop-requested">>,
     <<"thread.session.set",                "thread.session-set">>,
     <<"thread.message.assistant.delta",    "thread.message-sent">>,
     <<"thread.message.assistant.complete", "thread.message-sent">>,
     <<"thread.proposed-plan.upsert",       "thread.proposed-plan-upserted">>,
     <<"thread.turn.diff.complete",         "thread.turn-diff-completed">>,
     <<"thread.revert.complete",            "thread.reverted">>,
     <<"thread.activity.append",            "thread.activity-appended">>}

CommandTypes ==
    {r[1] : r \in FieldEvents \cup TurnEvents} \cup
    {"project.create", "project.meta.update", "project.delete", "thread.create",
     "thread.delete", "thread.archive", "thread.unarchive", "thread.turn.start"}

EventTypes ==
    {r[2] : r \in FieldEvents \cup TurnEvents} \cup
    {"project.created", "project.meta-updated", "project.deleted",
     "thread.created", "thread.deleted", "thread.archived", "thread.unarchived",
     "thread.message-sent", "thread.turn-start-requested"}

\* "seeds" is the number of seed messages of a thread.create, "parent" the
\* thread it forks from; both are ignored by the other commands.
CommandContent ==
    [type : CommandTypes, project : Projects, thread : Threads,
     parent : Threads \cup {NoThread}, seeds : Nat]

ASSUME DeciderAssumption ==
    /\ Content \in [Commands -> CommandContent]
    /\ MaxSeedMessages \in Nat
    /\ IsFiniteSet(Threads)
    /\ NoThread \notin Threads
    /\ NoProject \notin Projects

\* What a decider emits, and the event the store makes of it.
Body == [type : EventTypes, project : Projects \cup {NoProject},
         thread : Threads \cup {NoThread}]
Event == [sequence : Nat \ {0}, command : Commands, body : Body]

\* The bodies a command emits, as the store appends them to a log of length n:
\* AUTOINCREMENT numbers the events.
Saved(n, c, bodies) ==
    [i \in DOMAIN bodies |-> [sequence |-> n + i, command |-> c, body |-> bodies[i]]]

ProjectEvent(type, p) == [type |-> type, project |-> p, thread |-> NoThread]
ThreadEvent(type, t)  == [type |-> type, project |-> NoProject, thread |-> t]
ThreadCreated(t, p)   == [type |-> "thread.created", project |-> p, thread |-> t]

-----------------------------------------------------------------------------
(* What the read model says. *)

ProjectExists(rm, p) ==
    \E i \in DOMAIN rm : rm[i].body = ProjectEvent("project.created", p)

InProject(rm, t, p) == \E i \in DOMAIN rm : rm[i].body = ThreadCreated(t, p)

ThreadExists(rm, t) == \E p \in Projects : InProject(rm, t, p)

ThreadDeleted(rm, t) ==
    \E i \in DOMAIN rm : rm[i].body = ThreadEvent("thread.deleted", t)

\* archivedAt is set by thread.archived and cleared by thread.unarchived.
ThreadArchived(rm, t) ==
    \E i \in DOMAIN rm :
        /\ rm[i].body = ThreadEvent("thread.archived", t)
        /\ \A j \in DOMAIN rm :
              rm[j].body = ThreadEvent("thread.unarchived", t) => j < i

ActiveThreads(rm, p) == {t \in Threads : InProject(rm, t, p) /\ ~ThreadDeleted(rm, t)}

\* readModel.threads lists the threads in the order of their creation.
CreatedBefore(rm, t, u) ==
    \E i, j \in DOMAIN rm :
        /\ i < j
        /\ \E p \in Projects : rm[i].body = ThreadCreated(t, p)
        /\ \E p \in Projects : rm[j].body = ThreadCreated(u, p)

InCreationOrder(rm, S) ==
    {s \in [1..Cardinality(S) -> S] :
        \A i, j \in DOMAIN s : i < j => CreatedBefore(rm, s[i], s[j])}

-----------------------------------------------------------------------------
(* Each decision is a set: empty when the command violates an invariant,   *)
(* otherwise it holds the non-empty sequence of event bodies to append.    *)

When(guard, decision) == IF guard THEN {decision} ELSE {}

CreateProject(rm, c) ==
    When(~ProjectExists(rm, c.project), <<ProjectEvent("project.created", c.project)>>)

UpdateProject(rm, c) ==
    When(ProjectExists(rm, c.project), <<ProjectEvent("project.meta-updated", c.project)>>)

\* Faulty: the project is deleted before its threads.
DeleteProjectFirst(rm, c) ==
    IF ProjectExists(rm, c.project) /\ c.project # ChatsProject
    THEN {<<ProjectEvent("project.deleted", c.project)>>
              \o [i \in DOMAIN s |-> ThreadEvent("thread.deleted", s[i])] :
            s \in InCreationOrder(rm, ActiveThreads(rm, c.project))}
    ELSE {}

\* The active threads of the project are deleted first, then the project.
DeleteProject(rm, c) ==
    IF ProjectExists(rm, c.project) /\ c.project # ChatsProject
    THEN {Append([i \in DOMAIN s |-> ThreadEvent("thread.deleted", s[i])],
                 ProjectEvent("project.deleted", c.project)) :
            s \in InCreationOrder(rm, ActiveThreads(rm, c.project))}
    ELSE {}

\* Faulty: the thread may exist already, in another project.
CreateThreadAgain(rm, c) ==
    When(ProjectExists(rm, c.project) /\ ~InProject(rm, c.thread, c.project),
         <<ThreadCreated(c.thread, c.project)>>)

CreateThread(rm, c) ==
    When(/\ ProjectExists(rm, c.project)
         /\ ~ThreadExists(rm, c.thread)
         /\ c.parent # NoThread => InProject(rm, c.parent, c.project)
         /\ c.seeds <= MaxSeedMessages,
         [i \in 1..(c.seeds + 1) |->
            IF i = 1 THEN ThreadCreated(c.thread, c.project)
                     ELSE ThreadEvent("thread.message-sent", c.thread)])

DeleteThread(rm, c) ==
    When(ThreadExists(rm, c.thread), <<ThreadEvent("thread.deleted", c.thread)>>)

ArchiveThread(rm, c) ==
    When(ThreadExists(rm, c.thread) /\ ~ThreadArchived(rm, c.thread),
         <<ThreadEvent("thread.archived", c.thread)>>)

UnarchiveThread(rm, c) ==
    When(ThreadExists(rm, c.thread) /\ ThreadArchived(rm, c.thread),
         <<ThreadEvent("thread.unarchived", c.thread)>>)

RecordOnThread(rm, c) ==
    {<<ThreadEvent(e, c.thread)>> :
        e \in {e \in EventTypes :
                 ThreadExists(rm, c.thread) /\ <<c.type, e>> \in FieldEvents \cup TurnEvents}}

\* A turn start that implements no proposed plan.
StartTurn(rm, c) ==
    When(ThreadExists(rm, c.thread),
         <<ThreadEvent("thread.message-sent", c.thread),
           ThreadEvent("thread.turn-start-requested", c.thread)>>)

\* decideOrchestrationCommand: routes a command to its decider.
Decisions(rm, c) ==
    CASE c.type = "project.create"      -> CreateProject(rm, c)
      [] c.type = "project.meta.update" -> UpdateProject(rm, c)
      [] c.type = "project.delete"      -> DeleteProject(rm, c)
      [] c.type = "thread.create"       -> CreateThread(rm, c)
      [] c.type = "thread.delete"       -> DeleteThread(rm, c)
      [] c.type = "thread.archive"      -> ArchiveThread(rm, c)
      [] c.type = "thread.unarchive"    -> UnarchiveThread(rm, c)
      [] c.type = "thread.turn.start"   -> StartTurn(rm, c)
      [] OTHER                          -> RecordOnThread(rm, c)
=============================================================================
