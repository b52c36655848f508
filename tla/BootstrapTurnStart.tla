-------------------------- MODULE BootstrapTurnStart --------------------------
(***************************************************************************)
(* The first message of a chat: one request of the client makes the server *)
(* create the thread, prepare a git worktree, record its path, launch the  *)
(* setup script and only then start the turn, and clean up when a step     *)
(* fails.  Each step that changes the server's state is a command of its   *)
(* own, dispatched to the engine (modelled by the CommandLog it            *)
(* implements) behind those of other requests for the same thread.         *)
(***************************************************************************)
EXTENDS Naturals, Sequences, FiniteSets, FiniteSetsExt

CONSTANTS Attempts,     \* handlers of a thread.turn.start request with a bootstrap
          Request,      \* what each attempt asks for
          user,         \* the user, who may delete the thread meanwhile
          thread, project,
          ChatsProject, NoProject, NoThread, MaxSeedMessages,
          MaxStorageErrors,  \* bound on the commands that fail in the store
          MaxInterrupted     \* no interruption once so many attempts have been

\* Attempts of the same message start the turn with the same command id: they
\* are transmissions of the same request.
ASSUME BootstrapAssumption ==
    /\ Request \in [Attempts -> [message : Attempts, createThread : BOOLEAN,
                                 worktreePath : BOOLEAN, prepareWorktree : BOOLEAN,
                                 runSetupScript : BOOLEAN]]
    /\ \A a, b \in Attempts : Request[a].message = Request[b].message => Request[a] = Request[b]
    /\ user \notin Attempts
    /\ MaxStorageErrors \in Nat /\ MaxInterrupted \in Nat

Projects == {project}
Threads == {thread}

\* The stages in which an attempt waits for a command, and what it asks for.
CommandType ==
    [create    |-> "thread.create",          update  |-> "thread.meta.update",
     requested |-> "thread.activity.append", started |-> "thread.activity.append",
     failed    |-> "thread.activity.append", turn    |-> "thread.turn.start",
     cleanup   |-> "thread.delete"]
Dispatching == DOMAIN CommandType

\* serverCommandId is fresh, the turn start keeps the id the client gave it.
CommandId(a, stage) == <<IF stage = "turn" THEN Request[a].message ELSE a, stage>>
UserDelete == <<user, "cleanup">>
CreateProject == <<user, "create">>

Commands == {CommandId(a, s) : a \in Attempts, s \in Dispatching} \cup {UserDelete, CreateProject}

Content ==
    [c \in Commands |->
        [type |-> IF c = CreateProject THEN "project.create" ELSE CommandType[c[2]],
         project |-> project, thread |-> thread, parent |-> NoThread, seeds |-> 0]]

VARIABLES log, outcome,   \* the engine's, seen through the log it implements
          queue,          \* dispatches the engine has not handled
          reply,          \* the answer to the dispatch an attempt waits for
          stage,          \* where each attempt is
          created,        \* createdThread
          result,         \* what the attempt told the client
          storageErrors   \* commands whose dispatch failed in the store

bootstrapVars == <<log, outcome, queue, reply, stage, created, result, storageErrors>>

Engine == INSTANCE CommandLog

Dispatch == [from : Attempts \cup {user}, command : Commands]

\* The project has been created before.
BootstrapInit ==
    /\ log = Engine!Saved(0, CreateProject, <<Engine!ProjectEvent("project.created", project)>>)
    /\ outcome = [c \in Commands |->
                    IF c = CreateProject THEN [status |-> "accepted", sequence |-> 1]
                                         ELSE [status |-> "none", sequence |-> 0]]
    /\ queue = <<>>
    /\ reply = [a \in Attempts |-> "none"]
    /\ stage = [a \in Attempts |-> "new"]
    /\ created = [a \in Attempts |-> FALSE]
    /\ result = [a \in Attempts |-> "none"]
    /\ storageErrors = {}

-----------------------------------------------------------------------------
(* The engine, one dispatch at a time. *)

\* An attempt that has gone no longer waits for its answer.
Answer(answer) ==
    LET from == Head(queue).from IN
    /\ queue' = Tail(queue)
    /\ reply' = IF from \in Attempts /\ result[from] = "none"
                THEN [reply EXCEPT ![from] = answer] ELSE reply
    /\ UNCHANGED <<stage, created, result>>

Handle ==
    /\ queue # <<>>
    /\ LET c == Head(queue).command IN
        \/ Engine!Accept(c) /\ Answer("ok")
        \/ Engine!Reject(c) /\ Answer("error")
        \/ /\ outcome[c].status # "none"
           /\ Answer(IF outcome[c].status = "accepted" THEN "ok" ELSE "error")
           /\ UNCHANGED <<log, outcome>>
    /\ UNCHANGED storageErrors

\* The store fails before the command is durable, or after.
HandleFailing ==
    /\ queue # <<>>
    /\ Cardinality(storageErrors) < MaxStorageErrors
    /\ LET c == Head(queue).command IN
        /\ outcome[c].status = "none"
        /\ Engine!Accept(c) \/ UNCHANGED <<log, outcome>>
        /\ storageErrors' = storageErrors \cup {c}
    /\ Answer("error")

DeleteByUser ==
    /\ outcome[UserDelete].status = "none"
    /\ \A i \in DOMAIN queue : queue[i].command # UserDelete
    /\ queue' = Append(queue, [from |-> user, command |-> UserDelete])
    /\ UNCHANGED <<log, outcome, reply, stage, created, result, storageErrors>>

-----------------------------------------------------------------------------
(* An attempt. *)

\* The stages of bootstrapProgram that attempt a takes, from one of them on.
FromSetup(a) ==
    IF Request[a].runSetupScript /\ (Request[a].prepareWorktree \/ Request[a].worktreePath)
    THEN "setup" ELSE "turn"

FromWorktree(a) == IF Request[a].prepareWorktree THEN "worktree" ELSE FromSetup(a)

FromCreate(a) == IF Request[a].createThread THEN "create" ELSE FromWorktree(a)

Enter(a, s) ==
    /\ stage' = [stage EXCEPT ![a] = s]
    /\ queue' = IF s \in Dispatching
                THEN Append(queue, [from |-> a, command |-> CommandId(a, s)]) ELSE queue
    /\ UNCHANGED result

End(a, r) ==
    /\ stage' = [stage EXCEPT ![a] = "ended"]
    /\ result' = [result EXCEPT ![a] = r]
    /\ UNCHANGED queue

\* Faulty: the thread is deleted whoever created it.
AbortDeleting(a) == IF Request[a].createThread THEN Enter(a, "cleanup") ELSE End(a, "failed")

\* catchCause: the thread is deleted if this attempt knows to have created it.
Abort(a) == IF created[a] THEN Enter(a, "cleanup") ELSE End(a, "failed")

Begin(a) ==
    /\ stage[a] = "new"
    /\ Enter(a, FromCreate(a))
    /\ UNCHANGED <<log, outcome, reply, created, storageErrors>>

\* Faulty: createdThread is not set.
RememberNothing(a) == UNCHANGED created

Remember(a) == created' = [created EXCEPT ![a] = @ \/ stage[a] = "create"]

Dispatched(a) ==
    /\ reply[a] = "ok"
    /\ CASE stage[a] = "create"                -> Enter(a, FromWorktree(a))
         [] stage[a] = "update"                -> Enter(a, FromSetup(a))
         [] stage[a] = "requested"             -> Enter(a, "started")
         [] stage[a] \in {"started", "failed"} -> Enter(a, "turn")
         [] stage[a] = "turn"                  -> End(a, "accepted")
         [] stage[a] = "cleanup"               -> End(a, "failed")
    /\ Remember(a)
    /\ reply' = [reply EXCEPT ![a] = "none"]
    /\ UNCHANGED <<log, outcome, storageErrors>>

\* Failures to record what the setup script does, or to clean up, are ignored.
DispatchFailed(a) ==
    /\ reply[a] = "error"
    /\ CASE stage[a] \in {"create", "update", "turn"}         -> Abort(a)
         [] stage[a] \in {"requested", "started", "failed"}   -> Enter(a, "turn")
         [] stage[a] = "cleanup"                              -> End(a, "failed")
    /\ reply' = [reply EXCEPT ![a] = "none"]
    /\ UNCHANGED <<log, outcome, created, storageErrors>>

\* Faulty: goes on without the worktree.
CreateWorktreeOrGoOn(a) ==
    /\ stage[a] = "worktree"
    /\ Enter(a, "update") \/ Enter(a, "turn")
    /\ UNCHANGED <<log, outcome, reply, created, storageErrors>>

CreateWorktree(a) ==
    /\ stage[a] = "worktree"
    /\ Enter(a, "update") \/ Abort(a)
    /\ UNCHANGED <<log, outcome, reply, created, storageErrors>>

\* The setup script is started, fails to start, or there is none.
RunSetupScript(a) ==
    /\ stage[a] = "setup"
    /\ Enter(a, "requested") \/ Enter(a, "failed") \/ Enter(a, "turn")
    /\ UNCHANGED <<log, outcome, reply, created, storageErrors>>

MayInterrupt == Cardinality({a \in Attempts : result[a] = "interrupted"}) < MaxInterrupted

\* The client goes away: what is in the engine's queue is run all the same,
\* but nothing is cleaned up.
Interrupt(a) ==
    /\ MayInterrupt
    /\ stage[a] \notin {"new", "ended"}
    /\ End(a, "interrupted")
    /\ reply' = [reply EXCEPT ![a] = "none"]
    /\ UNCHANGED <<log, outcome, created, storageErrors>>

\* The server dies with what it had in memory.
Crash ==
    LET running == {a \in Attempts : stage[a] \notin {"new", "ended"}} IN
    /\ MayInterrupt
    /\ running # {}
    /\ stage' = [a \in Attempts |-> IF a \in running THEN "ended" ELSE stage[a]]
    /\ result' = [a \in Attempts |-> IF a \in running THEN "interrupted" ELSE result[a]]
    /\ reply' = [a \in Attempts |-> "none"]
    /\ queue' = <<>>
    /\ UNCHANGED <<log, outcome, created, storageErrors>>

BootstrapNext ==
    \/ Handle \/ HandleFailing \/ DeleteByUser \/ Crash
    \/ \E a \in Attempts : \/ Begin(a) \/ Dispatched(a) \/ DispatchFailed(a)
                           \/ CreateWorktree(a) \/ RunSetupScript(a) \/ Interrupt(a)

BootstrapSpec == BootstrapInit /\ [][BootstrapNext]_bootstrapVars

-----------------------------------------------------------------------------
\* The variables have their types, and only an attempt that waits for a
\* dispatch has an answer to read.
BootstrapTypeOK ==
    /\ Engine!TypeOK
    /\ queue \in Seq(Dispatch)
    /\ reply \in [Attempts -> {"none", "ok", "error"}]
    /\ stage \in [Attempts -> Dispatching \cup {"new", "worktree", "setup", "ended"}]
    /\ created \in [Attempts -> BOOLEAN]
    /\ result \in [Attempts -> {"none", "accepted", "failed", "interrupted"}]
    /\ storageErrors \subseteq Commands
    /\ \A a \in Attempts : /\ reply[a] # "none" => stage[a] \in Dispatching
                           /\ result[a] # "none" <=> stage[a] = "ended"

Before(i, c) == \E j \in 1..(i - 1) : log[j].command = c

\* A bootstrap that fails deletes the thread only if it has created it, so a
\* duplicate of a request never destroys the thread of the first, nor, unless
\* an answer of the engine was wrong, a thread whose turn it has started.
CleansUpOnlyItsOwn ==
    \A a \in Attempts, i \in DOMAIN log :
        log[i].command = CommandId(a, "cleanup") =>
            /\ Before(i, CommandId(a, "create"))
            /\ CommandId(a, "turn") \in storageErrors \/ ~Before(i, CommandId(a, "turn"))

\* When the client is told that the bootstrap failed, the thread it created is
\* gone, unless the store failed on the command that creates or deletes it.
FailureLeavesNoThread ==
    \A a \in Attempts :
        /\ result[a] = "failed"
        /\ outcome[CommandId(a, "create")].status = "accepted"
        /\ {CommandId(a, "create"), CommandId(a, "cleanup")} \cap storageErrors = {}
        => Engine!ThreadDeleted(log, thread)

\* A turn starts only after all that its message asked for: the thread created
\* and the path of the worktree recorded, in this order, by one attempt.
TurnFollowsPreparation ==
    \A i \in DOMAIN log, m \in Attempts : log[i].command = <<m, "turn">> =>
        \E a \in Attempts :
            /\ Request[a].message = m
            /\ Request[a].prepareWorktree => Before(i, CommandId(a, "update"))
            /\ Request[a].createThread =>
                  \E j \in 1..(i - 1) :
                      /\ log[j].command = CommandId(a, "create")
                      /\ \A k \in DOMAIN log :
                            log[k].command = CommandId(a, "update") => j < k
=============================================================================
