---------------------------- MODULE ServerStartup ----------------------------
(***************************************************************************)
(* The startup of the server, its command gate and its lifecycle stream.   *)
(* One fiber starts the reactors, makes sure that there is a project and a *)
(* thread to show, publishes a welcome event that names them, opens the    *)
(* gate, waits for the HTTP listener and publishes a ready event.  Its own *)
(* commands go to the engine past the gate; those of the clients wait      *)
(* behind it.  A client that subscribes to the lifecycle is given the      *)
(* latest events and then the live ones.  The server may die at any step   *)
(* and start again on the database it left.                                *)
(***************************************************************************)
EXTENDS StartupCommandGate, SequencesExt

CONSTANTS Subscribers,  \* clients' subscriptions to the lifecycle, one per boot
          MaxCrashes    \* bound on the deaths of the server

ASSUME StartupAssumption == MaxCrashes \in Nat

VARIABLES
    \* the database
    chats,      \* there is the built-in project of chats
    project,    \* the last project created for the server's directory
    thread,     \* the last thread created for it
    \* the fiber
    auto,       \* autoBootstrapProjectFromCwd, a setting of each start
    at,         \* the step it is at
    found,      \* the project and the thread it has found or created, 0 for none
    listening,  \* httpListening
    \* ServerLifecycleEvents
    sequence, events,  \* the state
    publishing,        \* the event that is in the state and not yet published
    \* the subscriptions
    sub,        \* where each is
    from,       \* the sequence of the snapshot it was given
    inbox,      \* what it has not taken of the PubSub
    received,   \* what it has been sent, in order
    missed,     \* observation: what was published between its two parts
    crashes, lost  \* how often the server has died, and with which calls

database  == <<chats, project, thread>>
fiber     == <<auto, at, found>>
lifecycle == <<sequence, events, publishing>>
client    == <<sub, from, inbox, received, missed>>
deaths    == <<crashes, lost>>
vars == <<gateVars, database, fiber, listening, lifecycle, client, deaths>>

Nothing == [project |-> 0, thread |-> 0]
NoEvent == [type |-> "none", sequence |-> 0]

\* A process that has just started.
Boot ==
    /\ auto \in BOOLEAN /\ at = "reactors" /\ found = Nothing /\ listening = FALSE
    /\ sequence = 0 /\ events = {} /\ publishing = NoEvent
    /\ sub = [s \in Subscribers |-> "away"]
    /\ from = [s \in Subscribers |-> 0]
    /\ inbox = [s \in Subscribers |-> <<>>]
    /\ received = [s \in Subscribers |-> <<>>]
    /\ missed = [s \in Subscribers |-> {}]

Init ==
    /\ chats = FALSE
    /\ project = [id |-> 0, status |-> "none"]
    /\ thread = [id |-> 0, project |-> 0, status |-> "none"]
    /\ GateInit /\ Boot
    /\ crashes = 0 /\ lost = {}

-----------------------------------------------------------------------------
(* startup *)

\* The fiber goes from one step to the next.
Step(here, there) == at = here /\ at' = there

OnlyFiber ==
    UNCHANGED <<gateVars, auto, listening, lifecycle, client, deaths>>

StartReactors ==
    /\ Step("reactors", "chats")
    /\ UNCHANGED <<database, found>>
    /\ OnlyFiber

\* autoBootstrapWelcome: the built-in project is created once ...
EnsureChats ==
    /\ Step("chats", IF auto THEN "project" ELSE "welcome")
    /\ chats' = TRUE
    /\ UNCHANGED <<project, thread, found>>
    /\ OnlyFiber

\* ... getActiveProjectByWorkspaceRoot ...
LookUpProject ==
    /\ Step("project", IF project.status = "active" THEN "thread" ELSE "createProject")
    /\ found' = [found EXCEPT !.project = IF project.status = "active" THEN project.id ELSE 0]
    /\ UNCHANGED database
    /\ OnlyFiber

CreateProject ==
    /\ Step("createProject", "thread")
    /\ project' = [id |-> project.id + 1, status |-> "active"]
    /\ found' = [found EXCEPT !.project = project.id + 1]
    /\ UNCHANGED <<chats, thread>>
    /\ OnlyFiber

\* Faulty: a deleted thread is found as well.
LookUpAnyThread ==
    LET there == thread.project = found.project IN
    /\ Step("thread", IF there THEN "welcome" ELSE "createThread")
    /\ found' = [found EXCEPT !.thread = IF there THEN thread.id ELSE 0]
    /\ UNCHANGED database
    /\ OnlyFiber

\* ... getFirstActiveThreadIdByProjectId, which finds archived threads too ...
LookUpThread ==
    LET there == thread.project = found.project /\ thread.status \in {"active", "archived"} IN
    /\ Step("thread", IF there THEN "welcome" ELSE "createThread")
    /\ found' = [found EXCEPT !.thread = IF there THEN thread.id ELSE 0]
    /\ UNCHANGED database
    /\ OnlyFiber

CreateThread ==
    /\ Step("createThread", "welcome")
    /\ thread' = [id |-> thread.id + 1, project |-> found.project, status |-> "active"]
    /\ found' = [found EXCEPT !.thread = thread.id + 1]
    /\ UNCHANGED <<chats, project>>
    /\ OnlyFiber

-----------------------------------------------------------------------------
(* ServerLifecycleEvents *)

\* publish: the state is updated, and keeps the latest event of each type ...
Announce(type) ==
    LET event == [type |-> type, sequence |-> sequence + 1] IN
    /\ sequence' = sequence + 1
    /\ events' = {e \in events : e.type # type} \cup {event}
    /\ publishing' = event

\* ... then the event goes to the PubSub.
Publish ==
    /\ publishing # NoEvent
    /\ inbox' = [s \in Subscribers |->
                   IF sub[s] = "live" THEN Append(inbox[s], publishing) ELSE inbox[s]]
    /\ publishing' = NoEvent
    /\ UNCHANGED <<gateVars, database, fiber, listening, sequence, events, sub, from, received,
                   missed, deaths>>

AnnounceWelcome ==
    /\ Step("welcome", "signal")
    /\ Announce("welcome")
    /\ UNCHANGED <<gateVars, database, auto, found, listening, client, deaths>>

-----------------------------------------------------------------------------
(* The end of the startup. *)

\* A step of the startup fails.  A failure after the step's command has committed
\* is the failure of the step after it.
StepFails ==
    /\ at \in {"reactors", "chats", "project", "createProject", "thread", "createThread",
              "welcome"}
    /\ at' = "failing"
    /\ UNCHANGED <<database, found>>
    /\ OnlyFiber

\* Faulty: the gate is opened while the welcome is prepared.
SignalBeforeWelcome ==
    /\ at \in {"thread", "welcome", "signal"} /\ publishing = NoEvent
    /\ EndStartup("ready")
    /\ at' = IF at = "signal" THEN "http" ELSE at
    /\ UNCHANGED <<database, auto, found, listening, lifecycle, client, deaths>>

Signal ==
    /\ Step("signal", "http") /\ publishing = NoEvent
    /\ EndStartup("ready")
    /\ UNCHANGED <<database, auto, found, listening, lifecycle, client, deaths>>

SignalFailure ==
    /\ Step("failing", "failed")
    /\ EndStartup("failed")
    /\ UNCHANGED <<database, auto, found, listening, lifecycle, client, deaths>>

Complete ==
    /\ CompleteReady
    /\ UNCHANGED <<database, fiber, listening, lifecycle, client, deaths>>

MarkHttpListening ==
    /\ ~listening /\ listening' = TRUE
    /\ UNCHANGED <<gateVars, database, fiber, lifecycle, client, deaths>>

AnnounceReady ==
    /\ Step("http", "done") /\ commandReady # "unset" /\ listening
    /\ Announce("ready")
    /\ UNCHANGED <<gateVars, database, auto, found, listening, client, deaths>>

-----------------------------------------------------------------------------
(* The clients' commands: what they do to the project and the thread, some   *)
(* time while they run.                                                      *)

Running(c) == stage[c] = "running" \/ (working = "running" /\ current = c)

RunCommand ==
    /\ \E c \in Callers : Running(c)
    /\ \/ /\ thread.status \in {"active", "archived"}
          /\ \E status \in {"active", "archived", "deleted"} \ {thread.status} :
               thread' = [thread EXCEPT !.status = status]
          /\ UNCHANGED project
       \/ /\ project.status = "active"
          /\ project' = [project EXCEPT !.status = "deleted"]
          /\ thread' = IF thread.project = project.id
                         THEN [thread EXCEPT !.status = "deleted"] ELSE thread
    /\ UNCHANGED <<gateVars, chats, fiber, listening, lifecycle, client, deaths>>

Gate ==
    /\ CommandWorker \/ (\E c \in Callers : EnqueueCommand(c))
    /\ UNCHANGED <<database, fiber, listening, lifecycle, client, deaths>>

\* A call that was lost is not made again: a retry is another call.
Clients ==
    /\ \E c \in Callers \ lost : ReadReadiness(c) \/ Abandon(c)
    /\ UNCHANGED <<database, fiber, listening, lifecycle, client, deaths>>

-----------------------------------------------------------------------------
(* subscribeServerLifecycle *)

InOrder(S) ==
    CHOOSE s \in [1..Cardinality(S) -> S] :
        \A i, j \in DOMAIN s : i < j => s[i].sequence < s[j].sequence

\* The snapshot is read, and sent in the order of the sequences ...
ReadSnapshot(s) ==
    /\ sub[s] = "away"
    /\ sub' = [sub EXCEPT ![s] = "snapshot"]
    /\ from' = [from EXCEPT ![s] = sequence]
    /\ received' = [received EXCEPT ![s] = InOrder(events)]
    /\ UNCHANGED <<gateVars, database, fiber, listening, lifecycle, inbox, missed, deaths>>

\* ... and the live part of the stream subscribes once it has been sent.
Subscribe(s) ==
    /\ sub[s] = "snapshot"
    /\ sub' = [sub EXCEPT ![s] = "live"]
    /\ missed' = [missed EXCEPT ![s] =
                    {e \in events : e.sequence > from[s] /\ e # publishing}]
    /\ UNCHANGED <<gateVars, database, fiber, listening, lifecycle, from, inbox, received,
                   deaths>>

\* Faulty: the filter lets the last event of the snapshot through.
ReceiveAgain(s) ==
    /\ inbox[s] # <<>>
    /\ inbox' = [inbox EXCEPT ![s] = Tail(@)]
    /\ received' = IF Head(inbox[s]).sequence >= from[s]
                     THEN [received EXCEPT ![s] = Append(@, Head(inbox[s]))] ELSE received
    /\ UNCHANGED <<gateVars, database, fiber, listening, lifecycle, sub, from, missed, deaths>>

Receive(s) ==
    /\ inbox[s] # <<>>
    /\ inbox' = [inbox EXCEPT ![s] = Tail(@)]
    /\ received' = IF Head(inbox[s]).sequence > from[s]
                     THEN [received EXCEPT ![s] = Append(@, Head(inbox[s]))] ELSE received
    /\ UNCHANGED <<gateVars, database, fiber, listening, lifecycle, sub, from, missed, deaths>>

-----------------------------------------------------------------------------
\* The process dies with its calls, its streams and its queues.
Crash ==
    /\ crashes < MaxCrashes /\ crashes' = crashes + 1
    /\ lost' = lost \cup {c \in Callers : stage[c] # "idle"}
    /\ readiness' = "pending" /\ commandReady' = "unset"
    /\ seen' = [c \in Callers |-> "pending"] /\ stage' = [c \in Callers |-> "idle"]
    /\ commandQueue' = <<>> /\ current' = NoCaller /\ working' = "taking"
    /\ result' = [c \in Callers |-> "none"] /\ started' = <<>>
    /\ auto' \in BOOLEAN /\ at' = "reactors" /\ found' = Nothing /\ listening' = FALSE
    /\ sequence' = 0 /\ events' = {} /\ publishing' = NoEvent
    /\ sub' = [s \in Subscribers |-> "away"]
    /\ from' = [s \in Subscribers |-> 0]
    /\ inbox' = [s \in Subscribers |-> <<>>]
    /\ received' = [s \in Subscribers |-> <<>>]
    /\ missed' = [s \in Subscribers |-> {}]
    /\ UNCHANGED database

Startup ==
    \/ StartReactors \/ EnsureChats \/ LookUpProject \/ CreateProject \/ LookUpThread
    \/ CreateThread \/ AnnounceWelcome \/ Publish \/ Signal \/ SignalFailure \/ Complete
    \/ AnnounceReady

Stream(s) == ReadSnapshot(s) \/ Subscribe(s) \/ Receive(s)

Next ==
    \/ Startup \/ StepFails \/ MarkHttpListening
    \/ Gate \/ Clients \/ RunCommand
    \/ \E s \in Subscribers : Stream(s)
    \/ Crash

\* The fibers keep running and the effects behind the gate end.  Nobody has to
\* call, subscribe or leave, and nothing has to fail.
Spec ==
    /\ Init /\ [][Next]_vars
    /\ WF_vars(Startup)
    /\ WF_vars(CommandWorker /\ Gate)
    /\ \A c \in Callers : WF_vars(EnqueueCommand(c) /\ Gate)

-----------------------------------------------------------------------------
(* Properties *)

Published == {e \in events : e # publishing}

TypeOK ==
    /\ GateTypeOK
    /\ chats \in BOOLEAN /\ auto \in BOOLEAN /\ listening \in BOOLEAN
    /\ project.id \in Nat /\ thread.id \in Nat /\ thread.project \in 0..project.id
    /\ sequence \in 0..2 /\ Cardinality(events) = sequence
    /\ publishing \in events \cup {NoEvent}
    /\ sub \in [Subscribers -> {"away", "snapshot", "live"}]
    /\ from \in [Subscribers -> 0..2]
    /\ crashes \in 0..MaxCrashes /\ lost \subseteq Callers

\* No command of a client reaches the engine before the startup has succeeded
\* and the welcome was published, or after it has failed, however the caller's
\* read of the readiness raced with the end of the startup.
CommandsFollowWelcome ==
    started # <<>> => readiness = "ready" /\ \E e \in Published : e.type = "welcome"

\* What the welcome names can be shown when it is published: whatever clients
\* deleted before the last crash, and wherever the startup was then interrupted.
WelcomeNamesExisting ==
    at = "welcome" \/ publishing.type = "welcome" =>
        /\ chats
        /\ auto => /\ found.project = project.id /\ project.status = "active"
                   /\ found.thread = thread.id /\ thread.status \in {"active", "archived"}
                   /\ thread.project = project.id

\* A subscriber is sent the lifecycle events in their order, none twice, and has
\* all of them when nothing is under way, except those published between the
\* snapshot and the live part of its stream.
LifecycleDelivered ==
    \A s \in Subscribers :
        /\ \A i, j \in DOMAIN received[s] :
              i < j => received[s][i].sequence < received[s][j].sequence
        /\ sub[s] = "live" /\ inbox[s] = <<>> /\ publishing = NoEvent =>
              events = missed[s] \cup {received[s][i] : i \in DOMAIN received[s]}

\* Every command that was read at the gate is run or refused, even when its
\* caller queued it after the startup had ended or has left since, unless the
\* server dies with it.
EveryCommandSettled ==
    \A c \in Callers : stage[c] = "read" ~> (result[c] # "none" \/ c \in lost)
=============================================================================
