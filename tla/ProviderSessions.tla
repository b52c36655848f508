--------------------------- MODULE ProviderSessions ---------------------------
(***************************************************************************)
(* How the turns of one thread reach a provider, Codex.  The worker of the  *)
(* thread handles the user's requests one by one: it starts or restarts a   *)
(* session when it finds none that fits, binds it to the thread and sends   *)
(* the turn.  A session is a child process; the manager keeps one per       *)
(* thread, by thread id, and never looks which of them a call is about.     *)
(* What the processes report goes through the ingestion, which sets the     *)
(* thread's session behind the worker's back.  A conversation of the        *)
(* provider outlives its process and is found again by its cursor.          *)
(***************************************************************************)
EXTENDS Naturals, Sequences, FiniteSets, FiniteSetsExt, Functions

CONSTANTS MaxTurns,    \* bound on the turns asked for
          MaxEvents,   \* bound on everything else that the user, the
                       \* processes and the machine may do
          Kinds,       \* the requests besides turns that the user may make
          ImageTurns   \* turns with images: no transcript is sent with them

ASSUME SessionAssumption ==
    /\ {MaxTurns, MaxEvents} \subseteq Nat
    /\ Kinds \subseteq {"mode", "interrupt", "stop"}
    /\ ImageTurns \subseteq 1..MaxTurns

Turns == 1..MaxTurns    \* the messages of the user, in order
Modes == {0, 1}         \* runtimeMode: "full-access", the default, or "approval-required"
Steps == {"ensure", "open", "persist", "bind", "route", "send"}

VARIABLES asked,         \* how many turns the thread was asked for
          mode,          \* runtimeMode of the thread
          status,        \* of the thread's session: "live" is any but "stopped"
          sessionMode,   \* runtimeMode of the thread's session
          inbox,         \* requests the worker has not handled
          job,           \* what it is doing
          children,      \* the live processes: their cursor, 0 until opened, and mode
          sessions,      \* the process that the manager has for the thread, or 0
          binding,       \* the persisted cursor, 0 without one, and mode
          conv,          \* the conversations, by cursor: the messages they hold
          ingest,        \* reports the ingestion has not handled
          ingesting,     \* the one it is about to record, and the mode it has read
          sent, failed,  \* turns delivered; turns answered with a failure
          lost,          \* observation: turns the server died with, or whose
                         \* failure could not be recorded
          events,        \* how many of the events that MaxEvents bounds
          gaps           \* observation: what was given up, "context" or "mode"

thread    == <<asked, mode>>
session   == <<status, sessionMode>>
processes == <<children, sessions>>
provider  == <<binding, conv>>
reports   == <<ingest, ingesting>>
answers   == <<sent, failed, lost>>
providerVars == <<thread, session, inbox, job, processes, provider, reports, answers, events, gaps>>

\* mode is that of the thread when the worker looked for a session; child, childMode
\* and cursor are the process it has spawned and what this is to open, or has.
Idle == [step |-> "idle", kind |-> "none", turn |-> 0, transcript |-> 0, mode |-> 0,
         child |-> 0, childMode |-> 0, cursor |-> 0, recovering |-> FALSE]
Unopened(m) == [cursor |-> 0, mode |-> m]
NoReport == [report |-> "none", mode |-> 0]

ProviderInit ==
    /\ asked = 0 /\ mode = 0 /\ status = "none" /\ sessionMode = 0
    /\ inbox = <<>> /\ job = Idle
    /\ children = <<>> /\ sessions = 0 /\ binding = Unopened(0) /\ conv = <<>>
    /\ ingest = <<>> /\ ingesting = NoReport
    /\ sent = {} /\ failed = {} /\ lost = {}
    /\ events = 0 /\ gaps = {}

Count == events < MaxEvents /\ events' = events + 1

-----------------------------------------------------------------------------
(* Requests: committed to the thread and published to its worker. *)

AskTurn ==
    /\ asked < MaxTurns
    /\ asked' = asked + 1
    /\ inbox' = Append(inbox, [kind |-> "turn", turn |-> asked + 1])
    /\ UNCHANGED <<mode, session, job, processes, provider, reports, answers, events, gaps>>

\* The runtime mode of the thread is changed, an interruption is asked for (or a
\* question of the provider answered), or the session is to be stopped.
Ask(kind) ==
    /\ Count
    /\ mode' = IF kind = "mode" THEN 1 - mode ELSE mode
    /\ inbox' = Append(inbox, [kind |-> kind, turn |-> 0])
    /\ UNCHANGED <<asked, session, job, processes, provider, reports, answers, gaps>>

-----------------------------------------------------------------------------
(* The manager of the processes. *)

Live == status \notin {"none", "stopped"}

FreshId == Min(1..(Cardinality(DOMAIN children) + 1) \ DOMAIN children)

\* startSession spawns a process and puts it in the place of the one it had.
Spawn(cursor, m, next) ==
    /\ children' = [c \in DOMAIN children \cup {FreshId} |->
                      IF c = FreshId THEN Unopened(m) ELSE children[c]]
    /\ sessions' = FreshId
    /\ ingest' = Append(ingest, "up")
    /\ job' = [next EXCEPT !.step = "open", !.cursor = cursor, !.childMode = m,
                           !.child = FreshId]

\* stopSession kills the process it has for the thread, if any.
KillSession ==
    /\ children' = Restrict(children, DOMAIN children \ {sessions})
    /\ sessions' = 0
    /\ ingest' = IF sessions = 0 THEN ingest ELSE Append(ingest, "down")

\* Faulty: the thread's process is kept when another one dies, whose end is
\* reported for the thread all the same.
AnotherChildExits ==
    /\ Count
    /\ \E c \in DOMAIN children :
         /\ children' = Restrict(children, DOMAIN children \ {c})
         /\ sessions' = IF c = sessions THEN 0 ELSE sessions
    /\ ingest' = Append(ingest, "down")
    /\ UNCHANGED <<thread, session, inbox, job, provider, ingesting, answers, gaps>>

\* A process dies: the manager forgets the thread's process, whichever it is.
ChildExits ==
    /\ Count
    /\ \E c \in DOMAIN children : children' = Restrict(children, DOMAIN children \ {c})
    /\ sessions' = 0
    /\ ingest' = Append(ingest, "down")
    /\ UNCHANGED <<thread, session, inbox, job, provider, ingesting, answers, gaps>>

-----------------------------------------------------------------------------
(* The worker of the thread takes a request. *)

TakeRequest(kind) ==
    /\ inbox # <<>> /\ job = Idle /\ Head(inbox).kind = kind
    /\ inbox' = Tail(inbox)

\* processTurnStartRequested and sendTurnForThread: without a session the turn
\* takes the messages of the thread along, if there is more than its own.
TakeTurn ==
    /\ TakeRequest("turn")
    /\ LET t == Head(inbox).turn
           rebuild == sessions = 0 /\ asked > 1 /\ t \notin ImageTurns
       IN job' = [Idle EXCEPT !.step = "ensure", !.kind = "turn", !.turn = t,
                              !.transcript = IF rebuild THEN asked ELSE 0]
    /\ UNCHANGED <<thread, session, processes, provider, reports, answers, events, gaps>>

\* Requests about a session are dropped, or refused, when the thread has none.
TakeAbout(kind, step) ==
    /\ TakeRequest(kind)
    /\ job' = IF Live THEN [Idle EXCEPT !.step = step, !.kind = kind] ELSE Idle
    /\ UNCHANGED <<thread, session, processes, provider, reports, answers, events, gaps>>

TakeMode == TakeAbout("mode", "ensure")
TakeInterrupt == TakeAbout("interrupt", "route")

\* processSessionStopRequested: stopSession needs a binding, and removes it.
TakeStop ==
    /\ TakeRequest("stop")
    /\ IF Live /\ binding.cursor # 0
         THEN KillSession /\ binding' = Unopened(0)
         ELSE UNCHANGED <<processes, ingest, binding>>
    /\ status' = IF Live /\ binding.cursor = 0 THEN status ELSE "stopped"
    /\ UNCHANGED <<thread, sessionMode, job, conv, ingesting, answers, events, gaps>>

-----------------------------------------------------------------------------
(* The steps of a request, one suspension each. *)

\* The job is done with the process that was spawned for it.
GoOn(step) ==
    [job EXCEPT !.step = step, !.child = 0, !.childMode = 0, !.cursor = 0, !.recovering = FALSE]

\* What comes once the session is there: the turn is sent.
AfterSession(m) == IF job.kind = "turn" THEN [GoOn("route") EXCEPT !.mode = m] ELSE Idle

\* There is nothing to resume, and neither a turn with images nor a change of the
\* mode takes the transcript along.
StartsForgetful ==
    binding.cursor = 0 /\ sent # {} /\ (job.kind = "mode" \/ job.turn \in ImageTurns)

StartSession(j) ==
    /\ Spawn(IF j.transcript > 0 THEN 0 ELSE binding.cursor, mode, j)
    /\ gaps' = IF StartsForgetful THEN gaps \cup {"context"} ELSE gaps

\* Faulty: the mode of a session is changed in a new conversation.
EnsureSessionAfresh ==
    /\ job.step = "ensure"
    /\ LET j == [job EXCEPT !.mode = mode] IN
         \/ /\ Live /\ sessions # 0 /\ mode = sessionMode
            /\ job' = AfterSession(mode)
            /\ UNCHANGED <<processes, ingest, gaps>>
         \/ /\ Live /\ sessions # 0 /\ mode # sessionMode
            /\ Spawn(0, mode, j)
            /\ UNCHANGED gaps
         \/ (~Live \/ sessions = 0) /\ StartSession(j)
    /\ UNCHANGED <<thread, session, inbox, provider, ingesting, answers, events>>

\* ensureSessionForThread keeps a session that fits, resumes one whose mode has
\* changed in another process, and otherwise starts one, afresh for a transcript.
EnsureSession ==
    /\ job.step = "ensure"
    /\ LET j == [job EXCEPT !.mode = mode] IN
         \/ /\ Live /\ sessions # 0 /\ mode = sessionMode
            /\ job' = AfterSession(mode)
            /\ UNCHANGED <<processes, ingest, gaps>>
         \/ /\ Live /\ sessions # 0 /\ mode # sessionMode
            /\ Spawn(children[sessions].cursor, mode, j)
            /\ UNCHANGED gaps
         \/ (~Live \/ sessions = 0) /\ StartSession(j)
    /\ UNCHANGED <<thread, session, inbox, provider, ingesting, answers, events>>

\* The process opens its conversation, a new one if there is none to resume or
\* resuming fails ...
Open ==
    /\ job.step = "open" /\ job.child \in DOMAIN children
    /\ \E resumed \in BOOLEAN :
         /\ resumed => job.cursor # 0
         /\ IF job.cursor # 0 /\ ~resumed
              THEN Count /\ gaps' = gaps \cup {"context"}
              ELSE UNCHANGED <<events, gaps>>
         /\ LET p == IF resumed THEN job.cursor ELSE Len(conv) + 1 IN
              /\ conv' = IF resumed THEN conv ELSE Append(conv, {})
              /\ children' = [children EXCEPT ![job.child].cursor = p]
              /\ job' = [job EXCEPT !.step = "persist", !.cursor = p]
    /\ ingest' = Append(ingest, "up")
    /\ UNCHANGED <<thread, session, inbox, sessions, binding, ingesting, answers>>

\* ... and upsertSessionBinding persists its cursor and its mode.
PersistBinding ==
    /\ job.step = "persist"
    /\ binding' = [cursor |-> job.cursor, mode |-> job.childMode]
    /\ job' = IF job.recovering THEN GoOn("send") ELSE [job EXCEPT !.step = "bind"]
    /\ UNCHANGED <<thread, session, inbox, processes, conv, reports, answers, events, gaps>>

\* appendProviderFailureActivity for a turn, a warning for anything else, and for
\* an activity that cannot be recorded.
GiveUp(unforced) ==
    /\ job' = Idle
    /\ \/ /\ failed' = IF job.kind = "turn" THEN failed \cup {job.turn} ELSE failed
          /\ IF unforced THEN Count ELSE UNCHANGED events
          /\ UNCHANGED lost
       \/ /\ job.kind = "turn" /\ lost' = lost \cup {job.turn}
          /\ Count
          /\ UNCHANGED failed

\* The conversation that the binding names was opened for a transcript which it has
\* not got; when its process is gone the binding is all there is.
Rebuilding ==
    job.transcript > 0 /\ (job.step \in {"bind", "route", "send"} \/ job.recovering)

\* Faulty: a process that dies is waited for without a timeout.
OpenFailsIfRefused ==
    /\ job.step = "open"
    /\ job.child \in DOMAIN children
    /\ KillSession
    /\ GiveUp(TRUE)
    /\ gaps' = IF Rebuilding THEN gaps \cup {"context"} ELSE gaps
    /\ UNCHANGED <<thread, session, inbox, provider, ingesting, sent>>

\* It does not open: it has died, and the request times out, or says no.
OpenFails ==
    /\ job.step = "open"
    /\ KillSession
    /\ GiveUp(job.child \in DOMAIN children)
    /\ gaps' = IF Rebuilding THEN gaps \cup {"context"} ELSE gaps
    /\ UNCHANGED <<thread, session, inbox, provider, ingesting, sent>>

\* bindSessionToThread
Bind ==
    /\ job.step = "bind"
    /\ status' = "live" /\ sessionMode' = job.mode
    /\ job' = AfterSession(job.mode)
    /\ UNCHANGED <<thread, inbox, processes, provider, reports, answers, events, gaps>>

\* Faulty: a session that is gone is recovered in the default mode.
RouteInDefaultMode ==
    /\ job.step = "route"
    /\ \/ binding.cursor = 0 /\ GiveUp(FALSE) /\ UNCHANGED <<processes, ingest>>
       \/ /\ binding.cursor # 0 /\ sessions # 0
          /\ job' = [job EXCEPT !.step = "send"]
          /\ UNCHANGED <<processes, ingest, failed, lost, events>>
       \/ /\ binding.cursor # 0 /\ sessions = 0
          /\ Spawn(binding.cursor, 0, [job EXCEPT !.recovering = TRUE])
          /\ UNCHANGED <<failed, lost, events>>
    /\ UNCHANGED <<thread, session, inbox, provider, ingesting, sent, gaps>>

\* resolveRoutableSession: without a process the persisted session is recovered.
Route ==
    /\ job.step = "route"
    /\ \/ binding.cursor = 0 /\ GiveUp(FALSE) /\ UNCHANGED <<processes, ingest>>
       \/ /\ binding.cursor # 0 /\ sessions # 0
          /\ job' = [job EXCEPT !.step = "send"]
          /\ UNCHANGED <<processes, ingest, failed, lost, events>>
       \/ /\ binding.cursor # 0 /\ sessions = 0
          /\ Spawn(binding.cursor, binding.mode, [job EXCEPT !.recovering = TRUE])
          /\ UNCHANGED <<failed, lost, events>>
    /\ UNCHANGED <<thread, session, inbox, provider, ingesting, sent, gaps>>

\* buildBootstrapInput: the latest messages of the transcript that the limit of the
\* input leaves room for, or none.
Kept == {from..job.transcript : from \in 1..(job.transcript + 1)}

\* The turn, and what is kept of its transcript, go to the conversation of the
\* thread's process.  A turn whose conversation cannot be persisted then is
\* answered with a failure although it was sent.
SendTurn ==
    LET p == children[sessions].cursor IN
    /\ \E kept \in Kept :
         /\ conv' = [conv EXCEPT ![p] = @ \cup {job.turn} \cup kept]
         /\ gaps' = IF kept = 1..job.transcript THEN gaps ELSE gaps \cup {"context"}
    /\ sent' = sent \cup {job.turn}
    /\ \/ /\ binding' = [binding EXCEPT !.cursor = p] /\ job' = Idle
          /\ UNCHANGED <<failed, lost, events>>
       \/ GiveUp(TRUE) /\ UNCHANGED binding

Send ==
    /\ job.step = "send" /\ sessions # 0
    /\ \/ job.kind = "turn" /\ SendTurn
       \/ /\ job.kind # "turn" /\ job' = Idle
          /\ UNCHANGED <<conv, gaps, sent, binding, failed, lost, events>>
    /\ UNCHANGED <<thread, session, inbox, processes, reports>>

\* A step fails, a turn without a process in any case.  A process whose binding was
\* not persisted, or that was not bound, stays as it is, and so does one that was
\* started for a transcript it has not got.
StepFails ==
    /\ job.step \in {"persist", "bind", "route", "send"}
    /\ GiveUp(job.step # "send" \/ sessions # 0)
    /\ gaps' = gaps \cup (IF job.step \in {"persist", "bind"} /\ ~job.recovering
                              THEN {"mode"} ELSE {})
                    \cup (IF job.transcript > 0 THEN {"context"} ELSE {})
    /\ UNCHANGED <<thread, session, inbox, processes, provider, reports, sent>>

-----------------------------------------------------------------------------
(* ProviderRuntimeIngestion records what the processes report, with the mode *)
(* that it has read some time before.                                        *)

IngestRead ==
    /\ ingest # <<>> /\ ingesting = NoReport
    /\ ingesting' = [report |-> Head(ingest), mode |-> sessionMode]
    /\ ingest' = Tail(ingest)
    /\ UNCHANGED <<thread, session, inbox, job, processes, provider, answers, events, gaps>>

IngestRecord ==
    /\ ingesting # NoReport
    /\ status' = IF ingesting.report = "up" THEN "live" ELSE "stopped"
    /\ sessionMode' = ingesting.mode
    /\ gaps' = IF sessionMode' # sessionMode THEN gaps \cup {"mode"} ELSE gaps
    /\ ingesting' = NoReport
    /\ UNCHANGED <<thread, inbox, job, processes, provider, ingest, answers, events>>

-----------------------------------------------------------------------------
\* The server dies with its queues and its processes; the thread, the binding
\* and the conversations stay.
Crash ==
    /\ Count
    /\ children' = <<>> /\ sessions' = 0
    /\ inbox' = <<>> /\ ingest' = <<>> /\ ingesting' = NoReport /\ job' = Idle
    /\ lost' = 1..asked \ (sent \cup failed)
    /\ gaps' = gaps \cup (IF job.step = "bind" THEN {"mode"} ELSE {})
                    \cup (IF Rebuilding THEN {"context"} ELSE {})
    /\ UNCHANGED <<thread, session, provider, sent, failed>>

Worker ==
    \/ TakeTurn \/ TakeMode \/ TakeInterrupt \/ TakeStop
    \/ EnsureSession \/ Open \/ OpenFails \/ PersistBinding \/ Bind \/ Route \/ Send \/ StepFails

Ingestion == IngestRead \/ IngestRecord

ProviderNext ==
    \/ AskTurn \/ (\E kind \in Kinds : Ask(kind))
    \/ Worker \/ Ingestion \/ ChildExits \/ Crash

\* The runtime keeps the worker and the ingestion running; a request to a process
\* is answered or times out.  Nothing else has to happen.
ProviderSpec == ProviderInit /\ [][ProviderNext]_providerVars /\ WF_providerVars(Worker) /\ WF_providerVars(Ingestion)

-----------------------------------------------------------------------------
(* Properties *)

ProviderTypeOK ==
    /\ asked \in 0..MaxTurns /\ {mode, sessionMode} \subseteq Modes
    /\ status \in {"none", "live", "stopped"}
    /\ inbox \in Seq([kind : Kinds \cup {"turn"}, turn : 0..MaxTurns])
    /\ job \in [step : Steps \cup {"idle"}, kind : Kinds \cup {"turn", "none"},
                turn : 0..MaxTurns, transcript : 0..MaxTurns, mode : Modes,
                child : Nat, childMode : Modes, cursor : 0..Len(conv), recovering : BOOLEAN]
    /\ \A c \in DOMAIN children : children[c] \in [cursor : 0..Len(conv), mode : Modes]
    /\ sessions \in DOMAIN children \cup {0}
    /\ binding \in [cursor : 0..Len(conv), mode : Modes]
    /\ conv \in Seq(SUBSET Turns)
    /\ ingest \in Seq({"up", "down"})
    /\ ingesting \in [report : {"up", "down", "none"}, mode : Modes]
    /\ {sent, failed, lost} \subseteq SUBSET Turns
    /\ events \in 0..MaxEvents /\ gaps \subseteq {"context", "mode"}

\* A turn is sent to a process that runs in the mode the thread had when the
\* worker looked for a session, after restarts, exits, stops, recoveries and
\* crashes alike: a thread that asks before it runs commands never talks to a
\* process that does not.  Excepted is a thread with a process that was opened but
\* not persisted or not bound, or whose session a late report has set back.
TurnsRunInTheirMode ==
    job.step = "send" /\ job.kind = "turn" /\ sessions # 0 /\ "mode" \notin gaps =>
        children[sessions].mode = job.mode

\* A turn is sent to a conversation that knows every turn sent before it, be it
\* resumed, rebuilt from the transcript or still open; unless it was opened anew with
\* nothing to rebuild it from, or the transcript was cut or never arrived.
ContextKept ==
    [][\A t \in sent' \ sent :
         "context" \notin gaps' => sent' \subseteq conv'[children[sessions].cursor]]_providerVars

\* When nothing is under way, a thread whose process can be reached does not say
\* that its session is stopped, however late the end of an earlier process is
\* recorded.
ReachableSessionIsShown ==
    inbox = <<>> /\ job = Idle /\ ingest = <<>> /\ ingesting = NoReport /\ sessions # 0
        => Live

\* Every turn asked for is sent or answered with a failure, unless the server dies
\* with it or the failure cannot be recorded.
EveryTurnAnswered ==
    \A t \in Turns : (asked >= t) ~> (t \in sent \cup failed \cup lost)
=============================================================================
