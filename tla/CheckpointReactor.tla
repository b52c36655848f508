-------------------------- MODULE CheckpointReactor --------------------------
(***************************************************************************)
(* The checkpoints of one thread whose workspace is a git repository.  The  *)
(* provider runs turns that edit the files; its events reach two consumers  *)
(* that run side by side: the ingestion, which keeps the active turn of the *)
(* session and records placeholders, and the checkpoint reactor, whose one  *)
(* worker captures the files under a git ref for each turn count and        *)
(* carries out reverts.  A handler reads the thread once and acts on what   *)
(* it has read, one suspension after the other.                             *)
(***************************************************************************)
EXTENDS Naturals, Sequences, FiniteSets, FiniteSetsExt, Functions

CONSTANTS MaxTurns,     \* the bounds: turns,
          MaxEdits,     \* edits of the files a turn may make,
          MaxEvents,    \* reverts, diffs of running turns, turns cut short,
                        \* sessions that end, failing steps and crashes, all together
          EndStates,    \* how a turn may end: "completed", "interrupted", "failed"
          MaxThreadCheckpoints   \* how many the read model keeps: 500 in the code

ASSUME CheckpointAssumption ==
    /\ {MaxTurns, MaxEdits, MaxEvents} \subseteq Nat
    /\ MaxThreadCheckpoints \in Nat \ {0}
    /\ EndStates \subseteq {"completed", "interrupted", "failed"}

Turns == 1..MaxTurns   \* numbered as they start; 0 is no turn
Edits == Turns \X (1..MaxEdits)

VARIABLES checkpoints,  \* of the thread, in the in-memory read model
          rows,         \* the same in projection_turns
          activeTurn,   \* session.activeTurnId of the thread
          work,         \* the files: the edits they hold
          refs,         \* the git refs: count -> the files captured
          running,      \* the turn the provider runs
          started,      \* how many it has started
          requested,    \* how many were asked for
          session,      \* there is a live provider session
          conv,         \* the turns of the provider's conversation
          ingest,       \* runtime events the ingestion has not handled
          placeholder,  \* what the ingestion is about to record
          domainIn,     \* domain events the reactor has not handled
          runtimeIn,    \* runtime events the reactor has not handled
          job,          \* what the reactor's worker is doing
          unanswered,   \* the reverts not answered yet
          silenced,     \* observation: those of them whose answer failed
          events,       \* how many of the events that MaxEvents bounds
          spoiled       \* observation: the first known gap met

thread   == <<checkpoints, rows, activeTurn>>
git      == <<work, refs>>
provider == <<running, started, requested, session, conv>>
inputs   == <<domainIn, runtimeIn>>
ingester == <<ingest, placeholder>>
counters == <<unanswered, silenced, events>>
vars == <<thread, git, provider, ingester, inputs, job, counters, spoiled>>

Idle == [step |-> "idle", turn |-> 0, count |-> 0, status |-> "none",
         rolled |-> 0, stale |-> {}]
None == [turn |-> 0, count |-> 0]

Init ==
    /\ checkpoints = {} /\ rows = {} /\ activeTurn = 0
    /\ work = {} /\ refs = <<>>
    /\ running = 0 /\ started = 0 /\ requested = 0 /\ session = FALSE /\ conv = <<>>
    /\ ingest = <<>> /\ placeholder = None
    /\ domainIn = <<>> /\ runtimeIn = <<>> /\ job = Idle
    /\ unanswered = 0 /\ silenced = 0 /\ events = 0
    /\ spoiled = "no"

-----------------------------------------------------------------------------
(* The thread's checkpoints, as the two projections fold them. *)

CurrentTurnCount == Max({c.count : c \in checkpoints} \cup {0})

CapturedFor(t) == \E c \in checkpoints : c.turn = t /\ c.status # "missing"

Checkpoint(t, n, s, isRef) == [turn |-> t, count |-> n, status |-> s, git |-> isRef]

\* Faulty: a placeholder replaces a captured checkpoint.
OverwriteInMemory(c) == {d \in checkpoints : d.turn # c.turn} \cup {c}

\* A placeholder never replaces a captured checkpoint.
InMemory(c) ==
    IF c.status = "missing" /\ CapturedFor(c.turn)
      THEN checkpoints
      ELSE {d \in checkpoints : d.turn # c.turn} \cup {c}

\* What the limit leaves of a list sorted by count.
Newest(all) ==
    {kept \in SUBSET all :
        /\ Cardinality(kept) = Min({Cardinality(all), MaxThreadCheckpoints})
        /\ \A c \in kept, d \in all \ kept : d.count <= c.count}

\* The SQL projector: another turn with the same count loses its checkpoint.
InRows(c) == {d \in rows : d.turn # c.turn /\ d.count # c.count} \cup {c}

\* The count is not above those of all earlier turns, or not below those of all
\* later ones: it was chosen before another turn's checkpoint was recorded.
Misnumbered(c) ==
    \E d \in checkpoints :
        \/ d.turn < c.turn /\ d.count >= c.count
        \/ d.turn > c.turn /\ d.count <= c.count

\* A gap leaves its trace; a torn revert also after another gap.
Spoiled(gap) == IF spoiled = "no" \/ gap = "torn" THEN gap ELSE spoiled

\* thread.turn-diff-completed is committed, projected and published.  The list
\* in memory is cut to its limit when it changes.
TurnDiffCompleted(c) ==
    /\ \/ InMemory(c) = checkpoints /\ UNCHANGED checkpoints
       \/ InMemory(c) # checkpoints /\ checkpoints' \in Newest(InMemory(c))
    /\ rows' = InRows(c)
    /\ domainIn' = IF c.status = "missing"
                     THEN Append(domainIn, [kind |-> "diff", turn |-> c.turn, count |-> c.count])
                     ELSE domainIn
    /\ spoiled' = IF Misnumbered(c) THEN Spoiled("misnumbered")
                  ELSE IF checkpoints' # InMemory(c) THEN Spoiled("trimmed") ELSE spoiled
-----------------------------------------------------------------------------
(* The user and the provider. *)

Count == events < MaxEvents /\ events' = events + 1

RevertSteps == {"restore", "rollback", "delete", "complete"}

\* Bounded: one turn at a time waits to be sent.
RequestTurn ==
    /\ requested < MaxTurns /\ requested = started
    /\ requested' = requested + 1
    /\ domainIn' = Append(domainIn, [kind |-> "turnStart"])
    /\ UNCHANGED <<thread, git, running, started, session, conv, ingester, runtimeIn, job,
                   counters, spoiled>>

RequestRevert(n) ==
    /\ Count
    /\ unanswered' = unanswered + 1
    /\ domainIn' = Append(domainIn, [kind |-> "revert", count |-> n])
    /\ UNCHANGED <<thread, git, provider, ingester, runtimeIn, job, silenced, spoiled>>

Emit(event) ==
    /\ runtimeIn' = Append(runtimeIn, event)
    /\ ingest' = Append(ingest, event)

\* A session that is started goes on with the conversation, or with a fresh one:
\* after a stop, with a transcript, or when the provider cannot resume it.
Lost(fresh) == fresh /\ conv # <<>>

\* A turn is sent, one at a time; a new session starts without an active turn.
\* A session that is replaced is ended first.
StartTurn(fresh) ==
    /\ running = 0 /\ started < requested
    /\ fresh => ~session
    /\ started' = started + 1 /\ running' = started + 1
    /\ conv' = IF fresh THEN <<started + 1>> ELSE Append(conv, started + 1)
    /\ session' = TRUE
    /\ activeTurn' = IF session THEN activeTurn ELSE 0
    /\ Emit([kind |-> "started", turn |-> started + 1])
    /\ spoiled' = IF job.step \in RevertSteps THEN Spoiled("overlapped")
                  ELSE IF Lost(fresh) THEN Spoiled("fresh") ELSE spoiled
    /\ UNCHANGED <<checkpoints, rows, git, requested, placeholder, domainIn, job, counters>>

Edit ==
    /\ running # 0
    /\ \E e \in Edits \ work : e[1] = running /\ work' = work \cup {e}
    /\ UNCHANGED <<thread, refs, provider, ingester, inputs, job, counters, spoiled>>

\* turn.diff.updated: only the ingestion takes it.  One at a time, and none for
\* a turn that has its checkpoint, which it would ignore.
ReportDiff ==
    /\ running # 0 /\ Count
    /\ \A i \in DOMAIN ingest : ingest[i] # [kind |-> "diff", turn |-> running]
    /\ placeholder = None /\ ~\E c \in checkpoints : c.turn = running
    /\ ingest' = Append(ingest, [kind |-> "diff", turn |-> running])
    /\ UNCHANGED <<thread, git, provider, placeholder, inputs, job, unanswered, silenced,
                   spoiled>>

EndTurn(state) ==
    /\ running # 0
    /\ (state = "completed" /\ UNCHANGED events) \/ Count
    /\ running' = 0
    /\ Emit([kind |-> "completed", turn |-> running, state |-> state])
    /\ UNCHANGED <<thread, git, started, requested, session, conv, placeholder, domainIn, job,
                   unanswered, silenced, spoiled>>

\* The provider's process exits or is stopped: a running turn is over without a
\* turn.completed.  Only the ingestion takes session.exited; a stop that a
\* command asked for clears the active turn itself.
EndSession ==
    /\ session /\ Count
    /\ session' = FALSE /\ running' = 0
    /\ ingest' = Append(ingest, [kind |-> "exited"])
    /\ activeTurn' \in {activeTurn, 0}
    /\ spoiled' = IF running # 0 THEN Spoiled("aborted") ELSE spoiled
    /\ UNCHANGED <<checkpoints, rows, git, started, requested, conv, placeholder, inputs, job,
                   unanswered, silenced>>

-----------------------------------------------------------------------------
(* ProviderRuntimeIngestion: the lifecycle of the session, and placeholders. *)

\* A turn.started or turn.completed of another turn than the active one is not applied.
IngestLifecycle ==
    /\ ingest # <<>> /\ placeholder = None
    /\ LET event == Head(ingest) IN
         \/ event.kind = "exited" /\ activeTurn' = 0
         \/ /\ event.kind \in {"started", "completed"}
            /\ activeTurn' = IF activeTurn \notin {0, event.turn} THEN activeTurn
                             ELSE IF event.kind = "started" THEN event.turn ELSE 0
    /\ ingest' = Tail(ingest)
    /\ UNCHANGED <<checkpoints, rows, git, provider, placeholder, inputs, job, counters,
                   spoiled>>

\* The handler of turn.diff.updated reads the thread ...
IngestDiff ==
    /\ ingest # <<>> /\ placeholder = None /\ Head(ingest).kind = "diff"
    /\ LET t == Head(ingest).turn IN
         placeholder' = IF \E c \in checkpoints : c.turn = t
                          THEN None
                          ELSE [turn |-> t, count |-> CurrentTurnCount + 1]
    /\ ingest' = Tail(ingest)
    /\ UNCHANGED <<thread, git, provider, inputs, job, counters, spoiled>>

\* ... and dispatches a placeholder; its ref is not a git ref.
RecordPlaceholder ==
    /\ placeholder # None
    /\ TurnDiffCompleted(Checkpoint(placeholder.turn, placeholder.count, "missing", FALSE))
    /\ placeholder' = None
    /\ UNCHANGED <<activeTurn, git, provider, ingest, runtimeIn, job, counters>>

-----------------------------------------------------------------------------
(* The reactor's worker takes an input.  The two streams merge into its     *)
(* queue in any order, each keeping its own.                                *)

CanTake(queue) == queue # <<>> /\ job = Idle

\* ensurePreTurnBaseline, from the domain's turn start or the provider's.
Baseline ==
    /\ job' = IF CurrentTurnCount \in DOMAIN refs
                THEN Idle
                ELSE [Idle EXCEPT !.step = "baseline", !.count = CurrentTurnCount]
    /\ UNCHANGED <<counters, spoiled>>

TakeTurnStart ==
    /\ CanTake(domainIn) /\ Head(domainIn).kind = "turnStart"
    /\ domainIn' = Tail(domainIn)
    /\ Baseline
    /\ UNCHANGED <<thread, git, provider, ingester, runtimeIn>>

TakeStarted ==
    /\ CanTake(runtimeIn) /\ Head(runtimeIn).kind = "started"
    /\ runtimeIn' = Tail(runtimeIn)
    /\ Baseline
    /\ UNCHANGED <<thread, git, provider, ingester, domainIn>>

CaptureFor(t, n, status) ==
    [Idle EXCEPT !.step = "capture", !.turn = t, !.count = n, !.status = status]

checkpointStatusFromRuntime(state) ==
    IF state = "failed" THEN "error" ELSE IF state = "interrupted" THEN "missing" ELSE "ready"

\* The count a turn's own placeholder has, or the next one.
CountFor(t) ==
    LET own == {c.count : c \in {d \in checkpoints : d.turn = t}}
    IN  IF own = {} THEN CurrentTurnCount + 1 ELSE Max(own)

\* captureCheckpointFromTurnCompletion
TakeCompleted ==
    /\ CanTake(runtimeIn) /\ Head(runtimeIn).kind = "completed"
    /\ runtimeIn' = Tail(runtimeIn)
    /\ LET event == Head(runtimeIn) IN
         \/ /\ activeTurn \notin {0, event.turn}
            /\ job' = Idle /\ spoiled' = Spoiled("skipped")
         \/ /\ activeTurn \in {0, event.turn} /\ CapturedFor(event.turn)
            /\ UNCHANGED <<job, spoiled>>
         \/ /\ activeTurn \in {0, event.turn} /\ ~CapturedFor(event.turn)
            /\ job' = CaptureFor(event.turn, CountFor(event.turn),
                                 checkpointStatusFromRuntime(event.state))
            /\ UNCHANGED spoiled
    /\ UNCHANGED <<thread, git, provider, ingester, domainIn, counters>>

\* captureCheckpointFromPlaceholder
TakePlaceholder ==
    /\ CanTake(domainIn) /\ Head(domainIn).kind = "diff"
    /\ domainIn' = Tail(domainIn)
    /\ LET event == Head(domainIn) IN
         job' = IF CapturedFor(event.turn)
                  THEN Idle ELSE CaptureFor(event.turn, event.count, "ready")
    /\ UNCHANGED <<thread, git, provider, ingester, runtimeIn, counters, spoiled>>

\* Nothing of a turn is under way or waiting to be handled.
Settled ==
    /\ running = 0 /\ placeholder = None /\ runtimeIn = <<>>
    /\ \A i \in DOMAIN ingest : ingest[i].kind = "exited"
    /\ \A i \in DOMAIN domainIn : domainIn[i].kind # "diff"

\* Faulty: a revert that cannot be carried out is only logged.
WarningOnly == UNCHANGED <<unanswered, silenced>>

\* appendRevertFailureActivity: its dispatch may fail too, and is then only dropped or logged.
FailureActivity ==
    \/ unanswered' = unanswered - 1 /\ UNCHANGED silenced
    \/ silenced' = silenced + 1 /\ UNCHANGED unanswered

\* handleRevertRequested: without a session, a target and its git ref (HEAD for
\* the start of the thread) the revert is answered with a failure activity, and
\* an answer that fails is dropped; it is one of the events.
TakeRevert ==
    /\ CanTake(domainIn) /\ Head(domainIn).kind = "revert"
    /\ domainIn' = Tail(domainIn)
    /\ LET n == Head(domainIn).count
           targets == {c \in checkpoints : c.count = n}
       IN \/ /\ session /\ n <= CurrentTurnCount
             /\ n = 0 \/ (n \in DOMAIN refs /\ \E c \in targets : c.git)
             /\ job' = [Idle EXCEPT !.step = "restore", !.count = n,
                                    !.rolled = CurrentTurnCount - n,
                                    !.stale = {c.count : c \in {d \in checkpoints :
                                                                  d.count > n /\ d.git}}]
             /\ spoiled' = IF Settled THEN spoiled ELSE Spoiled("overlapped")
             /\ UNCHANGED counters
          \/ /\ \/ ~session \/ n > CurrentTurnCount
                \/ n > 0 /\ (n \notin DOMAIN refs \/ \E c \in targets : ~c.git)
                \/ n > 0 /\ targets = {}
             /\ FailureActivity
             /\ (silenced' = silenced /\ UNCHANGED events) \/ (silenced' # silenced /\ Count)
             /\ UNCHANGED <<job, spoiled>>
    /\ UNCHANGED <<thread, git, provider, ingester, runtimeIn>>

-----------------------------------------------------------------------------
(* The steps of an input, one suspension each. *)

\* The ref of a count is created, or moved, to the files as they are.
WithRef(n) == [m \in DOMAIN refs \cup {n} |-> IF m = n THEN work ELSE refs[m]]

CaptureBaseline ==
    /\ job.step = "baseline"
    /\ refs' = WithRef(job.count)
    /\ job' = Idle
    /\ UNCHANGED <<thread, work, provider, ingester, inputs, counters, spoiled>>

\* captureAndDispatchCheckpoint: the files are captured under the ref ...
Capture ==
    /\ job.step = "capture"
    /\ refs' = WithRef(job.count)
    /\ job' = [job EXCEPT !.step = "record"]
    /\ spoiled' = IF running = job.turn THEN Spoiled("early") ELSE spoiled
    /\ UNCHANGED <<thread, work, provider, ingester, inputs, counters>>

\* ... the checkpoint is recorded.
Record ==
    /\ job.step = "record"
    /\ TurnDiffCompleted(Checkpoint(job.turn, job.count, job.status, TRUE))
    /\ job' = Idle
    /\ UNCHANGED <<activeTurn, git, provider, ingester, runtimeIn, counters>>

\* The revert goes on to the stale refs, if it has found any.
Dropping(j) == [j EXCEPT !.step = IF j.stale = {} THEN "complete" ELSE "delete"]

AfterRestore == IF job.rolled > 0 THEN [job EXCEPT !.step = "rollback"] ELSE Dropping(job)

\* Faulty: the files that the checkpoint lacks are left behind.
RestoreWithoutClean ==
    /\ job.step = "restore"
    /\ work' = work \cup (IF job.count \in DOMAIN refs THEN refs[job.count] ELSE {})
    /\ job' = AfterRestore
    /\ UNCHANGED <<thread, refs, provider, ingester, inputs, counters, spoiled>>

\* A revert restores the files ...
RestoreFiles ==
    /\ job.step = "restore"
    /\ work' = IF job.count \in DOMAIN refs THEN refs[job.count] ELSE {}
    /\ job' = AfterRestore
    /\ UNCHANGED <<thread, refs, provider, ingester, inputs, counters, spoiled>>

\* Faulty: one turn is dropped, however many are reverted.
RollBackOneTurn ==
    /\ job.step = "rollback"
    /\ session' = TRUE /\ conv' = SubSeq(conv, 1, Len(conv) - 1)
    /\ job' = Dropping(job)
    /\ UNCHANGED <<thread, git, running, started, requested, ingester, inputs, counters, spoiled>>

\* ... drops the provider's last turns, in a session it recovers if it has none; its
\* conversation may be a fresh one ...
RollBackConversation ==
    /\ job.step = "rollback"
    /\ session' = TRUE
    /\ \/ /\ conv' = SubSeq(conv, 1, IF Len(conv) > job.rolled THEN Len(conv) - job.rolled ELSE 0)
          /\ UNCHANGED spoiled
       \/ ~session /\ Lost(TRUE) /\ conv' = <<>> /\ spoiled' = Spoiled("fresh")
    /\ job' = Dropping(job)
    /\ UNCHANGED <<thread, git, running, started, requested, ingester, inputs, counters>>

\* Faulty: the ref of the revert's target is deleted too.
DeleteFromTarget ==
    /\ job.step = "delete"
    /\ refs' = Restrict(refs, {n \in DOMAIN refs : n < job.count})
    /\ job' = [job EXCEPT !.step = "complete", !.stale = {}]
    /\ UNCHANGED <<thread, work, provider, ingester, inputs, counters, spoiled>>

\* ... deletes the refs of the checkpoints it has found to be stale, one git
\* process after the other; git may refuse, which is ignored ...
DeleteRefs ==
    /\ job.step = "delete"
    /\ \E n \in job.stale :
         /\ \A m \in job.stale : n <= m
         /\ \/ refs' = Restrict(refs, DOMAIN refs \ {n}) /\ UNCHANGED <<events, spoiled>>
            \/ Count /\ spoiled' = Spoiled("failed") /\ UNCHANGED refs
         /\ job' = Dropping([job EXCEPT !.stale = @ \ {n}])
    /\ UNCHANGED <<thread, work, provider, ingester, inputs, unanswered, silenced>>

\* ... and reverts the thread.
CompleteRevert ==
    /\ job.step = "complete"
    /\ LET kept == {c \in checkpoints : c.count <= job.count} IN
         /\ checkpoints' \in Newest(kept)
         /\ spoiled' = IF checkpoints' # kept THEN Spoiled("trimmed") ELSE spoiled
    /\ rows' = {c \in rows : c.count <= job.count}
    /\ unanswered' = unanswered - 1
    /\ job' = Idle
    /\ UNCHANGED <<activeTurn, git, provider, ingester, inputs, silenced, events>>

\* A revert that ends between its first deletion and the reverted thread.
Ended(gap) == Spoiled(IF job.step \in {"delete", "complete"} THEN "torn" ELSE gap)

\* A step fails: the input ends with a failure activity or a warning, and what
\* its earlier steps have done stays.
Fail ==
    /\ job # Idle /\ Count
    /\ IF job.step \in RevertSteps THEN FailureActivity ELSE UNCHANGED <<unanswered, silenced>>
    /\ job' = Idle
    /\ spoiled' = Ended("failed")
    /\ UNCHANGED <<thread, git, provider, ingester, inputs>>

\* The server dies with its queues, its sessions and their turns.  It starts
\* again from the SQL projection; the provider keeps the conversation.
Crash ==
    /\ Count
    /\ checkpoints' = rows
    /\ running' = 0 /\ session' = FALSE /\ unanswered' = 0 /\ silenced' = 0
    /\ ingest' = <<>> /\ placeholder' = None /\ domainIn' = <<>> /\ runtimeIn' = <<>>
    /\ job' = Idle
    /\ spoiled' = Ended("crashed")
    /\ UNCHANGED <<rows, activeTurn, git, started, requested, conv>>

-----------------------------------------------------------------------------
Environment ==
    \/ RequestTurn \/ Edit \/ ReportDiff \/ EndSession
    \/ \E fresh \in BOOLEAN : StartTurn(fresh)
    \/ \E state \in EndStates : EndTurn(state)
    \/ \E n \in 0..MaxTurns : RequestRevert(n)

Ingestion == IngestLifecycle \/ IngestDiff \/ RecordPlaceholder

Worker ==
    \/ TakeTurnStart \/ TakeStarted \/ TakeCompleted \/ TakePlaceholder \/ TakeRevert
    \/ CaptureBaseline \/ Capture \/ Record
    \/ RestoreFiles \/ RollBackConversation \/ DeleteRefs \/ CompleteRevert

Next == Environment \/ Ingestion \/ Worker \/ Fail \/ Crash

\* The runtime keeps both consumers running.  Neither the user nor the provider
\* has to do anything.
Spec == Init /\ [][Next]_vars /\ WF_vars(Ingestion) /\ WF_vars(Worker)

-----------------------------------------------------------------------------
(* Properties *)

Statuses == {"ready", "missing", "error"}

CheckpointSet == [turn : Turns, count : Nat, status : Statuses, git : BOOLEAN]

Events ==
    [kind : {"started", "diff"}, turn : Turns]
        \cup [kind : {"completed"}, turn : Turns, state : EndStates]
        \cup [kind : {"exited"}]

Inputs ==
    [kind : {"turnStart"}] \cup [kind : {"revert"}, count : Nat]
        \cup [kind : {"diff"}, turn : Turns, count : Nat]

TypeOK ==
    /\ checkpoints \subseteq CheckpointSet /\ rows \subseteq CheckpointSet
    /\ activeTurn \in 0..MaxTurns
    /\ work \subseteq Edits
    /\ DOMAIN refs \subseteq Nat /\ \A n \in DOMAIN refs : refs[n] \subseteq Edits
    /\ running \in 0..MaxTurns /\ session \in BOOLEAN /\ conv \in Seq(Turns)
    /\ started \in 0..MaxTurns /\ requested \in 0..MaxTurns
    /\ ingest \in Seq(Events) /\ runtimeIn \in Seq(Events) /\ domainIn \in Seq(Inputs)
    /\ placeholder \in [turn : 0..MaxTurns, count : Nat]
    /\ job \in [step : RevertSteps \cup {"idle", "baseline", "capture", "record"},
                turn : 0..MaxTurns, count : Nat, status : Statuses \cup {"none"},
                rolled : Nat, stale : SUBSET Nat]
    /\ events \in 0..MaxEvents /\ unanswered \in 0..events /\ silenced \in 0..unanswered
    /\ spoiled \in {"no", "early", "skipped", "overlapped", "misnumbered", "aborted", "fresh",
                    "trimmed", "failed", "torn", "crashed"}

Quiet == Settled /\ domainIn = <<>> /\ job = Idle

\* Every captured checkpoint a thread shows can be restored: its git ref exists,
\* whatever was captured, reverted or interrupted by a crash meanwhile.  Only
\* between the first deletion of a stale ref and the reverted thread is one
\* missing, beyond the revert's target, and after a revert that ended just there.
ReadySnapshotsExist ==
    \A c \in checkpoints :
        c.git /\ c.count \notin DOMAIN refs =>
            \/ job.step \in {"delete", "complete"} /\ c.count > job.count
            \/ spoiled = "torn"

Latest == IF CurrentTurnCount \in DOMAIN refs THEN refs[CurrentTurnCount] ELSE {}

\* When nothing is under way, the files are those of the latest checkpoint: no
\* edit of an ended turn is left out of it and no revert leaves other files.
QuietWorkspaceCheckpointed == Quiet /\ spoiled = "no" => work = Latest

\* When nothing is under way, the provider remembers exactly the turns the thread
\* has checkpoints for, in the order of their counts: a revert takes as many turns
\* from the conversation as from the thread.
ConversationFollowsCheckpoints ==
    Quiet /\ spoiled = "no" =>
        /\ Len(conv) = Cardinality(checkpoints)
        /\ \A c \in checkpoints : c.count \in DOMAIN conv /\ conv[c.count] = c.turn

\* A captured checkpoint never falls back to a placeholder while the server runs,
\* however late the placeholder that was on its way is recorded.
ReadyStaysReady ==
    [][events' = events =>
         \A c \in checkpoints, d \in checkpoints' :
            c.turn = d.turn /\ c.status # "missing" => d.status # "missing"]_vars

\* Every revert is answered, by the reverted thread or by a failure activity,
\* except those whose failure activity has itself failed.
RevertsAnswered == unanswered > silenced ~> unanswered = silenced
=============================================================================
