# Verification of the bigCode orchestration core

bigCode runs coding agents (Codex, Claude, Copilot, ...) behind one server that
a web client, often inside a desktop shell, controls over a WebSocket.  The
server is event sourced: clients dispatch *commands*, one worker decides them
and appends *events* to a SQLite log, projections of the log are kept in SQL
tables and in memory, and reactors and clients follow the event stream.  This
directory models that core in TLA+, checks it with TLC and proves its central
properties with TLAPS.

All paths below are relative to the repository; `server` stands for
`apps/server/src`, `web` for `apps/web/src`.

## 1. The system

| component | state | operations | talks to |
|---|---|---|---|
| Orchestration engine `server/orchestration/Layers/OrchestrationEngine.ts` | in-memory read model, command queue, event PubSub; in SQL: log, projections, receipts | dispatch, processEnvelope, reconcile, readEvents, streamDomainEvents | decider, event store, projection pipeline (calls); clients and reactors (PubSub) |
| Command decider `server/orchestration/decider*.ts`, `commandInvariants.ts` | none: a function of command and read model | one case per command type | engine |
| Event store `server/persistence/Layers/OrchestrationEventStore.ts` | table `orchestration_events` | append, readFromSequence (at most 1000 events by default) | engine, pipeline, streams |
| In-memory projector `server/orchestration/projector.ts` | none: folds an event into a read model | one case per event type | engine |
| SQL projection pipeline `server/orchestration/Layers/ProjectionPipeline*.ts` | tables, one cursor per projector | projectEvent (inside the engine's transaction), bootstrap | engine, snapshot query |
| Startup `server/startup/serverRuntimeStartup.ts` | readiness (a Ref and a Deferred), queue of waiting commands, `httpListening` | startup phases, enqueueCommand, signalCommandReady, failCommandReady | engine, reactors, WebSocket handlers |
| Lifecycle stream `server/startup/serverLifecycleEvents.ts` | latest welcome and ready event, PubSub | publish, snapshot, subscribeServerLifecycle | startup, client |
| Bootstrap turn start `server/ws/wsBootstrap.ts` | none of its own; a saga over several commands | create thread, prepare worktree, run setup script, start turn, clean up | engine, git, setup scripts |
| Domain event stream `server/ws/wsStreams.ts` | per subscription: next sequence, out-of-order buffer | replay, merge, reorder | engine, client |
| Client recovery `web/logic/orchestration/recovery.logic.ts`, `web/routes/__root.logic.tsx` | latest and highest sequence, recovery in flight, pending events, store | snapshot, replay, live events, retries, fallback | server over the WebSocket |
| Drainable worker `packages/shared/src/DrainableWorker.ts` | queue, counter | enqueue, drain | reactors and ingestion |
| Keyed coalescing worker `packages/shared/src/KeyedCoalescingWorker.ts` | queue of keys, latest value, queued and active keys | enqueue, drainKey | terminal manager |
| Provider command reactor `server/orchestration/Layers/ProviderCommandReactor*.ts` | a worker per thread | turn requested events into provider calls: start, restart or resume a session, send, interrupt, stop | engine, provider service |
| Provider service and Codex manager `server/provider/Layers/Provider*.ts`, `server/codex/` | one process per thread id, persisted cursor and mode | startSession, sendTurn, stopSession, recovery | provider processes |
| Provider ingestion `server/orchestration/Layers/ProviderRuntimeIngestion*.ts` | a worker per thread, caches | turn provider events into commands | engine, providers |
| Checkpoint reactor `server/orchestration/Layers/Checkpoint*.ts` | git refs of the checkpoints | baseline, capture, revert | engine, git, provider service |
| Terminal manager `server/terminal/Layers/Manager*.ts` | sessions, processes and the fibers that kill them, histories in memory and in files, a lock per thread | open, write, resize, clear, restart, close; drain of process events, eviction | keyed worker, shells, client |
| Other provider adapters, git, desktop shell, settings, user interface | | | |

**What is hard here.**  Commands arrive from several clients, are retried when
an answer is lost, and are decided against a model kept in memory while the
truth is in SQL: retries, storage failures and crashes must not run a command
twice, run it on a stale model, or let the memory drift from the log.  Every
reader joins a snapshot, a replay and a live stream, each read at a different
moment; what is committed in between is easily lost or shown twice.  Reads of
the log are cut off at a limit.  Startup, shutdown and failure race with
everything.  Workers promise "drained" while items are being moved.

**What makes each part correct.**

- Engine: a command runs at most once, on the committed history; what clients
  were told stays true; memory, log and live stream agree at every point where
  someone relies on it; every dispatch is answered.
- Decider: the histories it lets into the log are well formed, deletion of a
  project covers its threads.
- Pipeline: each event is projected once, in order, across crashes; a server
  that is up has no projection behind the log.
- Startup: nothing runs before the startup succeeded and the welcome is out,
  every caller's command is run or refused, and as it was told; the welcome
  names a project and a thread that exist, across crashes and deletions.
- Command reactor and provider sessions: a turn runs in the mode of its thread
  and in a conversation that knows the earlier turns; every turn is sent or
  answered with a failure; a reachable session is not shown as stopped.
- Checkpoints: what a thread shows can be restored; files, conversation and
  checkpoints agree when nothing is under way; every revert is answered.
- Stream: a subscriber is sent consecutive events from its starting point.
- Client: the store reflects each event up to its sequence exactly once, never
  goes back, and catches up.
- Terminals: processes are those of the sessions clients see, and a history
  outlives its session.
- Workers: drain means what it says; no value or item is lost or processed out
  of order.

PROJECT.json lists the components (also those that are not modelled), the
hazards line by line, and for each definition the lines it models.

## 2. The modules

```
            Decider ──────────────┐
               │ EXTENDS          │ EXTENDS
          CommandLog      OrchestrationEngine     EventFeed
               ▲ implements ──────┘   └── implements ▲   │ INSTANCE
               │ INSTANCE (OrchestrationEngineProofs)    ▼
      BootstrapTurnStart                      DomainEventStream
      StartupCommandGate       KeyedCoalescingWorker
               ▲ EXTENDS                ▲ EXTENDS
         ServerStartup            TerminalManager

ProjectionPipeline  ClientRecovery     CheckpointReactor  ProviderSessions
DrainableWorker
```

**Decider.**  A read model is represented by the sequence of the events it has
folded.  The projector is a deterministic fold, so nothing is lost, and what a
decider asks (does the thread exist, is it archived, which threads of the
project are active and in which order were they created) is a predicate on the
sequence.  Like the code, existence ignores deletion: `requireThread` and
`requireProject` find deleted entries.  A decision is a set: empty when an
invariant is violated, else the event bodies to append.  All command types are
there; most turn commands only need their thread and emit one event, which
`TurnEvents` lists.  `thread.turn.start` is modelled without its optional source
plan.

**CommandLog** is the abstract specification of the engine: a machine with two
variables, the log and each command's outcome, that takes a command in one
step.  It is also checked on its own, with more commands than the engine
allows, for what the decider lets into the log.

**EventFeed** is the abstract specification of what readers and subscribers see
of the engine: three cursors (committed, adopted, published) and their order.

**OrchestrationEngine** is `makeOrchestrationEngine`.  `phase` is where
`processEnvelope` stands; a step ends where the worker's fiber can suspend, so
dispatches, subscribers and crashes interleave there.

| code | action |
|---|---|
| layer construction, 272-276 | `Start` |
| `dispatch` | `Dispatch` |
| `Queue.take`, `dispatchStartSequence` | `Take` |
| receipt lookup, 121-134 | `AnswerFromReceipt` |
| `decideOrchestrationCommand` | `Decide`, `DecideInvariantError` |
| transaction, 141-185 | `Commit`; `StorageError` when it (or the lookup) fails; `CommitUnacknowledged` when it is durable and reported as failed |
| `readModel = ...`, publication | `Adopt`, `PublishNext`, `PublishDone` |
| reconciliation, 93-110, 238-249 | `Reconcile`, `ReconcileError` |
| rejected receipt, 251-262 | `RecordRejection`, `RecordRejectionError` |
| completion of the deferred | `Reply` |
| death of the process | `Crash` |

A transaction is one step: SQLite runs on one connection and a rolled back
transaction leaves nothing.  Storage fails at most once per dispatch
(`faulted`): with two faults, an unacknowledged commit followed by a failed
reconciliation, the code only logs a warning and the read model loses the
events; this is listed as a hazard.

**BootstrapTurnStart** is `dispatchBootstrapTurnStart`, a saga on top of
`CommandLog`: `stage` is the step of `bootstrapProgram` an attempt is in, and
in the stages of `Dispatching` it waits for the command it has put into the
engine's queue, behind those of other attempts and of the user.  `Handle` and
`HandleFailing` are the engine, whose steps on the log are those of
`CommandLog`; `Dispatched` and `DispatchFailed` go on with the answer;
`CreateWorktree` and `RunSetupScript` are the steps outside the engine, which
succeed or fail; `Abort` is `catchCause` with `cleanupCreatedThread`.
`Interrupt` (the client goes away) and `Crash` skip the clean-up, as the code
does, and a command already queued is still run after an interruption.

**DomainEventStream** is `makeOrderedOrchestrationDomainEventStream` on top of
`EventFeed`: the engine's steps are those of the feed, which the engine is
proved to implement, and the stream's are `Open` (read the in-memory sequence),
`Replay` (read the log), `Subscribe` (the PubSub subscription, which
`Stream.merge` makes when the stream runs), `MergeReplayed` and `MergeLive`.

**ProjectionPipeline**: cursors and applied events per projector, the bootstrap
as one transaction per event, commands projected in the transaction that
appends their events, upgrades that bring new projectors, crashes anywhere.

**StartupCommandGate**: `makeCommandGate` with callers that act on the readiness
they read before, and a startup that writes the Ref and then the Deferred.  It
has no next-state relation of its own.

**ServerStartup** puts the gate under the rest of the startup: `at` is the phase
the startup fiber is in, the database is what the phases leave in it.

| code | action |
|---|---|
| reactors, `autoBootstrapWelcome` 188-261 | `StartReactors`, `EnsureChats`, `LookUpProject`, `CreateProject`, `LookUpThread`, `CreateThread` |
| `lifecycleEvents.publish` | `AnnounceWelcome`, `AnnounceReady` (the Ref), then `Publish` (the PubSub) |
| a phase fails | `StepFails`, then `SignalFailure` |
| `signalCommandReady` | `Signal` (the Ref), then `Complete` (the Deferred) |
| `enqueueCommand`, its worker | `Gate`, `Clients`; what commands do to the project and thread: `RunCommand` |
| `subscribeServerLifecycle` | `ReadSnapshot`, `Subscribe`, `Receive` |
| death and restart | `Crash`, which keeps the database |

The startup's own commands go to the engine directly, past the gate, as in the
code.  Of the project and the threads of the server's directory the model keeps
the last one the startup created.

**ProviderSessions** follows one thread from a requested turn to the provider's
process.  The worker of `ProviderCommandReactor` takes a request (`TakeTurn`,
`TakeMode`, `TakeInterrupt`, `TakeStop`) and goes on in steps that end where it
suspends: `EnsureSession` (`ensureSessionForThread`: keep, resume in another
mode, or start), `Open` and `OpenFails` (`startSession` of the Codex manager),
`PersistBinding` (`upsertSessionBinding`), `Bind` (`bindSessionToThread`), `Route`
(`resolveRoutableSession`, which may recover in the mode of the binding), `Send`
(with what `buildBootstrapInput` keeps of the transcript); `StepFails` ends it at
any of them, and `GiveUp` answers, if the answer can be recorded.  A job keeps the
mode the worker has read for it (`mode`) apart from that of the process it opens
(`childMode`).  Beside it run the processes (`ChildExits`: the exit handler
deletes the manager's entry of the thread, whichever process it is of) and the
ingestion, which reads the thread and records later (`IngestRead`,
`IngestRecord`).  A conversation is the set of messages it knows; a binding is
a cursor and a mode.

**CheckpointReactor** follows the checkpoints of one thread: the provider edits
the files and reports (`StartTurn`, `Edit`, `ReportDiff`, `EndTurn`), or exits or is
stopped, perhaps in mid-turn (`EndSession`); the next turn then starts another
session, which goes on with the conversation or with a fresh one.  The
ingestion sets the active turn and records placeholders (`IngestLifecycle`,
`IngestDiff`, `RecordPlaceholder`), and the reactor's worker takes its inputs
(`TakeTurnStart`, `TakeStarted`, `TakeCompleted`, `TakePlaceholder`,
`TakeRevert`) and carries them out one suspension at a time (`CaptureBaseline`,
`Capture`, `Record`; `RestoreFiles`, `RollBackConversation`, `DeleteRefs` once per
ref, `CompleteRevert`).  `FailureActivity` answers a revert that cannot be carried out, or
fails itself.  The two projections of a checkpoint differ and are both
kept: in memory a placeholder never replaces a capture, in SQL
(`projection_turns`) it does.  `spoiled` records the first step by which the
code leaves the reach of a property; section 3 names them.

**ClientRecovery**: the recovery coordinator and the event router that drives
it.  A step is one task of the browser's event loop; the microtask that flushes
applied events runs before the next timer or connection event.  The server is
its log, the in-memory sequence a stream starts from, and the stream itself in the steps of
`DomainEventStream`: `OpenStream`, `ReadLog`, `SubscribeLive`, and `Deliver` of what
the two sources contain.  What is committed between the last two is in neither,
here too, and holds back the rest.  A request that fails
because the connection dropped is sent again (`retryTransportRecoveryOperation`);
one that fails for good is `SnapshotFails` or `ReplayFails`.  The store is
represented by how often each event is reflected in it.

**DrainableWorker**, **KeyedCoalescingWorker**: the two queue workers, a step
per transaction or call of `process`, with failing and interrupted processing.
The second has no next-state relation of its own: `TerminalManager` extends it,
enqueues histories, waits in its `drainKey` (`Drained`) and is what it processes.

**TerminalManager** is the terminal manager over that worker.  A call holds the
lock of its thread and goes on in steps (`call[k].at`) that end where the code
waits: for the worker, the shell, the file system.  `session[k]` is the session
object; it stays when the key has left `sessions`, the manager's map, because a
call or a drain that has looked it up goes on with it.  Beside the calls run the
processes, a drain fiber per burst of events, the fibers that kill, and the
worker's.  `text` and `writing` carry the history that goes with a value of the
worker; `file` is the disk.

| code | action |
|---|---|
| `open`, `clear`, `restart`, `close` | `CallOpen`, `CallReopen`, `CallClear`, `CallRestart`, `CallClose`, then the steps of `CallStep` |
| `flushPersist` | `FlushPersist` |
| `deleteHistory`, `deleteAllHistoryForThread` | `DeleteHistory`, `DeleteFails` |
| `stopProcess`, `runKillEscalation` | `StopProcess`; `KillProcess`, `KillFails` |
| `startSession` | `Spawn`, `SpawnFails`, `RegisterProcess` |
| `evictInactiveSessionsIfNeeded` | `Evict`, part of each step that makes a session inactive |
| `enqueueProcessEvent` | `Output`, `ExitProcess` |
| `drainProcessEvents` | `DrainOutput`, `DrainPersist`, `DrainExit`, `EndDrain` |
| the persist worker's `process` | `WriteHistory`, `WriteFails` |
| a client that disconnects; the finalizer | `Leave`; `Shutdown` |

Where the code loses something the properties speak of, the model records it in
`gaps`, as `ProviderSessions` does.

A module whose name ends in `Proofs` holds the proofs about the module it is named
after (section 4).  `ProviderSessionsProofs` also holds those about `DrainableWorker`,
through which the reactor and the ingestion of the sessions run, and `WebSocketProofs`
those about what a client meets behind the socket: `DomainEventStream`,
`ClientRecovery` and `BootstrapTurnStart`.  The `MC` modules and the .cfg files are the
instances for TLC.

Operators whose comment starts with "Faulty" are not used by any specification.
They are variants with a plausible mistake, kept beside the definition they
vary, with which PROJECT.json's mutants show that each property can fail.

## 3. What TLC checks

| run | instance | what it shows |
|---|---|---|
| `engine` | 4 commands with order-dependent effects, 4 dispatches, 1 crash, read limit 3 | `AppendedOnceAsDecided`, `ReadModelFollowsLog`, `RepliesDurable`; the engine implements `CommandLog` and `EventFeed`; `EveryDispatchAnswered` |
| `commandlog` | 10 commands on 2 projects (one the built-in one) and 2 threads, in every order | `ThreadHistoriesWellFormed`, `DeletionCascades` |
| `bootstrap_turn_start` | a first message sent twice, a second message, a deletion by the user, 1 storage failure, 1 interruption or crash | `CleansUpOnlyItsOwn`, `FailureLeavesNoThread`, `TurnFollowsPreparation` |
| `drainable_worker` | 3 items, 2 drainers | `DrainSound`, `DrainTerminates` |
| `terminal_manager` | 2 terminals, one of them running, 2 calls, 1 output, 1 session retained; 1 of: failed spawns, writes, deletions or signals, clients that leave, shutdowns | `NothingStranded`, `DrainKeySound`, `EveryValueHandled`, `SessionsMatchProcesses`, `ReopenKeepsHistory` |
| `startup_gate` | 2 calls, 1 subscriber, 1 crash; with and without a project for the directory | `CommandsFollowWelcome`, `AnsweredAsRun`, `WelcomeNamesExisting`, `LifecycleDelivered`, `EveryCommandSettled` |
| `domain_event_stream` | 4 events, read limit 3, unreadable log | `SentInOrderWithoutGap`, `NothingLostIsSent` |
| `projection_bootstrap` | 3 projectors, 2 of them from later releases, 5 events, read limit 2 | `ProjectedOnceInOrder`, `CaughtUpWhenUp` |
| `client_recovery` | 3 events, 1 disconnect, 2 failed requests, read limit 2 | `StoreMatchesLatest`, `EventsWakeIdleClient`, `GapFilled`, `KeepsUpWithStream` |
| `provider_sessions` | 3 turns, the second with an image; 2 of: mode changes, interruptions, stops, exits, refusals, failing steps, cut transcripts, failures not recorded, crashes | `TurnsRunInTheirMode`, `ContextKept`, `ReachableSessionIsShown`, `EveryTurnAnswered` |
| `checkpoint_reactor` | 2 turns with 1 edit each; 2 of: reverts, diffs, interrupted turns, sessions that end, failing steps and answers, crashes | `ReadySnapshotsExist`, `QuietWorkspaceCheckpointed`, `ConversationFollowsCheckpoints`, `ReadyStaysReady`, `RevertsAnswered` |

Every module defines a type invariant.  None is part of a run: each run is spent on
what could be wrong in the code.  Those of the engine, the checkpoint reactor, the provider
sessions, the client and the bootstrap are proved, and the other
invariants of section 4 contain what they need of theirs.  The two archive commands of `commandlog` ask for the
same, so the run takes them as symmetric; it checks no liveness.

**Bounds.** `MaxDispatches`, `MaxCrashes`, `MaxEvents`, `MaxCommits`, `MaxValues`,
`MaxBatch`, `MaxDisconnects`, `MaxFailures`, `MaxStorageErrors`, `MaxTurns`,
`MaxEdits`, `MaxInterrupted`, `MaxCalls`, `MaxOutputs` and `MaxFaults` bound what the environment does (`MaxNoProgress` is the
client's own limit on retries, 3 in the code). They are chosen so that the
interesting cases meet: four dispatches of the engine are enough for a command,
its duplicate in the queue, and commands before and after that change what it
decides, with a crash in between; commands emit up to three events, so
publications are interrupted half way; the read limits (1000 in the code) are
small so that a read is cut off within the bound on events, except in the
engine, where a command emits fewer events than a
read returns (at most 201 for a thread with seed messages; `EngineAssumption`
says the same of the threads of a project). Two attempts of the same message
and one message that only starts a turn are the fewest with which a bootstrap
meets its duplicate and a stranger on its thread.  In `ProviderSessions` and
`CheckpointReactor`, `MaxEvents` is a common budget for everything unusual, so
that any two unusual things are combined and their order is free: three turns and
two events are enough for an orphaned process (a mode change and an exit), a
recovery that follows a change of the mode, or a transcript that is sent after a stop and
cut; two turns and two events for a revert that meets a placeholder, a session that
ends, a second revert, a failure or a crash.  `MaxThreadCheckpoints`, 500 in the code, is 2, as many as the run has turns: the run
does not go beyond the limit, the theorems hold for every limit.  With two failed requests a replay and the snapshot that stands in for it
both fail.  One crash lets the
startup find what an earlier start, and the commands of clients, left behind; a
call that died with the server is not repeated, a retry being another call.
With one terminal running, two calls are enough to let its process output and
exit, evict or close its session while the history is still being written, and
open it again; `MaxRetained`, 128 in the code, is 1, so that the second inactive
session evicts one.

**Fairness.**  The specifications assume weak fairness of what the runtime
schedules by itself: the fibers of the engine's worker, of the queue workers
and of open streams, of the startup, of the provider reactors and the ingestion, the
client's event loop, requests that are served and connections that are retried.  Nobody has to dispatch, enqueue, connect or
leave; no failure has to happen; what `process` runs is assumed to end.
`EveryDispatchAnswered`, `DrainTerminates` and `EveryValueHandled` allow for the
death of the process or of the worker, after which nothing is promised.
`CHECK_DEADLOCK FALSE` is set where the bounds, or the end of every caller,
really stop the system.  `GapFilled` and `KeepsUpWithStream` allow for a lost
connection and for one more request that fails for good; `BootstrapTurnStart` checks
safety only and assumes no fairness.

### Where code and documentation disagree

One run expects a violation; it states what a plan says.

- `domain_event_handoff`: "snapshot/replay handoff has no gap"
  (`.plans/spec-contract-matrix.md:399`).  The stream reads the log before it
  subscribes; an event published in between is in neither source, and every
  later one waits behind it in `pendingBySequence` until the client reconnects.

### Where properties stop short

The properties above are no stronger than the code.  What they leave open, and
a reader might expect:

- The client's stream starts at the server's sequence when it is opened, not at
  that of the client's snapshot.  An event between the two is noticed when the
  next one reveals the gap (`GapFilled`), not before.
- `EventsWakeIdleClient` excepts a client whose replay and fallback snapshot have
  both failed (`streak`): it defers every event and refuses every replay until the
  next welcome (`recovery.logic.ts:205`).  `GapFilled` says that this one
  loads it again, and `BootstrappedClientWakes` that a client that has been loaded needs no
  exception.
- `KeepsUpWithStream` excepts a stream that has lost an event before it subscribed to the
  live ones, the gap that `domain_event_handoff` finds: a client that is connected
  then sees nothing more until it reconnects.
- `FailureLeavesNoThread` is about bootstraps that fail.  One that is
  interrupted, or dies with the server, leaves its thread, and a retry of the
  message is refused because `thread.create` finds it.  The worktree of a failed
  bootstrap is never removed.
- A rejected deletion of the built-in project is a guard of `DeleteProject`,
  not a property.
- `CaughtUpWhenUp` excepts projectors that were further behind than one read of
  the log returns, 1000 events.  A plan asks to "bring projections up to latest
  sequence on startup" (`.plans/spec-1-1-cutover-plan.md:147`); the bootstrap
  reads once, and the next command moves the cursor over the hole.
- `LifecycleDelivered` excepts what is published between the snapshot and the
  live part of a subscription (`server/ws/ws.ts:491-498`).  A client that loses
  its welcome there is without its bootstrap until it reconnects.  And
  `getFirstActiveThreadIdByProjectId` leaves deleted threads out but archived
  ones in, so the welcome may name an archived thread.
- `QuietWorkspaceCheckpointed` and `ConversationFollowsCheckpoints` end where
  `spoiled` begins: a placeholder is captured, and published as a quiesced turn,
  while the turn still runs (`early`); a completion is skipped because the
  ingestion already has another active turn (`skipped`,
  `CheckpointReactorCapture.ts:381`); a revert runs beside a turn or what is
  left of one (`overlapped`; nothing in `CheckpointReactorRevert.ts` looks); two
  writers choose a count before the other's is recorded (`misnumbered`); the
  provider exits or is stopped in mid-turn, which reports no `turn.completed`, so
  that nothing captures the turn's edits (`aborted`,
  `codexAppServerManager.handlers.ts:75`, `codexAppServerManager.ts:131`); a session
  opens a fresh conversation, after a stop, for a transcript, or because it cannot
  resume (`fresh`, `ProviderService.ts:168`, `409`), while the thread keeps its
  checkpoints; the read model drops checkpoints beyond 500 (`trimmed`,
  `projector.ts:373`); a revert fails or dies half way and is not resumed (`failed`,
  `torn`); a crash loses completions, and swaps the in-memory checkpoints for the SQL
  rows, in which a late placeholder has replaced a capture (`crashed`).  The last is why
  `ReadyStaysReady` is about a server that keeps running.
- `ReadySnapshotsExist` excepts the time from the first deletion of a stale ref, one git
  process per ref (`CheckpointStore.ts:259`), to the reverted thread, and what a revert
  leaves that ends in between (`torn`): the thread shows checkpoints whose refs are
  gone.
- `RevertsAnswered` excepts the reverts whose failure activity fails too
  (`silenced`): it is a dispatch, and the code drops its failure
  (`CheckpointReactorRevert.ts:70` to `137`) or logs it (`CheckpointReactor.ts:256`).
  `EveryTurnAnswered` excepts in the same way the turns of `lost`
  (`ProviderCommandReactorHandlers.ts:250`, `ProviderCommandReactor.ts:30`).
- `TurnsRunInTheirMode` and `ContextKept` end where `gaps` begins.  `mode`: the
  ingestion writes back a mode it has read before (`ProviderRuntimeIngestion.processor.ts:203`), or a
  process is opened, and its binding cannot be persisted (`ProviderService.ts:187`), or
  the session cannot be bound: the process stays, in a mode that the thread does not show.
  `context`: the provider refuses to resume; a session was started for a transcript
  that was then not sent, or that was cut, as `buildBootstrapInput` does beyond the
  input limit and `history.test.ts` asserts; a turn with images, which carries no
  transcript, follows a stop that removed the binding; or a session started for a
  transcript is gone before the transcript is sent, and its conversation does not open
  again.
- A process that is replaced (`codexAppServerManager.startSession.ts:98`) is left running, and its exit
  removes the entry of its successor, which is left running in turn.
  `ReachableSessionIsShown` is about the entry, not the processes.
- `SessionsMatchProcesses` ends where a process is lost.  A session that is being
  started does not count as running and may be evicted (`evicted`,
  `Manager.process.ts:281`): its process runs on, and no call finds it.  A client
  that leaves between the spawn and the registration (`left`), or a shutdown then
  or while a process is being killed (`shutdown`), leaves a process too, and so does a
  signal that cannot be sent (`unkilled`, `Manager.process-lifecycle.ts:129`): a failing
  SIGTERM is not followed by a SIGKILL, and either is only logged.  And it
  ends where an exit is lost: the process exits before its session is running
  (`unheard`, `Manager.process-lifecycle.ts:53`), or a clear, or the drain of an
  earlier process, empties what is pending (`dropped`, `Manager.session.ts:239`,
  `Manager.process-drain.ts:36`): the terminal is shown as running until it is
  restarted or closed.
- `ReopenKeepsHistory` ends where a drain persists a history that was cleared or
  deleted after the drain had read it, or persists one only when an opening has
  already read the file (`stale`, `Manager.process-drain.ts:111`); where a client
  leaves a restart before it has emptied the file of the session before
  (`unreset`); where a write fails (`unwritten`); and where a file cannot be deleted, which is logged
  and not told to the client (`undeleted`, `Manager.history-io.ts:79`, `107`).  `unreset` and
  `unwritten` are beyond the bounds of the run: the proof needed them.  An evicted terminal whose process lives on keeps writing to the
  file of its successor; the model does not follow it there.
- `EveryValueHandled` is about a bounded number of outputs.  While outputs come
  faster than the worker's 40 ms of debouncing, `drainKey` does not return, and a
  clear keeps the lock of its thread.
- A stop that meets a stale "stopped" is dropped, and the process stays.
- `EveryTurnAnswered` and `EveryCommandSettled` except what dies with the server:
  a turn that was committed and not yet handled is never started.

## 4. What is proved

`OrchestrationEngineProofs` proves the engine's type invariant and its four
safety invariants for all commands, contents, projects, threads, bounds on
dispatches and crashes and read limits that satisfy `DeciderAssumption` and
`EngineAssumption`.  The properties are not inductive: whether the next commit
keeps them depends on what the worker has in hand.  `IInv` adds

- `LogWellFormed`: events are numbered by their position, the projections are
  the log;
- `Cursors`: what is pending is exactly what the live stream is missing,
  `dispatchStartSequence` is where the read model stands, one read of the log
  covers what a failed dispatch left behind (here the assumption on the read
  limit is needed), and nothing is missing unless storage failed;
- `Verdict`: what the worker has found out about its command (not yet run, these
  are its events; it violates an invariant; it was accepted at this sequence)
  still holds.

`IInv` is shown to hold initially and to be preserved by each action, with
one step per action and, under it, one per conjunct.  A lemma bounds the number
of events a decision emits, from which follows that one read suffices.  The
run leaves `LiveStreamContiguous` to the proof, and checks the feed.

It proves from the same invariant that the engine
implements `CommandLog` (a commit is `Accept`, a recorded rejection `Reject`,
all else stutters) and `EventFeed`.

`ProviderSessionsProofs` proves the type invariant, `TurnsRunInTheirMode`,
`ReachableSessionIsShown` and `ContextKept` for any number of turns and of unusual
events.  `SessionInv` adds

- `Held`: processes have numbers, and the one being opened is the thread's unless a
  process has died; the process whose binding is being persisted holds the conversation
  and the mode the job says, and what was persisted is what the thread is bound to;
  which step carries a cursor, a transcript or a process;
- `Shown`: if the thread's process can be reached, the last report that is not
  recorded yet says so, or none waits and the thread shows it.  Reports are recorded
  in their order, so nothing older can overwrite this;
- `ModeKept`: until a mode is lost, the thread's session, its process and its binding
  are in one mode, except while a session is opened in another one, when the job knows
  which; and the mode the worker has read for a turn is that mode from the moment the
  session is there until the turn is sent.  A recovery opens its process in the mode of the
  binding, so this is what makes it the right one;
- `InOrder`: turns are sent in their order, and a transcript holds all that were
  sent before it was taken;
- `Known`: until the context is lost, the conversation that is bound knows every turn
  that was sent, or is about to be told by the transcript of the job; with nothing
  bound the next turn is the first or takes the transcript along.  A process may hold
  another conversation than the one that is bound, because its binding could not be persisted;
  then nothing is bound and nothing was sent (`Astray`).

`ContextKept` is about a step; `Known` is what the step starts from.  The attempt to
prove `Known` with any number of events found the way to lose the context that the
bounds of the run exclude (section 3).

The same module proves `DrainSound` and `OutstandingExact` of `DrainableWorker` for
every finite set of items and every set of drainers.

`ServerStartupProofs` proves `CommandsFollowWelcome`, `AnsweredAsRun`,
`WelcomeNamesExisting` and `LifecycleDelivered` for every set of callers and
subscribers and any number of crashes and identifiers.  The invariant adds to the
first three

- `Places`: a call is in one place, the queue, the worker's hands, its own, or
  among those that have run;
- `Readings`: what a caller has read of the readiness is how it was or has become;
- `Phases`: where the startup stands agrees with the readiness and with the
  events published so far;
- `Database`: what the startup has found is still there.  This is where the gate
  is needed: until it opens, nobody but the startup writes, so that a project or
  thread found active is still active when it is named.

`LifecycleDelivered` rests on `StreamInv`, of each subscriber: what it has received
and what is on its way are in the order of the sequence (`Orderly`), and every event
is in its snapshot, received, on its way, being published, or among those that came
between its snapshot and its live part (`Covered`).  Either alone is not enough: the
filter on the sequence drops what the snapshot contains, and drops nothing else
only because what is on its way is ordered.

`TerminalManagerProofs` proves `NothingStranded`, `DrainKeySound`,
`SessionsMatchProcesses` and `ReopenKeepsHistory` for every set of terminals and
any number of calls, outputs, values, failures and retained sessions.  Every
step of the manager is a step of the worker or leaves its state alone
(`NextIsKeyedStep`), and the worker keeps

- `Positions`: a key is in the queue once, or in the fiber's hands, and `queued`
  and `active` say which;
- `Values`: what waits for a key is the last value sent, and what is served or has
  been handled is the last one unless another waits.  `drainKey` finds a key in
  none of its three collections only then.

On this `TerminalInv` builds, with

- `Holders`: a process belongs to one session, one call or one fiber that kills it;
- `CallPlace` and `SessionPlace`: what a call has done to the session of its thread by
  the step it is at, and that a session has a process just while it is running;
- `Histories`: the history that is last in a terminal's file, or on its way to it
  through the worker, is that of its session, unless a drain carries a newer one;
  and an opening reads the file only when nothing is on its way.  This is why
  `flushPersistQueue` has to wait for the last value, which is `DrainKeySound`.

`CheckpointReactorProofs` proves the type invariant, `ReadySnapshotsExist`,
`QuietWorkspaceCheckpointed`, `ConversationFollowsCheckpoints` and `ReadyStaysReady`
for any number of turns, edits, reverts, failing steps and crashes.  `ReactorInv` has two
parts.  Whatever happens, a turn has one checkpoint and one row (`OnePerTurn`), a turn
that is being captured has not been captured (`Uncaptured`), and, until a revert
has ended between its first deletion and the reverted thread, a checkpoint has its ref
unless the revert under way is about to drop the checkpoint (`RefsKept`).  Until the first
gap (`spoiled`) there is also

- `Numbers`: the counts of the checkpoints follow the order of the turns, from 1 and
  without a gap;
- `Counts`: a count that was chosen and is not yet recorded is the next one, or
  the turn's own, or has become that of another turn.  The last case cannot be left
  out: a placeholder may be numbered while a capture is under way, and it is the step that
  records the second of them that finds the number taken and ends the promise;
- `Remembered` and `Conversation`: whatever waits for the reactor concerns a turn of
  the provider's conversation, whose turns are in order, each shown or coming;
- `Reverts`: while one is under way, the conversation and the files are those of the
  step it is at;
- `Files`: the workspace is the latest checkpoint, or the turn that changed it runs or
  is still to be captured.

In a quiet state every turn of the conversation has a checkpoint and every
checkpoint a turn; both are in order and the counts are 1 to n, and an increasing
enumeration of 1 to n is the identity (`IncreasingOnto`), so that the n-th turn has
the n-th checkpoint.  TLC checked the invariant on small instances first, one of them with three
turns.  `RevertsCounted` says besides that the reverts not yet answered are those
that wait, the one under way and those whose failure activity has failed: none is
dropped otherwise, or answered twice.

`WebSocketProofs` proves `SentInOrderWithoutGap` for every number of
events and every limit of a read.  `StreamInv` adds where the two sources read
(`SourceInv`), that `nextSequence` follows what has been sent, and that what is
buffered lies beyond it and in the log (`OrderInv`).  The events sent at once are
those that follow without a gap; that they are an interval is a lemma of its own,
by the least number that is missing.

Of `ClientRecovery` it proves the type invariant, `StoreMatchesLatest` and
`EventsWakeIdleClient` for any number of events, disconnects and retries and any limit
of a replay, and any number of failed requests.  `ClientInv` says more than that the store
reflects the events up to the latest one (`Reflects`):

- `LogInv`: what the client, the stream and the server's read model have come to is
  in the log;
- `PendingInv`: what waits for the next flush came from the open stream in its order,
  and goes at most one event beyond what is applied: applying it leaves no hole;
- `AnswerInv`: a snapshot on its way contains all that was applied meanwhile,
  and a replay starts no further than what is applied: applying it skips nothing, and
  what it repeats is filtered;
- `WakeInv`: a client that is not bootstrapped waits for a snapshot or has nothing,
  until a replay and the snapshot after it have failed in a row.

Of `BootstrapTurnStart` it proves the type invariant, `CleansUpOnlyItsOwn`,
`FailureLeavesNoThread` and `TurnFollowsPreparation` for any number of attempts,
messages, failures of the store and interruptions.  `BootstrapInv` ties three places
together: the log, the queue of the engine, and what the fiber of a request knows.

- `ReceiptInv`: receipts and log agree, one attempt at most has created the
  thread, and after a clean-up it is deleted; `CreatedThenUpdated`: an attempt that
  creates it records the worktree's path on it afterwards;
- `StageInv`, `ReplyInv`: what an attempt knows at its step is in the log, and the
  answer it reads is that of the command it waits for;
- `QueueInv`, `CommandInv`: an attempt that goes on has one command in the queue, the
  one of its step, and what that command presupposes is done.  One that was interrupted may
  leave a command behind, which is handled all the same;
- `TurnByCreator`: the turns of all transmissions of a message share one command.  If
  they create the thread, that command is queued, or has been accepted, only when the
  creator has come to its turn or beyond; a creator that cleans up has seen it refused,
  lost to the store, or never sent (`Settled`).  So nothing that is still queued can
  start a turn on a thread that is being cleaned up;
- `FailedInv`: what a failure is due to.

This needs that two attempts with one message are one request sent twice
(`BootstrapAssumption`): a client that reused a message's identifier for another request
could find the other's turn under its own command.

`ProjectionPipelineProofs` proves `ProjectedOnceInOrder` and `CaughtUpWhenUp` for
any projectors in any order, any releases and any read limit.  `PipelineInv` says of
each projector what it has applied up to its cursor (`Projection`), and of a
bootstrap under way that the projector whose turn it is goes on at its cursor to
the end of the log, where those before it already are (`CatchingUp`).

`CommandLogProofs` proves `ThreadHistoriesWellFormed` and `DeletionCascades` for
all commands, projects and threads.  `LogInv` states the histories event by event
(`Histories`) and that a thread is created in a project (`InProjects`).  A lemma
reduces what the decider decides to five shapes (the deletion of a project,
creations, archivings, unarchivings, and events on what exists), and each shape is
shown to extend the histories of the log before it.  As the engine implements
`CommandLog` (`EngineImplementsCommandLog`), both hold of its log too, crashes and
retries included.

The proofs assume of the constants what the modules name: `DeciderAssumption`,
`EngineAssumption`, `ClientAssumption` (reads and retries are not zero),
`BootstrapAssumption` (above), `PipelineAssumption` (the projectors are a sequence of
different names, and reads and batches are not empty) and their like; TLC evaluates
them in the runs.

Every invariant and every action property that a passing run checks is proved.  Only
model-checked: liveness under fairness, which is outside the prover's reach
(`EveryDispatchAnswered`, `DrainTerminates`, `EveryValueHandled`,
`EveryCommandSettled`, `NothingLostIsSent`, `GapFilled`, `KeepsUpWithStream`,
`RevertsAnswered`, `EveryTurnAnswered`).

## 5. What is not modelled, and the plan

Not modelled, with the reason in PROJECT.json: the other provider adapters, git,
the desktop shell, configuration files, the user interface.
Within the modelled components: payloads, formatting, metrics, logging, schema
decoding, attachments on disk, the source plan of a turn start, the streaming of
messages by the ingestion.

Order of the next steps:

1. `GitStatusBroadcaster`, a second snapshot-then-live stream; the desktop
   backend manager; the client's reconnect backoff.
2. The engine with two storage faults per dispatch, and the in-memory projector
   against the SQL projectors (reverts, trimming).
3. Proofs: those of the modules above.  Of the present ones nothing is left but
   liveness.
