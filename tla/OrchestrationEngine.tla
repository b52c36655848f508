------------------------- MODULE OrchestrationEngine -------------------------
(***************************************************************************)
(* The orchestration engine of the server: clients dispatch commands into  *)
(* an unbounded queue, one worker decides each against the in-memory read  *)
(* model, commits the events, their SQL projections and the command's      *)
(* receipt in one transaction, then adopts the new read model and          *)
(* publishes the events.  A failed dispatch reconciles the read model with *)
(* the log.  The process may crash between any two steps and restart from  *)
(* the database.  A step of the worker ends where its fiber suspends, so   *)
(* dispatches, readers and crashes interleave there.                       *)
(***************************************************************************)
EXTENDS Decider

CONSTANTS ReadLimit,        \* DEFAULT_READ_FROM_SEQUENCE_LIMIT: 1000 in the code
          MaxDispatches,    \* bound on the calls of dispatch
          MaxCrashes        \* bound on the crashes of the process

ASSUME EngineAssumption ==
    /\ MaxDispatches \in Nat
    /\ MaxCrashes \in Nat
    \* No command emits more events than one read of the log returns.
    /\ ReadLimit \in Nat
    /\ Cardinality(Threads) < ReadLimit
    /\ MaxSeedMessages < ReadLimit
    /\ 2 <= ReadLimit

VARIABLES
    \* the database
    log,            \* orchestration_events
    projections,    \* the events folded into the projection tables
    receipts,       \* orchestration_command_receipts
    \* the memory of the process
    readModel,      \* the events folded into readModel
    queue,          \* commandQueue: the ids of the queued envelopes
    phase,          \* where the worker is
    command,        \* the envelope being processed
    startSequence,  \* dispatchStartSequence
    pending,        \* bodies to append, then events to publish
    result,         \* what the envelope's deferred will be completed with
    faulted,        \* storage has already failed once for this envelope
    \* observations, and counters for the bounds
    base,           \* snapshotSequence when the process started
    published,      \* sequences published since then
    replies,        \* the results clients were given
    dispatches, crashes

database == <<log, projections, receipts>>
worker   == <<command, startSequence, pending, result, faulted>>
feed     == <<base, published>>
counters == <<dispatches, crashes>>
vars == <<database, readModel, queue, phase, worker, feed, replies, counters>>

Receipt == [status : {"none", "accepted", "rejected"}, sequence : Nat]
NoReceipt == [status |-> "none", sequence |-> 0]

Result == [status : {"accepted", "previouslyRejected", "invariant", "storage"},
           sequence : Nat]
NoResult == [status |-> "storage", sequence |-> 0]
Failed(status) == [status |-> status, sequence |-> 0]

SnapshotSequence(rm) == IF rm = <<>> THEN 0 ELSE rm[Len(rm)].sequence

\* eventStore.readFromSequence(sequenceExclusive) with its default limit.
ReadFromSequence(n) ==
    SubSeq(log, n + 1, IF n + ReadLimit < Len(log) THEN n + ReadLimit ELSE Len(log))

-----------------------------------------------------------------------------
Init ==
    /\ log = <<>> /\ projections = <<>>
    /\ receipts = [c \in Commands |-> NoReceipt]
    /\ readModel = <<>> /\ queue = <<>> /\ phase = "down"
    /\ command \in Commands /\ startSequence = 0 /\ pending = <<>>
    /\ result = NoResult /\ faulted = FALSE
    /\ base = 0 /\ published = <<>> /\ replies = {}
    /\ dispatches = 0 /\ crashes = 0

\* Layer construction: bootstrap the projections from the log, load the
\* snapshot they make, fork the worker.
Start ==
    /\ phase = "down"
    /\ projections' = projections \o ReadFromSequence(SnapshotSequence(projections))
    /\ readModel' = projections'
    /\ base' = SnapshotSequence(readModel')
    /\ phase' = "idle"
    /\ UNCHANGED <<log, receipts, queue, worker, published, replies, counters>>

\* The process dies: what is in memory is gone, a transaction in progress is
\* rolled back.
Crash ==
    /\ phase # "down"
    /\ crashes < MaxCrashes
    /\ crashes' = crashes + 1
    /\ phase' = "down"
    /\ readModel' = <<>> /\ queue' = <<>> /\ pending' = <<>>
    /\ result' = NoResult /\ faulted' = FALSE
    /\ base' = 0 /\ published' = <<>>
    /\ UNCHANGED <<database, command, startSequence, replies, dispatches>>

\* dispatch: the same command may be dispatched again, by a client that
\* retries or while an earlier envelope is still queued.
Dispatch(c) ==
    /\ phase # "down"
    /\ dispatches < MaxDispatches
    /\ dispatches' = dispatches + 1
    /\ queue' = Append(queue, c)
    /\ UNCHANGED <<database, readModel, phase, worker, feed, replies, crashes>>

-----------------------------------------------------------------------------
(* processEnvelope *)

Take ==
    /\ phase = "idle"
    /\ queue # <<>>
    /\ command' = Head(queue)
    /\ queue' = Tail(queue)
    /\ startSequence' = SnapshotSequence(readModel)
    /\ pending' = <<>>
    /\ result' = NoResult
    /\ faulted' = FALSE
    /\ phase' = "lookup"
    /\ UNCHANGED <<database, readModel, feed, replies, counters>>

\* The receipt of an earlier dispatch answers this one.
AnswerFromReceipt ==
    /\ phase = "lookup"
    /\ receipts[command].status # "none"
    /\ result' = IF receipts[command].status = "accepted"
                 THEN [status |-> "accepted", sequence |-> receipts[command].sequence]
                 ELSE Failed("previouslyRejected")
    /\ phase' = "reply"
    /\ UNCHANGED <<database, readModel, queue, command, startSequence, pending,
                   faulted, feed, replies, counters>>

\* Faulty: the command is decided without looking for its receipt.
DecideAgain ==
    /\ phase = "lookup"
    /\ \E bodies \in Decisions(readModel, Content[command]) : pending' = bodies
    /\ phase' = "transaction"
    /\ UNCHANGED <<database, readModel, queue, command, startSequence, result,
                   faulted, feed, replies, counters>>

Decide ==
    /\ phase = "lookup"
    /\ receipts[command].status = "none"
    /\ \E bodies \in Decisions(readModel, Content[command]) : pending' = bodies
    /\ phase' = "transaction"
    /\ UNCHANGED <<database, readModel, queue, command, startSequence, result,
                   faulted, feed, replies, counters>>

DecideInvariantError ==
    /\ phase = "lookup"
    /\ receipts[command].status = "none"
    /\ Decisions(readModel, Content[command]) = {}
    /\ result' = Failed("invariant")
    /\ phase' = "reconcile"
    /\ UNCHANGED <<database, readModel, queue, command, startSequence, pending,
                   faulted, feed, replies, counters>>

\* Faulty: the receipt is not part of the transaction.
CommitWithoutReceipt ==
    /\ log' = log \o Saved(Len(log), command, pending)
    /\ projections' = projections \o Saved(Len(log), command, pending)
    /\ pending' = Saved(Len(log), command, pending)
    /\ UNCHANGED receipts

\* The transaction's effect on the database.
CommitEvents ==
    /\ log' = log \o Saved(Len(log), command, pending)
    /\ projections' = projections \o Saved(Len(log), command, pending)
    /\ receipts' = [receipts EXCEPT ![command] =
                      [status |-> "accepted", sequence |-> Len(log')]]
    /\ pending' = Saved(Len(log), command, pending)

Commit ==
    /\ phase = "transaction"
    /\ CommitEvents
    /\ result' = [status |-> "accepted", sequence |-> Len(log')]
    /\ phase' = "adopt"
    /\ UNCHANGED <<readModel, queue, command, startSequence, faulted, feed,
                   replies, counters>>

\* Faulty: a storage failure is handled as a violated invariant.
StorageErrorRejects ==
    /\ phase \in {"lookup", "transaction"}
    /\ ~faulted
    /\ faulted' = TRUE
    /\ pending' = <<>>
    /\ result' = Failed("invariant")
    /\ phase' = "reconcile"
    /\ UNCHANGED <<database, readModel, queue, command, startSequence, feed,
                   replies, counters>>

\* The receipt lookup, an append, a projection, the receipt's write or the
\* COMMIT fails; a failed transaction leaves nothing behind.
StorageError ==
    /\ phase \in {"lookup", "transaction"}
    /\ ~faulted
    /\ faulted' = TRUE
    /\ pending' = <<>>
    /\ result' = Failed("storage")
    /\ phase' = "reconcile"
    /\ UNCHANGED <<database, readModel, queue, command, startSequence, feed,
                   replies, counters>>

\* The transaction is durable but the worker sees it fail.
CommitUnacknowledged ==
    /\ phase = "transaction"
    /\ ~faulted
    /\ faulted' = TRUE
    /\ CommitEvents
    /\ result' = Failed("storage")
    /\ phase' = "reconcile"
    /\ UNCHANGED <<readModel, queue, command, startSequence, feed, replies,
                   counters>>

\* Faulty: the events are published from a read model that does not have them.
AdoptNothing ==
    /\ phase = "adopt"
    /\ phase' = "publish"
    /\ UNCHANGED <<database, readModel, queue, worker, feed, replies, counters>>

\* readModel = committedCommand.nextReadModel
Adopt ==
    /\ phase = "adopt"
    /\ readModel' = readModel \o pending
    /\ phase' = "publish"
    /\ UNCHANGED <<database, queue, worker, feed, replies, counters>>

PublishNext ==
    /\ phase = "publish"
    /\ pending # <<>>
    /\ published' = Append(published, Head(pending).sequence)
    /\ pending' = Tail(pending)
    /\ UNCHANGED <<database, readModel, queue, phase, command, startSequence,
                   result, faulted, base, replies, counters>>

\* Faulty: a storage failure ends the processing without an answer.
PublishDoneUnlessFailed ==
    /\ phase = "publish"
    /\ pending = <<>>
    /\ result.status # "storage"
    /\ phase' = IF result.status = "invariant" THEN "record" ELSE "reply"
    /\ UNCHANGED <<database, readModel, queue, worker, feed, replies, counters>>

\* After a success the deferred is completed; after a failure an invariant
\* error is recorded first.
PublishDone ==
    /\ phase = "publish"
    /\ pending = <<>>
    /\ phase' = IF result.status = "invariant" THEN "record" ELSE "reply"
    /\ UNCHANGED <<database, readModel, queue, worker, feed, replies, counters>>

\* Faulty: the read model is left as it was.
ReconcileNothing ==
    /\ phase = "reconcile"
    /\ pending' = <<>>
    /\ phase' = "publish"
    /\ UNCHANGED <<database, readModel, queue, command, startSequence, result, faulted,
                   feed, replies, counters>>

\* reconcileReadModelAfterDispatchFailure: fold what the log holds beyond
\* dispatchStartSequence into the read model, then publish it.
Reconcile ==
    /\ phase = "reconcile"
    /\ pending' = ReadFromSequence(startSequence)
    /\ readModel' = readModel \o pending'
    /\ phase' = "publish"
    /\ UNCHANGED <<database, queue, command, startSequence, result, faulted,
                   feed, replies, counters>>

\* The log cannot be read: a warning, and the dispatch goes on failing.
ReconcileError ==
    /\ phase = "reconcile"
    /\ ~faulted
    /\ faulted' = TRUE
    /\ pending' = <<>>
    /\ phase' = "publish"
    /\ UNCHANGED <<database, readModel, queue, command, startSequence, result,
                   feed, replies, counters>>

RecordRejection ==
    /\ phase = "record"
    /\ receipts' = [receipts EXCEPT ![command] =
                      [status |-> "rejected", sequence |-> SnapshotSequence(readModel)]]
    /\ phase' = "reply"
    /\ UNCHANGED <<log, projections, readModel, queue, worker, feed, replies, counters>>

\* The receipt's write fails and is ignored.
RecordRejectionError ==
    /\ phase = "record"
    /\ ~faulted
    /\ faulted' = TRUE
    /\ phase' = "reply"
    /\ UNCHANGED <<database, readModel, queue, command, startSequence, pending,
                   result, feed, replies, counters>>

Reply ==
    /\ phase = "reply"
    /\ replies' = replies \cup {[command |-> command, result |-> result]}
    /\ phase' = "idle"
    /\ UNCHANGED <<database, readModel, queue, worker, feed, counters>>

ProcessEnvelope ==
    \/ Take \/ AnswerFromReceipt \/ Decide \/ DecideInvariantError
    \/ Commit \/ StorageError \/ CommitUnacknowledged \/ Adopt
    \/ PublishNext \/ PublishDone \/ Reconcile \/ ReconcileError
    \/ RecordRejection \/ RecordRejectionError \/ Reply

Next == Start \/ Crash \/ (\E c \in Commands : Dispatch(c)) \/ ProcessEnvelope

\* The runtime keeps running the process's start and its worker fiber; no
\* client has to dispatch, and nothing has to fail.
Spec == Init /\ [][Next]_vars /\ WF_vars(Start) /\ WF_vars(ProcessEnvelope)

-----------------------------------------------------------------------------
(* Properties *)

TypeOK ==
    /\ log \in Seq(Event) /\ projections \in Seq(Event) /\ readModel \in Seq(Event)
    /\ receipts \in [Commands -> Receipt]
    /\ queue \in Seq(Commands)
    /\ phase \in {"down", "idle", "lookup", "transaction", "adopt", "publish",
                  "reconcile", "record", "reply"}
    /\ command \in Commands
    /\ startSequence \in Nat
    /\ pending \in Seq(Body) \cup Seq(Event)
    /\ result \in Result
    /\ faulted \in BOOLEAN
    /\ base \in Nat /\ published \in Seq(Nat)
    /\ replies \in SUBSET [command : Commands, result : Result]
    /\ dispatches \in 0..MaxDispatches /\ crashes \in 0..MaxCrashes

EventsOf(c) == {i \in DOMAIN log : log[i].command = c}

\* The bodies of the events first..last of the log.
Bodies(first, last) == [i \in 1..(last - first + 1) |-> log[first + i - 1].body]

\* A command that was accepted has exactly one block of events in the log, the
\* one its receipt names, and the block is what the decider answers on the log
\* before it: no retry, concurrent dispatch, failure or crash makes a command
\* run twice or be decided on anything but the committed history.
AppendedOnceAsDecided ==
    \A c \in Commands :
        IF receipts[c].status = "accepted"
        THEN \E first \in 1..receipts[c].sequence :
                /\ EventsOf(c) = first..receipts[c].sequence
                /\ Bodies(first, receipts[c].sequence)
                     \in Decisions(SubSeq(log, 1, first - 1), Content[c])
        ELSE EventsOf(c) = {}

\* Between two commands, and whenever one is decided, the read model is
\* exactly the committed log; at other times it is a prefix of it.
ReadModelFollowsLog ==
    phase # "down" =>
        /\ Len(readModel) <= Len(log)
        /\ readModel = SubSeq(log, 1, Len(readModel))
        /\ phase \notin {"adopt", "reconcile"} => readModel = log

\* Live subscribers are sent every event committed since the process started,
\* in log order, once, and none that the read model has not folded; nothing
\* is left unpublished when the worker turns to the next command.
LiveStreamContiguous ==
    /\ \A i \in DOMAIN published : published[i] = base + i
    /\ base + Len(published) <= Len(readModel)
    /\ phase \in {"idle", "lookup", "transaction", "record", "reply"} =>
          base + Len(published) = Len(log)

\* What a client was told stays true: an accepted command is in the log at the
\* sequence it was given, a previously rejected one never enters it.
RepliesDurable ==
    \A r \in replies :
        /\ r.result.status = "accepted" =>
              /\ receipts[r.command] = [status |-> "accepted", sequence |-> r.result.sequence]
              /\ log[r.result.sequence].command = r.command
        /\ r.result.status = "previouslyRejected" =>
              receipts[r.command].status = "rejected" /\ EventsOf(r.command) = {}

\* The engine implements the command log: queue, retries, failures and
\* crashes are invisible in the log and the receipts.
AbstractLog == INSTANCE CommandLog WITH outcome <- receipts
ImplementsCommandLog == AbstractLog!Spec

\* The engine implements the feed its readers and subscribers rely on.
Feed == INSTANCE EventFeed WITH
    up <- phase # "down",
    committed <- Len(log),
    adopted <- Len(readModel),
    published <- base + Len(published)
ImplementsEventFeed == Feed!Spec

\* Every dispatch is answered unless the process dies first: no failure of one
\* command stops the worker or loses the commands behind it.
Waiting(c) ==
    \/ \E i \in DOMAIN queue : queue[i] = c
    \/ command = c /\ phase \notin {"down", "idle"}
EveryDispatchAnswered == \A c \in Commands : Waiting(c) ~> ~Waiting(c)

-----------------------------------------------------------------------------
(* The inductive invariant: what also has to hold between two steps of the   *)
(* worker for the properties above to survive the next one.                  *)

LogWellFormed ==
    /\ \A i \in DOMAIN log : log[i].sequence = i
    /\ projections = log

\* Nothing is pending for the subscribers but what the worker is committing or
\* publishing, and dispatchStartSequence is where the read model stands.
Cursors ==
    /\ phase = "down" => readModel = <<>> /\ base = 0 /\ published = <<>>
    /\ phase \in {"lookup", "transaction", "adopt", "reconcile"} =>
          startSequence = Len(readModel)
    /\ phase \in {"adopt", "reconcile"} => base + Len(published) = Len(readModel)
    /\ phase \in {"adopt", "publish"} =>
          pending = SubSeq(log, base + Len(published) + 1, Len(log))
    \* One read of the log brings the read model up to date, and none is needed
    \* unless storage failed.
    /\ phase = "reconcile" =>
          Len(log) <= Len(readModel) + ReadLimit /\ (~faulted => readModel = log)

\* What the worker has found out about the command still holds.
Verdict ==
    /\ phase = "transaction" =>
          /\ receipts[command].status = "none"
          /\ pending \in Decisions(log, Content[command])
    /\ phase \in {"reconcile", "publish", "record"} /\ result.status = "invariant" =>
          /\ receipts[command].status = "none"
          /\ Decisions(log, Content[command]) = {}
    /\ phase = "adopt" => result.status = "accepted"
    /\ phase = "reconcile" => result.status \in {"invariant", "storage"}
    /\ phase = "publish" => result.status # "previouslyRejected"
    /\ phase = "record" => result.status = "invariant"
    /\ phase \in {"adopt", "publish", "reply"} /\ result.status = "accepted" =>
          receipts[command] = [status |-> "accepted", sequence |-> result.sequence]
    /\ phase = "reply" /\ result.status = "previouslyRejected" =>
          receipts[command].status = "rejected"

IInv ==
    /\ TypeOK /\ AppendedOnceAsDecided /\ ReadModelFollowsLog
    /\ LiveStreamContiguous /\ RepliesDurable
    /\ LogWellFormed /\ Cursors /\ Verdict
=============================================================================
