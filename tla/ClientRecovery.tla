--------------------------- MODULE ClientRecovery ---------------------------
(***************************************************************************)
(* The web client's copy of the orchestration state.  It is loaded from a  *)
(* snapshot when the server welcomes the client, follows the live event    *)
(* stream, and is repaired by reading the log when a sequence is missing   *)
(* or the stream was re-subscribed.  Requests are answered some time after *)
(* they are served, may fail, and are repeated when the connection drops.  *)
(*                                                                         *)
(* An event is its sequence.  A step of the client is one task of its      *)
(* event loop; microtasks end before the next timer or connection event.   *)
(***************************************************************************)
EXTENDS Naturals, Sequences, FiniteSets, FiniteSetsExt

CONSTANTS ReplayLimit,     \* DEFAULT_READ_FROM_SEQUENCE_LIMIT: 1000 in the code
          MaxNoProgress,   \* MAX_NO_PROGRESS_REPLAY_RETRIES: 3 in the code
          NoAnswer,        \* a request without an answer yet
          MaxCommits,      \* bound on the events committed
          MaxDisconnects,  \* bound on the connections lost
          MaxFailures      \* bound on the requests that fail for good

ASSUME ClientAssumption ==
    /\ {ReplayLimit, MaxNoProgress} \subseteq Nat \ {0}
    /\ {MaxCommits, MaxDisconnects, MaxFailures} \subseteq Nat
    /\ NoAnswer \notin Nat

VARIABLES
    logEnd, modelEnd,   \* the server: where its log, and its read model, end
    connected,
    welcome,        \* the welcome of this connection is still to come
    subscription,   \* the event stream: "closed", "requested", "opened", "read" or "live"
    opened,         \* the sequence the stream starts from
    readTo,     \* how far it has read the log
    liveFrom,       \* what had been published when its live source subscribed
    streamNext,     \* the next event of the stream
    received,       \* hasReceivedValue
    client,         \* the state of the recovery coordinator, and the store
    answer,         \* what the server answered to the request in flight
    pending,        \* pendingDomainEvents
    tracker,        \* replayRetryTracker
    timers,         \* replays that wait for their retry delay
    disconnects, failures,
    streak          \* observation: the requests that failed since one was answered

server   == <<logEnd, modelEnd>>
stream   == <<opened, readTo, liveFrom, streamNext>>
link     == <<connected, welcome, subscription, stream, received>>
retrying == <<tracker, timers>>
bounds   == <<disconnects, failures, streak>>

clientVars == <<server, link, client, answer, pending, retrying, bounds>>

Sequences == 0..MaxCommits

\* "store" counts how often each event is reflected in the store; a snapshot
\* in flight has no start.
Client == [latest : Sequences, highest : Sequences, bootstrapped : BOOLEAN,
           pendingReplay : BOOLEAN, inFlight : {"none", "snapshot", "replay"},
           replayStart : Sequences, store : [1..MaxCommits -> 0..2]]

NoTracker == [attempts |-> 0, latest |-> 0, highest |-> 0]

ClientInit ==
    /\ logEnd = 0 /\ modelEnd = 0
    /\ connected = FALSE /\ welcome = FALSE
    /\ subscription = "closed" /\ received = FALSE
    /\ opened = 0 /\ readTo = 0 /\ liveFrom = 0 /\ streamNext = 1
    /\ client = [latest |-> 0, highest |-> 0, bootstrapped |-> FALSE,
                 pendingReplay |-> FALSE, inFlight |-> "none", replayStart |-> 0,
                 store |-> [n \in 1..MaxCommits |-> 0]]
    /\ answer = NoAnswer /\ pending = <<>>
    /\ tracker = NoTracker /\ timers = 0
    /\ disconnects = 0 /\ failures = 0 /\ streak = 0

-----------------------------------------------------------------------------
(* The recovery coordinator, and what the store does with its answers. *)

Observe(c, n) == [c EXCEPT !.highest = Max({@, n})]

\* beginSnapshotRecovery
RunSnapshot(c) ==
    IF c.inFlight = "none" THEN [c EXCEPT !.inFlight = "snapshot"]
                           ELSE [c EXCEPT !.pendingReplay = TRUE]

\* Faulty: a replay that is pending is taken for one in flight.
RunReplayRefused(c) ==
    IF c.bootstrapped /\ c.inFlight = "none" /\ ~c.pendingReplay
    THEN [c EXCEPT !.inFlight = "replay", !.replayStart = c.latest]
    ELSE [c EXCEPT !.pendingReplay = TRUE]

\* beginReplayRecovery; the request reads the log from replayStart.
RunReplay(c) ==
    IF c.bootstrapped /\ c.inFlight = "none"
    THEN [c EXCEPT !.inFlight = "replay", !.pendingReplay = FALSE, !.replayStart = c.latest]
    ELSE [c EXCEPT !.pendingReplay = TRUE]

\* Faulty: events that are reflected already are applied again.
ApplyWholeBatch(c, events) ==
    LET new == DOMAIN events
        last == Max({events[i] : i \in new})
    IN  IF new = {} THEN c
        ELSE [c EXCEPT !.latest = Max({@, last}), !.highest = Max({@, last}),
                       !.store = [n \in 1..MaxCommits |->
                           Min({2, @[n] + Cardinality({i \in new : events[i] = n})})]]

\* applyEventBatch: markEventBatchApplied keeps what lies beyond latestSequence.
ApplyBatch(c, events) ==
    LET new == {i \in DOMAIN events : events[i] > c.latest}
        last == Max({events[i] : i \in new})
    IN  IF new = {} THEN c
        ELSE [c EXCEPT !.latest = last, !.highest = Max({@, last}),
                       !.store = [n \in 1..MaxCommits |->
                           @[n] + Cardinality({i \in new : events[i] = n})]]

\* syncServerReadModel and completeSnapshotRecovery
TakeSnapshot(c, s) ==
    [c EXCEPT !.store = [n \in 1..MaxCommits |-> IF n <= s THEN 1 ELSE 0],
              !.latest = Max({@, s}), !.highest = Max({@, c.latest, s}),
              !.bootstrapped = TRUE, !.inFlight = "none", !.pendingReplay = FALSE]

\* Faulty: events observed during the recovery are forgotten.
ReplayNeverNeeded(c) == FALSE

\* resolveReplayNeedAfterRecovery
ReplayNeeded(c) == c.pendingReplay \/ c.highest > c.latest

-----------------------------------------------------------------------------
(* The server and the connection *)

Commit ==
    /\ modelEnd = logEnd /\ logEnd < MaxCommits
    /\ logEnd' = logEnd + 1
    /\ UNCHANGED <<modelEnd, link, client, answer, pending, retrying, bounds>>

Adopt ==
    /\ modelEnd < logEnd
    /\ modelEnd' = logEnd
    /\ UNCHANGED <<logEnd, link, client, answer, pending, retrying, bounds>>

\* A request is served from the database at any time after it was sent.
Serve ==
    /\ connected /\ client.inFlight # "none" /\ answer = NoAnswer
    /\ answer' = IF client.inFlight = "snapshot" THEN logEnd
                 ELSE Min({client.replayStart + ReplayLimit, logEnd})
    /\ UNCHANGED <<server, link, client, pending, retrying, bounds>>

Connect ==
    /\ ~connected /\ pending = <<>>
    /\ connected' = TRUE /\ welcome' = TRUE
    /\ UNCHANGED <<server, subscription, stream, received, client, answer, pending,
                   retrying, bounds>>

\* An answer that is on its way is lost; retryTransportRecoveryOperation sends
\* the request again.
LoseConnection ==
    /\ connected /\ pending = <<>>
    /\ disconnects < MaxDisconnects
    /\ disconnects' = disconnects + 1
    /\ connected' = FALSE /\ welcome' = FALSE /\ subscription' = "closed"
    /\ answer' = NoAnswer
    /\ UNCHANGED <<server, stream, received, client, pending, retrying, failures, streak>>

\* The subscription's loop starts a stream on the new session; when it ever
\* received a value, onResubscribe runs first.
StartStream ==
    /\ connected /\ subscription = "closed" /\ pending = <<>>
    /\ subscription' = "requested"
    /\ client' = IF received THEN RunReplay(client) ELSE client
    /\ UNCHANGED <<server, connected, welcome, stream, received, answer, pending,
                   retrying, bounds>>

\* The server opens the stream at the sequence of its in-memory read model, ...
OpenStream ==
    /\ subscription = "requested"
    /\ subscription' = "opened"
    /\ opened' = modelEnd /\ streamNext' = modelEnd + 1
    /\ UNCHANGED <<server, connected, welcome, readTo, liveFrom, received, client,
                   answer, pending, retrying, bounds>>

\* ... reads the log from there, if it can, ...
ReadLog ==
    /\ subscription = "opened"
    /\ subscription' = "read"
    /\ readTo' \in {opened, Min({opened + ReplayLimit, logEnd})}
    /\ UNCHANGED <<server, connected, welcome, opened, liveFrom, streamNext, received,
                   client, answer, pending, retrying, bounds>>

\* ... and only then subscribes to what is published.  An event published in
\* between is lost, and holds back the later ones for good.
SubscribeLive ==
    /\ subscription = "read"
    /\ subscription' = "live"
    /\ liveFrom' = modelEnd
    /\ UNCHANGED <<server, connected, welcome, opened, readTo, streamNext, received,
                   client, answer, pending, retrying, bounds>>

-----------------------------------------------------------------------------
(* The event loop of the client *)

\* Faulty: a client that has been loaded once is not loaded again.
WelcomeOnce ==
    /\ welcome
    /\ welcome' = FALSE
    /\ client' = IF client.latest = 0 THEN RunSnapshot(client) ELSE client
    /\ UNCHANGED <<server, connected, subscription, stream, received, answer, pending,
                   retrying, bounds>>

\* handleWelcome
Welcome ==
    /\ welcome
    /\ welcome' = FALSE
    /\ client' = RunSnapshot(client)
    /\ UNCHANGED <<server, connected, subscription, stream, received, answer, pending,
                   retrying, bounds>>

\* Faulty: what arrives during a recovery is dropped.
Drop(n) ==
    /\ n <= client.latest \/ ~client.bootstrapped \/ client.inFlight # "none"
    /\ UNCHANGED <<client, pending>>

\* onDomainEvent, by what classifyDomainEvent answers.
IgnoreOrDefer(n) ==
    /\ n <= client.latest \/ ~client.bootstrapped \/ client.inFlight # "none"
    /\ client' = [Observe(client, n) EXCEPT !.pendingReplay = @ \/ n > client.latest]
    /\ UNCHANGED pending

ApplyLater(n) ==
    /\ n = client.latest + 1 /\ client.bootstrapped /\ client.inFlight = "none"
    /\ client' = Observe(client, n)
    /\ pending' = Append(pending, n)

Recover(n) ==
    /\ n > client.latest + 1 /\ client.bootstrapped /\ client.inFlight = "none"
    /\ client' = RunReplay(ApplyBatch(Observe(client, n), pending))
    /\ pending' = <<>>

\* An event was read from the log, or published since the live source subscribed;
\* the stream emits it after all before it.
Emits(n) == n <= readTo \/ (subscription = "live" /\ n \in (liveFrom + 1)..modelEnd)

Deliver ==
    /\ subscription \in {"read", "live"} /\ Emits(streamNext)
    /\ IgnoreOrDefer(streamNext) \/ ApplyLater(streamNext) \/ Recover(streamNext)
    /\ streamNext' = streamNext + 1
    /\ received' = TRUE
    /\ UNCHANGED <<server, connected, welcome, subscription, opened, readTo, liveFrom,
                   answer, retrying, bounds>>

\* The microtask flushPendingDomainEvents.
Flush ==
    /\ pending # <<>>
    /\ client' = ApplyBatch(client, pending)
    /\ pending' = <<>>
    /\ UNCHANGED <<server, link, answer, retrying, bounds>>

\* runSnapshotRecovery, after getSnapshot
SnapshotArrives ==
    /\ client.inFlight = "snapshot" /\ answer # NoAnswer
    /\ LET synced == TakeSnapshot(client, answer)
       IN  client' = IF client.pendingReplay \/ synced.highest > synced.latest
                     THEN RunReplay(synced) ELSE synced
    /\ answer' = NoAnswer /\ streak' = 0
    /\ UNCHANGED <<server, link, pending, retrying, disconnects, failures>>

SnapshotFails ==
    /\ client.inFlight = "snapshot" /\ failures < MaxFailures
    /\ failures' = failures + 1 /\ streak' = streak + 1
    /\ client' = [client EXCEPT !.inFlight = "none"]
    /\ answer' = NoAnswer
    /\ UNCHANGED <<server, link, pending, retrying, disconnects>>

\* runReplayRecovery, after replayEvents: completeReplayRecovery and then
\* deriveReplayRetryDecision.
Retry(c) ==
    LET same == tracker.latest = c.latest /\ tracker.highest = c.highest
        attempts == (IF same THEN tracker.attempts ELSE 0) + 1
    IN  IF attempts > MaxNoProgress
        THEN tracker' = NoTracker /\ UNCHANGED timers
        ELSE /\ tracker' = [attempts |-> attempts, latest |-> c.latest, highest |-> c.highest]
             /\ timers' = timers + 1

ReplayArrives ==
    /\ client.inFlight = "replay" /\ answer # NoAnswer
    /\ LET batch == [i \in 1..(answer - client.replayStart) |-> client.replayStart + i]
           applied == ApplyBatch(client, batch)
           progress == applied.latest > applied.replayStart
           done == [applied EXCEPT !.inFlight = "none", !.pendingReplay = FALSE, !.replayStart = 0]
       IN  IF ~ReplayNeeded(applied)
           THEN client' = done /\ tracker' = NoTracker /\ UNCHANGED timers
           ELSE IF progress
           THEN client' = RunReplay(done) /\ tracker' = NoTracker /\ UNCHANGED timers
           ELSE client' = done /\ Retry(done)
    /\ answer' = NoAnswer /\ streak' = 0
    /\ UNCHANGED <<server, link, pending, disconnects, failures>>

\* failReplayRecovery, and the fallback to a snapshot.
ReplayFails ==
    /\ client.inFlight = "replay" /\ failures < MaxFailures
    /\ failures' = failures + 1 /\ streak' = streak + 1
    /\ client' = RunSnapshot([client EXCEPT !.bootstrapped = FALSE, !.inFlight = "none",
                                            !.replayStart = 0])
    /\ answer' = NoAnswer /\ tracker' = NoTracker
    /\ UNCHANGED <<server, link, pending, timers, disconnects>>

\* A retry delay ends.
RetryReplay ==
    /\ timers > 0 /\ pending = <<>>
    /\ timers' = timers - 1
    /\ client' = RunReplay(client)
    /\ UNCHANGED <<server, link, answer, pending, tracker, bounds>>

-----------------------------------------------------------------------------
Arrives == SnapshotArrives \/ ReplayArrives

ClientNext ==
    \/ Commit \/ Adopt \/ Serve
    \/ Connect \/ LoseConnection \/ StartStream
    \/ OpenStream \/ ReadLog \/ SubscribeLive
    \/ Welcome \/ Deliver \/ Flush
    \/ Arrives \/ SnapshotFails \/ ReplayFails \/ RetryReplay

\* The server serves, the connection is retried, what was sent arrives and the
\* event loop turns.  Nobody has to dispatch a command, and nothing has to fail.
ClientSpec ==
    /\ ClientInit /\ [][ClientNext]_clientVars
    /\ WF_clientVars(Adopt) /\ WF_clientVars(Serve)
    /\ WF_clientVars(Connect) /\ WF_clientVars(StartStream)
    /\ WF_clientVars(OpenStream \/ ReadLog \/ SubscribeLive)
    /\ WF_clientVars(Welcome) /\ WF_clientVars(Deliver) /\ WF_clientVars(Flush)
    /\ WF_clientVars(Arrives) /\ WF_clientVars(RetryReplay)

-----------------------------------------------------------------------------
(* Properties *)

ClientTypeOK ==
    /\ {logEnd, modelEnd, opened, readTo, liveFrom} \subseteq Sequences
    /\ connected \in BOOLEAN /\ welcome \in BOOLEAN /\ received \in BOOLEAN
    /\ subscription \in {"closed", "requested", "opened", "read", "live"}
    /\ streamNext \in 1..(MaxCommits + 1)
    /\ client \in Client
    /\ answer \in Sequences \cup {NoAnswer}
    /\ pending \in Seq(1..MaxCommits)
    /\ tracker \in [attempts : 0..MaxNoProgress, latest : Sequences, highest : Sequences]
    /\ timers \in Nat
    /\ disconnects \in 0..MaxDisconnects /\ failures \in 0..MaxFailures /\ streak \in 0..failures

\* The store reflects exactly the events up to latestSequence, each once,
\* however snapshots, replays and live events overlap, fail and are repeated:
\* an event applied twice would duplicate streamed text, a missed one lose it.
StoreMatchesLatest ==
    client.store = [n \in 1..MaxCommits |-> IF n <= client.latest THEN 1 ELSE 0]

\* A client that has seen more than it has applied catches up, unless the connection
\* is lost or one more request fails for good: by itself while none has, and otherwise
\* when it is welcomed on a new connection, deaf as a failed replay and a failed
\* snapshot leave it.
GapFilled ==
    \A f \in 0..MaxFailures :
        (client.highest > client.latest /\ failures = f
            /\ (welcome \/ (client.bootstrapped /\ f = 0)))
        ~> (client.highest = client.latest \/ ~connected \/ failures > f)

\* A client that has caught up with the point its stream starts from keeps up
\* with every later event, unless the stream lost one before it subscribed to the
\* live events, the connection is lost or a request has failed for good.
KeepsUpWithStream ==
    \A n \in 1..MaxCommits :
        (subscription = "live" /\ liveFrom <= readTo
            /\ client.bootstrapped /\ client.latest >= opened /\ n <= logEnd)
        ~> (client.latest >= n \/ ~connected \/ failures > 0)

\* An event beyond what is shown makes an idle client act: it is applied, or the
\* log is read.  A failed request does not change that, but a replay and the
\* snapshot that was to stand in for it, both failed, leave the client deaf.
EventsWakeIdleClient ==
    [][(client.latest > 0 /\ client.inFlight = "none" /\ streak < 2
            /\ streamNext' = streamNext + 1 /\ subscription \in {"read", "live"}
            /\ streamNext > client.latest)
       => (client'.inFlight = "replay" \/ pending' # <<>>)]_clientVars
=============================================================================
