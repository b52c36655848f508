-------------------------- MODULE DomainEventStream --------------------------
(***************************************************************************)
(* The event stream a WebSocket client subscribes to                       *)
(* (makeOrderedOrchestrationDomainEventStream).  It takes the sequence of  *)
(* the in-memory read model, reads from the log what lies beyond it, and   *)
(* only then, when the stream runs, subscribes to the live events; the two *)
(* sources are merged in any order and put back into sequence order.       *)
(*                                                                         *)
(* An event is its sequence.  The engine is seen through EventFeed, which  *)
(* OrchestrationEngineProofs proves it implements.                         *)
(***************************************************************************)
EXTENDS Naturals, Sequences, FiniteSets

CONSTANTS ReadLimit,   \* DEFAULT_READ_FROM_SEQUENCE_LIMIT: 1000 in the code
          ReadMayFail, \* whether the log can turn out unreadable
          MaxEvents    \* bound on the events committed

ASSUME StreamAssumption ==
    ReadLimit \in Nat \ {0} /\ ReadMayFail \in BOOLEAN /\ MaxEvents \in Nat

VARIABLES
    up, committed, adopted, published,  \* the engine
    phase,          \* where the stream is
    from,           \* fromSequenceExclusive
    replayNext,     \* the replayed events not yet merged in: replayNext ..
    replayedTo,     \* .. replayedTo
    subscribedAt,   \* what had been published when the live source subscribed
    live,           \* the live source has subscribed
    liveNext,       \* the live events not yet merged in: liveNext .. published
    nextSequence,
    buffered,       \* pendingBySequence
    emitted         \* what the client has been sent

engine == <<up, committed, adopted, published>>
replay == <<replayNext, replayedTo>>
pubsub == <<subscribedAt, live, liveNext>>
order  == <<nextSequence, buffered, emitted>>
vars   == <<engine, phase, from, replay, pubsub, order>>

Feed == INSTANCE EventFeed

Init ==
    /\ Feed!Init
    /\ phase = "closed" /\ from = 0
    /\ replayNext = 1 /\ replayedTo = 0
    /\ live = FALSE /\ subscribedAt = 0 /\ liveNext = 1
    /\ nextSequence = 1 /\ buffered = {} /\ emitted = <<>>

-----------------------------------------------------------------------------
(* The engine goes on at any time; when the process stops, so does the       *)
(* connection of the client.                                                 *)

EngineStep ==
    /\ \/ Feed!Start
       \/ \E n \in (committed + 1)..MaxEvents : committed' = n /\ Feed!Commit
       \/ Feed!Adopt
       \/ Feed!Publish
    /\ UNCHANGED <<phase, from, replay, pubsub, order>>

Close ==
    /\ phase' = "closed" /\ from' = 0
    /\ replayNext' = 1 /\ replayedTo' = 0
    /\ live' = FALSE /\ subscribedAt' = 0 /\ liveNext' = 1
    /\ nextSequence' = 1 /\ buffered' = {} /\ emitted' = <<>>

Disconnect == phase # "closed" /\ Close /\ UNCHANGED engine

EngineStops == Feed!Stop /\ Close

-----------------------------------------------------------------------------
\* getReadModel
Open ==
    /\ up /\ phase = "closed"
    /\ phase' = "opened"
    /\ from' = adopted
    /\ nextSequence' = adopted + 1
    /\ UNCHANGED <<engine, replay, pubsub, buffered, emitted>>

\* readEvents(fromSequenceExclusive), whose result does not depend on the
\* subscription that follows.
Replay ==
    /\ phase = "opened"
    /\ replayNext' = from + 1
    /\ replayedTo' = IF from + ReadLimit < committed THEN from + ReadLimit ELSE committed
    /\ phase' = "running"
    /\ UNCHANGED <<engine, from, pubsub, order>>

\* A log that cannot be read is taken for an empty replay.
ReplayError ==
    /\ ReadMayFail
    /\ phase = "opened"
    /\ replayNext' = from + 1
    /\ replayedTo' = from
    /\ phase' = "running"
    /\ UNCHANGED <<engine, from, pubsub, order>>

\* The merged stream starts its live source beside its replayed one.
Subscribe ==
    /\ phase = "running" /\ ~live
    /\ live' = TRUE
    /\ subscribedAt' = published
    /\ liveNext' = published + 1
    /\ UNCHANGED <<engine, phase, from, replay, order>>

\* Faulty: what is in hand is sent whether or not it follows.
EmitAll(inHand) ==
    LET last == CHOOSE n \in inHand : \A m \in inHand : m <= n
    IN  /\ emitted' = Append(emitted, last)
        /\ nextSequence' = last + 1
        /\ buffered' = {}

\* Faulty: an event is kept until the next one arrives.
EmitLater(inHand) ==
    LET run == {n \in inHand : \A m \in nextSequence..(n + 1) : m \in inHand}
    IN  /\ emitted' = emitted \o [i \in 1..Cardinality(run) |-> nextSequence + i - 1]
        /\ nextSequence' = nextSequence + Cardinality(run)
        /\ buffered' = inHand \ run

\* The events that follow nextSequence without a gap among those in hand.
Emit(inHand) ==
    LET run == {n \in inHand : \A m \in nextSequence..n : m \in inHand}
    IN  /\ emitted' = emitted \o [i \in 1..Cardinality(run) |-> nextSequence + i - 1]
        /\ nextSequence' = nextSequence + Cardinality(run)
        /\ buffered' = inHand \ run

\* An event seen before is dropped.
Merge(n) ==
    IF n < nextSequence \/ n \in buffered
    THEN UNCHANGED order
    ELSE Emit(buffered \cup {n})

MergeReplayed ==
    /\ phase = "running"
    /\ replayNext <= replayedTo
    /\ replayNext' = replayNext + 1
    /\ Merge(replayNext)
    /\ UNCHANGED <<engine, phase, from, replayedTo, pubsub>>

MergeLive ==
    /\ phase = "running" /\ live
    /\ liveNext <= published
    /\ liveNext' = liveNext + 1
    /\ Merge(liveNext)
    /\ UNCHANGED <<engine, phase, from, replay, subscribedAt, live>>

-----------------------------------------------------------------------------
StreamStep == Replay \/ ReplayError \/ Subscribe \/ MergeReplayed \/ MergeLive

Next == EngineStep \/ EngineStops \/ Open \/ StreamStep \/ Disconnect

\* The fibers of an open stream go on; nobody has to subscribe or to leave, and
\* the engine has to do nothing.
Spec ==
    /\ Init /\ [][Next]_vars
    /\ WF_vars(Replay \/ ReplayError) /\ WF_vars(Subscribe)
    /\ WF_vars(MergeReplayed) /\ WF_vars(MergeLive)

-----------------------------------------------------------------------------
(* Properties *)

TypeOK ==
    /\ up \in BOOLEAN /\ live \in BOOLEAN
    /\ phase \in {"closed", "opened", "running"}
    /\ {committed, adopted, published, from, replayedTo, subscribedAt} \subseteq 0..MaxEvents
    /\ {replayNext, liveNext, nextSequence} \subseteq 1..(MaxEvents + 1)
    /\ buffered \subseteq 1..MaxEvents
    /\ emitted \in Seq(1..MaxEvents)

Emitted == {emitted[i] : i \in DOMAIN emitted}

\* Still to come to the client without a further event of the engine.
InHand ==
    Emitted \cup buffered \cup replayNext..replayedTo
            \cup (IF live THEN liveNext..published ELSE (published + 1)..MaxEvents)

\* However the two sources interleave and overlap, the client is sent the
\* events that follow the stream's starting point, each once, in order, none
\* skipped, and none that is not in the log.
SentInOrderWithoutGap ==
    \A i \in DOMAIN emitted : emitted[i] = from + i /\ emitted[i] <= committed

\* A client that lost nothing in the handoff is sent every published event, as
\* long as it stays connected.
NothingLostIsSent ==
    \A n \in 1..MaxEvents :
        (live /\ subscribedAt <= replayedTo /\ n \in (from + 1)..published)
            ~> (n \in Emitted \/ phase = "closed")

\* The handoff from the replay to the live events loses nothing, when the log
\* can be read.  An event that is lost is never sent again, and every later one
\* stays buffered behind it until the client reconnects.
HandoffHasNoGap ==
    phase = "running" /\ live => (from + 1)..published \subseteq InHand
=============================================================================
