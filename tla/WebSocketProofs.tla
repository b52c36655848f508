---------------------------- MODULE WebSocketProofs ----------------------------
(***************************************************************************)
(* Proofs about what ws.ts serves to a client and about the client's end:  *)
(* the event stream of a client, for any number of events, any limit of a  *)
(* read and any interleaving of the two sources; the client's copy of the  *)
(* state, for any number of events, lost connections and failed requests;  *)
(* and the bootstrap of a first turn, for any number of requests to the    *)
(* same thread, whatever they ask for, and any failures.                   *)
(***************************************************************************)
EXTENDS DomainEventStream, ClientRecovery, BootstrapTurnStart, SequenceTheorems,
        FiniteSetTheorems, WellFoundedInduction, TLAPS

-----------------------------------------------------------------------------
(* The event stream *)

\* The engine: what is published has been folded, and what is folded committed.
EngineInv ==
    /\ {committed, adopted, published} \subseteq Nat
    /\ published <= adopted /\ adopted <= committed
    /\ ~up => phase = "closed"

\* Where a stream reads, and that a closed one has sent nothing.
SourceInv ==
    /\ {from, replayedTo} \subseteq 0..committed
    /\ {replayNext, liveNext} \subseteq Nat
    /\ phase # "running" => emitted = <<>> /\ buffered = {}

\* What has been sent follows the starting point, and ends where nextSequence
\* begins; what is buffered lies beyond, and is in the log.
OrderInv ==
    /\ emitted \in Seq(Nat)
    /\ nextSequence = from + Len(emitted) + 1
    /\ nextSequence <= committed + 1
    /\ \A i \in 1..Len(emitted) : emitted[i] = from + i
    /\ buffered \subseteq nextSequence..committed

StreamInv == EngineInv /\ SourceInv /\ OrderInv

-----------------------------------------------------------------------------
(* The events that are sent at once. *)

LEMMA LeastNumber ==
    ASSUME NEW T, T \subseteq Nat, T # {}
    PROVE  \E x \in T : \A y \in T : x <= y
<1>. DEFINE R == {ss \in Nat \X Nat : ss[1] < ss[2]}
<1>1. IsWellFoundedOn(R, Nat)
  BY NatLessThanWellFounded DEF OpToRel
<1>. HIDE DEF R
<1>2. PICK x \in T : \A y \in T : ~ (<<y, x>> \in R)
  BY <1>1, WFMin
<1>3. ASSUME NEW y \in T PROVE x <= y
  <2>1. x \in Nat /\ y \in Nat /\ <<y, x>> \notin R
    BY <1>2
  <2>2. ~(y < x)
    BY <2>1 DEF R
  <2>. QED  BY <2>1, <2>2
<1>. QED  BY <1>3

\* The numbers of a set that follow a number without a gap ...
Following(first, S) == {n \in S : \A m \in first..n : m \in S}

\* ... are an interval.
LEMMA RunIsInterval ==
    ASSUME NEW first \in Nat, NEW bound \in Nat, first <= bound + 1,
           NEW S, S \subseteq first..bound
    PROVE  LET run == Following(first, S)
           IN  /\ Cardinality(run) \in Nat
               /\ run = first..(first + Cardinality(run) - 1)
               /\ first + Cardinality(run) <= bound + 1
<1>. DEFINE run == Following(first, S)
            Missing == {m \in Nat : first <= m /\ m \notin S}
<1>1. bound + 1 \in Missing
  OBVIOUS
<1>2. PICK gap \in Missing : \A m \in Missing : gap <= m
  BY <1>1, LeastNumber
<1>3. gap \in Nat /\ first <= gap /\ gap <= bound + 1 /\ gap \notin S
  BY <1>1, <1>2
<1>4. \A m \in first..(gap - 1) : m \in S
  BY <1>2, <1>3
<1>5. run = first..(gap - 1)
  <2>1. ASSUME NEW n \in run PROVE n \in first..(gap - 1)
    <3>1. n \in first..bound /\ \A m \in first..n : m \in S
      BY DEF Following
    <3>2. ~(gap <= n)
      BY <3>1, <1>3
    <3>. QED  BY <3>1, <3>2, <1>3
  <2>2. ASSUME NEW n \in first..(gap - 1) PROVE n \in run
    BY <1>3, <1>4 DEF Following
  <2>. QED  BY <2>1, <2>2
<1>. HIDE DEF run
<1>6. Cardinality(run) = gap - first
  <2>1. Cardinality(first..(gap - 1)) = IF first > gap - 1 THEN 0 ELSE (gap - 1) - first + 1
    BY <1>3, FS_Interval
  <2>2. first \in Nat
    OBVIOUS
  <2>. QED  BY ONLY <2>1, <2>2, <1>3, <1>5
<1>7. /\ Cardinality(run) \in Nat
      /\ run = first..(first + Cardinality(run) - 1)
      /\ first + Cardinality(run) <= bound + 1
  <2>1. first \in Nat /\ bound \in Nat
    OBVIOUS
  <2>. QED  BY ONLY <2>1, <1>3, <1>5, <1>6
<1>. QED  BY <1>7 DEF run

LEMMA EmitInv ==
    ASSUME StreamInv, NEW inHand, inHand \subseteq nextSequence..committed, Emit(inHand),
           committed' = committed, from' = from
    PROVE  OrderInv'
<1>. DEFINE run == {n \in inHand : \A m \in nextSequence..n : m \in inHand}
            size == Cardinality(run)
            new == [i \in 1..size |-> nextSequence + i - 1]
<1>0. /\ nextSequence \in Nat /\ committed \in Nat /\ from \in Nat /\ Len(emitted) \in Nat
      /\ nextSequence <= committed + 1 /\ nextSequence = from + Len(emitted) + 1
      /\ emitted \in Seq(Nat) /\ \A i \in 1..Len(emitted) : emitted[i] = from + i
  BY DEF StreamInv, EngineInv, SourceInv, OrderInv
<1>1. /\ size \in Nat
      /\ run = nextSequence..(nextSequence + size - 1)
      /\ nextSequence + size <= committed + 1
  <2>1. run = Following(nextSequence, inHand)
    BY DEF Following
  <2>. HIDE DEF run
  <2>2. /\ nextSequence \in Nat /\ committed \in Nat /\ nextSequence <= committed + 1
        /\ inHand \subseteq nextSequence..committed
    BY <1>0
  <2>. QED  BY ONLY <2>1, <2>2, RunIsInterval DEF size
<1>2. /\ emitted' = emitted \o new
      /\ nextSequence' = nextSequence + size
      /\ buffered' = inHand \ run
  BY DEF Emit
<1>. HIDE DEF run, size
<1>3. new \in [1..size -> Nat] /\ \A i \in 1..size : new[i] = nextSequence + i - 1
  BY <1>0, <1>1
<1>4. new \in Seq(Nat) /\ Len(new) = size
  BY <1>1, <1>3
<1>. HIDE DEF new
<1>5. /\ emitted' \in Seq(Nat)
      /\ Len(emitted') = Len(emitted) + size
      /\ \A i \in 1..Len(emitted) + size :
            emitted'[i] = IF i <= Len(emitted) THEN emitted[i] ELSE new[i - Len(emitted)]
  BY <1>0, <1>2, <1>4, ConcatProperties
<1>6. nextSequence' = from' + Len(emitted') + 1 /\ nextSequence' <= committed' + 1
  BY <1>0, <1>1, <1>2, <1>5
<1>7. ASSUME NEW i \in 1..Len(emitted') PROVE emitted'[i] = from' + i
  <2>1. CASE i <= Len(emitted)
    BY <2>1, <1>0, <1>5
  <2>2. CASE ~(i <= Len(emitted))
    <3>1. i - Len(emitted) \in 1..size
      BY <2>2, <1>0, <1>1, <1>5
    <3>2. new[i - Len(emitted)] = nextSequence + (i - Len(emitted)) - 1
      BY <3>1, <1>3
    <3>3. emitted'[i] = new[i - Len(emitted)]
      BY <2>2, <1>5
    <3>4. i \in Nat /\ from' = from
      BY <1>0, <1>1, <1>5
    <3>. QED  BY ONLY <3>2, <3>3, <3>4, <1>0
  <2>. QED  BY <2>1, <2>2
<1>8. ASSUME NEW x \in buffered' PROVE x \in nextSequence'..committed'
  <2>1. x \in nextSequence..committed /\ x \notin nextSequence..(nextSequence + size - 1)
    BY <1>1, <1>2
  <2>. QED  BY <2>1, <1>0, <1>1, <1>2
<1>. QED  BY <1>5, <1>6, <1>7, <1>8 DEF OrderInv

-----------------------------------------------------------------------------
(* The steps. *)

LEMMA InitInv == Init => StreamInv
<1>. SUFFICES ASSUME Init PROVE StreamInv
  OBVIOUS
<1>1. emitted = <<>> /\ Len(emitted) = 0 /\ emitted \in Seq(Nat)
  BY EmptySeq DEF Init
<1>2. EngineInv /\ SourceInv /\ OrderInv
  BY <1>1 DEF Init, Feed!Init, EngineInv, SourceInv, OrderInv
<1>. QED  BY <1>2 DEF StreamInv

\* The engine goes on beside a stream.
LEMMA EngineStepInv ==
    ASSUME StreamInv, EngineStep
    PROVE  StreamInv'
<1>1. UNCHANGED <<phase, from, replayNext, replayedTo, subscribedAt, live, liveNext,
                  nextSequence, buffered, emitted>>
  BY DEF EngineStep, replay, pubsub, order
<1>2. EngineInv' /\ committed' >= committed
  <2>1. CASE Feed!Start
    BY <2>1, <1>1 DEF Feed!Start, StreamInv, EngineInv
  <2>2. CASE \E n \in (committed + 1)..MaxEvents : committed' = n /\ Feed!Commit
    BY <2>2, <1>1 DEF Feed!Commit, StreamInv, EngineInv
  <2>3. CASE Feed!Adopt
    BY <2>3, <1>1 DEF Feed!Adopt, StreamInv, EngineInv
  <2>4. CASE Feed!Publish
    BY <2>4, <1>1 DEF Feed!Publish, StreamInv, EngineInv
  <2>. QED  BY <2>1, <2>2, <2>3, <2>4 DEF EngineStep
<1>3. committed \in Nat /\ committed' \in Nat
  BY <1>2 DEF StreamInv, EngineInv
<1>4. SourceInv'
  BY <1>1, <1>2, <1>3 DEF StreamInv, SourceInv
<1>5. OrderInv'
  <2>1. nextSequence \in Nat
    BY DEF StreamInv, SourceInv, OrderInv, EngineInv
  <2>. QED  BY <2>1, <1>1, <1>2, <1>3 DEF StreamInv, OrderInv
<1>. QED  BY <1>2, <1>4, <1>5 DEF StreamInv

\* A stream that is closed is as if it had never been.
LEMMA CloseInv ==
    ASSUME StreamInv, Close, committed' = committed
    PROVE  SourceInv' /\ OrderInv'
<1>1. emitted' = <<>> /\ Len(emitted') = 0 /\ emitted' \in Seq(Nat)
  BY EmptySeq DEF Close
<1>. QED  BY <1>1 DEF Close, StreamInv, EngineInv, SourceInv, OrderInv

\* What a source delivers lies in the log.
LEMMA MergeInv ==
    ASSUME StreamInv, NEW n \in Nat, n <= committed, Merge(n), committed' = committed,
           from' = from
    PROVE  OrderInv'
<1>1. CASE n < nextSequence \/ n \in buffered
  BY <1>1 DEF Merge, order, StreamInv, OrderInv
<1>2. CASE ~(n < nextSequence \/ n \in buffered)
  <2>1. buffered \cup {n} \subseteq nextSequence..committed
    <3>1. nextSequence \in Nat /\ committed \in Nat /\ buffered \subseteq nextSequence..committed
      BY SMTT(30) DEF StreamInv, EngineInv, SourceInv, OrderInv
    <3>2. n \in Nat /\ n <= committed /\ nextSequence <= n
      BY <1>2, <3>1
    <3>. QED  BY ONLY <3>1, <3>2
  <2>2. Emit(buffered \cup {n})
    BY <1>2 DEF Merge
  <2>. QED  BY <2>1, <2>2, EmitInv
<1>. QED  BY <1>1, <1>2

LEMMA NextInv == StreamInv /\ [Next]_vars => StreamInv'
<1>. SUFFICES ASSUME StreamInv, [Next]_vars PROVE StreamInv'
  OBVIOUS
<1>1. CASE EngineStep
  BY <1>1, EngineStepInv
<1>2. CASE EngineStops
  <2>1. EngineInv' /\ committed' = committed
    BY <1>2 DEF EngineStops, Close, Feed!Stop, StreamInv, EngineInv
  <2>. QED  BY <1>2, <2>1, CloseInv DEF EngineStops, StreamInv
<1>3. CASE Disconnect
  <2>1. EngineInv' /\ committed' = committed
    BY <1>3 DEF Disconnect, Close, engine, StreamInv, EngineInv
  <2>. QED  BY <1>3, <2>1, CloseInv DEF Disconnect, StreamInv
<1>4. CASE Open
  <2>1. EngineInv' /\ SourceInv'
    BY <1>4 DEF Open, engine, replay, pubsub, StreamInv, EngineInv, SourceInv
  <2>2. emitted' = <<>> /\ Len(emitted') = 0 /\ emitted' \in Seq(Nat) /\ buffered' = {}
    BY <1>4, EmptySeq DEF Open, StreamInv, SourceInv
  <2>3. OrderInv'
    BY <1>4, <2>2 DEF Open, engine, StreamInv, EngineInv, OrderInv
  <2>. QED  BY <2>1, <2>3 DEF StreamInv
<1>5. CASE Replay \/ ReplayError
  <2>1. EngineInv' /\ OrderInv'
    BY <1>5 DEF Replay, ReplayError, engine, pubsub, order, StreamInv, EngineInv, OrderInv
  <2>2. replayNext' = from + 1 /\ from \in 0..committed /\ committed \in Nat
    BY <1>5 DEF Replay, ReplayError, StreamInv, EngineInv, SourceInv
  <2>3. replayedTo' \in 0..committed
    BY <1>5, <2>2, StreamAssumption DEF Replay, ReplayError
  <2>4. SourceInv'
    BY <1>5, <2>2, <2>3
       DEF Replay, ReplayError, engine, pubsub, order, StreamInv, EngineInv, SourceInv
  <2>. QED  BY <2>1, <2>4 DEF StreamInv
<1>6. CASE Subscribe
  <2>1. EngineInv' /\ SourceInv'
    BY <1>6 DEF Subscribe, engine, replay, order, StreamInv, EngineInv, SourceInv
  <2>2. OrderInv'
    BY <1>6 DEF Subscribe, engine, order, StreamInv, OrderInv
  <2>. QED  BY <2>1, <2>2 DEF StreamInv
<1>7. CASE MergeReplayed
  <2>1. /\ UNCHANGED <<committed, from, up, adopted, published, phase, replayedTo, liveNext>>
        /\ phase = "running" /\ replayNext' = replayNext + 1
        /\ replayNext <= replayedTo /\ Merge(replayNext)
    BY <1>7 DEF MergeReplayed, engine, pubsub
  <2>2. EngineInv' /\ SourceInv'
    BY <2>1 DEF StreamInv, EngineInv, SourceInv
  <2>3. replayNext \in Nat /\ replayNext <= committed
    BY <2>1 DEF StreamInv, EngineInv, SourceInv
  <2>. QED  BY <2>1, <2>2, <2>3, MergeInv DEF StreamInv
<1>8. CASE MergeLive
  <2>1. /\ UNCHANGED <<committed, from, up, adopted, published, phase, replayNext, replayedTo>>
        /\ phase = "running" /\ liveNext' = liveNext + 1
        /\ liveNext <= published /\ Merge(liveNext)
    BY <1>8 DEF MergeLive, engine, replay
  <2>2. EngineInv' /\ SourceInv'
    BY <2>1 DEF StreamInv, EngineInv, SourceInv
  <2>3. liveNext \in Nat /\ liveNext <= committed
    BY <2>1 DEF StreamInv, EngineInv, SourceInv
  <2>. QED  BY <2>1, <2>2, <2>3, MergeInv DEF StreamInv
<1>9. CASE UNCHANGED vars
  BY <1>9 DEF vars, engine, replay, pubsub, order, StreamInv, EngineInv, SourceInv, OrderInv
<1>. QED
  BY <1>1, <1>2, <1>3, <1>4, <1>5, <1>6, <1>7, <1>8, <1>9 DEF Next, StreamStep

\* However the replayed and the live events interleave, overlap or are lost, a
\* client is sent consecutive events of the log from where its stream begins.
THEOREM StreamIsOrdered == Spec => []SentInOrderWithoutGap
<1>1. Init => StreamInv
  BY InitInv
<1>2. StreamInv /\ [Next]_vars => StreamInv'
  BY NextInv
<1>3. StreamInv => SentInOrderWithoutGap
  <2>. SUFFICES ASSUME StreamInv, NEW i \in DOMAIN emitted
                PROVE  emitted[i] = from + i /\ emitted[i] <= committed
    BY DEF SentInOrderWithoutGap
  <2>1. i \in 1..Len(emitted) /\ Len(emitted) \in Nat
    BY LenProperties DEF StreamInv, OrderInv
  <2>. QED  BY <2>1 DEF StreamInv, EngineInv, SourceInv, OrderInv
<1>. QED  BY <1>1, <1>2, <1>3, PTL DEF Spec

-----------------------------------------------------------------------------
(* The client's copy of the state *)

\* The store of a client reflects the events up to its latest one, each once.
Reflects(c) == c.store = [n \in 1..MaxCommits |-> IF n <= c.latest THEN 1 ELSE 0]

\* What the client and the stream have come to is in the log.
LogInv ==
    /\ modelEnd <= logEnd /\ client.latest <= logEnd
    /\ opened <= logEnd /\ readTo <= logEnd /\ streamNext <= logEnd + 1

\* What waits to be applied came from the stream, in its order, and is at
\* most one event further than what is applied.
PendingInv ==
    /\ pending # <<>> => subscription \in {"read", "live"}
    /\ \A i \in DOMAIN pending :
          pending[i] <= client.latest + 1 /\ pending[i] < streamNext /\ pending[i] <= logEnd
    /\ \A i, j \in DOMAIN pending : i < j => pending[i] < pending[j]

\* A snapshot holds all that is applied while it is on its way, and a replay
\* starts no further than what is applied.
AnswerInv ==
    /\ client.inFlight = "replay" => client.replayStart <= client.latest
    /\ answer # NoAnswer => answer <= logEnd /\ client.inFlight # "none"
    /\ client.inFlight = "snapshot" /\ answer # NoAnswer =>
          client.latest <= answer /\ \A i \in DOMAIN pending : pending[i] <= answer
    /\ client.inFlight = "replay" /\ answer # NoAnswer => client.replayStart <= answer

\* A client that is not bootstrapped waits for a snapshot or has nothing, until
\* two requests in a row have failed.
WakeInv ==
    /\ client.inFlight = "replay" => client.bootstrapped
    /\ streak = 0 /\ ~client.bootstrapped => client.latest = 0 /\ pending = <<>>
    /\ streak = 1 /\ ~client.bootstrapped =>
          client.inFlight = "snapshot" \/ (client.latest = 0 /\ pending = <<>>)

ClientInv ==
    ClientTypeOK /\ Reflects(client) /\ LogInv /\ PendingInv /\ AnswerInv /\ WakeInv

-----------------------------------------------------------------------------
(* The recovery coordinator *)

LEMMA ClientBounds ==
    /\ ReplayLimit \in Nat \ {0} /\ MaxNoProgress \in Nat \ {0}
    /\ MaxCommits \in Nat /\ MaxDisconnects \in Nat /\ MaxFailures \in Nat
    /\ NoAnswer \notin Nat /\ Sequences \subseteq Nat
BY ClientAssumption DEF ClientAssumption, Sequences

LEMMA Counted ==
    ASSUME NEW n \in Nat, NEW m \in Nat, n < m
    PROVE  n + 1 \in 0..m /\ n + 1 \in Nat
OBVIOUS

LEMMA MaxIs ==
    ASSUME NEW S, S \subseteq Nat, NEW a \in S, \A b \in S : b <= a
    PROVE  Max(S) = a
<1>1. Max(S) \in S /\ \A b \in S : Max(S) >= b
  BY DEF Max
<1>2. Max(S) \in Nat /\ a \in Nat /\ Max(S) >= a /\ Max(S) <= a
  BY <1>1
<1>. QED  BY <1>2

LEMMA MinIs ==
    ASSUME NEW S, S \subseteq Nat, NEW a \in S, \A b \in S : a <= b
    PROVE  Min(S) = a
<1>1. Min(S) \in S /\ \A b \in S : Min(S) <= b
  BY DEF Min
<1>2. Min(S) \in Nat /\ a \in Nat /\ Min(S) <= a /\ a <= Min(S)
  BY <1>1
<1>. QED  BY <1>2

LEMMA TwoNumbers ==
    ASSUME NEW a \in Nat, NEW b \in Nat
    PROVE  /\ Max({a, b}) = IF a <= b THEN b ELSE a
           /\ Min({a, b}) = IF a <= b THEN a ELSE b
<1>1. CASE a <= b
  <2>1. Max({a, b}) = b
    BY <1>1, MaxIs
  <2>. QED  BY <1>1, <2>1, MinIs
<1>. QED  BY MaxIs, MinIs

LEMMA ThreeNumbers ==
    ASSUME NEW a \in Nat, NEW b \in Nat, NEW d \in Nat
    PROVE  Max({a, b, d}) \in {a, b, d}
<1>1. PICK m \in {a, b, d} : a <= m /\ b <= m /\ d <= m
  BY SMT
<1>2. Max({a, b, d}) = m
  BY <1>1, MaxIs
<1>. QED  BY <1>2

LEMMA Observed ==
    ASSUME NEW c \in Client, NEW n \in Sequences
    PROVE  /\ Observe(c, n) \in Client
           /\ Observe(c, n).latest = c.latest /\ Observe(c, n).store = c.store
           /\ Observe(c, n).bootstrapped = c.bootstrapped
           /\ Observe(c, n).pendingReplay = c.pendingReplay
           /\ Observe(c, n).inFlight = c.inFlight
           /\ Observe(c, n).replayStart = c.replayStart
<1>1. c.highest \in Nat /\ n \in Nat
  BY ClientBounds DEF Client, Sequences
<1>2. Max({c.highest, n}) \in Sequences
  BY <1>1, TwoNumbers DEF Client
<1>. QED  BY <1>2 DEF Observe, Client

LEMMA SnapshotRun ==
    ASSUME NEW c \in Client
    PROVE  /\ RunSnapshot(c) \in Client
           /\ RunSnapshot(c).latest = c.latest /\ RunSnapshot(c).store = c.store
           /\ RunSnapshot(c).highest = c.highest
           /\ RunSnapshot(c).bootstrapped = c.bootstrapped
           /\ RunSnapshot(c).replayStart = c.replayStart
           /\ RunSnapshot(c).inFlight = IF c.inFlight = "none" THEN "snapshot" ELSE c.inFlight
BY DEF RunSnapshot, Client

LEMMA ReplayRun ==
    ASSUME NEW c \in Client
    PROVE  /\ RunReplay(c) \in Client
           /\ RunReplay(c).latest = c.latest /\ RunReplay(c).store = c.store
           /\ RunReplay(c).highest = c.highest
           /\ RunReplay(c).bootstrapped = c.bootstrapped
           /\ IF c.bootstrapped /\ c.inFlight = "none"
              THEN RunReplay(c).inFlight = "replay" /\ RunReplay(c).replayStart = c.latest
              ELSE RunReplay(c).inFlight = c.inFlight
                   /\ RunReplay(c).replayStart = c.replayStart
BY DEF RunReplay, Client

\* A batch brings the store to the last of its events, when those that are new
\* follow what it reflects and each is there once.
Follows(evs, c, last) ==
    /\ evs \in Seq(1..MaxCommits)
    /\ last \in Nat /\ c.latest <= last /\ last <= MaxCommits
    /\ \A i \in DOMAIN evs : evs[i] <= last
    /\ \A n \in (c.latest + 1)..last : \E i \in DOMAIN evs : evs[i] = n
    /\ \A i, j \in DOMAIN evs : evs[i] = evs[j] => i = j

LEMMA BatchApplied ==
    ASSUME NEW c \in Client, Reflects(c), NEW evs, NEW last, Follows(evs, c, last)
    PROVE  /\ ApplyBatch(c, evs) \in Client /\ Reflects(ApplyBatch(c, evs))
           /\ ApplyBatch(c, evs).latest = last
           /\ ApplyBatch(c, evs).bootstrapped = c.bootstrapped
           /\ ApplyBatch(c, evs).pendingReplay = c.pendingReplay
           /\ ApplyBatch(c, evs).inFlight = c.inFlight
           /\ ApplyBatch(c, evs).replayStart = c.replayStart
<1>. DEFINE new == {i \in DOMAIN evs : evs[i] > c.latest}
            values == {evs[i] : i \in new}
            counts(n) == {i \in new : evs[i] = n}
<1>0. /\ evs \in Seq(1..MaxCommits)
      /\ last \in Nat /\ c.latest <= last /\ last <= MaxCommits
      /\ \A i \in DOMAIN evs : evs[i] <= last
      /\ \A n \in (c.latest + 1)..last : \E i \in DOMAIN evs : evs[i] = n
      /\ \A i, j \in DOMAIN evs : evs[i] = evs[j] => i = j
  BY DEF Follows
<1>1. c.latest \in Nat /\ c.highest \in Nat /\ c.latest \in Sequences /\ c.highest \in Sequences
  BY <1>0, ClientBounds DEF Client, Sequences
<1>2. \A i \in DOMAIN evs : evs[i] \in Nat /\ evs[i] \in 1..MaxCommits
  BY <1>0, ClientBounds
<1>3. CASE new = {}
  <2>1. c.latest = last
    <3>1. ASSUME c.latest < last PROVE FALSE
      <4>1. last \in (c.latest + 1)..last
        BY <1>0, <1>1, <3>1
      <4>2. PICK i \in DOMAIN evs : evs[i] = last
        BY <1>0, <4>1
      <4>. QED  BY <1>0, <1>1, <1>3, <3>1, <4>2
    <3>. QED  BY <1>0, <1>1, <3>1
  <2>. QED  BY <1>0, <1>3, <2>1 DEF ApplyBatch
<1>4. CASE new # {}
  <2>1. c.latest < last
    <3>1. PICK i \in new : TRUE
      BY <1>0, <1>4
    <3>. QED  BY <1>0, <1>1, <1>2, <3>1
  <2>2. last \in (c.latest + 1)..last
    BY <1>0, <1>1, <2>1
  <2>3. last \in values
    <3>1. PICK i \in DOMAIN evs : evs[i] = last
      BY <1>0, <2>2
    <3>2. i \in new
      BY <1>0, <1>1, <2>1, <3>1
    <3>. QED  BY <1>0, <3>1, <3>2
  <2>4. values \subseteq Nat /\ \A b \in values : b <= last
    BY <1>0, <1>2
  <2>5. Max(values) = last
    <3>. HIDE DEF values
    <3>. QED  BY <1>0, <2>3, <2>4, MaxIs
  <2>6. ASSUME NEW n \in 1..MaxCommits
        PROVE  Cardinality(counts(n)) = IF n > c.latest /\ n <= last THEN 1 ELSE 0
    <3>1. CASE n > c.latest /\ n <= last
      <4>1. n \in (c.latest + 1)..last
        BY <1>0, <1>1, <3>1
      <4>2. PICK i \in DOMAIN evs : evs[i] = n
        BY <1>0, <4>1
      <4>3. counts(n) = {i}
        BY <1>0, <3>1, <4>2
      <4>. QED  BY <1>0, <3>1, <4>3, FS_Singleton
    <3>2. CASE ~(n > c.latest /\ n <= last)
      <4>1. counts(n) = {}
        BY <1>0, <1>1, <1>2, <3>2
      <4>. QED  BY <1>0, <3>2, <4>1, FS_EmptySet
    <3>. QED  BY <1>0, <3>1, <3>2
  <2>7. Max({c.highest, last}) \in Sequences
    <3>1. last \in Sequences
      BY <1>0 DEF Sequences
    <3>. QED  BY <1>0, <1>1, <3>1, TwoNumbers
  <2>. DEFINE grown == [n \in 1..MaxCommits |-> c.store[n] + Cardinality(counts(n))]
  <2>8. grown = [n \in 1..MaxCommits |-> IF n <= last THEN 1 ELSE 0]
    <3>1. ASSUME NEW n \in 1..MaxCommits
          PROVE  c.store[n] + Cardinality(counts(n)) = IF n <= last THEN 1 ELSE 0
      <4>1. c.store[n] = IF n <= c.latest THEN 1 ELSE 0
        BY DEF Reflects
      <4>2. Cardinality(counts(n)) = IF n > c.latest /\ n <= last THEN 1 ELSE 0
        BY <1>0, <2>6
      <4>. HIDE DEF counts
      <4>. QED  BY <1>0, <1>1, <2>1, <4>1, <4>2
    <3>. HIDE DEF counts
    <3>. QED  BY <1>0, <3>1
  <2>9. ApplyBatch(c, evs) = [c EXCEPT !.latest = last, !.highest = Max({@, last}), !.store = grown]
    <3>1. Max({evs[i] : i \in {i \in DOMAIN evs : evs[i] > c.latest}}) = last
      BY <1>0, <2>5
    <3>2. ApplyBatch(c, evs) = [c EXCEPT !.latest = Max({evs[i] : i \in new}),
                       !.highest = Max({@, Max({evs[i] : i \in new})}),
                       !.store = [n \in 1..MaxCommits |-> @[n] + Cardinality(counts(n))]]
      BY <1>0, <1>4 DEF ApplyBatch
    <3>. QED  BY <1>0, <3>1, <3>2
  <2>10. grown \in [1..MaxCommits -> 0..2] /\ last \in Sequences
    <3>. HIDE DEF grown
    <3>1. ASSUME NEW n \in 1..MaxCommits PROVE (IF n <= last THEN 1 ELSE 0) \in 0..2
      BY <1>0
    <3>. QED  BY <1>0, <2>8, <3>1 DEF Sequences
  <2>11. ApplyBatch(c, evs) \in Client
    <3>. HIDE DEF grown, new, values, counts
    <3>. QED  BY ZenonT(40), <1>0, <2>7, <2>9, <2>10 DEF Client
  <2>12. /\ ApplyBatch(c, evs).latest = last /\ ApplyBatch(c, evs).store = grown
         /\ ApplyBatch(c, evs).bootstrapped = c.bootstrapped
         /\ ApplyBatch(c, evs).pendingReplay = c.pendingReplay
         /\ ApplyBatch(c, evs).inFlight = c.inFlight
         /\ ApplyBatch(c, evs).replayStart = c.replayStart
    <3>. HIDE DEF grown, new, values, counts
    <3>. QED  BY <1>0, <2>9 DEF Client
  <2>13. Reflects(ApplyBatch(c, evs))
    <3>. HIDE DEF grown, new, values, counts
    <3>. QED  BY <1>0, <2>8, <2>12 DEF Reflects
  <2>. QED  BY <1>0, <2>11, <2>12, <2>13
<1>. QED  BY <1>0, <1>3, <1>4

-----------------------------------------------------------------------------
(* The server and the connection *)

LEMMA CommitInv ==
    ASSUME ClientInv, Commit
    PROVE  ClientInv'
<1>. USE DEF ClientInv, server, link, stream, retrying, bounds
<1>1. ClientTypeOK'
  BY ClientBounds DEF ClientTypeOK, Sequences, Commit
<1>2. Reflects(client)'
  BY DEF Reflects, Commit
<1>3. LogInv'
  <2>1. logEnd \in Nat /\ modelEnd \in Nat /\ client.latest \in Nat /\ streamNext \in Nat
    <3>1. client.latest \in Sequences
      BY DEF ClientTypeOK, Client
    <3>2. streamNext \in 1..(MaxCommits + 1) /\ logEnd \in Sequences /\ modelEnd \in Sequences
      BY DEF ClientTypeOK
    <3>3. logEnd \in Nat /\ modelEnd \in Nat /\ client.latest \in Nat
      BY <3>1, <3>2, ClientBounds
    <3>4. streamNext \in Nat
      BY <3>2, ClientBounds
    <3>. QED  BY <3>3, <3>4
  <2>2. opened \in Nat /\ readTo \in Nat
    BY ClientBounds DEF ClientTypeOK
  <2>. QED  BY <2>1, <2>2 DEF LogInv, Commit
<1>4. PendingInv'
  <2>1. logEnd \in Nat
    BY ClientBounds DEF ClientTypeOK
  <2>2. pending \in Seq(1..MaxCommits)
    BY DEF ClientTypeOK
  <2>3. \A i \in DOMAIN pending : pending[i] \in Nat
    BY <2>2, ClientBounds
  <2>. QED  BY <2>1, <2>3 DEF PendingInv, Commit
<1>5. AnswerInv'
  BY SMTT(30), ClientBounds DEF AnswerInv, LogInv, PendingInv, ClientTypeOK, Client, Sequences, Commit
<1>6. WakeInv'
  BY ClientBounds DEF WakeInv, PendingInv, AnswerInv, ClientTypeOK, Client, Commit
<1>. QED  BY <1>1, <1>2, <1>3, <1>4, <1>5, <1>6

LEMMA AdoptInv ==
    ASSUME ClientInv, Adopt
    PROVE  ClientInv'
<1>. USE DEF ClientInv, server, link, stream, retrying, bounds
<1>1. ClientTypeOK'
  BY ClientBounds DEF ClientTypeOK, Sequences, Adopt
<1>2. Reflects(client)'
  BY DEF Reflects, Adopt
<1>3. LogInv'
  BY ClientBounds DEF LogInv, ClientTypeOK, Sequences, Adopt
<1>4. PendingInv'
  BY ClientBounds DEF PendingInv, ClientTypeOK, Client, Sequences, Adopt
<1>5. AnswerInv'
  BY ClientBounds DEF AnswerInv, LogInv, PendingInv, ClientTypeOK, Client, Sequences, Adopt
<1>6. WakeInv'
  BY ClientBounds DEF WakeInv, PendingInv, AnswerInv, ClientTypeOK, Client, Adopt
<1>. QED  BY <1>1, <1>2, <1>3, <1>4, <1>5, <1>6

LEMMA ServeInv ==
    ASSUME ClientInv, Serve
    PROVE  ClientInv'
<1>. USE DEF ClientInv, server, link, stream, retrying, bounds
<1>0. /\ logEnd \in Nat /\ logEnd \in Sequences /\ client \in Client /\ client.latest \in Nat
      /\ client.replayStart \in Nat /\ client.replayStart \in Sequences
  BY ClientBounds DEF ClientTypeOK, Client, Sequences
<1>7. /\ answer = NoAnswer /\ client.inFlight \in {"snapshot", "replay"}
      /\ UNCHANGED <<server, link, client, pending, retrying, bounds>>
      /\ client.inFlight = "snapshot" => answer' = logEnd
      /\ client.inFlight = "replay" => client.replayStart <= answer'
      /\ answer' \in Sequences /\ answer' <= logEnd
  <2>1. CASE client.inFlight = "snapshot"
    BY <1>0, <2>1 DEF Serve
  <2>2. CASE client.inFlight = "replay"
    <3>1. client.replayStart <= client.latest /\ client.latest <= logEnd
      BY <2>2 DEF AnswerInv, LogInv
    <3>. DEFINE limit == client.replayStart + ReplayLimit
    <3>2. limit \in Nat /\ client.replayStart <= limit
      BY <1>0, ClientBounds 
    <3>3. answer' = Min({limit, logEnd})
      BY <2>2 DEF Serve
    <3>4. answer' = IF limit <= logEnd THEN limit ELSE logEnd
      <4>. HIDE DEF limit
      <4>. QED  BY <1>0, <3>2, <3>3, TwoNumbers
    <3>. HIDE DEF limit
    <3>5. client.replayStart <= answer' /\ answer' <= logEnd /\ answer' \in Nat
      BY <1>0, <3>1, <3>2, <3>4
    <3>. QED  BY <1>0, <2>2, <3>5, ClientBounds DEF Serve, Sequences
  <2>3. client.inFlight \in {"snapshot", "replay"}
    BY <1>0 DEF Serve, Client
  <2>. QED  BY <2>1, <2>2, <2>3 DEF Serve
<1>1. ClientTypeOK'
  BY <1>7 DEF ClientTypeOK
<1>2. Reflects(client)'
  BY DEF Reflects, Serve
<1>3. LogInv'
  BY ClientBounds DEF LogInv, ClientTypeOK, Sequences, Serve
<1>4. PendingInv'
  BY ClientBounds DEF PendingInv, ClientTypeOK, Client, Sequences, Serve
<1>5. AnswerInv'
  BY <1>0, <1>7 DEF AnswerInv, LogInv, PendingInv
<1>6. WakeInv'
  BY ClientBounds DEF WakeInv, PendingInv, AnswerInv, ClientTypeOK, Client, Serve
<1>. QED  BY <1>1, <1>2, <1>3, <1>4, <1>5, <1>6

LEMMA ConnectInv ==
    ASSUME ClientInv, Connect
    PROVE  ClientInv'
<1>. USE DEF ClientInv, server, link, stream, retrying, bounds
<1>1. ClientTypeOK'
  BY ClientBounds DEF ClientTypeOK, Sequences, Connect
<1>2. Reflects(client)'
  BY DEF Reflects, Connect
<1>3. LogInv'
  BY ClientBounds DEF LogInv, ClientTypeOK, Sequences, Connect
<1>4. PendingInv'
  BY ClientBounds DEF PendingInv, ClientTypeOK, Client, Sequences, Connect
<1>5. AnswerInv'
  BY ClientBounds DEF AnswerInv, LogInv, PendingInv, ClientTypeOK, Client, Sequences, Connect
<1>6. WakeInv'
  BY ClientBounds DEF WakeInv, PendingInv, AnswerInv, ClientTypeOK, Client, Connect
<1>. QED  BY <1>1, <1>2, <1>3, <1>4, <1>5, <1>6

LEMMA LoseConnectionInv ==
    ASSUME ClientInv, LoseConnection
    PROVE  ClientInv'
<1>. USE DEF ClientInv, server, link, stream, retrying, bounds
<1>1. ClientTypeOK'
  <2>1. disconnects' \in 0..MaxDisconnects
    BY ClientBounds, Counted DEF ClientTypeOK, LoseConnection
  <2>. QED  BY <2>1 DEF ClientTypeOK, LoseConnection
<1>2. Reflects(client)'
  BY DEF Reflects, LoseConnection
<1>3. LogInv'
  BY ClientBounds DEF LogInv, ClientTypeOK, Sequences, LoseConnection
<1>4. PendingInv'
  BY ClientBounds DEF PendingInv, ClientTypeOK, Client, Sequences, LoseConnection
<1>5. AnswerInv'
  BY ClientBounds DEF AnswerInv, LogInv, PendingInv, ClientTypeOK, Client, Sequences, LoseConnection
<1>6. WakeInv'
  BY ClientBounds DEF WakeInv, PendingInv, AnswerInv, ClientTypeOK, Client, LoseConnection
<1>. QED  BY <1>1, <1>2, <1>3, <1>4, <1>5, <1>6

LEMMA OpenStreamInv ==
    ASSUME ClientInv, OpenStream
    PROVE  ClientInv'
<1>. USE DEF ClientInv, server, link, stream, retrying, bounds
<1>1. ClientTypeOK'
  BY SMTT(30), ClientBounds DEF ClientTypeOK, Sequences, OpenStream
<1>2. Reflects(client)'
  BY DEF Reflects, OpenStream
<1>3. LogInv'
  BY ClientBounds DEF LogInv, ClientTypeOK, Sequences, OpenStream
<1>4. PendingInv'
  BY ClientBounds DEF PendingInv, ClientTypeOK, Client, Sequences, OpenStream
<1>5. AnswerInv'
  BY ClientBounds DEF AnswerInv, LogInv, PendingInv, ClientTypeOK, Client, Sequences, OpenStream
<1>6. WakeInv'
  BY ClientBounds DEF WakeInv, PendingInv, AnswerInv, ClientTypeOK, Client, OpenStream
<1>. QED  BY <1>1, <1>2, <1>3, <1>4, <1>5, <1>6

LEMMA ReadLogInv ==
    ASSUME ClientInv, ReadLog
    PROVE  ClientInv'
<1>. USE DEF ClientInv, server, link, stream, retrying, bounds
<1>7. readTo' \in Sequences /\ readTo' <= logEnd
  <2>1. opened \in Nat /\ logEnd \in Nat /\ opened <= logEnd /\ opened \in Sequences /\ logEnd \in Sequences
    BY ClientBounds DEF ClientTypeOK, LogInv
  <2>. DEFINE limit == opened + ReplayLimit
  <2>2. readTo' \in {opened, Min({limit, logEnd})}
    BY DEF ReadLog
  <2>3. limit \in Nat /\ opened <= limit
    BY <2>1, ClientBounds
  <2>. HIDE DEF limit
  <2>4. Min({limit, logEnd}) = IF limit <= logEnd THEN limit ELSE logEnd
    BY <2>1, <2>3, TwoNumbers
  <2>. QED  BY <2>1, <2>2, <2>3, <2>4, ClientBounds DEF Sequences
<1>1. ClientTypeOK'
  BY <1>7, ClientBounds DEF ClientTypeOK, ReadLog
<1>2. Reflects(client)'
  BY DEF Reflects, ReadLog
<1>3. LogInv'
  BY <1>7, ClientBounds DEF LogInv, ReadLog
<1>4. PendingInv'
  BY ClientBounds DEF PendingInv, ClientTypeOK, Client, Sequences, ReadLog
<1>5. AnswerInv'
  BY ClientBounds DEF AnswerInv, LogInv, PendingInv, ClientTypeOK, Client, Sequences, ReadLog
<1>6. WakeInv'
  BY ClientBounds DEF WakeInv, PendingInv, AnswerInv, ClientTypeOK, Client, ReadLog
<1>. QED  BY <1>1, <1>2, <1>3, <1>4, <1>5, <1>6

LEMMA SubscribeLiveInv ==
    ASSUME ClientInv, SubscribeLive
    PROVE  ClientInv'
<1>. USE DEF ClientInv, server, link, stream, retrying, bounds
<1>1. ClientTypeOK'
  BY ClientBounds DEF ClientTypeOK, Sequences, SubscribeLive
<1>2. Reflects(client)'
  BY DEF Reflects, SubscribeLive
<1>3. LogInv'
  BY ClientBounds DEF LogInv, ClientTypeOK, Sequences, SubscribeLive
<1>4. PendingInv'
  BY ClientBounds DEF PendingInv, ClientTypeOK, Client, Sequences, SubscribeLive
<1>5. AnswerInv'
  BY ClientBounds DEF AnswerInv, LogInv, PendingInv, ClientTypeOK, Client, Sequences, SubscribeLive
<1>6. WakeInv'
  BY ClientBounds DEF WakeInv, PendingInv, AnswerInv, ClientTypeOK, Client, SubscribeLive
<1>. QED  BY <1>1, <1>2, <1>3, <1>4, <1>5, <1>6

LEMMA StartStreamInv ==
    ASSUME ClientInv, StartStream
    PROVE  ClientInv'
<1>. USE DEF ClientInv, server, link, stream, retrying, bounds
<1>0. client' \in Client /\ client \in Client /\ client.latest \in Nat
      /\ client'.latest = client.latest /\ client'.store = client.store
      /\ client'.bootstrapped = client.bootstrapped
      /\ \/ client'.inFlight = client.inFlight /\ client'.replayStart = client.replayStart
         \/ client.inFlight = "none" /\ client'.inFlight = "snapshot"
         \/ /\ client.inFlight = "none" /\ client'.inFlight = "replay"
            /\ client'.replayStart = client.latest /\ client.bootstrapped
  <2>1. client \in Client /\ client.latest \in Nat
    BY ClientBounds DEF ClientTypeOK, Client, Sequences
  <2>. QED  BY <2>1, ReplayRun, SnapshotRun DEF StartStream
<1>7. pending' = pending /\ answer' = answer /\ failures' = failures
      /\ UNCHANGED <<server, disconnects, streak, stream>>
  BY DEF StartStream
<1>1. ClientTypeOK'
  BY <1>0, <1>7 DEF ClientTypeOK, StartStream
<1>2. Reflects(client)'
  BY <1>0, <1>7 DEF Reflects
<1>3. LogInv'
  BY <1>0, <1>7 DEF LogInv
<1>4. PendingInv'
  BY <1>0, <1>7 DEF PendingInv, StartStream
<1>5. AnswerInv'
  BY <1>0, <1>7 DEF AnswerInv
<1>6. WakeInv'
  BY <1>0, <1>7 DEF WakeInv, AnswerInv
<1>. QED  BY <1>1, <1>2, <1>3, <1>4, <1>5, <1>6

LEMMA WelcomeInv ==
    ASSUME ClientInv, Welcome
    PROVE  ClientInv'
<1>. USE DEF ClientInv, server, link, stream, retrying, bounds
<1>0. client' \in Client /\ client \in Client /\ client.latest \in Nat
      /\ client'.latest = client.latest /\ client'.store = client.store
      /\ client'.bootstrapped = client.bootstrapped
      /\ \/ client'.inFlight = client.inFlight /\ client'.replayStart = client.replayStart
         \/ client.inFlight = "none" /\ client'.inFlight = "snapshot"
         \/ /\ client.inFlight = "none" /\ client'.inFlight = "replay"
            /\ client'.replayStart = client.latest /\ client.bootstrapped
  <2>1. client \in Client /\ client.latest \in Nat
    BY ClientBounds DEF ClientTypeOK, Client, Sequences
  <2>. QED  BY <2>1, ReplayRun, SnapshotRun DEF Welcome
<1>7. pending' = pending /\ answer' = answer /\ failures' = failures
      /\ UNCHANGED <<server, disconnects, streak, stream>>
  BY DEF Welcome
<1>1. ClientTypeOK'
  BY <1>0, <1>7 DEF ClientTypeOK, Welcome
<1>2. Reflects(client)'
  BY <1>0, <1>7 DEF Reflects
<1>3. LogInv'
  BY <1>0, <1>7 DEF LogInv
<1>4. PendingInv'
  BY <1>0, <1>7 DEF PendingInv, Welcome
<1>5. AnswerInv'
  BY <1>0, <1>7 DEF AnswerInv
<1>6. WakeInv'
  BY <1>0, <1>7 DEF WakeInv, AnswerInv
<1>. QED  BY <1>1, <1>2, <1>3, <1>4, <1>5, <1>6

LEMMA RetryReplayInv ==
    ASSUME ClientInv, RetryReplay
    PROVE  ClientInv'
<1>. USE DEF ClientInv, server, link, stream, retrying, bounds
<1>0. client' \in Client /\ client \in Client /\ client.latest \in Nat
      /\ client'.latest = client.latest /\ client'.store = client.store
      /\ client'.bootstrapped = client.bootstrapped
      /\ \/ client'.inFlight = client.inFlight /\ client'.replayStart = client.replayStart
         \/ client.inFlight = "none" /\ client'.inFlight = "snapshot"
         \/ /\ client.inFlight = "none" /\ client'.inFlight = "replay"
            /\ client'.replayStart = client.latest /\ client.bootstrapped
  <2>1. client \in Client /\ client.latest \in Nat
    BY ClientBounds DEF ClientTypeOK, Client, Sequences
  <2>. QED  BY <2>1, ReplayRun, SnapshotRun DEF RetryReplay
<1>7. pending' = pending /\ answer' = answer /\ failures' = failures
      /\ UNCHANGED <<server, disconnects, streak, stream>>
  BY DEF RetryReplay
<1>1. ClientTypeOK'
  BY <1>0, <1>7 DEF ClientTypeOK, RetryReplay
<1>2. Reflects(client)'
  BY <1>0, <1>7 DEF Reflects
<1>3. LogInv'
  BY <1>0, <1>7 DEF LogInv
<1>4. PendingInv'
  BY <1>0, <1>7 DEF PendingInv, RetryReplay
<1>5. AnswerInv'
  BY <1>0, <1>7 DEF AnswerInv
<1>6. WakeInv'
  BY <1>0, <1>7 DEF WakeInv, AnswerInv
<1>. QED  BY <1>1, <1>2, <1>3, <1>4, <1>5, <1>6

-----------------------------------------------------------------------------
(* The event loop of the client *)

\* Applying what waits changes nothing but the store and how far it reaches.
LEMMA PendingApplied ==
    ASSUME ClientInv,
           NEW c \in Client, c.latest = client.latest, c.store = client.store
    PROVE  LET a == ApplyBatch(c, pending)
           IN  /\ a \in Client /\ Reflects(a)
               /\ a.latest \in Nat /\ c.latest <= a.latest /\ a.latest <= logEnd
               /\ a.latest # c.latest => \E i \in DOMAIN pending : a.latest = pending[i]
               /\ \A i \in DOMAIN pending : pending[i] <= a.latest
               /\ a.bootstrapped = c.bootstrapped /\ a.pendingReplay = c.pendingReplay
               /\ a.inFlight = c.inFlight /\ a.replayStart = c.replayStart
<1>. DEFINE a == ApplyBatch(c, pending)
<1>0. /\ c.latest \in Nat /\ c.latest <= logEnd /\ logEnd \in Nat /\ logEnd <= MaxCommits
      /\ Reflects(c) /\ c.latest <= MaxCommits /\ pending \in Seq(1..MaxCommits)
      /\ MaxCommits \in Nat
  BY ClientBounds DEF ClientInv, ClientTypeOK, LogInv, Client, Sequences, Reflects
<1>1. \A i \in DOMAIN pending : pending[i] \in Nat /\ pending[i] <= c.latest + 1 /\ pending[i] <= logEnd
  BY <1>0 DEF ClientInv, PendingInv
<1>2. \A i, j \in DOMAIN pending : pending[i] = pending[j] => i = j
  <2>1. \A i, j \in DOMAIN pending : i < j => pending[i] < pending[j]
    BY DEF ClientInv, PendingInv
  <2>2. \A i \in DOMAIN pending : i \in Nat
    BY <1>0
  <2>. QED  BY <1>1, <2>1, <2>2
<1>3. CASE \E i \in DOMAIN pending : pending[i] = c.latest + 1
  <2>. DEFINE last == c.latest + 1
  <2>1. PICK k \in DOMAIN pending : pending[k] = last
    BY <1>3
  <2>2. last \in Nat /\ c.latest <= last /\ last <= logEnd /\ last <= MaxCommits
    BY <1>0, <1>1, <2>1
  <2>3. \A n \in (c.latest + 1)..last : \E i \in DOMAIN pending : pending[i] = n
    BY <1>0, <2>1
  <2>4. \A i \in DOMAIN pending : pending[i] <= last
    BY <1>1
  <2>f. Follows(pending, c, last)
    BY <1>0, <1>2, <2>2, <2>3, <2>4 DEF Follows
  <2>. HIDE DEF last
  <2>5. /\ a \in Client /\ Reflects(a) /\ a.latest = last
        /\ a.bootstrapped = c.bootstrapped /\ a.pendingReplay = c.pendingReplay
        /\ a.inFlight = c.inFlight /\ a.replayStart = c.replayStart
    BY <1>0, <2>f, BatchApplied
  <2>. QED  BY <2>1, <2>2, <2>4, <2>5
<1>4. CASE \A i \in DOMAIN pending : pending[i] # c.latest + 1
  <2>1. \A i \in DOMAIN pending : pending[i] <= c.latest
    BY <1>0, <1>1, <1>4
  <2>2. \A n \in (c.latest + 1)..c.latest : \E i \in DOMAIN pending : pending[i] = n
    BY <1>0
  <2>3. c.latest <= c.latest
    BY <1>0
  <2>. DEFINE last == c.latest
  <2>f. Follows(pending, c, last)
    BY <1>0, <1>2, <2>1, <2>2, <2>3 DEF Follows
  <2>4. last = c.latest
    OBVIOUS
  <2>. HIDE DEF last
  <2>5. /\ a \in Client /\ Reflects(a) /\ a.latest = last
        /\ a.bootstrapped = c.bootstrapped /\ a.pendingReplay = c.pendingReplay
        /\ a.inFlight = c.inFlight /\ a.replayStart = c.replayStart
    BY <1>0, <2>f, BatchApplied
  <2>. QED  BY <1>0, <2>1, <2>3, <2>4, <2>5
<1>. QED  BY <1>3, <1>4

LEMMA FlushInv ==
    ASSUME ClientInv, Flush
    PROVE  ClientInv'
<1>. USE DEF ClientInv, server, link, stream, retrying, bounds
<1>0. /\ logEnd \in Nat /\ logEnd \in Sequences /\ client \in Client /\ client.latest \in Nat
      /\ client.replayStart \in Nat /\ client.replayStart \in Sequences
  BY ClientBounds DEF ClientTypeOK, Client, Sequences
<1>7. /\ client' \in Client /\ Reflects(client')
      /\ client'.latest \in Nat /\ client.latest <= client'.latest /\ client'.latest <= logEnd
      /\ client'.latest # client.latest => \E i \in DOMAIN pending : client'.latest = pending[i]
      /\ client'.bootstrapped = client.bootstrapped /\ client'.inFlight = client.inFlight
      /\ client'.replayStart = client.replayStart
  BY <1>0, PendingApplied DEF Flush
<1>8. /\ pending # <<>> /\ pending' = <<>> /\ DOMAIN pending' = {} /\ answer' = answer
      /\ UNCHANGED <<server, link, retrying, bounds>>
  BY DEF Flush
<1>1. ClientTypeOK'
  BY <1>7, <1>8 DEF ClientTypeOK
<1>2. Reflects(client)'
  BY <1>7 DEF Reflects
<1>3. LogInv'
  BY <1>7, <1>8 DEF LogInv
<1>4. PendingInv'
  BY <1>8 DEF PendingInv
<1>5. AnswerInv'
  <2>1. answer # NoAnswer => answer \in Nat
    BY DEF ClientTypeOK, Sequences
  <2>. QED  BY <1>0, <1>7, <1>8, <2>1 DEF AnswerInv
<1>6. WakeInv'
  BY <1>7, <1>8 DEF WakeInv
<1>. QED  BY <1>1, <1>2, <1>3, <1>4, <1>5, <1>6

\* What the stream emits is in the log.
LEMMA Delivered ==
    ASSUME ClientInv, Deliver
    PROVE  /\ client \in Client /\ streamNext \in 1..MaxCommits /\ streamNext \in Nat
           /\ streamNext \in Sequences
           /\ streamNext <= logEnd /\ logEnd \in Nat /\ client.latest \in Nat
           /\ subscription \in {"read", "live"} /\ streamNext' = streamNext + 1 /\ received' = TRUE
           /\ UNCHANGED <<server, connected, welcome, subscription, opened, readTo, liveFrom, answer,
                          retrying, bounds>>
<1>1. /\ {logEnd, modelEnd, readTo, liveFrom} \subseteq Nat /\ logEnd <= MaxCommits
      /\ client \in Client /\ client.latest \in Nat /\ streamNext \in Nat /\ streamNext # 0
      /\ MaxCommits \in Nat
  BY SMTT(30), ClientBounds DEF ClientInv, ClientTypeOK, Client, Sequences
<1>2. streamNext <= logEnd
  BY <1>1 DEF Deliver, Emits, ClientInv, LogInv
<1>3. streamNext \in 1..MaxCommits /\ streamNext \in Sequences
  BY <1>1, <1>2 DEF Sequences
<1>. QED  BY <1>1, <1>2, <1>3 DEF Deliver

LEMMA DeferInv ==
    ASSUME ClientInv, Deliver, IgnoreOrDefer(streamNext)
    PROVE  ClientInv'
<1>. USE DEF ClientInv, server, link, stream, retrying, bounds
<1>0. /\ client \in Client /\ streamNext \in 1..MaxCommits /\ streamNext \in Nat /\ streamNext \in Sequences
      /\ streamNext <= logEnd /\ logEnd \in Nat /\ client.latest \in Nat
      /\ subscription \in {"read", "live"} /\ streamNext' = streamNext + 1 /\ received' = TRUE
      /\ UNCHANGED <<server, connected, welcome, subscription, opened, readTo, liveFrom, answer,
                     retrying, bounds>>
  BY Delivered
<1>7. /\ Observe(client, streamNext) \in Client
      /\ Observe(client, streamNext).latest = client.latest
      /\ Observe(client, streamNext).store = client.store
      /\ Observe(client, streamNext).bootstrapped = client.bootstrapped
      /\ Observe(client, streamNext).pendingReplay = client.pendingReplay
      /\ Observe(client, streamNext).inFlight = client.inFlight
      /\ Observe(client, streamNext).replayStart = client.replayStart
  BY <1>0, Observed
<1>8. /\ client' \in Client /\ pending' = pending
      /\ client'.latest = client.latest /\ client'.store = client.store
      /\ client'.bootstrapped = client.bootstrapped /\ client'.inFlight = client.inFlight
      /\ client'.replayStart = client.replayStart
  <2>. DEFINE o == Observe(client, streamNext)
  <2>1. client' = [o EXCEPT !.pendingReplay = @ \/ streamNext > client.latest]
    BY DEF IgnoreOrDefer
  <2>2. (o.pendingReplay \/ streamNext > client.latest) \in BOOLEAN
    OBVIOUS
  <2>3. /\ o \in Client /\ o.latest = client.latest /\ o.store = client.store
        /\ o.bootstrapped = client.bootstrapped /\ o.inFlight = client.inFlight
        /\ o.replayStart = client.replayStart
    BY <1>7
  <2>. HIDE DEF o
  <2>. QED  BY <2>1, <2>2, <2>3 DEF Client, IgnoreOrDefer
<1>1. ClientTypeOK'
  BY <1>0, <1>8, ClientBounds DEF ClientTypeOK, Sequences
<1>2. Reflects(client)'
  BY <1>8 DEF Reflects
<1>3. LogInv'
  BY <1>0, <1>8 DEF LogInv
<1>4. PendingInv'
  <2>1. \A i \in DOMAIN pending : pending[i] \in Nat
    BY ClientBounds DEF ClientTypeOK
  <2>. QED  BY <1>0, <1>8, <2>1 DEF PendingInv
<1>5. AnswerInv'
  BY <1>0, <1>8 DEF AnswerInv
<1>6. WakeInv'
  BY <1>0, <1>8 DEF WakeInv
<1>. QED  BY <1>1, <1>2, <1>3, <1>4, <1>5, <1>6

LEMMA ApplyInv ==
    ASSUME ClientInv, Deliver, ApplyLater(streamNext)
    PROVE  ClientInv'
<1>. USE DEF ClientInv, server, link, stream, retrying, bounds
<1>0. /\ client \in Client /\ streamNext \in 1..MaxCommits /\ streamNext \in Nat /\ streamNext \in Sequences
      /\ streamNext <= logEnd /\ logEnd \in Nat /\ client.latest \in Nat
      /\ subscription \in {"read", "live"} /\ streamNext' = streamNext + 1 /\ received' = TRUE
      /\ UNCHANGED <<server, connected, welcome, subscription, opened, readTo, liveFrom, answer,
                     retrying, bounds>>
  BY Delivered
<1>7. /\ Observe(client, streamNext) \in Client
      /\ Observe(client, streamNext).latest = client.latest
      /\ Observe(client, streamNext).store = client.store
      /\ Observe(client, streamNext).bootstrapped = client.bootstrapped
      /\ Observe(client, streamNext).pendingReplay = client.pendingReplay
      /\ Observe(client, streamNext).inFlight = client.inFlight
      /\ Observe(client, streamNext).replayStart = client.replayStart
  BY <1>0, Observed
<1>8. /\ client' \in Client /\ streamNext = client.latest + 1
      /\ client.inFlight = "none" /\ client.bootstrapped
      /\ client'.latest = client.latest /\ client'.store = client.store
      /\ client'.bootstrapped = client.bootstrapped /\ client'.inFlight = client.inFlight
      /\ client'.replayStart = client.replayStart
  BY <1>7 DEF ApplyLater
<1>9. /\ pending' \in Seq(1..MaxCommits) /\ Len(pending) \in Nat
      /\ DOMAIN pending = 1..Len(pending) /\ DOMAIN pending' = 1..(Len(pending) + 1)
      /\ \A i \in 1..Len(pending) : pending'[i] = pending[i] /\ pending[i] \in Nat
      /\ pending'[Len(pending) + 1] = streamNext
  <2>1. pending \in Seq(1..MaxCommits) /\ pending' = Append(pending, streamNext)
    BY DEF ClientTypeOK, ApplyLater
  <2>2. Append(pending, streamNext) \in Seq(1..MaxCommits) /\ Len(pending) \in Nat
    BY <1>0, <2>1
  <2>3. /\ Len(Append(pending, streamNext)) = Len(pending) + 1
        /\ \A i \in 1..Len(pending) : Append(pending, streamNext)[i] = pending[i]
        /\ Append(pending, streamNext)[Len(pending) + 1] = streamNext
    BY <1>0, <2>1, AppendProperties
  <2>4. \A i \in 1..Len(pending) : pending[i] \in Nat
    BY <2>1, ClientBounds
  <2>5. DOMAIN pending = 1..Len(pending) /\ DOMAIN Append(pending, streamNext) = 1..(Len(pending) + 1)
    BY <2>1, <2>2, <2>3
  <2>. QED  BY <2>1, <2>2, <2>3, <2>4, <2>5
<1>1. ClientTypeOK'
  <2>1. streamNext' \in 1..(MaxCommits + 1)
    BY <1>0, ClientBounds
  <2>. QED  BY <1>0, <1>8, <1>9, <2>1 DEF ClientTypeOK
<1>2. Reflects(client)'
  BY <1>8 DEF Reflects
<1>3. LogInv'
  BY <1>0, <1>8 DEF LogInv
<1>4. PendingInv'
  <2>1. ASSUME NEW i \in DOMAIN pending'
        PROVE  /\ pending'[i] <= client'.latest + 1 /\ pending'[i] < streamNext' /\ pending'[i] <= logEnd'
    <3>1. CASE i = Len(pending) + 1
      BY <1>0, <1>8, <1>9, <3>1
    <3>2. CASE i \in 1..Len(pending)
      <4>1. pending[i] <= client.latest + 1 /\ pending[i] < streamNext /\ pending[i] <= logEnd
        BY <1>9, <3>2 DEF PendingInv
      <4>. QED  BY <1>0, <1>8, <1>9, <3>2, <4>1
    <3>. QED  BY <1>9, <3>1, <3>2
  <2>2. ASSUME NEW i \in DOMAIN pending', NEW j \in DOMAIN pending', i < j
        PROVE  pending'[i] < pending'[j]
    <3>1. i \in 1..Len(pending)
      BY <1>9, <2>2
    <3>2. CASE j = Len(pending) + 1
      BY <1>0, <1>9, <3>1, <3>2 DEF PendingInv
    <3>3. CASE j \in 1..Len(pending)
      BY <1>9, <2>2, <3>1, <3>3 DEF PendingInv
    <3>. QED  BY <1>9, <3>2, <3>3
  <2>. QED  BY <1>0, <2>1, <2>2 DEF PendingInv
<1>5. AnswerInv'
  BY <1>0, <1>8 DEF AnswerInv
<1>6. WakeInv'
  BY <1>0, <1>8 DEF WakeInv
<1>. QED  BY <1>1, <1>2, <1>3, <1>4, <1>5, <1>6

LEMMA RecoverInv ==
    ASSUME ClientInv, Deliver, Recover(streamNext)
    PROVE  ClientInv'
<1>. USE DEF ClientInv, server, link, stream, retrying, bounds
<1>0. /\ client \in Client /\ streamNext \in 1..MaxCommits /\ streamNext \in Nat /\ streamNext \in Sequences
      /\ streamNext <= logEnd /\ logEnd \in Nat /\ client.latest \in Nat
      /\ subscription \in {"read", "live"} /\ streamNext' = streamNext + 1 /\ received' = TRUE
      /\ UNCHANGED <<server, connected, welcome, subscription, opened, readTo, liveFrom, answer,
                     retrying, bounds>>
  BY Delivered
<1>7. /\ Observe(client, streamNext) \in Client
      /\ Observe(client, streamNext).latest = client.latest
      /\ Observe(client, streamNext).store = client.store
      /\ Observe(client, streamNext).bootstrapped = client.bootstrapped
      /\ Observe(client, streamNext).pendingReplay = client.pendingReplay
      /\ Observe(client, streamNext).inFlight = client.inFlight
      /\ Observe(client, streamNext).replayStart = client.replayStart
  BY <1>0, Observed
<1>8. /\ client' \in Client /\ pending' = <<>> /\ DOMAIN pending' = {}
      /\ client.inFlight = "none" /\ client.bootstrapped
      /\ Reflects(client') /\ client'.latest \in Nat /\ client'.latest <= logEnd
      /\ client'.bootstrapped /\ client'.inFlight = "replay"
      /\ client'.replayStart = client'.latest
  <2>. DEFINE o == Observe(client, streamNext)
              a == ApplyBatch(o, pending)
  <2>1. client' = RunReplay(a) /\ client.inFlight = "none" /\ client.bootstrapped
    BY DEF Recover
  <2>2. /\ o \in Client /\ o.latest = client.latest /\ o.store = client.store
        /\ o.bootstrapped = client.bootstrapped /\ o.inFlight = client.inFlight
    BY <1>7
  <2>. HIDE DEF o
  <2>3. /\ a \in Client /\ Reflects(a) /\ a.latest \in Nat /\ a.latest <= logEnd
        /\ a.bootstrapped = o.bootstrapped /\ a.inFlight = o.inFlight
    BY <2>2, PendingApplied
  <2>. HIDE DEF a
  <2>4. /\ client' \in Client /\ client'.inFlight = "replay" /\ client'.replayStart = a.latest
        /\ client'.latest = a.latest /\ client'.store = a.store /\ client'.bootstrapped
    BY <2>1, <2>2, <2>3, ReplayRun
  <2>. QED  BY <2>1, <2>3, <2>4 DEF Recover, Reflects
<1>9. answer = NoAnswer
  BY <1>8 DEF AnswerInv
<1>1. ClientTypeOK'
  BY <1>0, <1>8, ClientBounds DEF ClientTypeOK, Sequences
<1>2. Reflects(client)'
  BY <1>8 DEF Reflects
<1>3. LogInv'
  BY <1>0, <1>8 DEF LogInv
<1>4. PendingInv'
  BY <1>8 DEF PendingInv
<1>5. AnswerInv'
  BY <1>0, <1>8, <1>9 DEF AnswerInv
<1>6. WakeInv'
  BY <1>0, <1>8 DEF WakeInv
<1>. QED  BY <1>1, <1>2, <1>3, <1>4, <1>5, <1>6

LEMMA SnapshotArrivesInv ==
    ASSUME ClientInv, SnapshotArrives
    PROVE  ClientInv'
<1>. USE DEF ClientInv, server, link, stream, retrying, bounds
<1>0. /\ logEnd \in Nat /\ logEnd \in Sequences /\ client \in Client /\ client.latest \in Nat
      /\ client.replayStart \in Nat /\ client.replayStart \in Sequences
  BY ClientBounds DEF ClientTypeOK, Client, Sequences
<1>. DEFINE s == answer
            synced == TakeSnapshot(client, s)
<1>7. /\ answer \in Sequences /\ answer \in Nat /\ answer <= logEnd
      /\ client.inFlight = "snapshot" /\ answer' = NoAnswer /\ pending' = pending
      /\ client.latest <= answer /\ client.highest \in Nat
      /\ UNCHANGED <<server, link, pending, retrying, disconnects, failures>> /\ streak' = 0
  BY <1>0, ClientBounds DEF SnapshotArrives, AnswerInv, ClientTypeOK, Client, Sequences
<1>8. /\ synced \in Client /\ Reflects(synced) /\ synced.latest = s
      /\ synced.bootstrapped /\ synced.inFlight = "none"
  <2>1. Max({client.latest, s}) = s
    BY <1>0, <1>7, TwoNumbers
  <2>2. Max({client.highest, client.latest, s}) \in Sequences
    <3>1. client.highest \in Sequences /\ client.latest \in Sequences
      BY <1>0 DEF Client
    <3>. QED  BY <1>0, <1>7, <3>1, ThreeNumbers
  <2>. DEFINE filled == [n \in 1..MaxCommits |-> IF n <= s THEN 1 ELSE 0]
              top == Max({client.highest, client.latest, s})
  <2>3. filled \in [1..MaxCommits -> 0..2]
    OBVIOUS
  <2>4. synced = [client EXCEPT !.store = filled, !.latest = s, !.highest = top,
                    !.bootstrapped = TRUE, !.inFlight = "none", !.pendingReplay = FALSE]
    BY <2>1 DEF TakeSnapshot
  <2>5. filled = [n \in 1..MaxCommits |-> IF n <= s THEN 1 ELSE 0]
    OBVIOUS
  <2>. HIDE DEF filled, top, synced, s
  <2>6. synced \in Client /\ synced.store = filled /\ synced.latest = s
    BY <1>0, <1>7, <2>2, <2>3, <2>4 DEF Client, top, s
  <2>7. synced.bootstrapped /\ synced.inFlight = "none"
    BY <1>0, <2>4 DEF Client
  <2>. QED  BY <2>5, <2>6, <2>7 DEF Reflects
<1>9. /\ client' \in Client /\ client'.latest = answer /\ client'.store = synced.store
      /\ client'.bootstrapped
      /\ \/ client'.inFlight = "none"
         \/ client'.inFlight = "replay" /\ client'.replayStart = answer
  <2>1. client' = synced \/ client' = RunReplay(synced)
    BY DEF SnapshotArrives
  <2>. HIDE DEF synced
  <2>. QED  BY <1>8, <2>1, ReplayRun
<1>1. ClientTypeOK'
  BY <1>7, <1>9 DEF ClientTypeOK
<1>2. Reflects(client)'
  <2>. HIDE DEF synced
  <2>. QED  BY <1>8, <1>9 DEF Reflects
<1>3. LogInv'
  BY <1>7, <1>9 DEF LogInv
<1>4. PendingInv'
  <2>1. \A i \in DOMAIN pending : pending[i] \in Nat
    BY ClientBounds DEF ClientTypeOK
  <2>. QED  BY <1>0, <1>7, <1>9, <2>1 DEF PendingInv
<1>5. AnswerInv'
  BY <1>7, <1>9 DEF AnswerInv
<1>6. WakeInv'
  BY <1>7, <1>9 DEF WakeInv
<1>. QED  BY <1>1, <1>2, <1>3, <1>4, <1>5, <1>6

LEMMA SnapshotFailsInv ==
    ASSUME ClientInv, SnapshotFails
    PROVE  ClientInv'
<1>. USE DEF ClientInv, server, link, stream, retrying, bounds
<1>0. /\ logEnd \in Nat /\ logEnd \in Sequences /\ client \in Client /\ client.latest \in Nat
      /\ client.replayStart \in Nat /\ client.replayStart \in Sequences
  BY ClientBounds DEF ClientTypeOK, Client, Sequences
<1>7. /\ client' \in Client /\ client'.inFlight = "none" /\ client'.latest = client.latest
      /\ client'.store = client.store /\ client'.bootstrapped = client.bootstrapped
      /\ client.inFlight = "snapshot" /\ failures' = failures + 1 /\ failures \in Nat
      /\ streak' = streak + 1 /\ streak \in Nat /\ streak' \in 0..failures'
      /\ answer' = NoAnswer /\ failures' \in 0..MaxFailures
      /\ UNCHANGED <<server, link, pending, retrying, disconnects>>
  <2>1. failures \in Nat /\ failures + 1 \in 0..MaxFailures
    BY SMTT(30), ClientBounds, Counted DEF SnapshotFails, ClientTypeOK
  <2>2. streak \in Nat /\ streak + 1 \in 0..(failures + 1)
    BY <2>1 DEF ClientTypeOK
  <2>. QED  BY <1>0, <2>1, <2>2 DEF SnapshotFails, Client
<1>1. ClientTypeOK'
  BY <1>7 DEF ClientTypeOK
<1>2. Reflects(client)'
  BY <1>7 DEF Reflects
<1>3. LogInv'
  BY <1>7 DEF LogInv
<1>4. PendingInv'
  BY <1>7 DEF PendingInv
<1>5. AnswerInv'
  BY <1>7 DEF AnswerInv
<1>6. WakeInv'
  <2>1. streak' = 1 => streak = 0
    BY <1>7
  <2>2. streak' # 0
    BY <1>7
  <2>. QED  BY <1>7, <2>1, <2>2 DEF WakeInv
<1>. QED  BY <1>1, <1>2, <1>3, <1>4, <1>5, <1>6

LEMMA ReplayFailsInv ==
    ASSUME ClientInv, ReplayFails
    PROVE  ClientInv'
<1>. USE DEF ClientInv, server, link, stream, retrying, bounds
<1>0. /\ logEnd \in Nat /\ logEnd \in Sequences /\ client \in Client /\ client.latest \in Nat
      /\ client.replayStart \in Nat /\ client.replayStart \in Sequences
  BY ClientBounds DEF ClientTypeOK, Client, Sequences
<1>7. /\ client' \in Client /\ client'.inFlight = "snapshot" /\ client'.latest = client.latest
      /\ client'.store = client.store
      /\ failures' = failures + 1 /\ failures \in Nat
      /\ streak' = streak + 1 /\ streak \in Nat /\ streak' \in 0..failures'
      /\ answer' = NoAnswer /\ failures' \in 0..MaxFailures /\ tracker' = NoTracker
      /\ UNCHANGED <<server, link, pending, timers, disconnects>>
  <2>. DEFINE c == [client EXCEPT !.bootstrapped = FALSE, !.inFlight = "none", !.replayStart = 0]
  <2>0. 0 \in Sequences
    BY ClientBounds DEF Sequences
  <2>1. /\ c \in Client /\ c.inFlight = "none" /\ c.latest = client.latest /\ c.store = client.store
    BY <1>0, <2>0 DEF Client
  <2>2. client' = RunSnapshot(c)
    BY DEF ReplayFails
  <2>. HIDE DEF c
  <2>3. /\ client' \in Client /\ client'.inFlight = "snapshot" /\ client'.latest = client.latest
        /\ client'.store = client.store
    BY <2>1, <2>2, SnapshotRun
  <2>4. failures \in Nat /\ failures + 1 \in 0..MaxFailures
    BY SMTT(30), ClientBounds, Counted DEF ReplayFails, ClientTypeOK
  <2>5. streak \in Nat /\ streak + 1 \in 0..(failures + 1)
    BY <2>4 DEF ClientTypeOK
  <2>. QED  BY <2>3, <2>4, <2>5 DEF ReplayFails
<1>1. ClientTypeOK'
  <2>1. NoTracker \in [attempts : 0..MaxNoProgress, latest : Sequences, highest : Sequences]
    BY ClientBounds DEF NoTracker, Sequences
  <2>. QED  BY <1>7, <2>1 DEF ClientTypeOK
<1>2. Reflects(client)'
  BY <1>7 DEF Reflects
<1>3. LogInv'
  BY <1>7 DEF LogInv
<1>4. PendingInv'
  BY <1>7 DEF PendingInv
<1>5. AnswerInv'
  BY <1>7 DEF AnswerInv
<1>6. WakeInv'
  <2>2. streak' # 0
    BY <1>7
  <2>. QED  BY <1>7, <2>2 DEF WakeInv
<1>. QED  BY <1>1, <1>2, <1>3, <1>4, <1>5, <1>6

LEMMA ReplayArrivesInv ==
    ASSUME ClientInv, ReplayArrives
    PROVE  ClientInv'
<1>. USE DEF ClientInv, server, link, stream, retrying, bounds
<1>0. /\ logEnd \in Nat /\ logEnd \in Sequences /\ client \in Client /\ client.latest \in Nat
      /\ client.replayStart \in Nat /\ client.replayStart \in Sequences
  BY ClientBounds DEF ClientTypeOK, Client, Sequences
<1>. DEFINE start == client.replayStart
            batch == [i \in 1..(answer - start) |-> start + i]
            applied == ApplyBatch(client, batch)
            done == [applied EXCEPT !.inFlight = "none", !.pendingReplay = FALSE, !.replayStart = 0]
            last == IF client.latest <= answer THEN answer ELSE client.latest
<1>7. /\ answer \in Sequences /\ answer \in Nat /\ answer <= logEnd /\ logEnd <= MaxCommits
      /\ client.inFlight = "replay" /\ answer' = NoAnswer /\ pending' = pending
      /\ start <= answer /\ start <= client.latest /\ client.latest <= logEnd /\ client.bootstrapped
      /\ UNCHANGED <<server, link, pending, disconnects, failures>> /\ streak' = 0
  BY <1>0, ClientBounds DEF ReplayArrives, AnswerInv, WakeInv, LogInv, ClientTypeOK, Sequences
<1>8. /\ applied \in Client /\ Reflects(applied) /\ applied.latest = last
      /\ applied.bootstrapped = client.bootstrapped
  <2>0. answer - start \in Nat /\ MaxCommits \in Nat
    BY <1>0, <1>7, ClientBounds 
  <2>1. batch \in Seq(1..MaxCommits) /\ DOMAIN batch = 1..(answer - start)
    <3>1. \A i \in 1..(answer - start) : start + i \in 1..MaxCommits
      BY <1>0, <1>7, <2>0
    <3>. QED  BY <2>0, <3>1
  <2>2. last \in Nat /\ client.latest <= last /\ last <= MaxCommits
    BY <1>0, <1>7, <2>0
  <2>3. \A i \in DOMAIN batch : batch[i] <= last
    BY <1>0, <1>7, <2>1
  <2>4. ASSUME NEW n \in (client.latest + 1)..last PROVE \E i \in DOMAIN batch : batch[i] = n
    <3>1. n - start \in 1..(answer - start) /\ start + (n - start) = n
      BY <1>0, <1>7
    <3>. QED  BY <2>1, <3>1
  <2>5. \A i, j \in DOMAIN batch : batch[i] = batch[j] => i = j
    BY <1>0, <2>1
  <2>. HIDE DEF batch, last
  <2>6. Follows(batch, client, last)
    BY <2>1, <2>2, <2>3, <2>4, <2>5 DEF Follows
  <2>. QED  BY <1>0, <2>6, BatchApplied
<1>9. /\ done \in Client /\ Reflects(done) /\ done.latest = last /\ done.inFlight = "none"
      /\ done.bootstrapped /\ done.highest \in Sequences
  <2>0. 0 \in Sequences
    BY ClientBounds DEF Sequences
  <2>. HIDE DEF applied, last
  <2>. QED  BY <1>7, <1>8, <2>0 DEF Client, Reflects
<1>10. /\ client' \in Client /\ client'.latest = last /\ client'.store = done.store
       /\ client'.bootstrapped
       /\ \/ client'.inFlight = "none"
          \/ client'.inFlight = "replay" /\ client'.replayStart = last
  <2>1. client' = done \/ client' = RunReplay(done)
    BY DEF ReplayArrives
  <2>. HIDE DEF done, last
  <2>. QED  BY <1>9, <2>1, ReplayRun
<1>11. /\ tracker' \in [attempts : 0..MaxNoProgress, latest : Sequences, highest : Sequences]
       /\ timers' \in Nat
  <2>1. NoTracker \in [attempts : 0..MaxNoProgress, latest : Sequences, highest : Sequences]
    BY ClientBounds DEF NoTracker, Sequences
  <2>2. \/ tracker' = NoTracker /\ UNCHANGED timers
        \/ Retry(done)
    BY DEF ReplayArrives
  <2>3. ASSUME Retry(done)
        PROVE  /\ tracker' \in [attempts : 0..MaxNoProgress, latest : Sequences, highest : Sequences]
               /\ timers' \in Nat
    <3>. DEFINE same == tracker.latest = done.latest /\ tracker.highest = done.highest
                tries == (IF same THEN tracker.attempts ELSE 0) + 1
    <3>1. tracker.attempts \in Nat /\ timers \in Nat /\ MaxNoProgress \in Nat
      BY ClientBounds DEF ClientTypeOK
    <3>2. tries \in Nat
      <4>. HIDE DEF same
      <4>. QED  BY <3>1
    <3>3. \/ tracker' = NoTracker /\ UNCHANGED timers
          \/ /\ tries <= MaxNoProgress
             /\ tracker' = [attempts |-> tries, latest |-> done.latest, highest |-> done.highest]
             /\ timers' = timers + 1
      <4>1. tries > MaxNoProgress \/ tries <= MaxNoProgress
        <5>. HIDE DEF tries
        <5>. QED  BY <3>1, <3>2
      <4>2. IF tries > MaxNoProgress
            THEN tracker' = NoTracker /\ UNCHANGED timers
            ELSE /\ tracker' = [attempts |-> tries, latest |-> done.latest, highest |-> done.highest]
                 /\ timers' = timers + 1
        BY <2>3 DEF Retry
      <4>. HIDE DEF tries
      <4>. QED  BY <3>1, <3>2, <4>1, <4>2
    <3>4. done.latest \in Sequences /\ done.highest \in Sequences
      BY <1>9 DEF Client
    <3>. HIDE DEF tries, done
    <3>. QED  BY <2>1, <3>1, <3>2, <3>3, <3>4
  <2>. QED  BY <2>1, <2>2, <2>3 DEF ClientTypeOK
<1>12. last \in Nat /\ client.latest <= last /\ last <= logEnd
  BY <1>0, <1>7
<1>. HIDE DEF batch, applied, done, last, start
<1>1. ClientTypeOK'
  BY <1>7, <1>10, <1>11 DEF ClientTypeOK
<1>2. Reflects(client)'
  BY <1>9, <1>10 DEF Reflects
<1>3. LogInv'
  BY <1>7, <1>10, <1>12 DEF LogInv
<1>4. PendingInv'
  <2>1. \A i \in DOMAIN pending : pending[i] \in Nat
    BY ClientBounds DEF ClientTypeOK
  <2>. QED  BY <1>0, <1>7, <1>10, <1>12, <2>1 DEF PendingInv
<1>5. AnswerInv'
  BY <1>7, <1>10, <1>12 DEF AnswerInv
<1>6. WakeInv'
  BY <1>7, <1>10 DEF WakeInv
<1>. QED  BY <1>1, <1>2, <1>3, <1>4, <1>5, <1>6

-----------------------------------------------------------------------------
(* The client's theorems *)

LEMMA ClientNextInv ==
    ASSUME ClientInv, [ClientNext]_clientVars
    PROVE  ClientInv'
<1>1. CASE Commit \/ Adopt \/ Serve
  BY <1>1, CommitInv, AdoptInv, ServeInv
<1>2. CASE Connect \/ LoseConnection \/ StartStream \/ OpenStream \/ ReadLog \/ SubscribeLive
  BY <1>2, ConnectInv, LoseConnectionInv, StartStreamInv, OpenStreamInv, ReadLogInv,
     SubscribeLiveInv
<1>3. CASE Deliver
  BY <1>3, DeferInv, ApplyInv, RecoverInv DEF Deliver
<1>4. CASE Welcome \/ Flush \/ RetryReplay
  BY <1>4, WelcomeInv, FlushInv, RetryReplayInv
<1>5. CASE Arrives
  BY <1>5, SnapshotArrivesInv, ReplayArrivesInv DEF Arrives
<1>6. CASE SnapshotFails \/ ReplayFails
  BY <1>6, SnapshotFailsInv, ReplayFailsInv
<1>7. CASE UNCHANGED clientVars
  BY <1>7 DEF ClientInv, ClientTypeOK, Reflects, LogInv, PendingInv, AnswerInv, WakeInv,
              clientVars, server, link, stream, retrying, bounds
<1>. QED  BY <1>1, <1>2, <1>3, <1>4, <1>5, <1>6, <1>7 DEF ClientNext

LEMMA ClientHolds == ClientSpec => []ClientInv
<1>1. ASSUME ClientInit PROVE ClientInv
  <2>. USE <1>1, ClientBounds DEF ClientInit
  <2>1. 0 \in Sequences /\ 1 \in 1..(MaxCommits + 1)
    BY DEF Sequences
  <2>2. client \in Client
    BY <2>1 DEF Client
  <2>3. NoTracker \in [attempts : 0..MaxNoProgress, latest : Sequences, highest : Sequences]
    BY <2>1 DEF NoTracker
  <2>4. ClientTypeOK
    <3>1. disconnects \in 0..MaxDisconnects /\ failures \in 0..MaxFailures /\ timers \in Nat
          /\ streak \in 0..failures
      OBVIOUS
    <3>2. pending \in Seq(1..MaxCommits) /\ answer \in Sequences \cup {NoAnswer}
      OBVIOUS
    <3>3. {logEnd, modelEnd, opened, readTo, liveFrom} \subseteq Sequences
          /\ streamNext \in 1..(MaxCommits + 1)
      BY <2>1
    <3>4. /\ connected \in BOOLEAN /\ welcome \in BOOLEAN /\ received \in BOOLEAN
          /\ subscription \in {"closed", "requested", "opened", "read", "live"}
      OBVIOUS
    <3>5. tracker = NoTracker
      OBVIOUS
    <3>. QED  BY ONLY <2>2, <2>3, <3>1, <3>2, <3>3, <3>4, <3>5 DEF ClientTypeOK
  <2>5. Reflects(client)
    BY DEF Reflects
  <2>6. LogInv /\ PendingInv /\ AnswerInv /\ WakeInv
    BY DEF LogInv, PendingInv, AnswerInv, WakeInv
  <2>. QED  BY <2>4, <2>5, <2>6 DEF ClientInv
<1>. QED  BY <1>1, ClientNextInv, PTL DEF ClientSpec

\* The state of the client, its connection and the server keeps its type, for any
\* number of events, disconnects and failures.
THEOREM ClientIsTyped == ClientSpec => []ClientTypeOK
BY ClientHolds, PTL DEF ClientInv

\* The store reflects exactly the events up to latestSequence, each once, however
\* snapshots, replays and live events overlap, fail and are repeated.
THEOREM StoreReflectsTheLog == ClientSpec => []StoreMatchesLatest
<1>1. ClientInv => StoreMatchesLatest
  BY DEF ClientInv, Reflects, StoreMatchesLatest
<1>. QED  BY <1>1, ClientHolds, PTL

\* The stream hands a client that is bootstrapped and idle an event beyond what it
\* shows: ignoring it is not among the things it may do.
LEMMA EventActedOn ==
    ASSUME ClientInv, ClientNext, client.bootstrapped,
           client.latest > 0, client.inFlight = "none", subscription \in {"read", "live"},
           streamNext' = streamNext + 1, streamNext > client.latest
    PROVE  client'.inFlight = "replay" \/ pending' # <<>>
<1>1. client \in Client /\ client.latest \in Nat /\ client.latest # 0 /\ streamNext \in Nat
      /\ streamNext # streamNext + 1
  <2>1. streamNext \in 1..(MaxCommits + 1)
    BY DEF ClientInv, ClientTypeOK
  <2>2. client \in Client
    BY DEF ClientInv, ClientTypeOK
  <2>3. client.latest \in Nat
    BY <2>2, ClientBounds DEF Client
  <2>. QED  BY <2>1, <2>2, <2>3, ClientBounds
<1>2. Deliver
  <2>1. streamNext' # streamNext
    BY <1>1
  <2>2. ~OpenStream
    BY DEF OpenStream
  <2>. QED  BY <2>1, <2>2
         DEF ClientNext, Commit, Adopt, Serve, Connect, LoseConnection, StartStream, Welcome,
             Flush, Arrives, SnapshotArrives, ReplayArrives, SnapshotFails, ReplayFails,
             RetryReplay, ReadLog, SubscribeLive, link, stream
<1>3. CASE IgnoreOrDefer(streamNext)
  BY <1>1, <1>3 DEF IgnoreOrDefer
<1>4. CASE ApplyLater(streamNext)
  <2>1. pending' = Append(pending, streamNext) /\ pending \in Seq(1..MaxCommits)
    BY <1>4 DEF ApplyLater, ClientInv, ClientTypeOK
  <2>2. streamNext \in 1..MaxCommits
    BY <1>2, Delivered
  <2>3. Len(pending') = Len(pending) + 1 /\ Len(pending) \in Nat /\ pending' \in Seq(1..MaxCommits)
    BY <2>1, <2>2, AppendProperties
  <2>. QED  BY <2>3, EmptySeq
<1>5. CASE Recover(streamNext)
  <2>. DEFINE o == Observe(client, streamNext)
              a == ApplyBatch(o, pending)
  <2>1. streamNext \in Sequences
    BY <1>2, Delivered
  <2>2. o \in Client /\ o.latest = client.latest /\ o.store = client.store
        /\ o.bootstrapped /\ o.inFlight = "none"
    BY <1>1, <2>1, Observed
  <2>. HIDE DEF o
  <2>3. a \in Client /\ a.bootstrapped /\ a.inFlight = "none"
    BY <2>2, PendingApplied
  <2>4. client' = RunReplay(a)
    BY <1>5 DEF Recover, o
  <2>. HIDE DEF a
  <2>. QED  BY <2>3, <2>4, ReplayRun
<1>. QED  BY <1>2, <1>3, <1>4, <1>5 DEF Deliver

\* recoveryCoordinator: a bootstrapped client that is idle acts on an event beyond
\* what it shows, after any number of failed requests.
THEOREM BootstrappedClientWakes ==
    ClientSpec =>
        [][(client.bootstrapped /\ client.latest > 0 /\ client.inFlight = "none"
                /\ streamNext' = streamNext + 1 /\ subscription \in {"read", "live"}
                /\ streamNext > client.latest)
           => (client'.inFlight = "replay" \/ pending' # <<>>)]_clientVars
<1>. DEFINE Wakes == (client.bootstrapped /\ client.latest > 0 /\ client.inFlight = "none"
                        /\ streamNext' = streamNext + 1 /\ subscription \in {"read", "live"}
                        /\ streamNext > client.latest)
                     => (client'.inFlight = "replay" \/ pending' # <<>>)
<1>1. ASSUME ClientInv, ClientNext PROVE Wakes
  BY <1>1, EventActedOn
<1>2. ClientInv /\ [ClientNext]_clientVars => [Wakes]_clientVars
  BY <1>1
<1>. QED  BY <1>2, ClientHolds, PTL DEF ClientSpec

\* An event beyond what is shown makes an idle client act, for any number of failed
\* requests of which no two follow each other: with the snapshot that a failed
\* replay falls back to failing too, the client waits for the next welcome.
THEOREM IdleClientWakes == ClientSpec => EventsWakeIdleClient
<1>. DEFINE Wakes == (client.latest > 0 /\ client.inFlight = "none" /\ streak < 2
                        /\ streamNext' = streamNext + 1 /\ subscription \in {"read", "live"}
                        /\ streamNext > client.latest)
                     => (client'.inFlight = "replay" \/ pending' # <<>>)
<1>1. ASSUME ClientInv, client.latest > 0, client.inFlight = "none", streak < 2
      PROVE  client.bootstrapped
  <2>1. streak \in {0, 1}
    BY <1>1, ClientBounds DEF ClientInv, ClientTypeOK
  <2>2. client.latest # 0
    BY <1>1
  <2>. QED  BY <1>1, <2>1, <2>2 DEF ClientInv, WakeInv
<1>2. ASSUME ClientInv, ClientNext PROVE Wakes
  BY <1>1, <1>2, EventActedOn
<1>3. ClientInv /\ [ClientNext]_clientVars => [Wakes]_clientVars
  BY <1>2
<1>. QED  BY <1>3, ClientHolds, PTL DEF ClientSpec, EventsWakeIdleClient

-----------------------------------------------------------------------------
(* The bootstrap of a first turn *)

\* The state of a command: recorded as accepted, in the log, waiting.
Accepted(c) == outcome[c].status = "accepted"
Logged(c) == \E i \in 1..Len(log) : log[i].command = c
Queued(c) == \E i \in 1..Len(queue) : queue[i].command = c

\* The receipts and the log agree; one attempt at most has created the thread,
\* and once one has cleaned up it is deleted.
ReceiptInv ==
    /\ \A c \in Commands : Accepted(c) <=> Logged(c)
    /\ \A a \in Attempts : Accepted(<<a, "create">>) =>
          /\ Request[a].createThread
          /\ Engine!ThreadExists(log, thread)
          /\ \A b \in Attempts : Accepted(<<b, "create">>) => b = a
    /\ \A a \in Attempts : Accepted(<<a, "cleanup">>) => Engine!ThreadDeleted(log, thread)
    /\ \A a \in Attempts : outcome[<<a, "cleanup">>].status # "rejected"

\* An attempt that creates the thread records the worktree's path on it.
CreatedThenUpdated ==
    \A a \in Attempts : Request[a].createThread /\ Logged(<<a, "update">>) =>
        \E j \in 1..Len(log) :
            /\ log[j].command = <<a, "create">>
            /\ \A k \in 1..Len(log) : log[k].command = <<a, "update">> => j < k

\* What a message asked for has been done.
Prepared(m) ==
    \E a \in Attempts :
        /\ Request[a].message = m
        /\ Request[a].prepareWorktree => Logged(<<a, "update">>)
        /\ Request[a].createThread => Logged(<<a, "create">>)

\* The turn of attempt a is not in the log, nor about to be.
Settled(a) ==
    \/ CommandId(a, "turn") \in storageErrors
    \/ outcome[CommandId(a, "turn")].status = "rejected"
    \/ outcome[CommandId(a, "turn")].status = "none" /\ ~Queued(CommandId(a, "turn"))

\* What an attempt knows of its own commands where it is.
StageInv ==
    \A a \in Attempts :
        /\ stage[a] = "create" => Request[a].createThread
        /\ created[a] => Request[a].createThread /\ Logged(<<a, "create">>)
        /\ Request[a].createThread /\ stage[a] \notin {"new", "create", "ended"} => created[a]
        /\ Request[a].prepareWorktree
           /\ stage[a] \in {"setup", "requested", "started", "failed", "turn"} =>
              Logged(<<a, "update">>)
        /\ stage[a] = "cleanup" => created[a]

\* The answer an attempt has is true.
ReplyInv ==
    \A a \in Attempts :
        /\ reply[a] = "ok" => Accepted(CommandId(a, stage[a]))
        /\ reply[a] = "error" => \/ outcome[CommandId(a, stage[a])].status = "rejected"
                                 \/ CommandId(a, stage[a]) \in storageErrors

\* What a queued command presupposes.
CommandInv ==
    \A a \in Attempts :
        /\ Queued(<<a, "create">>) => Request[a].createThread
        /\ Queued(<<a, "update">>) /\ Request[a].createThread => Logged(<<a, "create">>)
        /\ Queued(<<a, "turn">>) => Prepared(a)
        /\ Queued(<<a, "cleanup">>) =>
              /\ stage[a] \in {"cleanup", "ended"}
              /\ Logged(<<a, "create">>) /\ Settled(a)

\* An attempt that goes on waits for one command at a time.
QueueInv ==
    \A i \in 1..Len(queue) : LET a == queue[i].from IN
        a \in Attempts /\ stage[a] # "ended" =>
            /\ stage[a] \in Dispatching /\ reply[a] = "none"
            /\ queue[i].command = CommandId(a, stage[a])
            /\ \A j \in 1..Len(queue) : queue[j].from = a => j = i

\* A message whose attempts create the thread starts its turn by the one that
\* has created it, which then has nothing more to do than to clean up.
TurnByCreator ==
    \A a \in Attempts :
        /\ Request[a].createThread
        /\ Queued(CommandId(a, "turn")) \/ outcome[CommandId(a, "turn")].status # "none"
        => \E b \in Attempts :
              /\ Request[b].message = Request[a].message
              /\ Logged(<<b, "create">>)
              /\ stage[b] \in {"turn", "cleanup", "ended"}

\* What a failure is due to.
FailedInv ==
    \A a \in Attempts : result[a] = "failed" =>
        \/ ~Request[a].createThread
        \/ outcome[<<a, "create">>].status = "rejected"
        \/ {<<a, "create">>, <<a, "cleanup">>} \cap storageErrors # {}
        \/ Engine!ThreadDeleted(log, thread)

\* The inductive invariant of the bootstrap.
BootstrapInv ==
    /\ BootstrapTypeOK /\ ReceiptInv /\ CreatedThenUpdated /\ StageInv /\ ReplyInv
    /\ CommandInv /\ QueueInv /\ TurnByCreator /\ FailedInv
    /\ CleansUpOnlyItsOwn /\ TurnFollowsPreparation

-----------------------------------------------------------------------------
(* What the commands of a bootstrap are decided to. *)

LEMMA RequestFacts ==
    /\ user \notin Attempts
    /\ \A a \in Attempts : /\ Request[a].message \in Attempts
                           /\ Request[a].createThread \in BOOLEAN
                           /\ Request[a].prepareWorktree \in BOOLEAN
    /\ \A a, b \in Attempts : Request[a].message = Request[b].message => Request[a] = Request[b]
BY BootstrapAssumption DEF BootstrapAssumption

LEMMA DispatchingStages ==
    Dispatching = {"create", "update", "requested", "started", "failed", "turn", "cleanup"}
BY DEF Dispatching, CommandType

LEMMA CommandNames ==
    /\ \A a \in Attempts, s \in Dispatching : CommandId(a, s) \in Commands
    /\ \A a \in Attempts : /\ <<a, "create">> \in Commands /\ <<a, "update">> \in Commands
                           /\ <<a, "cleanup">> \in Commands
    /\ \A a : CommandId(a, "turn") = <<Request[a].message, "turn">>
    /\ \A a, s : s # "turn" => CommandId(a, s) = <<a, s>>
    /\ UserDelete = <<user, "cleanup">> /\ UserDelete \in Commands
    /\ CreateProject = <<user, "create">> /\ CreateProject \in Commands
<1>1. \A a \in Attempts, s \in Dispatching : CommandId(a, s) \in Commands
  BY DEF Commands
<1>2. /\ \A a : CommandId(a, "turn") = <<Request[a].message, "turn">>
      /\ \A a, s : s # "turn" => CommandId(a, s) = <<a, s>>
  BY DEF CommandId
<1>3. ASSUME NEW a \in Attempts
      PROVE  /\ <<a, "create">> \in Commands /\ <<a, "update">> \in Commands
             /\ <<a, "cleanup">> \in Commands
  BY <1>1, <1>2, DispatchingStages
<1>. QED  BY <1>1, <1>2, <1>3 DEF UserDelete, CreateProject, Commands

\* What each command of a bootstrap asks the decider for.
LEMMA Contents ==
    /\ \A c \in Commands :
          /\ Content[c].project = project /\ Content[c].thread = thread
          /\ Content[c].parent = NoThread /\ Content[c].seeds = 0
          /\ Content[c].type \in {"project.create", "thread.create", "thread.meta.update",
                                  "thread.activity.append", "thread.turn.start", "thread.delete"}
    /\ \A a \in Attempts : /\ Content[<<a, "create">>].type = "thread.create"
                           /\ Content[<<a, "cleanup">>].type = "thread.delete"
<1>. USE CommandNames, DispatchingStages
<1>1. ASSUME NEW c \in Commands
      PROVE  Content[c].type = IF c = CreateProject THEN "project.create" ELSE CommandType[c[2]]
  BY DEF Content
<1>2. ASSUME NEW c \in Commands
      PROVE  /\ Content[c].project = project /\ Content[c].thread = thread
             /\ Content[c].parent = NoThread /\ Content[c].seeds = 0
  BY DEF Content
<1>3. ASSUME NEW s \in Dispatching
      PROVE  CommandType[s] \in {"thread.create", "thread.meta.update",
                                 "thread.activity.append", "thread.turn.start", "thread.delete"}
  BY DEF CommandType
<1>4. ASSUME NEW c \in Commands, c # CreateProject
      PROVE  c[2] \in Dispatching
  <2>1. CASE c = UserDelete
    BY <2>1
  <2>2. CASE \E a \in Attempts, s \in Dispatching : c = CommandId(a, s)
    BY <2>2 DEF CommandId
  <2>. QED  BY <1>4, <2>1, <2>2 DEF Commands
<1>5. ASSUME NEW a \in Attempts
      PROVE  /\ Content[<<a, "create">>].type = "thread.create"
             /\ Content[<<a, "cleanup">>].type = "thread.delete"
  <2>1. <<a, "create">> # CreateProject /\ <<a, "cleanup">> # CreateProject
    BY RequestFacts
  <2>. QED  BY <1>1, <2>1 DEF CommandType
<1>. QED  BY <1>1, <1>2, <1>3, <1>4, <1>5

LEMMA NewBodies ==
    /\ Engine!ProjectEvent("project.created", project) \in Engine!Body
    /\ Engine!ThreadCreated(thread, project) \in Engine!Body
    /\ \A e \in Engine!EventTypes : Engine!ThreadEvent(e, thread) \in Engine!Body
    /\ {"thread.deleted", "thread.message-sent", "thread.turn-start-requested"}
          \subseteq Engine!EventTypes
BY DEF Engine!Body, Engine!EventTypes, Engine!ProjectEvent, Engine!ThreadCreated,
       Engine!ThreadEvent, Threads, Projects

\* Every decision appends something; a creation finds no thread before.
LEMMA Decided ==
    ASSUME NEW rm, NEW c \in Commands, NEW d \in Engine!Decisions(rm, Content[c])
    PROVE  /\ d \in Seq(Engine!Body) /\ Len(d) \in Nat \ {0}
           /\ \A a \in Attempts : c = <<a, "create">> =>
                 /\ ~Engine!ThreadExists(rm, thread)
                 /\ d[1] = Engine!ThreadCreated(thread, project)
           /\ \A a \in Attempts : c = <<a, "cleanup">> =>
                 d[1] = Engine!ThreadEvent("thread.deleted", thread)
<1>. DEFINE ct == Content[c]
<1>0. /\ ct.project = project /\ ct.thread = thread /\ ct.parent = NoThread /\ ct.seeds = 0
      /\ ct.type \in {"project.create", "thread.create", "thread.meta.update",
                      "thread.activity.append", "thread.turn.start", "thread.delete"}
      /\ \A a \in Attempts : c = <<a, "create">> => ct.type = "thread.create"
      /\ \A a \in Attempts : c = <<a, "cleanup">> => ct.type = "thread.delete"
      /\ d \in Engine!Decisions(rm, ct)
  BY Contents
<1>. HIDE DEF ct
<1>1. CASE ct.type = "project.create"
  <2>1. d = <<Engine!ProjectEvent("project.created", project)>>
    BY <1>0, <1>1 DEF Engine!Decisions, Engine!CreateProject, Engine!When
  <2>. QED  BY <1>0, <1>1, <2>1, NewBodies
<1>2. CASE ct.type = "thread.create"
  <2>1. /\ ~Engine!ThreadExists(rm, thread)
        /\ d = [i \in 1..(0 + 1) |->
                  IF i = 1 THEN Engine!ThreadCreated(thread, project)
                           ELSE Engine!ThreadEvent("thread.message-sent", thread)]
    BY <1>0, <1>2 DEF Engine!Decisions, Engine!CreateThread, Engine!When
  <2>2. d \in [1..1 -> Engine!Body] /\ d[1] = Engine!ThreadCreated(thread, project)
    BY <2>1, NewBodies
  <2>3. d \in Seq(Engine!Body) /\ Len(d) = 1
    <3>1. PICK n \in Nat : n = 1
      OBVIOUS
    <3>2. d \in [1..n -> Engine!Body]
      BY <2>2, <3>1
    <3>3. d \in Seq(Engine!Body)
      BY <3>2, SeqDef
    <3>4. DOMAIN d = 1..n /\ Len(d) \in Nat /\ DOMAIN d = 1..Len(d)
      BY <3>2, <3>3, LenProperties
    <3>. QED  BY <3>1, <3>3, <3>4
  <2>. QED  BY <1>0, <1>2, <2>1, <2>2, <2>3
<1>3. CASE ct.type = "thread.delete"
  <2>1. d = <<Engine!ThreadEvent("thread.deleted", thread)>>
    BY <1>0, <1>3 DEF Engine!Decisions, Engine!DeleteThread, Engine!When
  <2>. QED  BY <1>0, <1>3, <2>1, NewBodies
<1>4. CASE ct.type = "thread.turn.start"
  <2>1. d = <<Engine!ThreadEvent("thread.message-sent", thread),
              Engine!ThreadEvent("thread.turn-start-requested", thread)>>
    BY <1>0, <1>4 DEF Engine!Decisions, Engine!StartTurn, Engine!When
  <2>. QED  BY <1>0, <1>4, <2>1, NewBodies
<1>5. CASE ct.type \in {"thread.meta.update", "thread.activity.append"}
  <2>1. d \in Engine!RecordOnThread(rm, ct)
    BY <1>0, <1>5 DEF Engine!Decisions
  <2>2. PICK e \in Engine!EventTypes : d = <<Engine!ThreadEvent(e, thread)>>
    BY <1>0, <2>1 DEF Engine!RecordOnThread
  <2>. QED  BY <1>0, <1>5, <2>2, NewBodies
<1>. QED  BY <1>0, <1>1, <1>2, <1>3, <1>4, <1>5

\* A thread that exists can be deleted, however often it has been.
LEMMA Deletable ==
    ASSUME NEW rm, NEW a \in Attempts, Engine!ThreadExists(rm, thread)
    PROVE  Engine!Decisions(rm, Content[<<a, "cleanup">>]) # {}
<1>1. /\ Content[<<a, "cleanup">>].type = "thread.delete"
      /\ Content[<<a, "cleanup">>].thread = thread
  BY Contents, CommandNames
<1>. QED  BY <1>1 DEF Engine!Decisions, Engine!DeleteThread, Engine!When

-----------------------------------------------------------------------------
(* A step of the engine. *)

\* What one step of the engine does with a command, if it does anything.
Advances(c) ==
    /\ Engine!TypeOK'
    /\ Len(log) \in Nat /\ Len(log') \in Nat /\ Len(log) <= Len(log')
    /\ \A i \in 1..Len(log) : log'[i] = log[i]
    /\ \A i \in 1..Len(log') : i \notin 1..Len(log) =>
          /\ log'[i].command = c /\ Len(log) < i
          /\ outcome[c].status = "none" /\ outcome'[c].status = "accepted"
    /\ \A x \in Commands :
          x # c \/ outcome[x].status # "none" => outcome'[x] = outcome[x]
    /\ outcome[c].status = "none" /\ outcome'[c].status = "accepted" => Len(log) < Len(log')
    /\ Engine!ThreadExists(log, thread) => Engine!ThreadExists(log', thread)
    /\ Engine!ThreadDeleted(log, thread) => Engine!ThreadDeleted(log', thread)
    /\ \A a \in Attempts :
          /\ c = <<a, "create">> /\ outcome[c].status = "none"
                /\ outcome'[c].status = "accepted" =>
                ~Engine!ThreadExists(log, thread) /\ Engine!ThreadExists(log', thread)
          /\ c = <<a, "cleanup">> /\ outcome[c].status = "none" =>
                /\ outcome'[c].status = "accepted" => Engine!ThreadDeleted(log', thread)
                /\ outcome'[c].status = "rejected" => ~Engine!ThreadExists(log, thread)

LEMMA Extended ==
    ASSUME Engine!TypeOK, NEW c \in Commands, NEW d \in Seq(Engine!Body), Len(d) \in Nat \ {0},
           log' = log \o Engine!Saved(Len(log), c, d)
    PROVE  /\ log' \in Seq(Engine!Event)
           /\ Len(log) \in Nat /\ Len(log') \in Nat /\ Len(log) < Len(log')
           /\ DOMAIN log = 1..Len(log) /\ DOMAIN log' = 1..Len(log')
           /\ \A i \in 1..Len(log) : i \in 1..Len(log') /\ log'[i] = log[i]
           /\ \A i \in 1..Len(log') : i \notin 1..Len(log) =>
                 log'[i].command = c /\ Len(log) < i
           /\ Len(log) + 1 \in 1..Len(log') /\ log'[Len(log) + 1].body = d[1]
<1>. DEFINE new == Engine!Saved(Len(log), c, d)
<1>1. /\ log \in Seq(Engine!Event) /\ Len(log) \in Nat
      /\ DOMAIN log = 1..Len(log) /\ DOMAIN d = 1..Len(d)
      /\ \A k \in 1..Len(d) : d[k] \in Engine!Body
  BY LenProperties, ElementOfSeq DEF Engine!TypeOK
<1>2. /\ new \in [1..Len(d) -> Engine!Event]
      /\ \A k \in 1..Len(d) : new[k].body = d[k] /\ new[k].command = c
  BY <1>1 DEF Engine!Saved, Engine!Event
<1>. HIDE DEF new
<1>3. new \in Seq(Engine!Event) /\ Len(new) = Len(d)
  BY <1>1, <1>2
<1>4. log' = log \o new
  BY DEF new
<1>5. /\ log' \in Seq(Engine!Event)
      /\ Len(log') = Len(log) + Len(new)
      /\ \A i \in 1..Len(log) + Len(new) :
            log'[i] = IF i <= Len(log) THEN log[i] ELSE new[i - Len(log)]
  <2>1. log \in Seq(Engine!Event) /\ new \in Seq(Engine!Event)
    BY <1>1, <1>3
  <2>2. /\ log \o new \in Seq(Engine!Event)
        /\ Len(log \o new) = Len(log) + Len(new)
        /\ \A i \in 1..Len(log) + Len(new) :
              (log \o new)[i] = IF i <= Len(log) THEN log[i] ELSE new[i - Len(log)]
    BY ONLY <2>1, ConcatProperties, Zenon
  <2>. QED  BY ONLY <1>4, <2>2
<1>6. DOMAIN log' = 1..Len(log')
  BY <1>5, LenProperties
<1>7. \A i \in 1..Len(log) : i \in 1..Len(log') /\ log'[i] = log[i]
  BY <1>1, <1>3, <1>5
<1>8. ASSUME NEW i \in 1..Len(log'), i \notin 1..Len(log)
      PROVE  log'[i].command = c /\ Len(log) < i
  <2>1. i - Len(log) \in 1..Len(d) /\ ~(i <= Len(log)) /\ Len(log) < i
    BY <1>1, <1>3, <1>5, <1>8
  <2>2. log'[i] = new[i - Len(log)]
    BY <2>1, <1>5
  <2>. QED  BY <2>1, <2>2, <1>2
<1>9. Len(log) + 1 \in 1..Len(log') /\ log'[Len(log) + 1].body = d[1]
  <2>1. /\ Len(log) + 1 \in 1..Len(log) + Len(new) /\ ~(Len(log) + 1 <= Len(log))
        /\ (Len(log) + 1) - Len(log) = 1 /\ 1 \in 1..Len(d)
    BY <1>1, <1>3
  <2>. QED  BY <2>1, <1>2, <1>5
<1>10. Len(log) < Len(log') /\ Len(log') \in Nat
  BY <1>1, <1>3, <1>5
<1>. QED  BY <1>1, <1>5, <1>6, <1>7, <1>8, <1>9, <1>10

LEMMA AcceptAdvances ==
    ASSUME Engine!TypeOK, NEW c \in Commands, Engine!Accept(c)
    PROVE  Advances(c)
<1>1. PICK d \in Engine!Decisions(log, Content[c]) : log' = log \o Engine!Saved(Len(log), c, d)
  BY DEF Engine!Accept
<1>2. /\ outcome[c].status = "none"
      /\ outcome' = [outcome EXCEPT ![c] = [status |-> "accepted", sequence |-> Len(log')]]
      /\ outcome \in [Commands -> Engine!Outcome]
  BY DEF Engine!Accept, Engine!TypeOK
<1>3. /\ d \in Seq(Engine!Body) /\ Len(d) \in Nat \ {0}
      /\ \A a \in Attempts : c = <<a, "create">> =>
            /\ ~Engine!ThreadExists(log, thread)
            /\ d[1] = Engine!ThreadCreated(thread, project)
      /\ \A a \in Attempts : c = <<a, "cleanup">> =>
            d[1] = Engine!ThreadEvent("thread.deleted", thread)
  BY Decided
<1>4. /\ log' \in Seq(Engine!Event)
      /\ Len(log) \in Nat /\ Len(log') \in Nat /\ Len(log) < Len(log')
      /\ DOMAIN log = 1..Len(log) /\ DOMAIN log' = 1..Len(log')
      /\ \A i \in 1..Len(log) : i \in 1..Len(log') /\ log'[i] = log[i]
      /\ \A i \in 1..Len(log') : i \notin 1..Len(log) =>
            log'[i].command = c /\ Len(log) < i
      /\ Len(log) + 1 \in 1..Len(log') /\ log'[Len(log) + 1].body = d[1]
  BY <1>1, <1>3, Extended
<1>5. /\ outcome' \in [Commands -> Engine!Outcome] /\ outcome'[c].status = "accepted"
      /\ \A x \in Commands : x # c \/ outcome[x].status # "none" => outcome'[x] = outcome[x]
  BY <1>2, <1>4 DEF Engine!Outcome
<1>6. /\ Engine!ThreadExists(log, thread) => Engine!ThreadExists(log', thread)
      /\ Engine!ThreadDeleted(log, thread) => Engine!ThreadDeleted(log', thread)
  BY <1>4 DEF Engine!ThreadExists, Engine!InProject, Engine!ThreadDeleted
<1>7. ASSUME NEW a \in Attempts, c = <<a, "create">>
      PROVE  ~Engine!ThreadExists(log, thread) /\ Engine!ThreadExists(log', thread)
  BY <1>3, <1>4, <1>7 DEF Engine!ThreadExists, Engine!InProject, Projects
<1>8. ASSUME NEW a \in Attempts, c = <<a, "cleanup">>
      PROVE  Engine!ThreadDeleted(log', thread)
  BY <1>3, <1>4, <1>8 DEF Engine!ThreadDeleted
<1>9. Engine!TypeOK'
  BY <1>4, <1>5 DEF Engine!TypeOK
<1>. QED  BY <1>2, <1>4, <1>5, <1>6, <1>7, <1>8, <1>9 DEF Advances

LEMMA RejectAdvances ==
    ASSUME Engine!TypeOK, NEW c \in Commands, Engine!Reject(c) \/ UNCHANGED <<log, outcome>>
    PROVE  Advances(c)
<1>1. log' = log /\ log \in Seq(Engine!Event) /\ Len(log) \in Nat /\ Len(log) <= Len(log)
  <2>1. log' = log /\ log \in Seq(Engine!Event)
    BY DEF Engine!Reject, Engine!TypeOK
  <2>. QED  BY <2>1, LenProperties
<1>2. outcome \in [Commands -> Engine!Outcome]
  BY DEF Engine!TypeOK
<1>3. /\ outcome' \in [Commands -> Engine!Outcome]
      /\ \A x \in Commands : x # c \/ outcome[x].status # "none" => outcome'[x] = outcome[x]
      /\ outcome[c].status = "none" => outcome'[c].status \in {"none", "rejected"}
      /\ outcome[c].status = "none" /\ outcome'[c].status = "rejected" =>
            Engine!Decisions(log, Content[c]) = {}
  BY <1>1, <1>2 DEF Engine!Reject, Engine!Outcome
<1>4. ASSUME NEW a \in Attempts, c = <<a, "cleanup">>, outcome[c].status = "none",
             outcome'[c].status = "rejected"
      PROVE  ~Engine!ThreadExists(log, thread)
  BY <1>3, <1>4, Deletable
<1>5. Engine!TypeOK'
  BY <1>1, <1>3 DEF Engine!TypeOK
<1>. QED  BY <1>1, <1>3, <1>4, <1>5 DEF Advances

\* What the step adds to the log is the command it accepts.
LEMMA LogGrows ==
    ASSUME NEW c \in Commands, Advances(c), ReceiptInv, Engine!TypeOK
    PROVE  /\ \A x : Logged(x) => Logged(x)'
           /\ \A x : Logged(x)' /\ ~Logged(x) =>
                 x = c /\ outcome[c].status = "none" /\ outcome'[c].status = "accepted"
           /\ \A x \in Commands : outcome[x].status # "none" => outcome'[x] = outcome[x]
           /\ \A x \in Commands : outcome'[x].status = "accepted" /\ outcome[x].status # "accepted" =>
                 x = c /\ outcome[c].status = "none" /\ Logged(x)'
           /\ \A m : Prepared(m) => Prepared(m)'
<1>1. /\ Len(log) \in Nat /\ Len(log') \in Nat /\ Len(log) <= Len(log')
      /\ \A i \in 1..Len(log) : log'[i] = log[i]
      /\ \A i \in 1..Len(log') : i \notin 1..Len(log) =>
            /\ log'[i].command = c
            /\ outcome[c].status = "none" /\ outcome'[c].status = "accepted"
      /\ \A x \in Commands : x # c \/ outcome[x].status # "none" => outcome'[x] = outcome[x]
      /\ outcome[c].status = "none" /\ outcome'[c].status = "accepted" => Len(log) < Len(log')
  BY DEF Advances
<1>2. ASSUME NEW x, Logged(x) PROVE Logged(x)'
  BY <1>1, <1>2 DEF Logged
<1>3. ASSUME NEW x, Logged(x)', ~Logged(x)
      PROVE  x = c /\ outcome[c].status = "none" /\ outcome'[c].status = "accepted"
  BY <1>1, <1>3 DEF Logged
<1>4. ASSUME NEW x \in Commands, outcome'[x].status = "accepted", outcome[x].status # "accepted"
      PROVE  x = c /\ outcome[c].status = "none" /\ Logged(x)'
  <2>1. x = c /\ outcome[c].status = "none" /\ outcome'[c].status = "accepted"
    BY <1>1, <1>4
  <2>2. Len(log') \in 1..Len(log') /\ Len(log') \notin 1..Len(log)
    BY <1>1, <2>1
  <2>3. log'[Len(log')].command = c
    BY <1>1, <2>2
  <2>. QED  BY <2>1, <2>2, <2>3 DEF Logged
<1>5. ASSUME NEW m, Prepared(m) PROVE Prepared(m)'
  BY <1>2, <1>5 DEF Prepared
<1>. QED  BY <1>1, <1>2, <1>3, <1>4, <1>5

LEMMA Dequeued ==
    ASSUME queue \in Seq(Dispatch), queue # <<>>, queue' = Tail(queue)
    PROVE  /\ queue' \in Seq(Dispatch) /\ Len(queue) \in Nat \ {0} /\ Len(queue') = Len(queue) - 1
           /\ Head(queue) = queue[1] /\ Queued(Head(queue).command)
           /\ Head(queue).command \in Commands /\ Head(queue).from \in Attempts \cup {user}
           /\ \A i \in 1..Len(queue') : i + 1 \in 1..Len(queue) /\ queue'[i] = queue[i + 1]
           /\ \A x : Queued(x)' => Queued(x)
<1>1. /\ queue' \in Seq(Dispatch) /\ Len(queue) \in Nat \ {0} /\ Len(queue') = Len(queue) - 1
      /\ Head(queue) = queue[1] /\ Head(queue) \in Dispatch
      /\ \A i \in 1..Len(queue') : i + 1 \in 1..Len(queue) /\ queue'[i] = queue[i + 1]
  <2>1. Len(queue) \in Nat \ {0}
    BY LenProperties, EmptySeq
  <2>. QED  BY <2>1, HeadTailProperties
<1>2. ASSUME NEW x, Queued(x)' PROVE Queued(x)
  BY <1>1, <1>2 DEF Queued
<1>3. 1 \in 1..Len(queue)
  BY <1>1
<1>. QED  BY <1>1, <1>2, <1>3 DEF Queued, Dispatch

\* The engine takes command c from the queue and answers.
Handles(c) ==
    /\ queue # <<>> /\ c = Head(queue).command /\ queue' = Tail(queue)
    /\ Advances(c)
    /\ stage' = stage /\ created' = created /\ result' = result
    /\ storageErrors \subseteq storageErrors' /\ storageErrors' \subseteq Commands
    /\ reply' \in [Attempts -> {"none", "ok", "error"}]
    /\ \A a \in Attempts :
          /\ a = Head(queue).from /\ result[a] = "none" =>
                /\ reply'[a] = "ok" => outcome'[c].status = "accepted"
                /\ reply'[a] = "error" =>
                      outcome'[c].status = "rejected" \/ c \in storageErrors'
          /\ a # Head(queue).from \/ result[a] # "none" => reply'[a] = reply[a]

\* Both ways of the engine to handle a dispatch are such a step.
LEMMA HandleHandles ==
    ASSUME BootstrapTypeOK, Handle \/ HandleFailing
    PROVE  \E c \in Commands : Handles(c)
<1>. DEFINE c == Head(queue).command  sender == Head(queue).from
<1>1. /\ queue # <<>> /\ queue \in Seq(Dispatch) /\ queue' = Tail(queue)
      /\ stage' = stage /\ created' = created /\ result' = result
  BY DEF Handle, HandleFailing, Answer, BootstrapTypeOK
<1>2. c \in Commands /\ sender \in Attempts \cup {user}
  BY <1>1, Dequeued
<1>3. /\ outcome \in [Commands -> Engine!Outcome] /\ Engine!TypeOK
      /\ reply \in [Attempts -> {"none", "ok", "error"}] /\ storageErrors \subseteq Commands
  BY DEF BootstrapTypeOK, Engine!TypeOK
<1>4. ASSUME NEW said \in {"ok", "error"}, Answer(said)
      PROVE  /\ reply' \in [Attempts -> {"none", "ok", "error"}]
             /\ \A a \in Attempts :
                   /\ a = sender /\ result[a] = "none" => reply'[a] = said
                   /\ a # sender \/ result[a] # "none" => reply'[a] = reply[a]
  BY <1>3, <1>4 DEF Answer
<1>. SUFFICES Handles(c)
  BY <1>2
<1>. HIDE DEF c, sender
<1>5. CASE Handle
  <2>1. storageErrors' = storageErrors
    BY <1>5 DEF Handle
  <2>2. \/ Engine!Accept(c) /\ Answer("ok")
        \/ Engine!Reject(c) /\ Answer("error")
        \/ /\ outcome[c].status # "none" /\ UNCHANGED <<log, outcome>>
           /\ Answer(IF outcome[c].status = "accepted" THEN "ok" ELSE "error")
    BY <1>5 DEF Handle, c
  <2>3. CASE Engine!Accept(c) /\ Answer("ok")
    <3>1. Advances(c)
      BY <1>2, <1>3, <2>3, AcceptAdvances
    <3>2. outcome'[c].status = "accepted"
      BY <1>2, <1>3, <2>3 DEF Engine!Accept
    <3>. QED  BY <1>1, <1>3, <1>4, <2>1, <2>3, <3>1, <3>2 DEF Handles, c, sender
  <2>4. CASE Engine!Reject(c) /\ Answer("error")
    <3>1. Advances(c)
      BY <1>2, <1>3, <2>4, RejectAdvances
    <3>2. outcome'[c].status = "rejected"
      BY <1>2, <1>3, <2>4 DEF Engine!Reject
    <3>. QED  BY <1>1, <1>3, <1>4, <2>1, <2>4, <3>1, <3>2 DEF Handles, c, sender
  <2>5. CASE /\ outcome[c].status # "none" /\ UNCHANGED <<log, outcome>>
             /\ Answer(IF outcome[c].status = "accepted" THEN "ok" ELSE "error")
    <3>1. Advances(c)
      BY <1>2, <1>3, <2>5, RejectAdvances
    <3>2. outcome'[c] = outcome[c] /\ outcome[c].status \in {"accepted", "rejected"}
      BY <1>2, <1>3, <2>5 DEF Engine!Outcome
    <3>3. CASE outcome[c].status = "accepted"
      <4>1. Answer("ok")
        BY <2>5, <3>3
      <4>. QED  BY <1>1, <1>3, <1>4, <2>1, <4>1, <3>1, <3>2, <3>3 DEF Handles, c, sender
    <3>4. CASE outcome[c].status = "rejected"
      <4>1. Answer("error")
        BY <2>5, <3>4
      <4>. QED  BY <1>1, <1>3, <1>4, <2>1, <4>1, <3>1, <3>2, <3>4 DEF Handles, c, sender
    <3>. QED  BY <3>2, <3>3, <3>4
  <2>. QED  BY <2>2, <2>3, <2>4, <2>5
<1>6. CASE HandleFailing
  <2>1. /\ Engine!Accept(c) \/ UNCHANGED <<log, outcome>>
        /\ storageErrors' = storageErrors \cup {c} /\ Answer("error")
    BY <1>6 DEF HandleFailing, c
  <2>2. Advances(c)
    BY <1>2, <1>3, <2>1, AcceptAdvances, RejectAdvances
  <2>. QED  BY <1>1, <1>2, <1>3, <1>4, <2>1, <2>2 DEF Handles, c, sender
<1>. QED  BY <1>5, <1>6

LEMMA BootstrapVariables ==
    ASSUME BootstrapInv
    PROVE  /\ Engine!TypeOK /\ outcome \in [Commands -> Engine!Outcome]
           /\ log \in Seq(Engine!Event) /\ Len(log) \in Nat /\ DOMAIN log = 1..Len(log)
           /\ queue \in Seq(Dispatch) /\ Len(queue) \in Nat
           /\ reply \in [Attempts -> {"none", "ok", "error"}]
           /\ stage \in [Attempts -> Dispatching \cup {"new", "worktree", "setup", "ended"}]
           /\ created \in [Attempts -> BOOLEAN]
           /\ result \in [Attempts -> {"none", "accepted", "failed", "interrupted"}]
           /\ storageErrors \subseteq Commands
           /\ \A a \in Attempts : /\ reply[a] # "none" => stage[a] \in Dispatching
                                  /\ result[a] # "none" <=> stage[a] = "ended"
<1>1. BootstrapTypeOK
  BY DEF BootstrapInv
<1>2. /\ log \in Seq(Engine!Event) /\ queue \in Seq(Dispatch)
  BY <1>1 DEF BootstrapTypeOK, Engine!TypeOK
<1>3. Len(log) \in Nat /\ DOMAIN log = 1..Len(log) /\ Len(queue) \in Nat
  BY <1>2, LenProperties
<1>. QED  BY <1>1, <1>2, <1>3 DEF BootstrapTypeOK, Engine!TypeOK

\* What TurnFollowsPreparation asks of an attempt of message m, whose turn is
\* started by event i.
Ready(a, m, i) ==
    /\ Request[a].message = m
    /\ Request[a].prepareWorktree => Before(i, CommandId(a, "update"))
    /\ Request[a].createThread =>
          \E j \in 1..(i - 1) :
              /\ log[j].command = CommandId(a, "create")
              /\ \A k \in DOMAIN log :
                    log[k].command = CommandId(a, "update") => j < k

\* The step of the engine, which appends, answers and dequeues at once.
LEMMA HandlesInv ==
    ASSUME BootstrapInv, NEW c \in Commands, Handles(c)
    PROVE  BootstrapInv'
<1>. USE RequestFacts, CommandNames, DispatchingStages
<1>1. /\ ReceiptInv /\ CreatedThenUpdated /\ StageInv /\ ReplyInv /\ CommandInv /\ QueueInv
      /\ TurnByCreator /\ FailedInv /\ CleansUpOnlyItsOwn /\ TurnFollowsPreparation
  BY DEF BootstrapInv
<1>2. /\ Engine!TypeOK /\ outcome \in [Commands -> Engine!Outcome]
      /\ Len(log) \in Nat /\ DOMAIN log = 1..Len(log)
      /\ queue \in Seq(Dispatch)
      /\ reply \in [Attempts -> {"none", "ok", "error"}]
      /\ \A a \in Attempts : /\ reply[a] # "none" => stage[a] \in Dispatching
                             /\ result[a] # "none" <=> stage[a] = "ended"
  BY BootstrapVariables
<1>3. /\ c = Head(queue).command /\ queue # <<>> /\ queue' = Tail(queue)
      /\ Advances(c) /\ stage' = stage /\ created' = created /\ result' = result
      /\ storageErrors \subseteq storageErrors' /\ storageErrors' \subseteq Commands
      /\ reply' \in [Attempts -> {"none", "ok", "error"}]
      /\ \A a \in Attempts :
            /\ a = Head(queue).from /\ result[a] = "none" =>
                  /\ reply'[a] = "ok" => outcome'[c].status = "accepted"
                  /\ reply'[a] = "error" =>
                        outcome'[c].status = "rejected" \/ c \in storageErrors'
            /\ a # Head(queue).from \/ result[a] # "none" => reply'[a] = reply[a]
  BY DEF Handles
<1>4. /\ \A x : Logged(x) => Logged(x)'
      /\ \A x : Logged(x)' /\ ~Logged(x) =>
            x = c /\ outcome[c].status = "none" /\ outcome'[c].status = "accepted"
      /\ \A x \in Commands : outcome[x].status # "none" => outcome'[x] = outcome[x]
      /\ \A x \in Commands : outcome'[x].status = "accepted" /\ outcome[x].status # "accepted" =>
            x = c /\ outcome[c].status = "none" /\ Logged(x)'
      /\ \A m : Prepared(m) => Prepared(m)'
  BY <1>1, <1>2, <1>3, LogGrows
<1>5. /\ queue' \in Seq(Dispatch) /\ Len(queue) \in Nat \ {0} /\ Len(queue') = Len(queue) - 1
      /\ Head(queue) = queue[1] /\ Queued(c)
      /\ \A i \in 1..Len(queue') : i + 1 \in 1..Len(queue) /\ queue'[i] = queue[i + 1]
      /\ \A x : Queued(x)' => Queued(x)
  BY <1>2, <1>3, Dequeued
<1>6. /\ Engine!TypeOK'
      /\ Len(log') \in Nat /\ Len(log) <= Len(log')
      /\ \A i \in 1..Len(log) : i \in 1..Len(log') /\ log'[i] = log[i]
      /\ \A i \in 1..Len(log') : i \notin 1..Len(log) =>
            /\ log'[i].command = c /\ Len(log) < i
            /\ outcome[c].status = "none" /\ outcome'[c].status = "accepted"
      /\ \A x \in Commands : x # c \/ outcome[x].status # "none" => outcome'[x] = outcome[x]
      /\ Engine!ThreadExists(log, thread) => Engine!ThreadExists(log', thread)
      /\ Engine!ThreadDeleted(log, thread) => Engine!ThreadDeleted(log', thread)
      /\ \A a \in Attempts :
            /\ c = <<a, "create">> /\ outcome[c].status = "none"
                  /\ outcome'[c].status = "accepted" =>
                  ~Engine!ThreadExists(log, thread) /\ Engine!ThreadExists(log', thread)
            /\ c = <<a, "cleanup">> /\ outcome[c].status = "none" =>
                  /\ outcome'[c].status = "accepted" => Engine!ThreadDeleted(log', thread)
                  /\ outcome'[c].status = "rejected" => ~Engine!ThreadExists(log, thread)
  <2>1. /\ Len(log') \in Nat /\ Len(log) <= Len(log')
        /\ \A i \in 1..Len(log) : log'[i] = log[i]
    BY <1>3 DEF Advances
  <2>2. \A i \in 1..Len(log) : i \in 1..Len(log') /\ log'[i] = log[i]
    BY <1>2, <2>1
  <2>. QED  BY <1>3, <2>2 DEF Advances
<1>7. DOMAIN log' = 1..Len(log')
  BY <1>6, LenProperties DEF Engine!TypeOK
<1>8. outcome' \in [Commands -> Engine!Outcome]
  BY <1>6 DEF Engine!TypeOK
\* The command the attempt waited for is the one it asked for.
<1>9. ASSUME NEW a \in Attempts, a = Head(queue).from, result[a] = "none"
      PROVE  stage[a] \in Dispatching /\ reply[a] = "none" /\ c = CommandId(a, stage[a])
  <2>1. 1 \in 1..Len(queue) /\ queue[1].from = a /\ stage[a] # "ended" /\ queue[1].command = c
    BY <1>2, <1>3, <1>5, <1>9
  <2>. QED  BY <1>1, <1>9, <2>1 DEF QueueInv
<1>10. BootstrapTypeOK'
  <2>1. /\ \A a \in Attempts : reply'[a] # "none" => stage[a] \in Dispatching
    BY <1>2, <1>3, <1>9
  <2>2. BootstrapTypeOK
    BY DEF BootstrapInv
  <2>. QED  BY <1>3, <1>5, <1>6, <2>1, <2>2 DEF BootstrapTypeOK
<1>11. ReceiptInv'
  <2>1. ASSUME NEW x \in Commands PROVE Accepted(x)' <=> Logged(x)'
    <3>1. Accepted(x) <=> Logged(x)
      BY <1>1 DEF ReceiptInv
    <3>2. outcome[x].status = "accepted" => outcome'[x].status = "accepted"
      BY <1>4
    <3>. QED  BY <1>4, <3>1, <3>2 DEF Accepted
  <2>2. ASSUME NEW a \in Attempts, Accepted(<<a, "create">>)'
        PROVE  /\ Request[a].createThread
               /\ Engine!ThreadExists(log', thread)
               /\ \A b \in Attempts : Accepted(<<b, "create">>)' => b = a
    <3>1. CASE Accepted(<<a, "create">>)
      <4>1. /\ Request[a].createThread /\ Engine!ThreadExists(log, thread)
            /\ \A b \in Attempts : Accepted(<<b, "create">>) => b = a
        BY <1>1, <3>1 DEF ReceiptInv
      <4>2. ASSUME NEW b \in Attempts, Accepted(<<b, "create">>)', ~Accepted(<<b, "create">>)
            PROVE  FALSE
        <5>1. c = <<b, "create">> /\ outcome[c].status = "none" /\ outcome'[c].status = "accepted"
          BY <1>4, <4>2 DEF Accepted
        <5>. QED  BY <1>6, <4>1, <5>1
      <4>. QED  BY <1>6, <4>1, <4>2
    <3>2. CASE ~Accepted(<<a, "create">>)
      <4>1. c = <<a, "create">> /\ outcome[c].status = "none" /\ outcome'[c].status = "accepted"
        BY <1>4, <2>2, <3>2 DEF Accepted
      <4>2. ~Engine!ThreadExists(log, thread) /\ Engine!ThreadExists(log', thread)
        BY <1>6, <4>1
      <4>3. Request[a].createThread
        BY <1>1, <1>5, <4>1 DEF CommandInv
      <4>4. ASSUME NEW b \in Attempts, Accepted(<<b, "create">>)'
            PROVE  b = a
        <5>1. ~Accepted(<<b, "create">>)
          BY <1>1, <4>2 DEF ReceiptInv
        <5>2. c = <<b, "create">>
          BY <1>4, <4>4, <5>1 DEF Accepted
        <5>. QED  BY <4>1, <5>2
      <4>. QED  BY <4>2, <4>3, <4>4
    <3>. QED  BY <3>1, <3>2
  <2>3. ASSUME NEW a \in Attempts, Accepted(<<a, "cleanup">>)'
        PROVE  Engine!ThreadDeleted(log', thread)
    <3>1. CASE Accepted(<<a, "cleanup">>)
      BY <1>1, <1>6, <3>1 DEF ReceiptInv
    <3>2. CASE ~Accepted(<<a, "cleanup">>)
      <4>1. c = <<a, "cleanup">> /\ outcome[c].status = "none" /\ outcome'[c].status = "accepted"
        BY <1>4, <2>3, <3>2 DEF Accepted
      <4>. QED  BY <1>6, <4>1
    <3>. QED  BY <3>1, <3>2
  <2>4. ASSUME NEW a \in Attempts
        PROVE  outcome'[<<a, "cleanup">>].status # "rejected"
    <3>1. outcome[<<a, "cleanup">>].status # "rejected"
      BY <1>1 DEF ReceiptInv
    <3>2. CASE c = <<a, "cleanup">> /\ outcome[c].status = "none"
      <4>1. Logged(<<a, "create">>)
        BY <1>1, <1>5, <3>2 DEF CommandInv
      <4>2. Engine!ThreadExists(log, thread)
        BY <1>1, <4>1 DEF ReceiptInv
      <4>. QED  BY <1>6, <3>2, <4>2
    <3>3. CASE ~(c = <<a, "cleanup">> /\ outcome[c].status = "none")
      <4>1. outcome'[<<a, "cleanup">>] = outcome[<<a, "cleanup">>]
        BY <1>6, <3>3
      <4>. QED  BY <3>1, <4>1
    <3>. QED  BY <3>2, <3>3
  <2>. QED  BY <2>1, <2>2, <2>3, <2>4 DEF ReceiptInv
<1>12. CreatedThenUpdated'
  <2>. SUFFICES ASSUME NEW a \in Attempts, Request[a].createThread, Logged(<<a, "update">>)'
                PROVE  \E j \in 1..Len(log') :
                          /\ log'[j].command = <<a, "create">>
                          /\ \A k \in 1..Len(log') : log'[k].command = <<a, "update">> => j < k
    BY DEF CreatedThenUpdated
  <2>1. PICK j \in 1..Len(log) :
                /\ log[j].command = <<a, "create">>
                /\ \A k \in 1..Len(log) : log[k].command = <<a, "update">> => j < k
    <3>1. CASE Logged(<<a, "update">>)
      BY <1>1, <3>1 DEF CreatedThenUpdated
    <3>2. CASE ~Logged(<<a, "update">>)
      <4>1. c = <<a, "update">>
        BY <1>4, <3>2
      <4>2. Logged(<<a, "create">>)
        BY <1>1, <1>5, <4>1 DEF CommandInv
      <4>. QED  BY <3>2, <4>2 DEF Logged
    <3>. QED  BY <3>1, <3>2
  <2>2. j \in 1..Len(log') /\ log'[j].command = <<a, "create">>
    BY <1>2, <1>6, <2>1
  <2>3. ASSUME NEW k \in 1..Len(log'), log'[k].command = <<a, "update">>
        PROVE  j < k
    <3>1. CASE k \in 1..Len(log)
      BY <1>6, <2>1, <2>3, <3>1
    <3>2. CASE k \notin 1..Len(log)
      <4>1. Len(log) < k
        BY <1>6, <3>2
      <4>. QED  BY <1>2, <4>1
    <3>. QED  BY <3>1, <3>2
  <2>. QED  BY <2>2, <2>3
<1>13. StageInv'
  BY <1>1, <1>3, <1>4 DEF StageInv
<1>14. ReplyInv'
  <2>. SUFFICES ASSUME NEW a \in Attempts
                PROVE  /\ reply'[a] = "ok" => outcome'[CommandId(a, stage[a])].status = "accepted"
                       /\ reply'[a] = "error" =>
                             \/ outcome'[CommandId(a, stage[a])].status = "rejected"
                             \/ CommandId(a, stage[a]) \in storageErrors'
    BY <1>3 DEF ReplyInv, Accepted, CommandId
  <2>1. CASE a = Head(queue).from /\ result[a] = "none"
    BY <1>3, <1>9, <2>1
  <2>2. CASE a # Head(queue).from \/ result[a] # "none"
    <3>1. reply'[a] = reply[a]
      BY <1>3, <2>2
    <3>2. CASE reply[a] # "none"
      <4>1. CommandId(a, stage[a]) \in Commands
        BY <1>2, <3>2
      <4>. QED  BY ZenonT(40), <1>1, <1>3, <1>4, <3>1, <4>1 DEF ReplyInv, Accepted
    <3>. QED  BY <3>1, <3>2
  <2>. QED  BY <2>1, <2>2
<1>15. CommandInv'
  <2>1. ASSUME NEW a \in Attempts, Settled(a), Queued(<<a, "cleanup">>)' PROVE Settled(a)'
    <3>1. CommandId(a, "turn") \in Commands /\ CommandId(a, "turn")' = CommandId(a, "turn")
      BY DEF CommandId
    <3>2. CASE CommandId(a, "turn") \in storageErrors
      BY <1>3, <3>1, <3>2 DEF Settled
    <3>3. CASE outcome[CommandId(a, "turn")].status = "rejected"
      BY <1>4, <3>1, <3>3 DEF Settled
    <3>4. CASE outcome[CommandId(a, "turn")].status = "none" /\ ~Queued(CommandId(a, "turn"))
      <4>1. CommandId(a, "turn") # c
        BY <1>5, <3>4
      <4>2. outcome'[CommandId(a, "turn")] = outcome[CommandId(a, "turn")]
        BY <1>6, <3>1, <4>1
      <4>. QED  BY <1>5, <3>1, <3>4, <4>2 DEF Settled
    <3>. QED  BY <2>1, <3>2, <3>3, <3>4 DEF Settled
  <2>. QED  BY <1>1, <1>3, <1>4, <1>5, <2>1 DEF CommandInv
<1>16. QueueInv'
  <2>. SUFFICES ASSUME NEW i \in 1..Len(queue'), queue'[i].from \in Attempts,
                       stage[queue'[i].from] # "ended"
                PROVE  /\ stage[queue'[i].from] \in Dispatching /\ reply'[queue'[i].from] = "none"
                       /\ queue'[i].command = CommandId(queue'[i].from, stage[queue'[i].from])
                       /\ \A j \in 1..Len(queue') : queue'[j].from = queue'[i].from => j = i
    BY <1>3 DEF QueueInv, CommandId
  <2>1. i + 1 \in 1..Len(queue) /\ queue'[i] = queue[i + 1] /\ 1 \in 1..Len(queue) /\ i + 1 # 1
    BY <1>5
  <2>. DEFINE a == queue'[i].from
  <2>2. /\ a \in Attempts /\ stage[a] \in Dispatching /\ reply[a] = "none"
        /\ queue[i + 1].command = CommandId(a, stage[a])
        /\ \A j \in 1..Len(queue) : queue[j].from = a => j = i + 1
    BY <1>1, <2>1 DEF QueueInv
  <2>3. a # Head(queue).from
    BY <1>5, <2>1, <2>2
  <2>4. ASSUME NEW j \in 1..Len(queue'), queue'[j].from = a PROVE j = i
    <3>1. j + 1 \in 1..Len(queue) /\ queue[j + 1].from = a
      BY <1>5, <2>4
    <3>2. j + 1 = i + 1
      BY <2>2, <3>1
    <3>. QED  BY <1>5, <3>2
  <2>. QED  BY <1>3, <2>1, <2>2, <2>3, <2>4
<1>17. TurnByCreator'
  <2>. SUFFICES ASSUME NEW a \in Attempts, Request[a].createThread,
                       \/ Queued(CommandId(a, "turn"))'
                       \/ outcome'[CommandId(a, "turn")].status # "none"
                PROVE  \E b \in Attempts : /\ Request[b].message = Request[a].message
                                           /\ Logged(<<b, "create">>)'
                                           /\ stage[b] \in {"turn", "cleanup", "ended"}
    BY <1>3 DEF TurnByCreator, CommandId
  <2>1. Queued(CommandId(a, "turn"))' => Queued(CommandId(a, "turn"))
    BY <1>5 DEF CommandId
  <2>2. Queued(CommandId(a, "turn")) \/ outcome[CommandId(a, "turn")].status # "none"
    BY <1>5, <1>6, <2>1
  <2>3. \E b \in Attempts : /\ Request[b].message = Request[a].message
                            /\ Logged(<<b, "create">>)
                            /\ stage[b] \in {"turn", "cleanup", "ended"}
    BY <1>1, <2>2 DEF TurnByCreator
  <2>. QED  BY <1>4, <2>3
<1>18. FailedInv'
  BY ZenonT(40), <1>1, <1>3, <1>4, <1>6 DEF FailedInv
<1>19. CleansUpOnlyItsOwn'
  <2>. SUFFICES ASSUME NEW a \in Attempts, NEW i \in 1..Len(log'),
                       log'[i].command = CommandId(a, "cleanup")
                PROVE  /\ Before(i, CommandId(a, "create"))'
                       /\ CommandId(a, "turn") \in storageErrors' \/ ~Before(i, CommandId(a, "turn"))'
    BY <1>7 DEF CleansUpOnlyItsOwn, CommandId
  <2>1. CASE i \in 1..Len(log)
    <3>1. /\ Before(i, CommandId(a, "create"))
          /\ CommandId(a, "turn") \in storageErrors \/ ~Before(i, CommandId(a, "turn"))
      BY <1>1, <1>2, <1>6, <2>1 DEF CleansUpOnlyItsOwn
    <3>2. ASSUME NEW x PROVE Before(i, x)' <=> Before(i, x)
      <4>1. \A j \in 1..(i - 1) : j \in 1..Len(log)
        BY <1>2, <2>1
      <4>. QED  BY <1>6, <4>1 DEF Before
    <3>. QED  BY <1>3, <3>1, <3>2 DEF CommandId
  <2>2. CASE i \notin 1..Len(log)
    <3>1. c = <<a, "cleanup">> /\ outcome[c].status = "none" /\ Len(log) < i
      BY <1>6, <2>2
    <3>2. Logged(<<a, "create">>) /\ Settled(a)
      BY <1>1, <1>5, <3>1 DEF CommandInv
    <3>3. Before(i, <<a, "create">>)'
      <4>1. PICK j \in 1..Len(log) : log[j].command = <<a, "create">>
        BY <3>2 DEF Logged
      <4>2. j \in 1..(i - 1) /\ log'[j].command = <<a, "create">>
        BY <1>2, <1>6, <3>1, <4>1
      <4>. QED  BY <4>2 DEF Before
    <3>4. CASE CommandId(a, "turn") \notin storageErrors
      <4>1. CommandId(a, "turn") \in Commands /\ ~Logged(CommandId(a, "turn"))
        BY <1>1, <3>2, <3>4 DEF Settled, ReceiptInv, Accepted
      <4>2. ASSUME NEW j \in 1..(i - 1), log'[j].command = CommandId(a, "turn")
            PROVE  FALSE
        <5>1. j \in 1..Len(log')
          BY <1>6
        <5>2. CASE j \in 1..Len(log)
          BY <1>6, <4>1, <4>2, <5>2 DEF Logged
        <5>3. CASE j \notin 1..Len(log)
          BY <1>6, <3>1, <4>2, <5>1, <5>3
        <5>. QED  BY <5>2, <5>3
      <4>3. ~Before(i, CommandId(a, "turn"))'
        BY <4>2 DEF Before, CommandId
      <4>. QED  BY <3>3, <4>3 DEF CommandId
    <3>. QED  BY <1>3, <3>3, <3>4 DEF CommandId
  <2>. QED  BY <2>1, <2>2
<1>20. TurnFollowsPreparation'
  <2>. SUFFICES ASSUME NEW i \in 1..Len(log'), NEW m \in Attempts,
                       log'[i].command = <<m, "turn">>
                PROVE  \E a \in Attempts : Ready(a, m, i)'
    BY ZenonT(40), <1>7 DEF TurnFollowsPreparation, Ready
  <2>1. /\ \A a \in Attempts : /\ CommandId(a, "create") = <<a, "create">>
                               /\ CommandId(a, "update") = <<a, "update">>
                               /\ CommandId(a, "create")' = <<a, "create">>
                               /\ CommandId(a, "update")' = <<a, "update">>
    BY DEF CommandId
  \* What makes the attempt ready for the turn.
  <2>2. ASSUME NEW a \in Attempts, Request[a].message = m,
               Request[a].prepareWorktree => \E j \in 1..(i - 1) : log'[j].command = <<a, "update">>,
               Request[a].createThread =>
                  \E j \in 1..(i - 1) :
                     /\ log'[j].command = <<a, "create">>
                     /\ \A k \in 1..Len(log') : log'[k].command = <<a, "update">> => j < k
        PROVE  Ready(a, m, i)'
    BY ZenonT(40), <1>7, <2>1, <2>2 DEF Ready, Before
  <2>3. ASSUME NEW a \in Attempts, NEW j \in 1..Len(log),
               \A k \in 1..Len(log) : log[k].command = <<a, "update">> => j < k
        PROVE  \A k \in 1..Len(log') : log'[k].command = <<a, "update">> => j < k
    <3>1. ASSUME NEW k \in 1..Len(log'), k \notin 1..Len(log) PROVE j < k
      <4>1. Len(log) < k
        BY <1>6, <3>1
      <4>. QED  BY <1>2, <4>1
    <3>. QED  BY <1>6, <2>3, <3>1
  <2>4. CASE i \in 1..Len(log)
    <3>0. /\ \A j \in 1..(i - 1) : j \in 1..Len(log) /\ log'[j] = log[j]
          /\ log[i].command = <<m, "turn">>
      BY <1>2, <1>6, <2>4
    <3>1. PICK a \in Attempts : Ready(a, m, i)
      <4>1. TurnFollowsPreparation /\ i \in DOMAIN log
        BY <1>1, <1>2, <2>4
      <4>2. \E a \in Attempts : Ready(a, m, i)
        BY SMTT(30), <3>0, <4>1 DEF TurnFollowsPreparation, Ready
      <4>. QED  BY <4>2
    <3>2. /\ Request[a].message = m
          /\ Request[a].prepareWorktree => \E j \in 1..(i - 1) : log[j].command = <<a, "update">>
          /\ Request[a].createThread =>
                \E j \in 1..(i - 1) :
                   /\ log[j].command = <<a, "create">>
                   /\ \A k \in 1..Len(log) : log[k].command = <<a, "update">> => j < k
      <4>1. /\ CommandId(a, "create") = <<a, "create">> /\ CommandId(a, "update") = <<a, "update">>
            /\ DOMAIN log = 1..Len(log)
        BY <1>2, <2>1
      <4>2. /\ Request[a].message = m
            /\ Request[a].prepareWorktree => Before(i, <<a, "update">>)
        BY <3>1, <4>1 DEF Ready
      <4>3. Request[a].createThread =>
                \E j \in 1..(i - 1) :
                   /\ log[j].command = <<a, "create">>
                   /\ \A k \in 1..Len(log) : log[k].command = <<a, "update">> => j < k
        BY <3>1, <4>1, ZenonT(40) DEF Ready
      <4>. QED  BY <4>2, <4>3 DEF Before
    <3>3. Request[a].prepareWorktree => \E j \in 1..(i - 1) : log'[j].command = <<a, "update">>
      <4>1. ASSUME Request[a].prepareWorktree
            PROVE  \E j \in 1..(i - 1) : log'[j].command = <<a, "update">>
        <5>1. PICK j \in 1..(i - 1) : log[j].command = <<a, "update">>
          BY <3>2, <4>1
        <5>. QED  BY <3>0, <5>1
      <4>. QED  BY <4>1
    <3>4. ASSUME Request[a].createThread
          PROVE  \E j \in 1..(i - 1) :
                    /\ log'[j].command = <<a, "create">>
                    /\ \A k \in 1..Len(log') : log'[k].command = <<a, "update">> => j < k
      <4>1. PICK j \in 1..(i - 1) :
                    /\ log[j].command = <<a, "create">>
                    /\ \A k \in 1..Len(log) : log[k].command = <<a, "update">> => j < k
        BY <3>2, <3>4
      <4>2. j \in 1..Len(log) /\ log'[j].command = <<a, "create">>
        BY <3>0, <4>1
      <4>. QED  BY <2>3, <4>1, <4>2
    <3>. QED  BY <2>2, <3>2, <3>3, <3>4
  <2>5. CASE i \notin 1..Len(log)
    <3>0. /\ c = <<m, "turn">>
          /\ \A j \in 1..Len(log) : j \in 1..(i - 1) /\ log'[j] = log[j]
      <4>1. c = <<m, "turn">> /\ Len(log) < i /\ i \in Nat
        BY <1>6, <2>5
      <4>. QED  BY <1>2, <1>6, <4>1
    <3>1. PICK a \in Attempts : /\ Request[a].message = m
                                /\ Request[a].prepareWorktree => Logged(<<a, "update">>)
                                /\ Request[a].createThread => Logged(<<a, "create">>)
      BY <1>1, <1>5, <3>0 DEF CommandInv, Prepared
    <3>2. Request[a].prepareWorktree => \E j \in 1..(i - 1) : log'[j].command = <<a, "update">>
      BY <3>0, <3>1 DEF Logged
    <3>3. ASSUME Request[a].createThread
          PROVE  \E j \in 1..(i - 1) :
                    /\ log'[j].command = <<a, "create">>
                    /\ \A k \in 1..Len(log') : log'[k].command = <<a, "update">> => j < k
      <4>1. PICK j \in 1..Len(log) :
                    /\ log[j].command = <<a, "create">>
                    /\ \A k \in 1..Len(log) : log[k].command = <<a, "update">> => j < k
        <5>1. Logged(<<a, "create">>)
          BY <3>1, <3>3
        <5>2. CASE Logged(<<a, "update">>)
          BY <1>1, <3>3, <5>2 DEF CreatedThenUpdated
        <5>3. CASE ~Logged(<<a, "update">>)
          BY <5>1, <5>3 DEF Logged
        <5>. QED  BY <5>2, <5>3
      <4>2. j \in 1..(i - 1) /\ log'[j].command = <<a, "create">>
        BY <3>0, <4>1
      <4>. QED  BY <2>3, <4>1, <4>2
    <3>. QED  BY <2>2, <3>1, <3>2, <3>3
  <2>. QED  BY <2>4, <2>5
<1>. QED
  BY <1>10, <1>11, <1>12, <1>13, <1>14, <1>15, <1>16, <1>17, <1>18, <1>19, <1>20
  DEF BootstrapInv

-----------------------------------------------------------------------------
(* A step of an attempt. *)

\* A step of attempt a: only its own answer and what it knows to have created.
Steps(a) ==
    /\ stage[a] # "ended"
    /\ log' = log /\ outcome' = outcome /\ storageErrors' = storageErrors
    /\ reply' \in [Attempts -> {"none", "ok", "error"}] /\ reply'[a] = "none"
    /\ created' \in [Attempts -> BOOLEAN]
    /\ created[a] => created'[a]
    /\ created'[a] => Request[a].createThread /\ Logged(<<a, "create">>)
    /\ \A b \in Attempts : b # a => reply'[b] = reply[b] /\ created'[b] = created[b]

\* What holds when an attempt goes on with stage s.
MayEnter(a, s) ==
    /\ s \in Dispatching \cup {"worktree", "setup"}
    /\ \A i \in 1..Len(queue) : queue[i].from # a
    /\ s = "create" => Request[a].createThread
    /\ Request[a].createThread /\ s # "create" => created'[a]
    /\ Request[a].prepareWorktree /\ s \in {"setup", "requested", "started", "failed", "turn"} =>
          Logged(<<a, "update">>)
    /\ s = "cleanup" => created'[a] /\ Settled(a)
    /\ stage[a] # "cleanup" /\ (stage[a] = "turn" => s = "cleanup")

\* What a failure may be due to.
MayFail(a) ==
    \/ ~Request[a].createThread
    \/ outcome[<<a, "create">>].status = "rejected"
    \/ {<<a, "create">>, <<a, "cleanup">>} \cap storageErrors # {}
    \/ Engine!ThreadDeleted(log, thread)

\* An attempt that waits for nothing has nothing in the queue.
LEMMA Idle ==
    ASSUME BootstrapInv, NEW a \in Attempts, stage[a] # "ended",
           reply[a] # "none" \/ stage[a] \notin Dispatching
    PROVE  \A i \in 1..Len(queue) : queue[i].from # a
BY DEF BootstrapInv, QueueInv

LEMMA Enqueued ==
    ASSUME queue \in Seq(Dispatch), NEW a \in Attempts \cup {user}, NEW c \in Commands,
           queue' = Append(queue, [from |-> a, command |-> c])
    PROVE  /\ queue' \in Seq(Dispatch) /\ Len(queue) \in Nat /\ Len(queue') = Len(queue) + 1
           /\ \A i \in 1..Len(queue) : i \in 1..Len(queue') /\ queue'[i] = queue[i]
           /\ \A i \in 1..Len(queue') : i \notin 1..Len(queue) =>
                 i = Len(queue) + 1 /\ queue'[i].from = a /\ queue'[i].command = c
           /\ \A x : Queued(x)' <=> Queued(x) \/ x = c
<1>1. [from |-> a, command |-> c] \in Dispatch
  BY DEF Dispatch
<1>2. Len(queue) \in Nat
  BY LenProperties
<1>3. /\ queue' \in Seq(Dispatch) /\ Len(queue') = Len(queue) + 1
      /\ \A i \in 1..Len(queue) : queue'[i] = queue[i]
      /\ queue'[Len(queue) + 1] = [from |-> a, command |-> c]
  BY <1>1, AppendProperties
<1>4. \A i \in 1..Len(queue) : i \in 1..Len(queue')
  BY <1>2, <1>3
<1>5. ASSUME NEW i \in 1..Len(queue'), i \notin 1..Len(queue)
      PROVE  i = Len(queue) + 1 /\ queue'[i].from = a /\ queue'[i].command = c
  <2>1. i = Len(queue) + 1
    BY <1>2, <1>3, <1>5
  <2>. QED  BY <1>3, <2>1
<1>6. Len(queue) + 1 \in 1..Len(queue') /\ queue'[Len(queue) + 1].command = c
  BY <1>2, <1>3
<1>7. ASSUME NEW x PROVE Queued(x)' <=> Queued(x) \/ x = c
  BY <1>3, <1>4, <1>5, <1>6 DEF Queued
<1>. QED  BY <1>2, <1>3, <1>4, <1>5, <1>7

LEMMA LogUnchanged ==
    ASSUME BootstrapInv, log' = log, outcome' = outcome, storageErrors' = storageErrors
    PROVE  /\ Engine!TypeOK' /\ ReceiptInv' /\ CreatedThenUpdated'
           /\ CleansUpOnlyItsOwn' /\ TurnFollowsPreparation'
           /\ \A x : (Logged(x)' <=> Logged(x)) /\ (Accepted(x)' <=> Accepted(x))
           /\ \A m : Prepared(m)' <=> Prepared(m)
           /\ \A a, s : CommandId(a, s)' = CommandId(a, s)
<1>1. /\ BootstrapTypeOK /\ ReceiptInv /\ CreatedThenUpdated
      /\ CleansUpOnlyItsOwn /\ TurnFollowsPreparation
  BY DEF BootstrapInv
<1>2. \A x : (Logged(x)' <=> Logged(x)) /\ (Accepted(x)' <=> Accepted(x))
  BY DEF Logged, Accepted
<1>3. \A m : Prepared(m)' <=> Prepared(m)
  BY <1>2 DEF Prepared
<1>4. \A a, s : CommandId(a, s)' = CommandId(a, s)
  BY DEF CommandId
<1>5. Engine!TypeOK'
  BY <1>1 DEF BootstrapTypeOK, Engine!TypeOK
<1>6. ReceiptInv'
  BY <1>1, <1>2 DEF ReceiptInv
<1>7. CreatedThenUpdated'
  BY <1>1, <1>2 DEF CreatedThenUpdated
<1>8. \A i, x : Before(i, x)' <=> Before(i, x)
  BY DEF Before
<1>9. CleansUpOnlyItsOwn'
  BY <1>1, <1>4, <1>8 DEF CleansUpOnlyItsOwn
<1>10. \A a, m, i : Ready(a, m, i)' <=> Ready(a, m, i)
  BY <1>4, <1>8 DEF Ready
<1>11. TurnFollowsPreparation'
  <2>1. \A i \in DOMAIN log, m \in Attempts : log[i].command = <<m, "turn">> =>
            \E a \in Attempts : Ready(a, m, i)
    BY <1>1 DEF TurnFollowsPreparation, Ready
  <2>2. \A i \in DOMAIN log', m \in Attempts : log'[i].command = <<m, "turn">> =>
            \E a \in Attempts : Ready(a, m, i)'
    BY <1>10, <2>1
  <2>. QED  BY <2>2 DEF TurnFollowsPreparation, Ready
<1>. QED  BY <1>2, <1>3, <1>4, <1>5, <1>6, <1>7, <1>9, <1>11

\* An attempt that goes on with a stage it may enter.
LEMMA EntersInv ==
    ASSUME BootstrapInv, NEW a \in Attempts, NEW s, Steps(a), MayEnter(a, s), Enter(a, s)
    PROVE  BootstrapInv'
<1>. USE RequestFacts, CommandNames, DispatchingStages
<1>1. /\ ReceiptInv /\ StageInv /\ ReplyInv /\ CommandInv /\ QueueInv
      /\ TurnByCreator /\ FailedInv
  BY DEF BootstrapInv
<1>2. /\ queue \in Seq(Dispatch) /\ Len(queue) \in Nat
      /\ stage \in [Attempts -> Dispatching \cup {"new", "worktree", "setup", "ended"}]
      /\ result \in [Attempts -> {"none", "accepted", "failed", "interrupted"}]
      /\ storageErrors \subseteq Commands
      /\ \A b \in Attempts : /\ reply[b] # "none" => stage[b] \in Dispatching
                             /\ result[b] # "none" <=> stage[b] = "ended"
  BY BootstrapVariables
<1>3. /\ Engine!TypeOK' /\ ReceiptInv' /\ CreatedThenUpdated'
      /\ CleansUpOnlyItsOwn' /\ TurnFollowsPreparation'
      /\ \A x : (Logged(x)' <=> Logged(x)) /\ (Accepted(x)' <=> Accepted(x))
      /\ \A m : Prepared(m)' <=> Prepared(m)
      /\ \A b, t : CommandId(b, t)' = CommandId(b, t)
  BY LogUnchanged DEF Steps
<1>4. /\ stage[a] # "ended" /\ \A i \in 1..Len(queue) : queue[i].from # a
      /\ log' = log /\ outcome' = outcome /\ storageErrors' = storageErrors
      /\ reply' \in [Attempts -> {"none", "ok", "error"}] /\ reply'[a] = "none"
      /\ created' \in [Attempts -> BOOLEAN]
      /\ created[a] => created'[a]
      /\ created'[a] => Request[a].createThread /\ Logged(<<a, "create">>)
      /\ \A b \in Attempts : b # a => reply'[b] = reply[b] /\ created'[b] = created[b]
  BY DEF Steps, MayEnter
<1>5. /\ s \in Dispatching \cup {"worktree", "setup"}
      /\ s = "create" => Request[a].createThread
      /\ Request[a].createThread /\ s # "create" => created'[a]
      /\ Request[a].prepareWorktree /\ s \in {"setup", "requested", "started", "failed", "turn"} =>
            Logged(<<a, "update">>)
      /\ s = "cleanup" => created'[a] /\ Settled(a)
      /\ stage[a] # "cleanup" /\ (stage[a] = "turn" => s = "cleanup")
  BY DEF MayEnter
<1>6. /\ result' = result /\ stage' \in [Attempts -> Dispatching \cup {"new", "worktree", "setup", "ended"}]
      /\ stage'[a] = s /\ \A b \in Attempts : b # a => stage'[b] = stage[b]
  BY <1>2, <1>5 DEF Enter
<1>7. /\ queue' \in Seq(Dispatch)
      /\ \A i \in 1..Len(queue) : i \in 1..Len(queue') /\ queue'[i] = queue[i]
      /\ \A i \in 1..Len(queue') : i \notin 1..Len(queue) =>
            /\ s \in Dispatching /\ i = Len(queue) + 1
            /\ queue'[i].from = a /\ queue'[i].command = CommandId(a, s)
      /\ \A x : Queued(x)' <=> Queued(x) \/ (s \in Dispatching /\ x = CommandId(a, s))
  <2>1. CASE s \in Dispatching
    <3>1. queue' = Append(queue, [from |-> a, command |-> CommandId(a, s)])
      BY <2>1 DEF Enter
    <3>2. CommandId(a, s) \in Commands
      BY <2>1
    <3>. QED  BY <1>2, <2>1, <3>1, <3>2, Enqueued
  <2>2. CASE s \notin Dispatching
    <3>1. queue' = queue
      BY <2>2 DEF Enter
    <3>. QED  BY <1>2, <2>2, <3>1 DEF Queued
  <2>. QED  BY <2>1, <2>2
<1>8. BootstrapTypeOK'
  <2>1. \A b \in Attempts : /\ reply'[b] # "none" => stage'[b] \in Dispatching
                            /\ result'[b] # "none" <=> stage'[b] = "ended"
    BY <1>2, <1>4, <1>5, <1>6
  <2>. QED  BY <1>2, <1>3, <1>4, <1>6, <1>7, <2>1 DEF BootstrapTypeOK
<1>9. StageInv'
  <2>. SUFFICES ASSUME NEW b \in Attempts
                PROVE  /\ stage'[b] = "create" => Request[b].createThread
                       /\ created'[b] => Request[b].createThread /\ Logged(<<b, "create">>)
                       /\ Request[b].createThread /\ stage'[b] \notin {"new", "create", "ended"} =>
                             created'[b]
                       /\ Request[b].prepareWorktree
                          /\ stage'[b] \in {"setup", "requested", "started", "failed", "turn"} =>
                             Logged(<<b, "update">>)
                       /\ stage'[b] = "cleanup" => created'[b]
    BY <1>3 DEF StageInv
  <2>1. CASE b = a
    BY <1>4, <1>5, <1>6, <2>1
  <2>2. CASE b # a
    BY <1>1, <1>4, <1>6, <2>2 DEF StageInv
  <2>. QED  BY <2>1, <2>2
<1>10. ReplyInv'
  <2>. SUFFICES ASSUME NEW b \in Attempts
                PROVE  /\ reply'[b] = "ok" => Accepted(CommandId(b, stage'[b]))
                       /\ reply'[b] = "error" =>
                             \/ outcome[CommandId(b, stage'[b])].status = "rejected"
                             \/ CommandId(b, stage'[b]) \in storageErrors
    BY <1>4 DEF ReplyInv, Accepted, CommandId
  <2>1. CASE b = a
    BY <1>4, <2>1
  <2>2. CASE b # a
    BY <1>1, <1>4, <1>6, <2>2 DEF ReplyInv
  <2>. QED  BY <2>1, <2>2
\* The attempt that starts the turn is the only one that has created the thread.
<1>11. ASSUME NEW b \in Attempts, Logged(<<b, "create">>), s = "turn",
              CommandId(a, "turn") = CommandId(b, "turn")
       PROVE  b = a
  <2>1. Request[a].message = Request[b].message
    BY <1>11
  <2>2. Accepted(<<b, "create">>)
    BY <1>1, <1>11 DEF ReceiptInv
  <2>3. Request[a].createThread
    BY <1>1, <2>1, <2>2 DEF ReceiptInv
  <2>4. Accepted(<<a, "create">>)
    BY <1>1, <1>4, <1>5, <1>11, <2>3 DEF ReceiptInv
  <2>. QED  BY <1>1, <2>2, <2>4 DEF ReceiptInv
<1>12. CommandInv'
  <2>1. ASSUME NEW b \in Attempts, Queued(<<b, "create">>)' PROVE Request[b].createThread
    <3>1. CASE Queued(<<b, "create">>)
      BY <1>1, <3>1 DEF CommandInv
    <3>2. CASE s \in Dispatching /\ <<b, "create">> = CommandId(a, s)
      <4>1. s = "create" /\ b = a
        BY <3>2 DEF CommandId
      <4>. QED  BY <1>5, <4>1
    <3>. QED  BY <1>7, <2>1, <3>1, <3>2
  <2>2. ASSUME NEW b \in Attempts, Queued(<<b, "update">>)', Request[b].createThread
        PROVE  Logged(<<b, "create">>)
    <3>1. CASE Queued(<<b, "update">>)
      BY <1>1, <2>2, <3>1 DEF CommandInv
    <3>2. CASE s \in Dispatching /\ <<b, "update">> = CommandId(a, s)
      <4>1. s = "update" /\ b = a
        BY <3>2 DEF CommandId
      <4>. QED  BY <1>4, <1>5, <2>2, <4>1
    <3>. QED  BY <1>7, <2>2, <3>1, <3>2
  <2>3. ASSUME NEW b \in Attempts, Queued(<<b, "turn">>)' PROVE Prepared(b)
    <3>1. CASE Queued(<<b, "turn">>)
      BY <1>1, <3>1 DEF CommandInv
    <3>2. CASE s \in Dispatching /\ <<b, "turn">> = CommandId(a, s)
      <4>1. s = "turn" /\ Request[a].message = b
        BY <3>2 DEF CommandId
      <4>2. /\ Request[a].prepareWorktree => Logged(<<a, "update">>)
            /\ Request[a].createThread => Logged(<<a, "create">>)
        BY <1>4, <1>5, <4>1
      <4>. QED  BY <4>1, <4>2 DEF Prepared
    <3>. QED  BY <1>7, <2>3, <3>1, <3>2
  <2>4. ASSUME NEW b \in Attempts, Queued(<<b, "cleanup">>)'
        PROVE  /\ stage'[b] \in {"cleanup", "ended"}
               /\ Logged(<<b, "create">>) /\ Settled(b)'
    <3>1. /\ stage'[b] \in {"cleanup", "ended"} /\ Logged(<<b, "create">>) /\ Settled(b)
          /\ s = "turn" => b # a
      <4>1. CASE Queued(<<b, "cleanup">>)
        <5>1. stage[b] \in {"cleanup", "ended"} /\ Logged(<<b, "create">>) /\ Settled(b)
          BY <1>1, <4>1 DEF CommandInv
        <5>2. b # a
          BY <1>4, <1>5, <5>1
        <5>. QED  BY <1>6, <5>1, <5>2
      <4>2. CASE s \in Dispatching /\ <<b, "cleanup">> = CommandId(a, s)
        <5>1. s = "cleanup" /\ b = a
          BY <4>2 DEF CommandId
        <5>. QED  BY <1>4, <1>5, <1>6, <5>1
      <4>. QED  BY <1>7, <2>4, <4>1, <4>2
    <3>2. Settled(b)'
      <4>1. ASSUME ~Queued(CommandId(b, "turn")), Queued(CommandId(b, "turn"))'
            PROVE  FALSE
        <5>1. s \in Dispatching /\ CommandId(b, "turn") = CommandId(a, s)
          BY <1>3, <1>7, <4>1
        <5>2. s = "turn"
          BY <5>1 DEF CommandId
        <5>. QED  BY <1>11, <3>1, <5>1, <5>2
      <4>. QED  BY <1>3, <1>4, <3>1, <4>1 DEF Settled
    <3>. QED  BY <3>1, <3>2
  <2>. QED  BY <1>3, <2>1, <2>2, <2>3, <2>4 DEF CommandInv
<1>13. QueueInv'
  <2>. SUFFICES ASSUME NEW i \in 1..Len(queue'), queue'[i].from \in Attempts,
                       stage'[queue'[i].from] # "ended"
                PROVE  /\ stage'[queue'[i].from] \in Dispatching /\ reply'[queue'[i].from] = "none"
                       /\ queue'[i].command = CommandId(queue'[i].from, stage'[queue'[i].from])
                       /\ \A j \in 1..Len(queue') : queue'[j].from = queue'[i].from => j = i
    BY DEF QueueInv, CommandId
  <2>1. CASE i \in 1..Len(queue)
    <3>. DEFINE b == queue[i].from
    <3>1. queue'[i] = queue[i] /\ b # a /\ b \in Attempts
      BY <1>4, <1>7, <2>1
    <3>2. /\ stage[b] \in Dispatching /\ reply[b] = "none" /\ queue[i].command = CommandId(b, stage[b])
          /\ \A j \in 1..Len(queue) : queue[j].from = b => j = i
      BY <1>1, <1>6, <2>1, <3>1 DEF QueueInv
    <3>3. ASSUME NEW j \in 1..Len(queue'), queue'[j].from = b PROVE j = i
      BY <1>7, <3>1, <3>2, <3>3
    <3>. QED  BY <1>4, <1>6, <3>1, <3>2, <3>3
  <2>2. CASE i \notin 1..Len(queue)
    <3>1. s \in Dispatching /\ i = Len(queue) + 1 /\ queue'[i].from = a
          /\ queue'[i].command = CommandId(a, s)
      BY <1>7, <2>2
    <3>2. ASSUME NEW j \in 1..Len(queue'), queue'[j].from = a PROVE j = i
      BY <1>4, <1>7, <3>1, <3>2
    <3>. QED  BY <1>4, <1>6, <3>1, <3>2
  <2>. QED  BY <2>1, <2>2
<1>14. TurnByCreator'
  <2>. SUFFICES ASSUME NEW b \in Attempts, Request[b].createThread,
                       \/ Queued(CommandId(b, "turn"))'
                       \/ outcome[CommandId(b, "turn")].status # "none"
                PROVE  \E d \in Attempts : /\ Request[d].message = Request[b].message
                                           /\ Logged(<<d, "create">>)
                                           /\ stage'[d] \in {"turn", "cleanup", "ended"}
    BY <1>3, <1>4 DEF TurnByCreator, CommandId
  <2>1. CASE Queued(CommandId(b, "turn")) \/ outcome[CommandId(b, "turn")].status # "none"
    <3>1. PICK d \in Attempts : /\ Request[d].message = Request[b].message
                                /\ Logged(<<d, "create">>)
                                /\ stage[d] \in {"turn", "cleanup", "ended"}
      BY <1>1, <2>1 DEF TurnByCreator
    <3>2. stage'[d] \in {"turn", "cleanup", "ended"}
      BY <1>4, <1>5, <1>6, <3>1
    <3>. QED  BY <3>1, <3>2
  <2>2. CASE s \in Dispatching /\ CommandId(b, "turn") = CommandId(a, s)
    <3>1. s = "turn" /\ Request[a].message = Request[b].message
      BY <2>2 DEF CommandId
    <3>2. Request[a].createThread
      BY <3>1
    <3>3. Logged(<<a, "create">>) /\ stage'[a] = "turn"
      BY <1>4, <1>5, <1>6, <3>1, <3>2
    <3>. QED  BY <3>1, <3>3
  <2>. QED  BY <1>3, <1>7, <2>1, <2>2
<1>15. FailedInv'
  BY <1>1, <1>4, <1>6 DEF FailedInv
<1>. QED
  BY <1>3, <1>8, <1>9, <1>10, <1>12, <1>13, <1>14, <1>15 DEF BootstrapInv

\* An attempt that ends, having told its client why.
LEMMA EndsInv ==
    ASSUME BootstrapInv, NEW a \in Attempts, NEW r, Steps(a), End(a, r),
           r \in {"accepted", "failed", "interrupted"}, r = "failed" => MayFail(a)
    PROVE  BootstrapInv'
<1>. USE RequestFacts, CommandNames, DispatchingStages
<1>1. /\ ReceiptInv /\ StageInv /\ ReplyInv /\ CommandInv /\ QueueInv
      /\ TurnByCreator /\ FailedInv
  BY DEF BootstrapInv
<1>2. /\ queue \in Seq(Dispatch) /\ Len(queue) \in Nat
      /\ stage \in [Attempts -> Dispatching \cup {"new", "worktree", "setup", "ended"}]
      /\ result \in [Attempts -> {"none", "accepted", "failed", "interrupted"}]
      /\ storageErrors \subseteq Commands
      /\ \A b \in Attempts : /\ reply[b] # "none" => stage[b] \in Dispatching
                             /\ result[b] # "none" <=> stage[b] = "ended"
  BY BootstrapVariables
<1>3. /\ Engine!TypeOK' /\ ReceiptInv' /\ CreatedThenUpdated'
      /\ CleansUpOnlyItsOwn' /\ TurnFollowsPreparation'
      /\ \A x : (Logged(x)' <=> Logged(x)) /\ (Accepted(x)' <=> Accepted(x))
      /\ \A m : Prepared(m)' <=> Prepared(m)
      /\ \A b, t : CommandId(b, t)' = CommandId(b, t)
  BY LogUnchanged DEF Steps
<1>4. /\ log' = log /\ outcome' = outcome /\ storageErrors' = storageErrors
      /\ reply' \in [Attempts -> {"none", "ok", "error"}] /\ reply'[a] = "none"
      /\ created' \in [Attempts -> BOOLEAN]
      /\ created'[a] => Request[a].createThread /\ Logged(<<a, "create">>)
      /\ \A b \in Attempts : b # a => reply'[b] = reply[b] /\ created'[b] = created[b]
  BY DEF Steps
<1>5. /\ queue' = queue
      /\ stage' \in [Attempts -> Dispatching \cup {"new", "worktree", "setup", "ended"}]
      /\ stage'[a] = "ended" /\ \A b \in Attempts : b # a => stage'[b] = stage[b]
      /\ result' \in [Attempts -> {"none", "accepted", "failed", "interrupted"}]
      /\ result'[a] = r /\ \A b \in Attempts : b # a => result'[b] = result[b]
  BY <1>2 DEF End
<1>6. \A x : Queued(x)' <=> Queued(x)
  BY <1>5 DEF Queued
<1>7. BootstrapTypeOK'
  <2>1. \A b \in Attempts : /\ reply'[b] # "none" => stage'[b] \in Dispatching
                            /\ result'[b] # "none" <=> stage'[b] = "ended"
    BY <1>2, <1>4, <1>5
  <2>. QED  BY <1>2, <1>3, <1>4, <1>5, <2>1 DEF BootstrapTypeOK
<1>8. StageInv'
  BY ZenonT(40), <1>1, <1>3, <1>4, <1>5 DEF StageInv
<1>9. ReplyInv'
  <2>. SUFFICES ASSUME NEW b \in Attempts
                PROVE  /\ reply'[b] = "ok" => Accepted(CommandId(b, stage'[b]))
                       /\ reply'[b] = "error" =>
                             \/ outcome[CommandId(b, stage'[b])].status = "rejected"
                             \/ CommandId(b, stage'[b]) \in storageErrors
    BY <1>4 DEF ReplyInv, Accepted, CommandId
  <2>1. CASE b = a
    BY <1>4, <2>1
  <2>2. CASE b # a
    BY <1>1, <1>4, <1>5, <2>2 DEF ReplyInv
  <2>. QED  BY <2>1, <2>2
<1>10. CommandInv'
  <2>1. ASSUME NEW b \in Attempts PROVE Settled(b)' <=> Settled(b)
    BY <1>3, <1>4, <1>6 DEF Settled
  <2>2. ASSUME NEW b \in Attempts, stage[b] \in {"cleanup", "ended"}
        PROVE  stage'[b] \in {"cleanup", "ended"}
    BY <1>5, <2>2
  <2>. QED  BY <1>1, <1>3, <1>6, <2>1, <2>2 DEF CommandInv
<1>11. QueueInv'
  <2>. SUFFICES ASSUME NEW i \in 1..Len(queue), queue[i].from \in Attempts,
                       stage'[queue[i].from] # "ended"
                PROVE  /\ stage'[queue[i].from] \in Dispatching /\ reply'[queue[i].from] = "none"
                       /\ queue[i].command = CommandId(queue[i].from, stage'[queue[i].from])
                       /\ \A j \in 1..Len(queue) : queue[j].from = queue[i].from => j = i
    BY <1>5 DEF QueueInv, CommandId
  <2>. DEFINE b == queue[i].from
  <2>1. b # a /\ b \in Attempts /\ stage[b] # "ended"
    BY <1>5
  <2>2. /\ stage[b] \in Dispatching /\ reply[b] = "none" /\ queue[i].command = CommandId(b, stage[b])
        /\ \A j \in 1..Len(queue) : queue[j].from = b => j = i
    BY <1>1, <2>1 DEF QueueInv
  <2>. QED  BY <1>4, <1>5, <2>1, <2>2
<1>12. TurnByCreator'
  <2>1. ASSUME NEW b \in Attempts, stage[b] \in {"turn", "cleanup", "ended"}
        PROVE  stage'[b] \in {"turn", "cleanup", "ended"}
    BY <1>5, <2>1
  <2>. QED  BY <1>1, <1>3, <1>4, <1>6, <2>1 DEF TurnByCreator
<1>13. FailedInv'
  BY <1>1, <1>4, <1>5 DEF FailedInv, MayFail
<1>. QED
  BY <1>3, <1>7, <1>8, <1>9, <1>10, <1>11, <1>12, <1>13 DEF BootstrapInv

LEMMA StepIs ==
    ASSUME BootstrapInv, NEW a \in Attempts, stage[a] # "ended",
           UNCHANGED <<log, outcome, created, storageErrors>>,
           \/ reply' = [reply EXCEPT ![a] = "none"]
           \/ reply' = reply /\ stage[a] \notin Dispatching
    PROVE  Steps(a)
<1>1. /\ reply \in [Attempts -> {"none", "ok", "error"}] /\ created \in [Attempts -> BOOLEAN]
      /\ reply[a] # "none" => stage[a] \in Dispatching
  BY BootstrapVariables
<1>2. created[a] => Request[a].createThread /\ Logged(<<a, "create">>)
  BY DEF BootstrapInv, StageInv
<1>. QED  BY <1>1, <1>2 DEF Steps

\* A failed attempt whose clean-up is due has not started the turn.
LEMMA AbortInv ==
    ASSUME BootstrapInv, NEW a \in Attempts, Steps(a), created' = created, Abort(a),
           stage[a] \in {"create", "worktree", "update", "turn"},
           reply[a] = "error" \/ stage[a] = "worktree"
    PROVE  BootstrapInv'
<1>. USE RequestFacts, CommandNames, DispatchingStages
<1>1. StageInv /\ ReplyInv /\ TurnByCreator /\ ReceiptInv /\ BootstrapTypeOK
  BY DEF BootstrapInv
<1>2. \A i \in 1..Len(queue) : queue[i].from # a
  BY Idle
<1>3. stage[a] # "worktree" =>
          \/ outcome[CommandId(a, stage[a])].status = "rejected"
          \/ CommandId(a, stage[a]) \in storageErrors
  BY <1>1 DEF ReplyInv
<1>4. CASE created[a]
  <2>1. Request[a].createThread /\ Logged(<<a, "create">>)
    BY <1>1, <1>4 DEF StageInv
  <2>2. Settled(a)
    <3>1. CASE stage[a] = "turn"
      BY <1>3, <3>1 DEF Settled
    <3>2. CASE stage[a] # "turn"
      <4>1. ASSUME Queued(CommandId(a, "turn")) \/ outcome[CommandId(a, "turn")].status # "none"
            PROVE  FALSE
        <5>1. PICK b \in Attempts : /\ Logged(<<b, "create">>)
                                    /\ stage[b] \in {"turn", "cleanup", "ended"}
          BY <1>1, <2>1, <4>1 DEF TurnByCreator
        <5>2. b = a
          BY <1>1, <2>1, <5>1 DEF ReceiptInv
        <5>. QED  BY <3>2, <5>1, <5>2
      <4>. QED  BY <4>1 DEF Settled
    <3>. QED  BY <3>1, <3>2
  <2>3. Enter(a, "cleanup")
    BY <1>4 DEF Abort
  <2>4. MayEnter(a, "cleanup")
    BY <1>2, <1>4, <2>2 DEF MayEnter
  <2>. QED  BY <2>3, <2>4, EntersInv
<1>5. CASE ~created[a]
  <2>1. MayFail(a)
    <3>1. CASE stage[a] = "create"
      BY SMTT(30), <1>3, <3>1 DEF MayFail
    <3>2. CASE stage[a] # "create"
      BY <1>1, <1>5, <3>2 DEF StageInv, MayFail
    <3>. QED  BY <3>1, <3>2
  <2>2. End(a, "failed")
    BY <1>5 DEF Abort
  <2>. QED  BY <2>1, <2>2, EndsInv
<1>. QED  BY <1>4, <1>5

LEMMA Routes ==
    ASSUME NEW a \in Attempts
    PROVE  /\ FromSetup(a) \in {"setup", "turn"}
           /\ Request[a].prepareWorktree => FromWorktree(a) = "worktree"
           /\ ~Request[a].prepareWorktree => FromWorktree(a) \in {"setup", "turn"}
           /\ Request[a].createThread => FromCreate(a) = "create"
           /\ ~Request[a].createThread => FromCreate(a) = FromWorktree(a)
BY RequestFacts DEF FromSetup, FromWorktree, FromCreate

LEMMA BeginInv ==
    ASSUME BootstrapInv, NEW a \in Attempts, Begin(a)
    PROVE  BootstrapInv'
<1>. USE RequestFacts, DispatchingStages
<1>1. stage[a] = "new" /\ Enter(a, FromCreate(a))
      /\ UNCHANGED <<log, outcome, reply, created, storageErrors>>
  BY DEF Begin
<1>2. Steps(a)
  BY <1>1, StepIs
<1>3. \A i \in 1..Len(queue) : queue[i].from # a
  BY <1>1, Idle
<1>4. MayEnter(a, FromCreate(a))
  <2>1. CASE Request[a].createThread
    BY <1>1, <1>3, <2>1, Routes DEF MayEnter
  <2>2. CASE ~Request[a].createThread
    <3>1. CASE Request[a].prepareWorktree
      BY <1>1, <1>3, <2>2, <3>1, Routes DEF MayEnter
    <3>2. CASE ~Request[a].prepareWorktree
      BY <1>1, <1>3, <2>2, <3>2, Routes DEF MayEnter
    <3>. QED  BY <3>1, <3>2
  <2>. QED  BY <2>1, <2>2
<1>. QED  BY <1>1, <1>2, <1>4, EntersInv

LEMMA DispatchedInv ==
    ASSUME BootstrapInv, NEW a \in Attempts, Dispatched(a)
    PROVE  BootstrapInv'
<1>. USE RequestFacts, CommandNames, DispatchingStages
<1>1. StageInv /\ ReplyInv /\ ReceiptInv
  BY DEF BootstrapInv
<1>2. /\ reply[a] = "ok" /\ reply' = [reply EXCEPT ![a] = "none"]
      /\ created' = [created EXCEPT ![a] = @ \/ stage[a] = "create"]
      /\ UNCHANGED <<log, outcome, storageErrors>>
  BY DEF Dispatched, Remember
<1>3. /\ reply \in [Attempts -> {"none", "ok", "error"}] /\ created \in [Attempts -> BOOLEAN]
      /\ stage[a] \in Dispatching
  BY <1>2, BootstrapVariables
<1>4. Accepted(CommandId(a, stage[a])) /\ CommandId(a, stage[a]) \in Commands
  BY <1>1, <1>2, <1>3 DEF ReplyInv
<1>5. Logged(CommandId(a, stage[a]))
  BY <1>1, <1>4 DEF ReceiptInv
<1>6. Steps(a)
  <2>1. created'[a] => Request[a].createThread /\ Logged(<<a, "create">>)
    <3>1. CASE stage[a] = "create"
      BY <1>1, <1>5, <3>1 DEF StageInv
    <3>2. CASE stage[a] # "create"
      BY <1>1, <1>2, <1>3, <3>2 DEF StageInv
    <3>. QED  BY <3>1, <3>2
  <2>. QED  BY <1>2, <1>3, <2>1 DEF Steps
<1>7. \A i \in 1..Len(queue) : queue[i].from # a
  BY <1>2, <1>3, Idle
<1>8. created[a] => created'[a]
  BY <1>2, <1>3
<1>9. CASE stage[a] = "create"
  <2>1. Enter(a, FromWorktree(a))
    BY <1>9 DEF Dispatched
  <2>2. created'[a]
    BY <1>2, <1>3, <1>9
  <2>3. MayEnter(a, FromWorktree(a))
    <3>1. CASE Request[a].prepareWorktree
      BY <1>7, <1>9, <2>2, <3>1, Routes DEF MayEnter
    <3>2. CASE ~Request[a].prepareWorktree
      BY <1>7, <1>9, <2>2, <3>2, Routes DEF MayEnter
    <3>. QED  BY <3>1, <3>2
  <2>. QED  BY <1>6, <2>1, <2>3, EntersInv
<1>10. CASE stage[a] = "update"
  <2>1. Enter(a, FromSetup(a)) /\ FromSetup(a) \in {"setup", "turn"}
    BY <1>10, Routes DEF Dispatched
  <2>2. Logged(<<a, "update">>) /\ (Request[a].createThread => created'[a])
    <3>1. CommandId(a, stage[a]) = <<a, "update">>
      BY <1>10
    <3>2. Logged(<<a, "update">>)
      BY <1>5, <3>1
    <3>. QED  BY <1>1, <1>8, <1>10, <3>2 DEF StageInv
  <2>3. MayEnter(a, FromSetup(a))
    BY <1>7, <1>10, <2>1, <2>2 DEF MayEnter
  <2>. QED  BY <1>6, <2>1, <2>3, EntersInv
<1>11. CASE stage[a] = "requested"
  <2>1. Enter(a, "started")
    BY <1>11 DEF Dispatched
  <2>2. MayEnter(a, "started")
    BY <1>1, <1>7, <1>8, <1>11 DEF MayEnter, StageInv
  <2>. QED  BY <1>6, <2>1, <2>2, EntersInv
<1>12. CASE stage[a] \in {"started", "failed"}
  <2>1. Enter(a, "turn")
    BY <1>12 DEF Dispatched
  <2>2. MayEnter(a, "turn")
    BY <1>1, <1>7, <1>8, <1>12 DEF MayEnter, StageInv
  <2>. QED  BY <1>6, <2>1, <2>2, EntersInv
<1>13. CASE stage[a] = "turn"
  <2>1. End(a, "accepted")
    BY <1>13 DEF Dispatched
  <2>. QED  BY <1>6, <2>1, EndsInv
<1>14. CASE stage[a] = "cleanup"
  <2>1. End(a, "failed")
    BY <1>14 DEF Dispatched
  <2>2. MayFail(a)
    BY <1>1, <1>4, <1>14 DEF ReceiptInv, MayFail
  <2>. QED  BY <1>6, <2>1, <2>2, EndsInv
<1>. QED  BY <1>3, <1>9, <1>10, <1>11, <1>12, <1>13, <1>14

LEMMA DispatchFailedInv ==
    ASSUME BootstrapInv, NEW a \in Attempts, DispatchFailed(a)
    PROVE  BootstrapInv'
<1>. USE RequestFacts, CommandNames, DispatchingStages
<1>1. StageInv /\ ReplyInv /\ ReceiptInv
  BY DEF BootstrapInv
<1>2. /\ reply[a] = "error" /\ reply' = [reply EXCEPT ![a] = "none"]
      /\ UNCHANGED <<log, outcome, created, storageErrors>>
  BY DEF DispatchFailed
<1>3. stage[a] \in Dispatching
  BY <1>2, BootstrapVariables
<1>4. Steps(a)
  BY <1>2, <1>3, StepIs
<1>5. \A i \in 1..Len(queue) : queue[i].from # a
  BY <1>2, <1>3, Idle
<1>6. CASE stage[a] \in {"create", "update", "turn"}
  <2>1. Abort(a)
    BY <1>6 DEF DispatchFailed
  <2>. QED  BY <1>2, <1>4, <1>6, <2>1, AbortInv
<1>7. CASE stage[a] \in {"requested", "started", "failed"}
  <2>1. Enter(a, "turn")
    BY <1>7 DEF DispatchFailed
  <2>2. MayEnter(a, "turn")
    BY <1>1, <1>2, <1>5, <1>7 DEF MayEnter, StageInv
  <2>. QED  BY <1>4, <2>1, <2>2, EntersInv
<1>8. CASE stage[a] = "cleanup"
  <2>1. End(a, "failed")
    BY <1>8 DEF DispatchFailed
  <2>2. MayFail(a)
    BY <1>1, <1>2, <1>8 DEF ReplyInv, ReceiptInv, MayFail
  <2>. QED  BY <1>4, <2>1, <2>2, EndsInv
<1>. QED  BY <1>3, <1>6, <1>7, <1>8

LEMMA CreateWorktreeInv ==
    ASSUME BootstrapInv, NEW a \in Attempts, CreateWorktree(a)
    PROVE  BootstrapInv'
<1>. USE RequestFacts, DispatchingStages
<1>1. /\ stage[a] = "worktree"
      /\ Enter(a, "update") \/ Abort(a)
      /\ UNCHANGED <<log, outcome, reply, created, storageErrors>>
  BY DEF CreateWorktree
<1>2. Steps(a)
  BY <1>1, StepIs
<1>3. \A i \in 1..Len(queue) : queue[i].from # a
  BY <1>1, Idle
<1>4. StageInv
  BY DEF BootstrapInv
<1>5. MayEnter(a, "update")
  BY <1>1, <1>3, <1>4 DEF MayEnter, StageInv
<1>6. CASE Enter(a, "update")
  BY <1>2, <1>5, <1>6, EntersInv
<1>7. CASE Abort(a)
  BY <1>1, <1>2, <1>7, AbortInv
<1>. QED  BY <1>1, <1>6, <1>7

LEMMA RunSetupScriptInv ==
    ASSUME BootstrapInv, NEW a \in Attempts, RunSetupScript(a)
    PROVE  BootstrapInv'
<1>. USE RequestFacts, DispatchingStages
<1>1. /\ stage[a] = "setup" /\ \E s \in {"requested", "failed", "turn"} : Enter(a, s)
      /\ UNCHANGED <<log, outcome, reply, created, storageErrors>>
  BY DEF RunSetupScript
<1>2. Steps(a)
  BY <1>1, StepIs
<1>3. \A i \in 1..Len(queue) : queue[i].from # a
  BY <1>1, Idle
<1>4. StageInv
  BY DEF BootstrapInv
<1>5. ASSUME NEW s \in {"requested", "failed", "turn"} PROVE MayEnter(a, s)
  BY <1>1, <1>3, <1>4 DEF MayEnter, StageInv
<1>. QED  BY <1>1, <1>2, <1>5, EntersInv

LEMMA InterruptInv ==
    ASSUME BootstrapInv, NEW a \in Attempts, Interrupt(a)
    PROVE  BootstrapInv'
<1>1. /\ stage[a] # "ended" /\ End(a, "interrupted")
      /\ reply' = [reply EXCEPT ![a] = "none"]
      /\ UNCHANGED <<log, outcome, created, storageErrors>>
  BY DEF Interrupt
<1>2. Steps(a)
  BY <1>1, StepIs
<1>. QED  BY <1>1, <1>2, EndsInv

LEMMA DeleteByUserInv ==
    ASSUME BootstrapInv, DeleteByUser
    PROVE  BootstrapInv'
<1>. USE RequestFacts, CommandNames
<1>1. /\ ReceiptInv /\ StageInv /\ ReplyInv /\ CommandInv /\ QueueInv
      /\ TurnByCreator /\ FailedInv /\ BootstrapTypeOK
  BY DEF BootstrapInv
<1>2. queue \in Seq(Dispatch)
  BY BootstrapVariables
<1>3. /\ queue' = Append(queue, [from |-> user, command |-> UserDelete])
      /\ log' = log /\ outcome' = outcome /\ storageErrors' = storageErrors
      /\ UNCHANGED <<reply, stage, created, result>>
  BY DEF DeleteByUser
<1>4. /\ Engine!TypeOK' /\ ReceiptInv' /\ CreatedThenUpdated'
      /\ CleansUpOnlyItsOwn' /\ TurnFollowsPreparation'
      /\ \A x : (Logged(x)' <=> Logged(x)) /\ (Accepted(x)' <=> Accepted(x))
      /\ \A m : Prepared(m)' <=> Prepared(m)
      /\ \A b, t : CommandId(b, t)' = CommandId(b, t)
  BY <1>3, LogUnchanged
<1>5. /\ queue' \in Seq(Dispatch)
      /\ \A i \in 1..Len(queue) : i \in 1..Len(queue') /\ queue'[i] = queue[i]
      /\ \A i \in 1..Len(queue') : i \notin 1..Len(queue) => queue'[i].from = user
      /\ \A x : Queued(x)' <=> Queued(x) \/ x = UserDelete
  <2>1. user \in Attempts \cup {user}
    OBVIOUS
  <2>. QED  BY <1>2, <1>3, <2>1, Enqueued
<1>6. /\ \A b \in Attempts, s \in {"create", "update", "turn", "cleanup"} :
            Queued(<<b, s>>)' <=> Queued(<<b, s>>)
      /\ \A b \in Attempts : Queued(CommandId(b, "turn"))' <=> Queued(CommandId(b, "turn"))
  <2>1. ASSUME NEW b \in Attempts, NEW s \in {"create", "update", "turn", "cleanup"}
        PROVE  Queued(<<b, s>>)' <=> Queued(<<b, s>>)
    BY <1>5
  <2>. QED  BY <1>4, <2>1
<1>7. BootstrapTypeOK'
  BY <1>1, <1>3, <1>4, <1>5 DEF BootstrapTypeOK
<1>8. StageInv' /\ ReplyInv' /\ FailedInv'
  BY <1>1, <1>3, <1>4 DEF StageInv, ReplyInv, FailedInv
<1>9. CommandInv'
  <2>1. ASSUME NEW b \in Attempts PROVE Settled(b)' <=> Settled(b)
    BY <1>3, <1>4, <1>6 DEF Settled
  <2>. QED  BY <1>1, <1>3, <1>4, <1>6, <2>1 DEF CommandInv
<1>10. QueueInv'
  <2>. SUFFICES ASSUME NEW i \in 1..Len(queue'), queue'[i].from \in Attempts,
                       stage[queue'[i].from] # "ended"
                PROVE  /\ stage[queue'[i].from] \in Dispatching /\ reply[queue'[i].from] = "none"
                       /\ queue'[i].command = CommandId(queue'[i].from, stage[queue'[i].from])
                       /\ \A j \in 1..Len(queue') : queue'[j].from = queue'[i].from => j = i
    BY <1>3 DEF QueueInv, CommandId
  <2>1. i \in 1..Len(queue) /\ queue'[i] = queue[i]
    BY <1>5
  <2>2. \A j \in 1..Len(queue') : queue'[j].from = queue'[i].from => j \in 1..Len(queue)
    BY <1>5
  <2>. QED  BY <1>1, <1>5, <2>1, <2>2 DEF QueueInv
<1>11. TurnByCreator'
  BY <1>1, <1>3, <1>4, <1>6 DEF TurnByCreator
<1>. QED  BY <1>4, <1>7, <1>8, <1>9, <1>10, <1>11 DEF BootstrapInv

LEMMA CrashInv ==
    ASSUME BootstrapInv, Crash
    PROVE  BootstrapInv'
<1>. USE RequestFacts, CommandNames
<1>1. /\ ReceiptInv /\ StageInv /\ CommandInv /\ TurnByCreator /\ FailedInv /\ BootstrapTypeOK
  BY DEF BootstrapInv
<1>2. /\ log' = log /\ outcome' = outcome /\ storageErrors' = storageErrors /\ created' = created
      /\ queue' = <<>> /\ reply' = [a \in Attempts |-> "none"]
      /\ stage' = [a \in Attempts |-> IF stage[a] \notin {"new", "ended"} THEN "ended" ELSE stage[a]]
      /\ result' = [a \in Attempts |->
                      IF stage[a] \notin {"new", "ended"} THEN "interrupted" ELSE result[a]]
  BY DEF Crash
<1>3. /\ Engine!TypeOK' /\ ReceiptInv' /\ CreatedThenUpdated'
      /\ CleansUpOnlyItsOwn' /\ TurnFollowsPreparation'
      /\ \A x : (Logged(x)' <=> Logged(x)) /\ (Accepted(x)' <=> Accepted(x))
      /\ \A b, t : CommandId(b, t)' = CommandId(b, t)
  BY <1>2, LogUnchanged
<1>4. queue' \in Seq(Dispatch) /\ Len(queue') = 0 /\ \A i \in 1..Len(queue') : FALSE
  BY <1>2, EmptySeq
<1>5. \A x : ~Queued(x)'
  BY <1>4 DEF Queued
<1>6. \A a \in Attempts : /\ stage'[a] \in {"new", "ended"} /\ reply'[a] = "none"
                          /\ stage'[a] = "new" => stage[a] = "new"
                          /\ result'[a] = "failed" => result[a] = "failed"
  BY <1>2
<1>7. BootstrapTypeOK'
  <2>1. stage \in [Attempts -> Dispatching \cup {"new", "worktree", "setup", "ended"}]
        /\ result \in [Attempts -> {"none", "accepted", "failed", "interrupted"}]
        /\ \A a \in Attempts : result[a] # "none" <=> stage[a] = "ended"
    BY BootstrapVariables
  <2>2. /\ stage' \in [Attempts -> Dispatching \cup {"new", "worktree", "setup", "ended"}]
        /\ result' \in [Attempts -> {"none", "accepted", "failed", "interrupted"}]
        /\ reply' \in [Attempts -> {"none", "ok", "error"}]
        /\ \A a \in Attempts : /\ reply'[a] = "none"
                               /\ result'[a] # "none" <=> stage'[a] = "ended"
    BY <1>2, <2>1
  <2>. QED  BY <1>1, <1>2, <1>3, <1>4, <2>2 DEF BootstrapTypeOK
<1>8. StageInv'
  BY <1>1, <1>2, <1>3, <1>6 DEF StageInv
<1>9. ReplyInv'
  BY <1>6 DEF ReplyInv
<1>10. CommandInv' /\ QueueInv'
  BY <1>4, <1>5 DEF CommandInv, QueueInv
<1>11. TurnByCreator'
  <2>. SUFFICES ASSUME NEW a \in Attempts, Request[a].createThread,
                       outcome[CommandId(a, "turn")].status # "none"
                PROVE  \E b \in Attempts : /\ Request[b].message = Request[a].message
                                           /\ Logged(<<b, "create">>)
                                           /\ stage'[b] \in {"turn", "cleanup", "ended"}
    BY <1>2, <1>3, <1>5 DEF TurnByCreator
  <2>1. PICK b \in Attempts : /\ Request[b].message = Request[a].message
                              /\ Logged(<<b, "create">>)
                              /\ stage[b] \in {"turn", "cleanup", "ended"}
    BY <1>1 DEF TurnByCreator
  <2>2. stage'[b] = "ended"
    BY <1>6, <2>1
  <2>. QED  BY <2>1, <2>2
<1>12. FailedInv'
  BY <1>1, <1>2, <1>6 DEF FailedInv
<1>. QED  BY <1>3, <1>7, <1>8, <1>9, <1>10, <1>11, <1>12 DEF BootstrapInv

LEMMA BootstrapInitInv == BootstrapInit => BootstrapInv
<1>. SUFFICES ASSUME BootstrapInit PROVE BootstrapInv
  OBVIOUS
<1>. USE RequestFacts, CommandNames, DispatchingStages
<1>1. /\ log = Engine!Saved(0, CreateProject, <<Engine!ProjectEvent("project.created", project)>>)
      /\ outcome = [c \in Commands |->
                      IF c = CreateProject THEN [status |-> "accepted", sequence |-> 1]
                                           ELSE [status |-> "none", sequence |-> 0]]
      /\ queue = <<>> /\ storageErrors = {}
      /\ reply = [a \in Attempts |-> "none"] /\ stage = [a \in Attempts |-> "new"]
      /\ created = [a \in Attempts |-> FALSE] /\ result = [a \in Attempts |-> "none"]
  BY DEF BootstrapInit
<1>2. log = <<[sequence |-> 1, command |-> CreateProject,
               body |-> Engine!ProjectEvent("project.created", project)]>>
  BY <1>1 DEF Engine!Saved
<1>3. [sequence |-> 1, command |-> CreateProject,
       body |-> Engine!ProjectEvent("project.created", project)] \in Engine!Event
  BY NewBodies DEF Engine!Event
<1>4. /\ log \in Seq(Engine!Event) /\ Len(log) = 1 /\ DOMAIN log = 1..1
      /\ \A i \in 1..Len(log) : log[i].command = CreateProject
  BY <1>2, <1>3
<1>5. \A x : Logged(x) <=> x = CreateProject
  BY <1>4 DEF Logged
<1>6. \A a \in Attempts : \A s : <<a, s>> # CreateProject /\ CommandId(a, s) # CreateProject
  BY DEF CommandId
<1>7. /\ outcome \in [Commands -> Engine!Outcome]
      /\ outcome[CreateProject].status = "accepted"
      /\ \A c \in Commands : c # CreateProject => outcome[c].status = "none"
  BY <1>1 DEF Engine!Outcome
<1>8. queue \in Seq(Dispatch) /\ Len(queue) = 0 /\ \A i \in 1..Len(queue) : FALSE
  BY <1>1, EmptySeq
<1>9. \A x : ~Queued(x)
  BY <1>8 DEF Queued
<1>10. BootstrapTypeOK
  BY <1>1, <1>4, <1>7, <1>8 DEF BootstrapTypeOK, Engine!TypeOK
<1>11. ReceiptInv
  BY <1>5, <1>6, <1>7 DEF ReceiptInv, Accepted
<1>12. CreatedThenUpdated
  BY <1>5, <1>6 DEF CreatedThenUpdated
<1>13. StageInv /\ ReplyInv /\ FailedInv
  BY <1>1 DEF StageInv, ReplyInv, FailedInv
<1>14. CommandInv /\ QueueInv
  BY <1>8, <1>9 DEF CommandInv, QueueInv
<1>15. TurnByCreator
  BY <1>6, <1>7, <1>9 DEF TurnByCreator
<1>16. CleansUpOnlyItsOwn
  BY <1>4, <1>6 DEF CleansUpOnlyItsOwn
<1>17. TurnFollowsPreparation
  BY <1>4, <1>6 DEF TurnFollowsPreparation
<1>. QED
  BY <1>10, <1>11, <1>12, <1>13, <1>14, <1>15, <1>16, <1>17 DEF BootstrapInv

LEMMA BootstrapNextInv == BootstrapInv /\ [BootstrapNext]_bootstrapVars => BootstrapInv'
<1>. SUFFICES ASSUME BootstrapInv, [BootstrapNext]_bootstrapVars PROVE BootstrapInv'
  OBVIOUS
<1>1. CASE Handle \/ HandleFailing
  <2>1. PICK c \in Commands : Handles(c)
    BY <1>1, HandleHandles DEF BootstrapInv
  <2>. QED  BY <2>1, HandlesInv
<1>2. CASE DeleteByUser
  BY <1>2, DeleteByUserInv
<1>3. CASE Crash
  BY <1>3, CrashInv
<1>4. ASSUME NEW a \in Attempts,
             \/ Begin(a) \/ Dispatched(a) \/ DispatchFailed(a)
             \/ CreateWorktree(a) \/ RunSetupScript(a) \/ Interrupt(a)
      PROVE  BootstrapInv'
  BY <1>4, BeginInv, DispatchedInv, DispatchFailedInv, CreateWorktreeInv, RunSetupScriptInv,
     InterruptInv
<1>5. CASE UNCHANGED bootstrapVars
  <2>1. UNCHANGED <<log, outcome, queue, reply, stage, created, result, storageErrors>>
    BY <1>5 DEF bootstrapVars
  <2>2. /\ Engine!TypeOK' /\ ReceiptInv' /\ CreatedThenUpdated'
        /\ CleansUpOnlyItsOwn' /\ TurnFollowsPreparation'
        /\ \A x : (Logged(x)' <=> Logged(x)) /\ (Accepted(x)' <=> Accepted(x))
        /\ \A m : Prepared(m)' <=> Prepared(m)
        /\ \A b, t : CommandId(b, t)' = CommandId(b, t)
    BY <2>1, LogUnchanged
  <2>3. \A x : Queued(x)' <=> Queued(x)
    BY <2>1 DEF Queued
  <2>4. BootstrapTypeOK' /\ StageInv' /\ ReplyInv' /\ FailedInv' /\ QueueInv'
    BY <2>1, <2>2 DEF BootstrapInv, BootstrapTypeOK, StageInv, ReplyInv, FailedInv, QueueInv
  <2>5. \A b : Settled(b)' <=> Settled(b)
    BY <2>1, <2>2, <2>3 DEF Settled
  <2>6. CommandInv' /\ TurnByCreator'
    BY <2>1, <2>2, <2>3, <2>5 DEF BootstrapInv, CommandInv, TurnByCreator
  <2>. QED  BY <2>2, <2>4, <2>6 DEF BootstrapInv
<1>. QED  BY <1>1, <1>2, <1>3, <1>4, <1>5 DEF BootstrapNext

LEMMA BootstrapHolds == BootstrapSpec => []BootstrapInv
BY BootstrapInitInv, BootstrapNextInv, PTL DEF BootstrapSpec

\* Every variable of a bootstrap has its type, and only an attempt that waits
\* for a dispatch has an answer to read.
THEOREM BootstrapIsTyped == BootstrapSpec => []BootstrapTypeOK
<1>1. BootstrapInv => BootstrapTypeOK
  BY DEF BootstrapInv
<1>. QED  BY <1>1, BootstrapHolds, PTL

\* cleanupCreatedThread: whatever requests for the same thread interleave, fail
\* or are transmitted again, an attempt deletes only the thread it has created,
\* and, unless the store answered wrongly, one whose turn it has not started.
THEOREM CleanupSparesOthers == BootstrapSpec => []CleansUpOnlyItsOwn
<1>1. BootstrapInv => CleansUpOnlyItsOwn
  BY DEF BootstrapInv
<1>. QED  BY <1>1, BootstrapHolds, PTL

\* catchCause of dispatchBootstrapTurnStart: a client that is told of a failure
\* finds no thread that the failed attempt has created, unless the store failed.
THEOREM FailureCleansUp == BootstrapSpec => []FailureLeavesNoThread
<1>1. BootstrapInv => FailureLeavesNoThread
  <2>. SUFFICES ASSUME BootstrapInv, NEW a \in Attempts, result[a] = "failed",
                       outcome[CommandId(a, "create")].status = "accepted",
                       {CommandId(a, "create"), CommandId(a, "cleanup")} \cap storageErrors = {}
                PROVE  Engine!ThreadDeleted(log, thread)
    BY DEF FailureLeavesNoThread
  <2>1. CommandId(a, "create") = <<a, "create">> /\ CommandId(a, "cleanup") = <<a, "cleanup">>
    BY CommandNames
  <2>2. Request[a].createThread
    BY <2>1 DEF BootstrapInv, ReceiptInv, Accepted
  <2>. QED  BY <2>1, <2>2 DEF BootstrapInv, FailedInv
<1>. QED  BY <1>1, BootstrapHolds, PTL

\* bootstrapProgram: in the log, a turn comes after the creation of its thread
\* and the worktree's path, whichever transmission of the message started it.
THEOREM TurnsArePrepared == BootstrapSpec => []TurnFollowsPreparation
<1>1. BootstrapInv => TurnFollowsPreparation
  BY DEF BootstrapInv
<1>. QED  BY <1>1, BootstrapHolds, PTL
===============================================================================
