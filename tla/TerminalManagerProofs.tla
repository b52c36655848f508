------------------------ MODULE TerminalManagerProofs ------------------------
(***************************************************************************)
(* Proofs about the terminals, for any set of them and any number of       *)
(* values, calls, outputs, failures and sessions retained: the persist     *)
(* worker first, then the sessions, their processes and their histories.   *)
(***************************************************************************)
EXTENDS TerminalManager, SequenceTheorems, FiniteSetTheorems, TLAPS

InQueue(k) == \E i \in 1..Len(queue) : queue[i] = k
Holding    == fiber \in {"claiming", "requeueing"}
Serving    == fiber \in {"processing", "succeeded", "failed"}

\* A key is in one place: in the queue, or with the fiber.
QueuedOnce == \A i, j \in 1..Len(queue) : queue[i] = queue[j] => i = j

Positions ==
    fiber # "dead" =>
        /\ QueuedOnce
        /\ \A k \in Keys : k \in queued <=> InQueue(k) \/ (Holding /\ key = k)
        /\ Holding => ~InQueue(key)
        /\ \A k \in Keys : k \in active <=> Serving /\ key = k
        /\ queued \cap active = {}

\* What waits for a key is the last value sent, and what the fiber serves is, too,
\* unless another waits.
Values ==
    /\ \A k \in Keys :
          /\ latest[k] # NoValue => latest[k] = sent[k] /\ k \in queued \cup active
          /\ latest[k] = NoValue /\ k \notin active => handled[k] = sent[k]
    /\ fiber = "processing" => (latest[key] = NoValue => value = sent[key])
    /\ fiber \in {"succeeded", "failed"} => (latest[key] = NoValue => handled[key] = sent[key])

KeyedInv == KeyedTypeOK /\ Positions /\ Values

\* The steps of the worker, and of those who give it values.
KeyedStep ==
    \/ \E k \in Keys : Enqueue(k)
    \/ Take \/ Claim \/ Succeed \/ Fail \/ NextValue \/ CleanupFailedKey \/ Requeue \/ Interrupt
    \/ UNCHANGED keyed

-----------------------------------------------------------------------------
(* The queue. *)

\* A key that is appended is the last, and the others stay where they are.
LEMMA AppendedKey ==
    ASSUME queue \in Seq(Keys), NEW k \in Keys, queue' = Append(queue, k), QueuedOnce, ~InQueue(k)
    PROVE  /\ queue' \in Seq(Keys)
           /\ QueuedOnce'
           /\ \A x \in Keys : InQueue(x)' <=> InQueue(x) \/ x = k
<1>1. /\ Len(queue') = Len(queue) + 1
      /\ queue'[Len(queue) + 1] = k
      /\ \A i \in 1..Len(queue) : queue'[i] = queue[i]
      /\ queue' \in Seq(Keys)
  BY AppendProperties
<1>2. Len(queue) \in Nat
  BY LenProperties
<1>3. \A i \in 1..Len(queue') : i \in 1..Len(queue) \/ i = Len(queue) + 1
  BY <1>1, <1>2
<1>4. \A i \in 1..Len(queue) : i \in 1..Len(queue') /\ queue[i] # k
  BY <1>1, <1>2 DEF InQueue
<1>5. Len(queue) + 1 \in 1..Len(queue')
  BY <1>1, <1>2
<1>6. QueuedOnce'
  BY <1>1, <1>2, <1>3, <1>4 DEF QueuedOnce
<1>7. \A x \in Keys : InQueue(x)' <=> InQueue(x) \/ x = k
  BY <1>1, <1>3, <1>4, <1>5 DEF InQueue
<1>. QED  BY <1>1, <1>6, <1>7

\* The key that is taken is no longer in the queue.
LEMMA TakenKey ==
    ASSUME queue \in Seq(Keys), queue # <<>>, queue' = Tail(queue), QueuedOnce
    PROVE  /\ queue' \in Seq(Keys) /\ Head(queue) \in Keys
           /\ QueuedOnce'
           /\ InQueue(Head(queue))
           /\ \A x \in Keys : InQueue(x)' <=> InQueue(x) /\ x # Head(queue)
<1>1. /\ Head(queue) \in Keys
      /\ Tail(queue) \in Seq(Keys)
      /\ Len(Tail(queue)) = Len(queue) - 1
      /\ \A i \in 1..Len(Tail(queue)) : Tail(queue)[i] = queue[i + 1]
      /\ Head(queue) = queue[1]
  BY HeadTailProperties
<1>2. Len(queue) \in Nat /\ Len(queue) >= 1
  BY LenProperties, EmptySeq
<1>3. 1 \in 1..Len(queue) /\ \A i \in 1..Len(queue') : i + 1 \in 1..Len(queue) /\ i + 1 # 1
  BY <1>1, <1>2
<1>4. \A i \in 1..Len(queue) : i = 1 \/ (i - 1 \in 1..Len(queue') /\ (i - 1) + 1 = i)
  BY <1>1, <1>2
<1>5. QueuedOnce'
  BY <1>1, <1>2, <1>3 DEF QueuedOnce
<1>6. ASSUME NEW x \in Keys
      PROVE  InQueue(x)' <=> InQueue(x) /\ x # Head(queue)
  <2>1. ASSUME InQueue(x)' PROVE InQueue(x) /\ x # Head(queue)
    BY <2>1, <1>1, <1>3 DEF InQueue, QueuedOnce
  <2>2. ASSUME InQueue(x), x # Head(queue) PROVE InQueue(x)'
    <3>1. PICK i \in 1..Len(queue) : queue[i] = x
      BY <2>2 DEF InQueue
    <3>2. i - 1 \in 1..Len(queue') /\ (i - 1) + 1 = i
      BY <3>1, <2>2, <1>1, <1>4
    <3>3. queue'[i - 1] = x
      BY <3>1, <3>2, <1>1
    <3>. QED  BY <3>2, <3>3 DEF InQueue
  <2>. QED  BY <2>1, <2>2
<1>7. InQueue(Head(queue))
  BY <1>1, <1>3 DEF InQueue
<1>. QED  BY <1>1, <1>5, <1>6, <1>7

-----------------------------------------------------------------------------
(* The worker. *)

LEMMA NoKeyIsKey == NoKey \in Keys
BY KeyedCoalescingWorkerAssumption DEF NoKey

LEMMA KeyedInitInv == KeyedInit => KeyedInv
<1>. SUFFICES ASSUME KeyedInit PROVE KeyedInv
  OBVIOUS
<1>0. MaxValues \in Nat /\ 0 \in 0..MaxValues
  BY KeyedCoalescingWorkerAssumption
<1>1. queue = <<>> /\ Len(queue) = 0 /\ queue \in Seq(Keys)
  BY EmptySeq DEF KeyedInit
<1>2. KeyedTypeOK
  BY <1>0, <1>1, NoKeyIsKey DEF KeyedInit, KeyedTypeOK, NoValue
<1>3. Positions
  BY <1>1 DEF KeyedInit, Positions, QueuedOnce, InQueue, Holding, Serving
<1>4. Values
  BY DEF KeyedInit, Values, NoValue
<1>. QED  BY <1>2, <1>3, <1>4 DEF KeyedInv

\* A value that is sent waits, with its key in its one place.
LEMMA EnqueueInv ==
    ASSUME KeyedInv, NEW k \in Keys, Enqueue(k)
    PROVE  KeyedInv'
<1>0. MaxValues \in Nat
  BY KeyedCoalescingWorkerAssumption
<1>1. /\ sent'[k] = sent[k] + 1 /\ sent'[k] \in 0..MaxValues /\ sent'[k] # NoValue
      /\ latest'[k] = sent'[k]
      /\ \A x \in Keys : x # k => sent'[x] = sent[x] /\ latest'[x] = latest[x]
      /\ sent' \in [Keys -> 0..MaxValues] /\ latest' \in [Keys -> 0..MaxValues]
  BY <1>0 DEF KeyedInv, KeyedTypeOK, Enqueue, NoValue
<1>2. UNCHANGED <<active, fiber, key, value, handled>>
  BY DEF Enqueue, worker
<1>3. CASE k \in queued \cup active
  <2>1. UNCHANGED <<queue, queued>>
    BY <1>3 DEF Enqueue
  <2>2. KeyedTypeOK'
    BY <1>1, <1>2, <2>1 DEF KeyedInv, KeyedTypeOK
  <2>3. Positions'
    BY <1>2, <2>1 DEF KeyedInv, Positions, QueuedOnce, InQueue, Holding, Serving
  <2>4. Values'
    BY <1>1, <1>2, <1>3, <2>1 DEF KeyedInv, KeyedTypeOK, Values
  <2>. QED  BY <2>2, <2>3, <2>4 DEF KeyedInv
<1>4. CASE k \notin queued \cup active
  <2>1. queue' = Append(queue, k) /\ queued' = queued \cup {k}
    BY <1>4 DEF Enqueue
  <2>2. queue' \in Seq(Keys)
    BY <2>1, AppendProperties DEF KeyedInv, KeyedTypeOK
  <2>3. KeyedTypeOK'
    BY <1>1, <1>2, <2>1, <2>2 DEF KeyedInv, KeyedTypeOK
  <2>4. Positions'
    <3>. SUFFICES ASSUME fiber # "dead" PROVE Positions'
      BY <1>2 DEF Positions
    <3>1. QueuedOnce /\ ~InQueue(k) /\ ~(Holding /\ key = k)
      BY <1>4 DEF KeyedInv, Positions
    <3>2. QueuedOnce' /\ \A x \in Keys : InQueue(x)' <=> InQueue(x) \/ x = k
      BY <2>1, <3>1, AppendedKey DEF KeyedInv, KeyedTypeOK
    <3>3. key \in Keys /\ (Holding' <=> Holding) /\ (Serving' <=> Serving)
      BY <1>2 DEF KeyedInv, KeyedTypeOK, Holding, Serving
    <3>4. InQueue(key)' <=> InQueue(key) \/ key = k
      BY <3>2, <3>3, <1>2 DEF InQueue
    <3>. QED  BY <1>2, <1>4, <2>1, <3>1, <3>2, <3>3, <3>4 DEF KeyedInv, Positions
  <2>5. Values'
    BY <1>1, <1>2, <2>1 DEF KeyedInv, KeyedTypeOK, Values
  <2>. QED  BY <2>3, <2>4, <2>5 DEF KeyedInv
<1>. QED  BY <1>3, <1>4

LEMMA TakeInv ==
    ASSUME KeyedInv, Take
    PROVE  KeyedInv'
<1>1. /\ fiber = "taking" /\ fiber' = "claiming" /\ key' = Head(queue) /\ queue' = Tail(queue)
      /\ queue # <<>> /\ UNCHANGED <<latest, queued, active, value, sent, handled>>
  BY DEF Take
<1>2. QueuedOnce /\ queue \in Seq(Keys)
  BY <1>1 DEF KeyedInv, KeyedTypeOK, Positions
<1>3. /\ queue' \in Seq(Keys) /\ Head(queue) \in Keys /\ QueuedOnce' /\ InQueue(Head(queue))
      /\ \A x \in Keys : InQueue(x)' <=> InQueue(x) /\ x # Head(queue)
  BY <1>1, <1>2, TakenKey
<1>4. KeyedTypeOK'
  BY <1>1, <1>3 DEF KeyedInv, KeyedTypeOK
<1>5. Positions'
  <2>1. ~Holding /\ ~Serving /\ Holding' /\ ~Serving'
    BY <1>1 DEF Holding, Serving
  <2>2. ~InQueue(key)'
    BY <1>1, <1>3 DEF InQueue
  <2>. QED  BY <1>1, <1>3, <2>1, <2>2 DEF KeyedInv, Positions
<1>6. Values'
  BY <1>1 DEF KeyedInv, Values
<1>. QED  BY <1>4, <1>5, <1>6 DEF KeyedInv

\* The fiber changes what it does with its key, and the queue stays as it is.
LEMMA ClaimInv ==
    ASSUME KeyedInv, Claim
    PROVE  KeyedInv'
<1>0. MaxValues \in Nat
  BY KeyedCoalescingWorkerAssumption
<1>1. KeyedTypeOK'
  <2>1. UNCHANGED <<queue, sent, handled>> /\ queued' = queued \ {key}
    BY DEF Claim
  <2>2. active' \in {active, active \cup {key}}
    BY DEF Claim
  <2>3. fiber' \in {"taking", "processing"} /\ key' \in Keys
    BY NoKeyIsKey DEF Claim, Rest, KeyedInv, KeyedTypeOK
  <2>4. latest' \in [Keys -> 0..MaxValues] /\ value' \in 0..MaxValues
    <3>1. latest \in [Keys -> 0..MaxValues] /\ key \in Keys /\ 0 \in 0..MaxValues
      BY <1>0 DEF KeyedInv, KeyedTypeOK
    <3>2. latest' \in {latest, [latest EXCEPT ![key] = 0]} /\ value' \in {0, latest[key]}
      BY DEF Claim, Rest, NoValue
    <3>. QED  BY <3>1, <3>2
  <2>. QED  BY <2>1, <2>2, <2>3, <2>4 DEF KeyedInv, KeyedTypeOK
<1>2. Positions'
  <2>0. key \in Keys /\ queued \subseteq Keys
    BY DEF KeyedInv, KeyedTypeOK
  <2>1. (QueuedOnce' <=> QueuedOnce) /\ \A k \in Keys : InQueue(k)' <=> InQueue(k)
    BY DEF Claim, QueuedOnce, InQueue
  <2>2. Holding /\ ~Serving /\ ~Holding' /\ fiber # "dead"
    BY DEF Claim, Rest, Holding, Serving
  <2>3. CASE latest[key] = NoValue
    <3>1. queued' = queued \ {key} /\ ~Serving' /\ active' = active
      BY <2>3 DEF Claim, Rest, Serving
    <3>. QED  BY <2>0, <2>1, <2>2, <3>1 DEF KeyedInv, Positions
  <2>4. CASE latest[key] # NoValue
    <3>1. queued' = queued \ {key} /\ Serving' /\ active' = active \cup {key} /\ key' = key
      BY <2>4 DEF Claim, Serving
    <3>. QED  BY <2>0, <2>1, <2>2, <3>1 DEF KeyedInv, Positions
  <2>. QED  BY <2>3, <2>4
<1>3. Values'
  BY DEF KeyedInv, KeyedTypeOK, Values, Claim, Rest, NoValue
<1>. QED  BY <1>1, <1>2, <1>3 DEF KeyedInv

LEMMA ProcessInv ==
    ASSUME KeyedInv, Succeed \/ Fail
    PROVE  KeyedInv'
<1>1. /\ fiber = "processing" /\ fiber' \in {"succeeded", "failed"}
      /\ handled' = [handled EXCEPT ![key] = value]
      /\ UNCHANGED <<queue, latest, queued, active, key, value, sent>>
  BY DEF Succeed, Fail
<1>2. KeyedTypeOK'
  BY <1>1 DEF KeyedInv, KeyedTypeOK
<1>3. Positions'
  BY <1>1 DEF KeyedInv, Positions, QueuedOnce, InQueue, Holding, Serving
<1>4. Values'
  <2>1. key \in active /\ key \in Keys /\ handled'[key] = value
    BY <1>1 DEF KeyedInv, KeyedTypeOK, Positions, Serving
  <2>2. \A x \in Keys : x # key => handled'[x] = handled[x]
    BY <1>1 DEF KeyedInv, KeyedTypeOK
  <2>. QED  BY <1>1, <2>1, <2>2 DEF KeyedInv, Values
<1>. QED  BY <1>2, <1>3, <1>4 DEF KeyedInv

LEMMA NextValueInv ==
    ASSUME KeyedInv, NextValue
    PROVE  KeyedInv'
<1>0. MaxValues \in Nat
  BY KeyedCoalescingWorkerAssumption
<1>1. KeyedTypeOK'
  <2>1. UNCHANGED <<queue, queued, sent, handled>>
    BY DEF NextValue
  <2>2. active' \in {active, active \ {key}}
    BY DEF NextValue
  <2>3. fiber' \in {"taking", "processing"} /\ key' \in Keys
    BY NoKeyIsKey DEF NextValue, Rest, KeyedInv, KeyedTypeOK
  <2>4. latest' \in [Keys -> 0..MaxValues] /\ value' \in 0..MaxValues
    <3>1. latest \in [Keys -> 0..MaxValues] /\ key \in Keys /\ 0 \in 0..MaxValues
      BY <1>0 DEF KeyedInv, KeyedTypeOK
    <3>2. latest' \in {latest, [latest EXCEPT ![key] = 0]} /\ value' \in {0, latest[key]}
      BY DEF NextValue, Rest, NoValue
    <3>. QED  BY <3>1, <3>2
  <2>. QED  BY <2>1, <2>2, <2>3, <2>4 DEF KeyedInv, KeyedTypeOK
<1>2. Positions'
  <2>0. key \in Keys /\ active \subseteq Keys
    BY DEF KeyedInv, KeyedTypeOK
  <2>1. (QueuedOnce' <=> QueuedOnce) /\ \A k \in Keys : InQueue(k)' <=> InQueue(k)
    BY DEF NextValue, QueuedOnce, InQueue
  <2>2. Serving /\ ~Holding /\ ~Holding' /\ fiber # "dead" /\ queued' = queued
    BY DEF NextValue, Rest, Holding, Serving
  <2>3. CASE latest[key] = NoValue
    <3>1. ~Serving' /\ active' = active \ {key}
      BY <2>3 DEF NextValue, Rest, Serving
    <3>. QED  BY <2>0, <2>1, <2>2, <3>1 DEF KeyedInv, Positions
  <2>4. CASE latest[key] # NoValue
    <3>1. Serving' /\ active' = active /\ key' = key
      BY <2>4 DEF NextValue, Serving
    <3>. QED  BY <2>0, <2>1, <2>2, <3>1 DEF KeyedInv, Positions
  <2>. QED  BY <2>3, <2>4
<1>3. Values'
  BY DEF KeyedInv, KeyedTypeOK, Positions, Values, Serving, NextValue, Rest, NoValue
<1>. QED  BY <1>1, <1>2, <1>3 DEF KeyedInv

LEMMA CleanupInv ==
    ASSUME KeyedInv, CleanupFailedKey
    PROVE  KeyedInv'
<1>0. MaxValues \in Nat
  BY KeyedCoalescingWorkerAssumption
<1>1. KeyedTypeOK'
  BY <1>0, NoKeyIsKey DEF KeyedInv, KeyedTypeOK, CleanupFailedKey, Rest, NoValue
<1>2. Positions'
  <2>0. key \in Keys /\ active \subseteq Keys
    BY DEF KeyedInv, KeyedTypeOK
  <2>1. (QueuedOnce' <=> QueuedOnce) /\ \A k \in Keys : InQueue(k)' <=> InQueue(k)
    BY DEF CleanupFailedKey, QueuedOnce, InQueue
  <2>2. Serving /\ ~Holding /\ ~Serving' /\ fiber # "dead" /\ active' = active \ {key}
    BY DEF CleanupFailedKey, Rest, Holding, Serving
  <2>3. key \notin queued /\ ~InQueue(key)
    BY <2>0, <2>2 DEF KeyedInv, Positions
  <2>4. CASE latest[key] # NoValue
    <3>1. queued' = queued \cup {key} /\ Holding' /\ key' = key
      BY <2>3, <2>4 DEF CleanupFailedKey, Holding
    <3>2. ~InQueue(key)'
      BY <2>0, <2>1, <2>3, <3>1 DEF InQueue
    <3>. QED  BY <2>0, <2>1, <2>2, <3>1, <3>2 DEF KeyedInv, Positions
  <2>5. CASE latest[key] = NoValue
    <3>1. queued' = queued /\ ~Holding'
      BY <2>5 DEF CleanupFailedKey, Rest, Holding
    <3>. QED  BY <2>0, <2>1, <2>2, <3>1 DEF KeyedInv, Positions
  <2>. QED  BY <2>4, <2>5
<1>3. Values'
  BY DEF KeyedInv, KeyedTypeOK, Positions, Values, Serving, CleanupFailedKey, Rest, NoValue
<1>. QED  BY <1>1, <1>2, <1>3 DEF KeyedInv

LEMMA RequeueInv ==
    ASSUME KeyedInv, Requeue
    PROVE  KeyedInv'
<1>0. MaxValues \in Nat
  BY KeyedCoalescingWorkerAssumption
<1>1. /\ fiber = "requeueing" /\ fiber' = "taking" /\ queue' = Append(queue, key)
      /\ key' = NoKey /\ value' = NoValue
      /\ UNCHANGED <<latest, queued, active, sent, handled>>
  BY DEF Requeue, Rest
<1>2. queue \in Seq(Keys) /\ key \in Keys /\ QueuedOnce /\ ~InQueue(key)
  BY <1>1 DEF KeyedInv, KeyedTypeOK, Positions, Holding
<1>3. /\ queue' \in Seq(Keys) /\ QueuedOnce'
      /\ \A x \in Keys : InQueue(x)' <=> InQueue(x) \/ x = key
  BY <1>1, <1>2, AppendedKey
<1>4. KeyedTypeOK'
  BY <1>0, <1>1, <1>3, NoKeyIsKey DEF KeyedInv, KeyedTypeOK, NoValue
<1>5. Positions'
  <2>1. Holding /\ ~Serving /\ ~Holding' /\ ~Serving' /\ fiber # "dead"
    BY <1>1 DEF Holding, Serving
  <2>. QED  BY <1>1, <1>3, <2>1 DEF KeyedInv, Positions
<1>6. Values'
  BY <1>1 DEF KeyedInv, Values
<1>. QED  BY <1>4, <1>5, <1>6 DEF KeyedInv

\* Every step of the worker keeps the invariant.
LEMMA KeyedStepInv == KeyedInv /\ KeyedStep => KeyedInv'
<1>. SUFFICES ASSUME KeyedInv, KeyedStep PROVE KeyedInv'
  OBVIOUS
<1>1. CASE \E k \in Keys : Enqueue(k)
  BY <1>1, EnqueueInv
<1>2. CASE Interrupt
  BY <1>2 DEF Interrupt, KeyedInv, KeyedTypeOK, Positions, Values
<1>3. CASE UNCHANGED keyed
  BY <1>3 DEF keyed, worker, KeyedInv, KeyedTypeOK, Positions, QueuedOnce, InQueue, Holding,
              Serving, Values
<1>. QED
  BY <1>1, <1>2, <1>3, TakeInv, ClaimInv, ProcessInv, NextValueInv, CleanupInv, RequeueInv
     DEF KeyedStep

\* One place each: what the invariant says, counted.
LEMMA CountedPlaces == KeyedInv => NothingStranded
<1>. SUFFICES ASSUME KeyedInv, fiber # "dead" PROVE NothingStranded
  BY DEF NothingStranded
<1>. DEFINE At(k) == {i \in DOMAIN queue : queue[i] = k}
<1>1. DOMAIN queue = 1..Len(queue)
  BY LenProperties DEF KeyedInv, KeyedTypeOK
<1>2. ASSUME NEW k \in Keys, InQueue(k) PROVE Cardinality(At(k)) = 1
  <2>1. PICK i \in 1..Len(queue) : queue[i] = k
    BY <1>2 DEF InQueue
  <2>2. At(k) = {i}
    BY <1>1, <2>1 DEF KeyedInv, Positions, QueuedOnce
  <2>. QED  BY <2>2, FS_Singleton
<1>3. ASSUME NEW k \in Keys, ~InQueue(k) PROVE Cardinality(At(k)) = 0
  <2>1. At(k) = {}
    BY <1>1, <1>3 DEF InQueue
  <2>. QED  BY <2>1, FS_EmptySet
<1>4. ASSUME NEW k \in Keys
      PROVE  Cardinality(At(k)) + (IF Holding /\ key = k THEN 1 ELSE 0)
                 = IF k \in queued THEN 1 ELSE 0
  <2>1. CASE InQueue(k)
    BY <2>1, <1>2 DEF KeyedInv, Positions
  <2>2. CASE ~InQueue(k)
    BY <2>2, <1>3 DEF KeyedInv, Positions
  <2>. QED  BY <2>1, <2>2
<1>5. \A k \in Keys : /\ k \in active <=> Serving /\ key = k
                      /\ latest[k] # NoValue => k \in queued \cup active
  BY DEF KeyedInv, Positions, Values
<1>. QED  BY <1>4, <1>5 DEF NothingStranded, KeyedInv, Positions, Holding, Serving

\* A drained key has neither a value that waits nor one that is processed.
LEMMA DrainedHandled == KeyedInv => DrainKeySound
BY DEF KeyedInv, Values, DrainKeySound, Drained

-----------------------------------------------------------------------------
(* The terminals over the worker. *)

\* Whatever happens to the terminals is a step of the worker or none of its.
LEMMA NextIsKeyedStep == [Next]_vars => KeyedStep
<1>. SUFFICES ASSUME [Next]_vars PROVE KeyedStep
  OBVIOUS
<1>1. CASE \E k \in Keys : Call(k) \/ CallStep(k) \/ SpawnFails(k) \/ DeleteFails(k) \/ Leave(k)
  <2>. PICK k \in Keys : Call(k) \/ CallStep(k) \/ SpawnFails(k) \/ DeleteFails(k) \/ Leave(k)
    BY <1>1
  <2>1. CASE Call(k)
    BY <2>1 DEF Call, CallOpen, CallReopen, CallClear, CallRestart, CallClose, Begin, KeyedStep
  <2>2. CASE CallStep(k)
    BY <2>2 DEF CallStep, ReadHistory, CreateEmpty, StopProcess, ResetHistory, SaveHistory,
                FlushPersist, CloseSession, DeleteHistory, Forget, Spawn, RegisterProcess, Persist,
                KeyedStep
  <2>3. CASE SpawnFails(k) \/ DeleteFails(k) \/ Leave(k)
    BY <2>3 DEF SpawnFails, DeleteFails, Forget, Leave, KeyedStep
  <2>. QED  BY <2>1, <2>2, <2>3
<1>2. CASE \E k \in Keys : Output(k) \/ Drain(k)
  BY ZenonT(40), <1>2 DEF Output, Drain, EndDrain, DrainOutput, DrainPersist, DrainExit, Persist, KeyedStep
<1>3. CASE \E p \in 1..spawned : ExitProcess(p) \/ KillProcess(p) \/ KillFails(p)
  BY <1>3 DEF ExitProcess, KillProcess, KillFails, KeyedStep
<1>4. CASE PersistWorker \/ WriteFails \/ Shutdown
  BY <1>4 DEF PersistWorker, PersistStep, WriteHistory, WriteFails, Shutdown, KeyedStep
<1>5. CASE UNCHANGED vars
  BY <1>5 DEF vars, KeyedStep
<1>. QED  BY <1>1, <1>2, <1>3, <1>4, <1>5 DEF Next

\* The worker's invariant holds whatever the terminals do.
THEOREM PersistWorkerInvariant == Spec => []KeyedInv
<1>1. Init => KeyedInv
  BY KeyedInitInv DEF Init
<1>2. KeyedInv /\ [Next]_vars => KeyedInv'
  BY NextIsKeyedStep, KeyedStepInv
<1>. QED  BY <1>1, <1>2, PTL DEF Spec

\* No history that waits to be written is stranded: its terminal is in the queue
\* once, or in the hands of the fiber.
THEOREM NoHistoryStranded == Spec => []NothingStranded
BY PersistWorkerInvariant, CountedPlaces, PTL

\* Whoever waits for the history of a terminal goes on only when the last one sent
\* has been processed, by itself or by a newer one.
THEOREM FlushWaitsForLast == Spec => []DrainKeySound
BY PersistWorkerInvariant, DrainedHandled, PTL

-----------------------------------------------------------------------------
(* The sessions, their processes and their histories. *)

Steps == {"none", "flush", "read", "create", "stop", "reset", "save", "unmap", "delete", "start",
          "register"}

SessionType == [status : {"starting", "running", "exited", "error"}, process : Nat,
                history : Seq(Nat), pending : Seq(Nat), draining : BOOLEAN]
CallType    == [at : Steps, kind : Kinds \cup {"reopen", "none"}, process : Nat]
DrainType   == [process : Nat, carries : BOOLEAN, history : Seq(Nat)]

TerminalTypes ==
    /\ sessions \subseteq Keys
    /\ session \in [Keys -> SessionType] /\ call \in [Keys -> CallType]
    /\ drains \in [Keys -> SUBSET DrainType]
    /\ spawned \in Nat /\ alive \subseteq 1..spawned /\ killing \subseteq alive
    /\ text \in [Keys -> Seq(Nat)] /\ file \in [Keys -> Seq(Nat)] /\ writing \in Seq(Nat)
    /\ outputs \in Nat

\* What a call has done with the session of its thread by the step it is at.
CallPlace(k) ==
    /\ call[k].at = "none" <=> call[k].kind = "none"
    /\ call[k].process # 0 <=> call[k].at = "register"
    /\ call[k].kind = "clear" => call[k].at \in {"reset", "flush"}
    /\ call[k].at = "read" => call[k].kind = "open"
    /\ call[k].at = "create" => call[k].kind = "restart"
    /\ call[k].kind = "open" => call[k].at \in {"flush", "read", "start", "register"}
    /\ call[k].at \in {"read", "create"} \/ (call[k].kind = "open" /\ call[k].at = "flush")
          => k \notin sessions
    /\ call[k].at = "register" => session[k].process = 0 /\ session[k].pending = <<>>
    /\ call[k].at \notin {"none", "stop"} /\ call[k].kind # "clear"
          => session[k].process = 0 \/ k \notin sessions

\* A process has one holder: a session, a call, or the fiber that kills it.
Holders ==
    /\ \A k \in Keys : session[k].process <= spawned /\ call[k].process <= spawned
    /\ \A j, k \in Keys : session[j].process = session[k].process => j = k \/ session[k].process = 0
    /\ \A j, k \in Keys : call[j].process = call[k].process => j = k \/ call[k].process = 0
    /\ \A j, k \in Keys : call[j].process = session[k].process => session[k].process = 0
    /\ \A k \in Keys : session[k].process \notin killing /\ call[k].process \notin killing

\* A session runs while it has a process, until the exit it has been told of is drained.
SessionPlace(k) ==
    /\ session[k].process # 0 <=> session[k].status = "running"
    /\ Contains(session[k].pending, Exit) => session[k].process \notin alive
    /\ \A d \in drains[k] : d.process # 0 \/ d.carries

\* The history that is the last in the file of a terminal, or on its way to it.
Filed(k) ==
    IF latest[k] # NoValue THEN text[k]
    ELSE IF fiber = "processing" /\ key = k THEN writing ELSE file[k]

Histories ==
    fiber # "dead" /\ gaps \cap {"stale", "undeleted", "unreset", "unwritten"} = {} =>
        \A k \in Keys :
            /\ Filed(k) = session[k].history \/ Unreset(k) \/ \E d \in drains[k] : d.carries
            /\ call[k].at = "read" => Drained(k)

Places == TerminalTypes /\ Holders /\ \A k \in Keys : CallPlace(k) /\ SessionPlace(k)

TerminalInv == KeyedInv /\ Places /\ SessionsMatchProcesses /\ Histories

-----------------------------------------------------------------------------
(* A step touches one terminal, and may evict others. *)

Others(k) ==
    \A x \in Keys \ {k} : session'[x] = session[x] /\ call'[x] = call[x] /\ drains'[x] = drains[x]

LEMMA PlacesOne ==
    ASSUME Places, TerminalTypes', NEW k \in Keys, Others(k),
           spawned' = spawned, alive' \subseteq alive, sessions' \subseteq sessions \cup {k},
           killing' \subseteq killing \cup {session[k].process},
           session'[k].process \in {0, session[k].process, call[k].process},
           call'[k].process \in {0, call[k].process},
           session'[k].process \notin killing', call'[k].process \notin killing',
           session'[k].process = call'[k].process => session'[k].process = 0,
           CallPlace(k)', SessionPlace(k)'
    PROVE  Places'
<1>1. /\ session \in [Keys -> SessionType]
      /\ 0 \notin killing /\ 0 \notin killing'
  BY DEF Places, TerminalTypes
<1>2. \A x \in Keys \ {k} :
        /\ session'[x] = session[x] /\ call'[x] = call[x] /\ drains'[x] = drains[x]
        /\ x \in sessions' => x \in sessions
        /\ CallPlace(x) /\ SessionPlace(x)
  BY DEF Others, Places
<1>3. \A x \in Keys \ {k} : CallPlace(x)'
  BY <1>2 DEF CallPlace
<1>4. \A x \in Keys \ {k} : SessionPlace(x)'
  BY <1>2 DEF SessionPlace, Contains
<1>5. \A x \in Keys \ {k} :
         /\ session[x].process = session[k].process => session[k].process = 0
         /\ call[x].process = session[k].process => session[k].process = 0
         /\ call[k].process = session[x].process => session[x].process = 0
         /\ call[x].process = call[k].process => call[k].process = 0
         /\ session[x].process \notin killing /\ call[x].process \notin killing
         /\ session[x].process <= spawned /\ call[x].process <= spawned
  BY DEF Places, Holders
<1>6. /\ session[k].process <= spawned /\ call[k].process <= spawned /\ 0 <= spawned
      /\ call[k].process = session[k].process => session[k].process = 0
  BY DEF Places, Holders, TerminalTypes
<1>7. Holders'
  <2>1. \A x \in Keys : session'[x].process <= spawned' /\ call'[x].process <= spawned'
    BY <1>2, <1>5, <1>6
  <2>2. \A x \in Keys : session'[x].process \notin killing' /\ call'[x].process \notin killing'
    BY <1>1, <1>2, <1>5
  <2>3. \A x \in Keys \ {k} :
          /\ session'[x].process = session'[k].process => session'[k].process = 0
          /\ call'[x].process = session'[k].process => session'[k].process = 0
          /\ call'[k].process = session'[x].process => session'[x].process = 0
          /\ call'[x].process = call'[k].process => call'[k].process = 0
    BY <1>2, <1>5
  <2>4. \A j, x \in Keys \ {k} :
          /\ session[j].process = session[x].process => j = x \/ session[x].process = 0
          /\ call[j].process = call[x].process => j = x \/ call[x].process = 0
          /\ call[j].process = session[x].process => session[x].process = 0
    BY DEF Places, Holders
  <2>5. \A j, x \in Keys \ {k} :
          /\ session'[j].process = session'[x].process => j = x \/ session'[x].process = 0
          /\ call'[j].process = call'[x].process => j = x \/ call'[x].process = 0
          /\ call'[j].process = session'[x].process => session'[x].process = 0
    BY <1>2, <2>4
  <2>. QED  BY <2>1, <2>2, <2>3, <2>5 DEF Holders
<1>. QED  BY <1>3, <1>4, <1>7 DEF Places

\* What becomes of the process of the terminal that is touched, or in the hand of
\* its call, decides: the others have what they had.
LEMMA MatchOne ==
    ASSUME Places, SessionsMatchProcesses, NEW k \in Keys, Others(k),
           gaps \subseteq gaps', alive' \subseteq alive,
           killing \cap alive' \subseteq killing',
           sessions' \subseteq sessions \cup {k},
           \A x \in sessions \ sessions' : x = k \/ session[x].process = 0,
           \A x \in Keys \ {k} : session[x].process \in alive => session[x].process \in alive',
           gaps' \cap {"evicted", "left", "shutdown", "unkilled"} = {} =>
              \A p \in alive' :
                 call[k].process = p \/ (session[k].process = p /\ k \in sessions) =>
                    \/ p \in killing' \/ call'[k].process = p
                    \/ session'[k].process = p /\ k \in sessions',
           gaps' \cap {"unheard", "dropped"} = {} /\ k \in sessions'
                 /\ session'[k].status = "running" =>
              session'[k].process \in alive' \/ Contains(session'[k].pending, Exit)
    PROVE  SessionsMatchProcesses'
<1>1. \A x \in Keys \ {k} : session'[x] = session[x] /\ call'[x] = call[x]
  BY DEF Others
<1>2. sessions \subseteq Keys /\ 0 \notin alive
  BY DEF Places, TerminalTypes
<1>3. ASSUME gaps' \cap {"evicted", "left", "shutdown", "unkilled"} = {}, NEW p \in alive'
      PROVE  p \in killing' \/ InHand(p)' \/ (Attached(p) \cap sessions # {})'
  <2>1. p \in killing \/ InHand(p) \/ Attached(p) \cap sessions # {}
    BY <1>3 DEF SessionsMatchProcesses
  <2>2. CASE p \in killing
    BY <2>2
  <2>3. CASE InHand(p)
    <3>1. PICK x \in Keys : call[x].process = p
      BY <2>3 DEF InHand
    <3>2. CASE x = k
      <4>1. \/ p \in killing' \/ call'[k].process = p
            \/ session'[k].process = p /\ k \in sessions'
        BY <1>3, <3>1, <3>2
      <4>. QED  BY <4>1 DEF InHand, Attached
    <3>3. CASE x # k
      BY <1>1, <3>1, <3>3 DEF InHand
    <3>. QED  BY <3>2, <3>3
  <2>4. CASE Attached(p) \cap sessions # {}
    <3>1. PICK x \in Keys : session[x].process = p /\ x \in sessions
      BY <2>4 DEF Attached
    <3>2. CASE x = k
      <4>1. \/ p \in killing' \/ call'[k].process = p
            \/ session'[k].process = p /\ k \in sessions'
        BY <1>3, <3>1, <3>2
      <4>. QED  BY <4>1 DEF InHand, Attached
    <3>3. CASE x # k
      <4>1. x \in sessions' /\ session'[x].process = p
        BY <1>1, <1>2, <3>1, <3>3
      <4>. QED  BY <4>1 DEF Attached
    <3>. QED  BY <3>2, <3>3
  <2>. QED  BY <2>1, <2>2, <2>3, <2>4
<1>4. ASSUME gaps' \cap {"unheard", "dropped"} = {}, NEW x \in sessions',
             session'[x].status = "running"
      PROVE  session'[x].process \in alive' \/ Contains(session'[x].pending, Exit)
  <2>1. CASE x = k
    BY <1>4, <2>1
  <2>2. CASE x # k
    <3>1. x \in sessions /\ x \in Keys \ {k} /\ session'[x] = session[x]
      BY <1>1, <1>2, <2>2
    <3>2. session[x].process \in alive \/ Contains(session[x].pending, Exit)
      BY <1>4, <3>1 DEF SessionsMatchProcesses
    <3>. QED  BY <3>1, <3>2
  <2>. QED  BY <2>1, <2>2
<1>. QED  BY <1>3, <1>4 DEF SessionsMatchProcesses

LEMMA HistoryOne ==
    ASSUME Histories, UNCHANGED <<keyed, persist>>, gaps \subseteq gaps',
           NEW k \in Keys, Others(k),
           fiber # "dead" /\ gaps' \cap {"stale", "undeleted", "unreset", "unwritten"} = {} =>
              /\ \/ Filed(k) = session'[k].history \/ Unreset(k)'
                 \/ \E d \in drains'[k] : d.carries
              /\ call'[k].at = "read" => Drained(k)
    PROVE  Histories'
<1>1. \A x \in Keys \ {k} : session'[x] = session[x] /\ call'[x] = call[x]
                             /\ drains'[x] = drains[x]
  BY DEF Others
<1>2. /\ fiber' = fiber /\ \A x \in Keys : Filed(x)' = Filed(x)
      /\ \A x \in Keys : Drained(x)' <=> Drained(x)
  BY DEF keyed, worker, persist, Filed, Drained
<1>3. \A x \in Keys \ {k} : Unreset(x)' <=> Unreset(x)
  BY <1>1 DEF Unreset
<1>. QED  BY <1>1, <1>2, <1>3 DEF Histories

\* Evicted sessions do not run.
LEMMA Evicted ==
    ASSUME NEW keys, NEW s, NEW rest \in Evict(keys, s)
    PROVE  rest \subseteq keys /\ \A x \in keys \ rest : s[x].status # "running"
BY DEF Evict, Retain, kSubset

-----------------------------------------------------------------------------
(* The calls. *)

LEMMA GoesTo ==
    ASSUME TerminalTypes, NEW k \in Keys, NEW there \in Steps, GoTo(k, there)
    PROVE  /\ call'[k].at = there /\ call'[k].kind = call[k].kind /\ call'[k].process = 0
           /\ \A x \in Keys \ {k} : call'[x] = call[x]
           /\ call' \in [Keys -> CallType]
BY DEF CallType, TerminalTypes, GoTo

LEMMA Ends ==
    ASSUME TerminalTypes, NEW k \in Keys, End(k)
    PROVE  /\ call'[k] = NoCall
           /\ \A x \in Keys \ {k} : call'[x] = call[x]
           /\ call' \in [Keys -> CallType]
BY DEF CallType, TerminalTypes, End, NoCall, Steps

LEMMA Begins ==
    ASSUME TerminalTypes, NEW k \in Keys, NEW kind \in Kinds \cup {"reopen"}, NEW at \in Steps,
           Begin(k, kind, at)
    PROVE  /\ UNCHANGED <<keyed, drains, alive, spawned, killing, persist, outputs, gaps>>
           /\ call[k].at = "none" /\ call[k].process = 0
           /\ call'[k].at = at /\ call'[k].kind = kind /\ call'[k].process = 0
           /\ \A x \in Keys \ {k} : call'[x] = call[x]
           /\ call' \in [Keys -> CallType]
<1>1. NoCall \in CallType
      /\ NoCall.at = "none" /\ NoCall.process = 0
  BY DEF CallType, NoCall, Steps
<1>. DEFINE c == [NoCall EXCEPT !.kind = kind, !.at = at]
<1>2. /\ c \in CallType
      /\ c.at = at /\ c.kind = kind /\ c.process = 0
  BY DEF CallType, NoCall, Steps
<1>3. call' = [call EXCEPT ![k] = c] /\ call[k] = NoCall
  BY DEF Begin
<1>. HIDE DEF c
<1>. QED  BY <1>1, <1>2, <1>3 DEF TerminalTypes, Begin

LEMMA BeginKeeps ==
    ASSUME TerminalInv, NEW k \in Keys, Call(k)
    PROVE  Places' /\ SessionsMatchProcesses' /\ Histories'
<1>. DEFINE kind == call'[k].kind
            at == call'[k].at
<1>0. TerminalTypes
  BY DEF TerminalInv, Places
<1>1. /\ UNCHANGED <<keyed, drains, alive, spawned, killing, persist, outputs, gaps>>
      /\ call[k].at = "none" /\ call[k].process = 0 /\ call'[k].process = 0
      /\ \A x \in Keys \ {k} : call'[x] = call[x]
      /\ call' \in [Keys -> CallType]
      /\ at \notin {"none", "read", "register"} /\ kind # "none"
      /\ kind = "clear" => at = "reset"
      /\ kind = "open" => at = "flush" /\ k \notin sessions
      /\ at = "create" => kind = "restart" /\ k \notin sessions
      /\ at # "stop" /\ kind # "clear" => session[k].process = 0 \/ k \notin sessions
  <2>1. session[k].status # "running" => session[k].process = 0
    BY DEF TerminalInv, Places, SessionPlace
  <2>2. /\ {"open", "clear", "restart", "close", "delete", "reopen"} \subseteq
              Kinds \cup {"reopen"}
        /\ {"flush", "stop", "reset", "start", "create"} \subseteq Steps
    BY DEF Kinds, Steps
  <2>3. CASE CallOpen(k)
    BY <1>0, <2>2, <2>3, Begins DEF CallOpen
  <2>4. CASE CallReopen(k)
    <3>1. CASE Begin(k, "reopen", "stop")
      BY <1>0, <2>2, <3>1, Begins
    <3>2. CASE session[k].status \in {"exited", "error"} /\ Begin(k, "reopen", "reset")
      BY <1>0, <2>1, <2>2, <3>2, Begins
    <3>3. CASE session[k].status = "starting" /\ Begin(k, "reopen", "start")
      BY <1>0, <2>1, <2>2, <3>3, Begins
    <3>. QED  BY <2>4, <3>1, <3>2, <3>3 DEF CallReopen
  <2>5. CASE CallClear(k)
    BY <1>0, <2>2, <2>5, Begins DEF CallClear
  <2>6. CASE CallRestart(k)
    <3>1. CASE k \in sessions /\ Begin(k, "restart", "stop")
      BY <1>0, <2>2, <3>1, Begins
    <3>2. CASE k \notin sessions /\ Begin(k, "restart", "create")
      BY <1>0, <2>2, <3>2, Begins
    <3>. QED  BY <2>6, <3>1, <3>2 DEF CallRestart
  <2>7. CASE CallClose(k, "close") \/ CallClose(k, "delete")
    <3>1. CASE k \in sessions /\ (Begin(k, "close", "stop") \/ Begin(k, "delete", "stop"))
      BY <1>0, <2>2, <3>1, Begins
    <3>2. CASE k \notin sessions /\ (Begin(k, "close", "flush") \/ Begin(k, "delete", "flush"))
      BY <1>0, <2>2, <3>2, Begins
    <3>. QED  BY <2>7, <3>1, <3>2 DEF CallClose
  <2>. QED  BY <2>3, <2>4, <2>5, <2>6, <2>7 DEF Call
<1>2. UNCHANGED <<sessions, session>>
  BY DEF Call, CallOpen, CallReopen, CallClear, CallRestart, CallClose, Begin, memory
<1>. HIDE DEF kind, at
<1>3. Others(k) /\ SessionPlace(k)
  BY <1>1, <1>2 DEF Others, TerminalInv, Places
<1>4. CallPlace(k)'
  BY <1>1, <1>2 DEF CallPlace, kind, at
<1>5. SessionPlace(k)'
  BY <1>1, <1>2, <1>3 DEF SessionPlace, Contains
<1>6. TerminalTypes'
  BY <1>0, <1>1, <1>2 DEF TerminalTypes, persist
<1>7. /\ killing \subseteq alive /\ 0 \notin killing /\ 0 \notin alive
      /\ session[k].process \notin killing /\ session[k].process \in Nat
  BY <1>0 DEF SessionType, TerminalInv, Places, TerminalTypes, Holders
<1>8. Places'
  BY <1>1, <1>2, <1>3, <1>4, <1>5, <1>6, <1>7, PlacesOne DEF TerminalInv
<1>9. SessionsMatchProcesses'
  <2>1. gaps' \cap {"unheard", "dropped"} = {} /\ k \in sessions' /\ session'[k].status = "running"
           => session'[k].process \in alive' \/ Contains(session'[k].pending, Exit)
    BY <1>1, <1>2 DEF TerminalInv, SessionsMatchProcesses
  <2>. QED  BY <1>1, <1>2, <1>3, <1>7, <2>1, MatchOne DEF TerminalInv
<1>10. Histories'
  <2>1. ~Unreset(k)
    BY <1>1 DEF Unreset
  <2>. QED  BY <1>1, <1>2, <1>3, <2>1, HistoryOne DEF TerminalInv, Histories, at
<1>. QED  BY <1>8, <1>9, <1>10

\* The session that is created has no process, and the history of the file, or
\* none while the file has yet to be emptied.
LEMMA CreateKeeps ==
    ASSUME TerminalInv, NEW k \in Keys, ReadHistory(k) \/ CreateEmpty(k)
    PROVE  Places' /\ SessionsMatchProcesses' /\ Histories'
<1>. DEFINE history == IF call[k].at = "read" THEN file[k] ELSE <<>>
            fresh == NewSession(history)
<1>0. /\ TerminalTypes /\ CallPlace(k) /\ SessionPlace(k) /\ fiber # "dead"
      /\ fresh = [status |-> "starting", process |-> 0, history |-> history, pending |-> <<>>,
                  draining |-> FALSE]
  BY DEF TerminalInv, Places, ReadHistory, CreateEmpty, Up, NewSession
<1>1. /\ UNCHANGED <<keyed, alive, spawned, killing, persist, outputs>>
      /\ call[k].at \in {"read", "create"} /\ gaps \subseteq gaps'
      /\ session' = [session EXCEPT ![k] = fresh]
      /\ sessions' \in Evict(sessions \cup {k}, session')
      /\ drains' = [drains EXCEPT ![k] = {[d EXCEPT !.process = 0] : d \in {e \in @ : e.carries}}]
      /\ GoTo(k, IF call[k].kind = "open" THEN "start" ELSE "reset")
  BY DEF ReadHistory, CreateEmpty, CreateSession, UpdateAndEvict, counted
<1>2. history \in Seq(Nat)
  BY <1>0 DEF TerminalTypes
<1>. HIDE DEF history, fresh
<1>3. /\ fresh \in SessionType
      /\ session'[k] = fresh
  BY <1>0, <1>1, <1>2 DEF SessionType, TerminalTypes
<1>4. /\ call'[k].process = 0 /\ call'[k].kind = call[k].kind
      /\ call'[k].at = IF call[k].kind = "open" THEN "start" ELSE "reset"
      /\ call' \in [Keys -> CallType]
      /\ \A x \in Keys \ {k} : call'[x] = call[x]
  BY <1>0, <1>1, GoesTo DEF Steps
<1>5. /\ drains' \in [Keys -> SUBSET DrainType]
      /\ \A d \in drains'[k] : d.carries
      /\ (\E d \in drains[k] : d.carries) => \E d \in drains'[k] : d.carries
  <2>1. /\ drains[k] \subseteq DrainType
        /\ drains'[k] = {[d EXCEPT !.process = 0] : d \in {e \in drains[k] : e.carries}}
    BY <1>0, <1>1 DEF TerminalTypes
  <2>2. drains'[k] \subseteq DrainType
    BY SMTT(30), <2>1 DEF DrainType
  <2>3. drains' \in [Keys -> SUBSET DrainType]
    BY <1>0, <1>1, <2>1, <2>2 DEF TerminalTypes
  <2>4. \A d \in drains'[k] : d.carries
    BY <2>1 DEF DrainType
  <2>5. ASSUME NEW d \in drains[k], d.carries PROVE \E e \in drains'[k] : e.carries
    <3>1. [d EXCEPT !.process = 0] \in drains'[k] /\ [d EXCEPT !.process = 0].carries
      BY <2>1, <2>5
    <3>. QED  BY <3>1
  <2>. QED  BY <2>3, <2>4, <2>5
<1>6. /\ sessions' \subseteq sessions \cup {k}
      /\ \A x \in (sessions \cup {k}) \ sessions' : session'[x].status # "running"
  BY ZenonT(40), <1>1, Evicted
<1>7. Others(k)
  BY <1>0, <1>1, <1>4 DEF Others, TerminalTypes
<1>8. TerminalTypes'
  BY <1>0, <1>1, <1>3, <1>4, <1>5, <1>6 DEF TerminalTypes, persist
<1>9. CallPlace(k)'
  BY <1>0, <1>1, <1>3, <1>4 DEF CallPlace
<1>10. SessionPlace(k)'
  BY <1>0, <1>3, <1>5 DEF SessionPlace, Contains
<1>11. /\ killing \subseteq alive /\ 0 \notin killing /\ 0 \notin alive
       /\ k \notin sessions /\ call[k].process = 0
  BY <1>0, <1>1 DEF TerminalTypes, CallPlace
<1>12. Places'
  BY <1>0, <1>1, <1>3, <1>4, <1>6, <1>7, <1>8, <1>9, <1>10, <1>11, PlacesOne DEF TerminalInv
<1>13. \A x \in sessions \ sessions' : x = k \/ session[x].process = 0
  <2>1. ASSUME NEW x \in sessions \ sessions', x # k PROVE session[x].process = 0
    <3>1. x \in Keys /\ SessionPlace(x) /\ session'[x] = session[x]
      BY <1>0, <1>7, <2>1 DEF Others, TerminalInv, Places, TerminalTypes
    <3>2. session[x].status # "running"
      BY <1>6, <2>1, <3>1
    <3>. QED  BY <3>1, <3>2 DEF SessionPlace
  <2>. QED  BY <2>1
<1>14. SessionsMatchProcesses'
  BY <1>0, <1>1, <1>3, <1>4, <1>6, <1>7, <1>11, <1>13, MatchOne DEF TerminalInv
<1>15. Histories'
  <2>1. CASE call[k].at = "read"
    <3>1. history = file[k] /\ session'[k].history = file[k] /\ call'[k].at # "read"
      BY <1>0, <1>3, <1>4, <2>1 DEF history
    <3>2. gaps' \cap {"stale", "undeleted", "unreset", "unwritten"} = {} => Drained(k)
      BY <1>0, <1>1, <2>1 DEF TerminalInv, Histories
    <3>3. Drained(k) => Filed(k) = file[k]
      BY <1>0 DEF Drained, Filed, TerminalInv, KeyedInv, Positions, Serving
    <3>. QED  BY <1>1, <1>7, <3>1, <3>2, <3>3, HistoryOne DEF TerminalInv
  <2>2. CASE call[k].at = "create"
    <3>1. Unreset(k)' /\ call'[k].at # "read"
      BY <1>0, <1>3, <1>4, <2>2 DEF Unreset, CallPlace
    <3>. QED  BY <1>1, <1>7, <3>1, HistoryOne DEF TerminalInv
  <2>. QED  BY <1>1, <2>1, <2>2
<1>. QED  BY <1>12, <1>14, <1>15

\* A session that lets go of its process may be evicted, or others that have none.
LEMMA StopsAndEvicts ==
    ASSUME Places, NEW k \in Keys, NEW status \in {"exited", "error"},
           UpdateAndEvict(k, sessions, [Stopped(k) EXCEPT !.status = status])
    PROVE  /\ session'[k].process = 0 /\ session'[k].status = status
           /\ session'[k].history = session[k].history /\ session'[k].pending = <<>>
           /\ \A x \in Keys \ {k} : session'[x] = session[x]
           /\ session' \in [Keys -> SessionType]
           /\ sessions' \subseteq sessions
           /\ \A x \in sessions \ sessions' : x = k \/ session[x].process = 0
<1>. DEFINE new == [Stopped(k) EXCEPT !.status = status]
<1>0. TerminalTypes /\ session[k] \in SessionType
      /\ \A x \in Keys : SessionPlace(x)
  BY DEF Places, TerminalTypes
<1>1. session' = [session EXCEPT ![k] = new] /\ sessions' \in Evict(sessions, session')
  BY DEF UpdateAndEvict
<1>2. /\ new.process = 0 /\ new.status = status /\ new.pending = <<>>
      /\ new.history = session[k].history /\ new \in SessionType
  <2>1. <<>> \in Seq(Nat) /\ 0 \in Nat
    OBVIOUS
  <2>2. /\ Stopped(k) \in SessionType /\ Stopped(k).process = 0 /\ Stopped(k).pending = <<>>
        /\ Stopped(k).history = session[k].history
    BY <1>0, <2>1 DEF SessionType, Stopped
  <2>. DEFINE stopped == Stopped(k)
  <2>3. stopped \in SessionType /\ stopped = Stopped(k)
    BY <2>2
  <2>. HIDE DEF stopped
  <2>4. LET s == [stopped EXCEPT !.status = status]
        IN  /\ s.process = stopped.process /\ s.status = status /\ s.pending = stopped.pending
            /\ s.history = stopped.history /\ s \in SessionType
    BY <2>3 DEF SessionType
  <2>. QED  BY <2>2, <2>4 DEF stopped
<1>. HIDE DEF new
<1>3. /\ session' \in [Keys -> SessionType] /\ session'[k] = new
      /\ \A x \in Keys \ {k} : session'[x] = session[x]
  BY <1>0, <1>1, <1>2 DEF TerminalTypes
<1>4. /\ sessions' \subseteq sessions
      /\ \A x \in sessions \ sessions' : session'[x].status # "running"
  BY <1>1, Evicted
<1>5. \A x \in sessions \ sessions' : x = k \/ session[x].process = 0
  BY <1>0, <1>3, <1>4 DEF TerminalTypes, SessionPlace
<1>. QED  BY <1>2, <1>3, <1>4, <1>5

\* A history that is persisted is the last one.
LEMMA HistoryPersist ==
    ASSUME TerminalInv, NEW k \in Keys, NEW h, Persist(k, h), Others(k), gaps \subseteq gaps',
           gaps' \cap {"stale", "undeleted", "unreset", "unwritten"} = {} =>
              /\ session'[k].history = h \/ Unreset(k)' \/ \E d \in drains'[k] : d.carries
              /\ call'[k].at # "read"
    PROVE  Histories'
<1>0. KeyedTypeOK /\ TerminalTypes /\ Histories /\ MaxValues \in Nat
  BY KeyedCoalescingWorkerAssumption DEF TerminalInv, Places, KeyedInv
<1>1. /\ latest'[k] # NoValue /\ \A x \in Keys \ {k} : latest'[x] = latest[x]
      /\ text'[k] = h /\ \A x \in Keys \ {k} : text'[x] = text[x]
      /\ queued' \ {k} = queued \ {k} /\ active' = active
      /\ UNCHANGED <<fiber, key, writing, file>>
  <2>1. /\ latest'[k] = sent[k] + 1 /\ \A x \in Keys \ {k} : latest'[x] = latest[x]
        /\ queued' \in {queued, queued \cup {k}} /\ UNCHANGED <<active, fiber, key>>
    BY <1>0 DEF Persist, Enqueue, KeyedTypeOK, worker
  <2>2. /\ text'[k] = h /\ \A x \in Keys \ {k} : text'[x] = text[x]
        /\ UNCHANGED <<writing, file>>
    BY <1>0 DEF Persist, TerminalTypes
  <2>3. sent[k] + 1 # NoValue
    BY <1>0 DEF KeyedTypeOK, NoValue
  <2>. QED  BY <2>1, <2>2, <2>3
<1>2. \A x \in Keys \ {k} : session'[x] = session[x] /\ call'[x] = call[x]
                             /\ drains'[x] = drains[x]
  BY DEF Others
<1>3. /\ Filed(k)' = h
      /\ \A x \in Keys \ {k} : Filed(x)' = Filed(x)
      /\ \A x \in Keys \ {k} : Drained(x)' <=> Drained(x)
      /\ \A x \in Keys \ {k} : Unreset(x)' <=> Unreset(x)
  BY <1>1, <1>2 DEF Filed, Drained, Unreset
<1>. QED  BY <1>0, <1>1, <1>2, <1>3 DEF Histories

\* The session lets go of its process.
LEMMA StopKeeps ==
    ASSUME TerminalInv, NEW k \in Keys, StopProcess(k)
    PROVE  Places' /\ SessionsMatchProcesses' /\ Histories'
<1>. DEFINE there == IF call[k].kind \in {"close", "delete"} THEN "save" ELSE "reset"
            p == session[k].process
<1>0. /\ TerminalTypes /\ CallPlace(k) /\ SessionPlace(k) /\ Holders
      /\ p \notin killing /\ p \in Nat /\ killing \subseteq alive /\ 0 \notin killing
      /\ 0 \notin alive /\ call[k].process = 0 /\ call[k].at = "stop"
  BY DEF TerminalInv, Places, Holders, StopProcess, TerminalTypes, CallPlace,
         SessionType
<1>1. /\ UNCHANGED <<keyed, drains, alive, spawned, persist, outputs, gaps>>
      /\ GoTo(k, there) /\ there \in Steps /\ call[k].kind # "clear"
  BY <1>0 DEF StopProcess, Steps, CallPlace, counted
<1>2. /\ call'[k].at = there /\ call'[k].kind = call[k].kind /\ call'[k].process = 0
      /\ \A x \in Keys \ {k} : call'[x] = call[x]
      /\ call' \in [Keys -> CallType]
  BY <1>0, <1>1, GoesTo
<1>3. /\ session'[k].process = 0 /\ session'[k].status # "running"
      /\ session'[k].history = session[k].history
      /\ Contains(session'[k].pending, Exit) => Contains(session[k].pending, Exit)
      /\ \A x \in Keys \ {k} : session'[x] = session[x]
      /\ session' \in [Keys -> SessionType]
      /\ sessions' \subseteq sessions
      /\ \A x \in sessions \ sessions' : x = k \/ session[x].process = 0
      /\ killing' = killing \cup ({p} \cap alive)
  <2>1. CASE p = 0
    BY <1>0, <2>1 DEF StopProcess, memory, TerminalTypes, SessionPlace
  <2>2. CASE p # 0
    <3>1. UpdateAndEvict(k, sessions, [Stopped(k) EXCEPT !.status = "exited"])
          /\ killing' = killing \cup ({p} \cap alive)
      BY <2>2 DEF StopProcess
    <3>2. ~Contains(<<>>, Exit)
      BY DEF Contains
    <3>. QED  BY <3>1, <3>2, StopsAndEvicts DEF TerminalInv
  <2>. QED  BY <2>1, <2>2
<1>4. Others(k)
  BY <1>0, <1>1, <1>2, <1>3 DEF Others, TerminalTypes
<1>. HIDE DEF p, there
<1>5. TerminalTypes'
  BY <1>0, <1>1, <1>2, <1>3 DEF TerminalTypes, persist
<1>6. CallPlace(k)'
  BY <1>0, <1>1, <1>2, <1>3 DEF CallPlace, there
<1>7. SessionPlace(k)'
  BY <1>0, <1>1, <1>3 DEF SessionPlace
<1>8. 0 \notin killing'
  BY <1>0, <1>3
<1>9. Places'
  BY <1>0, <1>1, <1>2, <1>3, <1>4, <1>5, <1>6, <1>7, <1>8, PlacesOne DEF TerminalInv, p
<1>11. SessionsMatchProcesses'
  <2>1. \A q \in alive' : session[k].process = q => q \in killing'
    BY <1>1, <1>3 DEF p
  <2>. QED  BY <1>0, <1>1, <1>2, <1>3, <1>4, <2>1, MatchOne DEF TerminalInv
<1>12. Histories'
  <2>1. ~Unreset(k)
    BY <1>0 DEF Unreset
  <2>2. call'[k].at # "read"
    BY <1>2 DEF there
  <2>. QED  BY <1>1, <1>3, <1>4, <2>1, <2>2, HistoryOne DEF TerminalInv, Histories
<1>. QED  BY <1>9, <1>11, <1>12

\* The history is emptied in the session and on its way to the file; what the
\* session has not drained is given up.
LEMMA ResetKeeps ==
    ASSUME TerminalInv, NEW k \in Keys, ResetHistory(k)
    PROVE  Places' /\ SessionsMatchProcesses' /\ Histories'
<1>0. /\ TerminalTypes /\ CallPlace(k) /\ SessionPlace(k) /\ Holders
      /\ killing \subseteq alive /\ 0 \notin killing /\ 0 \notin alive
      /\ call[k].process = 0 /\ call[k].at = "reset"
  <2>1. Places /\ call[k].at = "reset"
    BY DEF TerminalInv, ResetHistory
  <2>2. TerminalTypes /\ CallPlace(k) /\ SessionPlace(k) /\ Holders
    BY <2>1 DEF Places
  <2>3. call[k].process = 0
    BY <2>1, <2>2 DEF CallPlace
  <2>4. killing \subseteq alive /\ 0 \notin killing /\ 0 \notin alive
    BY <2>2 DEF TerminalTypes
  <2>. QED  BY <2>1, <2>2, <2>3, <2>4
<1>1. /\ UNCHANGED <<sessions, drains, alive, spawned, killing, outputs>>
      /\ Persist(k, <<>>) /\ GoTo(k, "flush") /\ gaps' = gaps \cup Dropped(k)
      /\ session' = [session EXCEPT ![k].history = <<>>, ![k].pending = <<>>,
                                    ![k].draining = FALSE]
  BY DEF ResetHistory, counted
<1>2. /\ call'[k].at = "flush" /\ call'[k].kind = call[k].kind /\ call'[k].process = 0
      /\ \A x \in Keys \ {k} : call'[x] = call[x]
      /\ call' \in [Keys -> CallType]
  BY <1>0, <1>1, GoesTo DEF Steps
<1>3. /\ session'[k].process = session[k].process /\ session'[k].status = session[k].status
      /\ session'[k].history = <<>> /\ session'[k].pending = <<>>
      /\ \A x \in Keys \ {k} : session'[x] = session[x]
      /\ session' \in [Keys -> SessionType]
  <2>. DEFINE new == [session[k] EXCEPT !.history = <<>>, !.pending = <<>>, !.draining = FALSE]
  <2>1. <<>> \in Seq(Nat) /\ session[k] \in SessionType
    BY <1>0 DEF TerminalTypes
  <2>2. /\ new \in SessionType /\ new.process = session[k].process
        /\ new.status = session[k].status /\ new.history = <<>> /\ new.pending = <<>>
    BY <2>1 DEF SessionType
  <2>3. session' = [session EXCEPT ![k] = new]
    BY <1>0, <1>1 DEF TerminalTypes, SessionType
  <2>. HIDE DEF new
  <2>. QED  BY <1>0, <2>2, <2>3 DEF TerminalTypes
<1>4. Others(k)
  BY <1>1, <1>2, <1>3 DEF Others
<1>5. TerminalTypes'
  <2>1. <<>> \in Seq(Nat)
    OBVIOUS
  <2>. QED  BY <1>0, <1>1, <1>2, <1>3, <2>1 DEF TerminalTypes, Persist
<1>6. CallPlace(k)'
  BY <1>0, <1>1, <1>2, <1>3 DEF CallPlace
<1>7. ~Contains(session'[k].pending, Exit)
  BY <1>3 DEF Contains
<1>8. SessionPlace(k)'
  BY <1>0, <1>1, <1>3, <1>7 DEF SessionPlace
<1>9. Places'
  <2>1. session[k].process \notin killing
    BY <1>0 DEF Holders
  <2>. QED  BY <1>0, <1>1, <1>2, <1>3, <1>4, <1>5, <1>6, <1>8, <2>1, PlacesOne DEF TerminalInv
<1>10. SessionsMatchProcesses'
  <2>1. gaps' \cap {"unheard", "dropped"} = {} => session[k].pending = <<>>
    BY <1>1 DEF Dropped
  <2>2. session[k].pending = <<>> => ~Contains(session[k].pending, Exit)
    BY DEF Contains
  <2>3. gaps' \cap {"unheard", "dropped"} = {} /\ k \in sessions' /\ session'[k].status = "running"
           => session'[k].process \in alive'
    BY <1>1, <1>3, <2>1, <2>2 DEF TerminalInv, SessionsMatchProcesses
  <2>. QED  BY <1>0, <1>1, <1>2, <1>3, <1>4, <2>3, MatchOne DEF TerminalInv
<1>11. Histories'
  BY <1>1, <1>2, <1>3, <1>4, HistoryPersist
<1>. QED  BY <1>9, <1>10, <1>11

\* The steps of a call that leave its session as it is.
LEMMA CallKeeps ==
    ASSUME TerminalInv, NEW k \in Keys, SaveHistory(k) \/ FlushPersist(k) \/ CloseSession(k)
    PROVE  Places' /\ SessionsMatchProcesses' /\ Histories'
<1>0. /\ TerminalTypes /\ CallPlace(k) /\ SessionPlace(k) /\ Holders
      /\ killing \subseteq alive /\ 0 \notin killing /\ 0 \notin alive
      /\ session[k].process \notin killing
  BY DEF TerminalInv, Places, TerminalTypes, Holders
<1>1. /\ UNCHANGED <<session, drains, alive, spawned, killing, outputs, gaps>>
      /\ sessions' \subseteq sessions /\ sessions \subseteq sessions' \cup {k}
      /\ call[k].at \in {"save", "flush", "unmap"}
      /\ sessions' # sessions => call[k].at = "unmap"
  BY DEF SaveHistory, FlushPersist, CloseSession, memory, counted
<1>2. /\ call'[k].process = 0
      /\ call[k].kind = "open" => call'[k].kind = "open" /\ call'[k].at = "read"
      /\ call[k].kind # "open" => call'[k].kind \in {"none", call[k].kind}
      /\ call[k].kind = "clear" => call'[k].kind = "none"
      /\ call'[k].at = "none" <=> call'[k].kind = "none"
      /\ call'[k].at \in {"none", "flush", "unmap", "delete", "start"} \/ call[k].kind = "open"
      /\ \A x \in Keys \ {k} : call'[x] = call[x]
      /\ call' \in [Keys -> CallType]
  <2>0. /\ {"flush", "read", "unmap", "start", "delete"} \subseteq Steps
        /\ NoCall.at = "none" /\ NoCall.kind = "none" /\ NoCall.process = 0
        /\ call[k].kind # "none" /\ call[k].at # "flush" => call[k].kind # "open"
        /\ call[k].at # "flush" => call[k].kind # "clear"
    BY <1>0, <1>1 DEF Steps, NoCall, CallPlace
  <2>1. CASE SaveHistory(k)
    <3>1. GoTo(k, "flush") /\ call[k].at = "save"
      BY <2>1 DEF SaveHistory
    <3>2. /\ call'[k].at = "flush" /\ call'[k].kind = call[k].kind /\ call'[k].process = 0
          /\ \A x \in Keys \ {k} : call'[x] = call[x]
          /\ call' \in [Keys -> CallType]
      BY <1>0, <2>0, <3>1, GoesTo
    <3>. QED  BY <1>0, <2>0, <3>1, <3>2 DEF CallPlace
  <2>2. CASE CloseSession(k)
    <3>1. (GoTo(k, "delete") \/ End(k)) /\ call[k].at = "unmap"
      BY <2>2 DEF CloseSession
    <3>2. /\ \/ call'[k].at = "delete" /\ call'[k].kind = call[k].kind
             \/ call'[k].at = "none" /\ call'[k].kind = "none"
          /\ call'[k].process = 0
          /\ \A x \in Keys \ {k} : call'[x] = call[x]
          /\ call' \in [Keys -> CallType]
      <4>1. CASE GoTo(k, "delete")
        BY <1>0, <2>0, <4>1, GoesTo
      <4>2. CASE End(k)
        BY <1>0, <2>0, <4>2, Ends
      <4>. QED  BY <3>1, <4>1, <4>2
    <3>. QED  BY <1>0, <2>0, <3>1, <3>2 DEF CallPlace
  <2>3. CASE FlushPersist(k)
    <3>1. \/ call[k].kind = "open" /\ GoTo(k, "read")
          \/ call[k].kind = "clear" /\ End(k)
          \/ call[k].kind \in {"close", "delete"} /\ GoTo(k, "unmap")
          \/ call[k].kind \notin {"open", "clear", "close", "delete"} /\ GoTo(k, "start")
      BY <2>3 DEF FlushPersist
    <3>2. /\ \/ call[k].kind = "open" /\ call'[k].at = "read" /\ call'[k].kind = "open"
             \/ call[k].kind = "clear" /\ call'[k].at = "none" /\ call'[k].kind = "none"
             \/ /\ call[k].kind \notin {"open", "clear"} /\ call'[k].kind = call[k].kind
                /\ call'[k].at \in {"unmap", "start"}
          /\ call'[k].process = 0
          /\ \A x \in Keys \ {k} : call'[x] = call[x]
          /\ call' \in [Keys -> CallType]
      <4>1. CASE call[k].kind = "open" /\ GoTo(k, "read")
        BY <1>0, <2>0, <4>1, GoesTo
      <4>2. CASE call[k].kind = "clear" /\ End(k)
        BY <1>0, <2>0, <4>2, Ends
      <4>3. CASE call[k].kind \in {"close", "delete"} /\ GoTo(k, "unmap")
        BY <1>0, <2>0, <4>3, GoesTo
      <4>4. CASE call[k].kind \notin {"open", "clear", "close", "delete"} /\ GoTo(k, "start")
        BY <1>0, <2>0, <4>4, GoesTo
      <4>. QED  BY <3>1, <4>1, <4>2, <4>3, <4>4
    <3>3. call[k].at = "flush"
      BY <2>3 DEF FlushPersist
    <3>. QED  BY <1>0, <2>0, <3>2, <3>3 DEF CallPlace
  <2>. QED  BY <2>1, <2>2, <2>3
<1>3. Others(k) /\ call[k].process = 0
  BY <1>0, <1>1, <1>2 DEF Others, CallPlace
<1>4. TerminalTypes'
  <2>1. text' \in [Keys -> Seq(Nat)] /\ UNCHANGED <<writing, file>>
    BY <1>0 DEF SaveHistory, FlushPersist, CloseSession, Persist, persist, TerminalTypes,
                SessionType
  <2>. QED  BY <1>0, <1>1, <1>2, <2>1 DEF TerminalTypes
<1>5. CallPlace(k)'
  BY <1>0, <1>1, <1>2 DEF CallPlace
<1>6. SessionPlace(k)'
  BY <1>0, <1>1 DEF SessionPlace, Contains
<1>7. Places'
  BY <1>0, <1>1, <1>2, <1>3, <1>4, <1>5, <1>6, PlacesOne DEF TerminalInv
<1>8. SessionsMatchProcesses'
  <2>1. gaps' \cap {"unheard", "dropped"} = {} /\ k \in sessions' /\ session'[k].status = "running"
           => session'[k].process \in alive' \/ Contains(session'[k].pending, Exit)
    BY <1>1 DEF TerminalInv, SessionsMatchProcesses
  <2>2. k \in sessions => k \in sessions' \/ session[k].process = 0
    BY <1>0, <1>1 DEF CallPlace
  <2>. QED  BY <1>0, <1>1, <1>2, <1>3, <2>1, <2>2, MatchOne DEF TerminalInv
<1>9. Histories'
  <2>1. ~Unreset(k)
    BY <1>1 DEF Unreset
  <2>2. CASE SaveHistory(k)
    <3>1. Persist(k, session[k].history) /\ call'[k].at # "read"
      BY <1>0, <1>1, <1>2, <2>2 DEF SaveHistory, CallPlace
    <3>. QED  BY <1>1, <1>3, <3>1, HistoryPersist
  <2>3. CASE FlushPersist(k)
    <3>1. UNCHANGED <<keyed, persist>> /\ Drained(k)
      BY <2>3 DEF FlushPersist
    <3>. QED  BY <1>1, <1>3, <2>1, <3>1, HistoryOne DEF TerminalInv, Histories
  <2>4. CASE CloseSession(k)
    <3>1. UNCHANGED <<keyed, persist>> /\ call'[k].at # "read"
      BY <1>0, <1>2, <2>4 DEF CloseSession, CallPlace
    <3>. QED  BY <1>1, <1>3, <2>1, <3>1, HistoryOne DEF TerminalInv, Histories
  <2>. QED  BY <2>2, <2>3, <2>4
<1>. QED  BY <1>7, <1>8, <1>9

\* What is left to the next session is deleted with the file, or the failure noted.
LEMMA DeleteKeeps ==
    ASSUME TerminalInv, NEW k \in Keys, DeleteHistory(k) \/ DeleteFails(k)
    PROVE  Places' /\ SessionsMatchProcesses' /\ Histories'
<1>0. /\ TerminalTypes /\ CallPlace(k) /\ SessionPlace(k) /\ Holders /\ Places
      /\ call[k].at = "delete" /\ fiber # "dead"
  BY DEF TerminalInv, Places, DeleteHistory, DeleteFails, Forget, Up
<1>1. /\ UNCHANGED <<keyed, sessions, drains, alive, spawned, killing, text, writing, outputs>>
      /\ \/ /\ file' = [file EXCEPT ![k] = <<>>]
            /\ gaps' = (IF Drained(k) THEN gaps ELSE gaps \cup {"stale"})
         \/ file' = file /\ gaps' = gaps \cup {"undeleted"}
      /\ session' = [session EXCEPT ![k].history = <<>>]
      /\ End(k)
  BY DEF DeleteHistory, DeleteFails, Forget
<1>2. /\ call'[k] = NoCall /\ call'[k].at = "none" /\ call'[k].kind = "none"
      /\ call'[k].process = 0
      /\ \A x \in Keys \ {k} : call'[x] = call[x]
      /\ call' \in [Keys -> CallType]
  BY <1>0, <1>1, Ends DEF NoCall
<1>3. /\ session'[k].process = session[k].process /\ session'[k].status = session[k].status
      /\ session'[k].history = <<>> /\ session'[k].pending = session[k].pending
      /\ \A x \in Keys \ {k} : session'[x] = session[x]
      /\ session' \in [Keys -> SessionType]
      /\ file' \in [Keys -> Seq(Nat)]
  <2>1. <<>> \in Seq(Nat)
    OBVIOUS
  <2>. QED  BY <1>0, <1>1, <2>1 DEF TerminalTypes, SessionType
<1>4. /\ Others(k) /\ call[k].process = 0
      /\ killing \subseteq alive /\ 0 \notin killing /\ 0 \notin alive
      /\ session[k].process \notin killing
  BY <1>0, <1>1, <1>2, <1>3 DEF Others, CallPlace, TerminalTypes, Holders
<1>5. TerminalTypes'
  BY <1>0, <1>1, <1>2, <1>3 DEF TerminalTypes
<1>6. CallPlace(k)'
  BY <1>2 DEF CallPlace
<1>7. SessionPlace(k)'
  BY <1>0, <1>1, <1>3 DEF SessionPlace
<1>8. Places'
  BY <1>0, <1>1, <1>2, <1>3, <1>4, <1>5, <1>6, <1>7, PlacesOne
<1>9. SessionsMatchProcesses'
  <2>1. gaps' \cap {"unheard", "dropped"} = {} /\ k \in sessions' /\ session'[k].status = "running"
           => session'[k].process \in alive' \/ Contains(session'[k].pending, Exit)
    BY <1>1, <1>3 DEF TerminalInv, SessionsMatchProcesses
  <2>. QED  BY <1>0, <1>1, <1>2, <1>3, <1>4, <2>1, MatchOne DEF TerminalInv
<1>10. Histories'
  <2>. SUFFICES ASSUME gaps' \cap {"stale", "undeleted", "unreset", "unwritten"} = {} PROVE Histories'
    BY DEF Histories
  <2>0. file' = [file EXCEPT ![k] = <<>>] /\ gaps' = gaps /\ Drained(k)
    BY <1>1
  <2>1. Filed(k)' = <<>>
    <3>1. file'[k] = <<>> /\ UNCHANGED <<latest, fiber, key, active>>
      BY <1>0, <1>1, <2>0 DEF TerminalTypes, keyed, worker
    <3>2. fiber = "processing" /\ key = k => k \in active
      BY <1>0 DEF TerminalInv, KeyedInv, Positions, Serving
    <3>. QED  BY <2>0, <3>1, <3>2 DEF Drained, Filed
  <2>2. \A x \in Keys \ {k} :
           /\ Filed(x)' = Filed(x) /\ (Drained(x)' <=> Drained(x))
           /\ Unreset(x)' <=> Unreset(x)
    BY <1>0, <1>1, <1>4, <2>0 DEF Filed, Drained, Unreset, Others, TerminalTypes, keyed, worker
  <2>3. UNCHANGED <<fiber, drains>>
    BY <1>1 DEF keyed, worker
  <2>. QED  BY <1>1, <1>2, <1>3, <1>4, <2>0, <2>1, <2>2, <2>3 DEF TerminalInv, Histories, Others
<1>. QED  BY <1>8, <1>9, <1>10

\* A process that cannot be spawned leaves the session without one.
LEMMA SpawnFailsKeeps ==
    ASSUME TerminalInv, NEW k \in Keys, SpawnFails(k)
    PROVE  Places' /\ SessionsMatchProcesses' /\ Histories'
<1>0. /\ TerminalTypes /\ CallPlace(k) /\ SessionPlace(k) /\ Holders /\ Places
      /\ call[k].at = "start"
  BY DEF TerminalInv, Places, SpawnFails
<1>1. /\ UNCHANGED <<keyed, drains, alive, spawned, killing, persist, outputs, gaps>>
      /\ UpdateAndEvict(k, sessions, [Stopped(k) EXCEPT !.status = "error"])
      /\ End(k)
  BY DEF SpawnFails
<1>2. /\ call'[k].at = "none" /\ call'[k].kind = "none" /\ call'[k].process = 0
      /\ \A x \in Keys \ {k} : call'[x] = call[x]
      /\ call' \in [Keys -> CallType]
  BY <1>0, <1>1, Ends DEF NoCall
<1>3. /\ session'[k].process = 0 /\ session'[k].status = "error"
      /\ session'[k].history = session[k].history /\ session'[k].pending = <<>>
      /\ \A x \in Keys \ {k} : session'[x] = session[x]
      /\ session' \in [Keys -> SessionType]
      /\ sessions' \subseteq sessions
      /\ \A x \in sessions \ sessions' : x = k \/ session[x].process = 0
  BY <1>0, <1>1, StopsAndEvicts
<1>4. /\ Others(k) /\ call[k].process = 0
      /\ killing \subseteq alive /\ 0 \notin killing /\ 0 \notin alive
      /\ session[k].process = 0 \/ k \notin sessions
  <2>1. call[k].kind # "clear" /\ call[k].process = 0
    BY <1>0 DEF CallPlace
  <2>. QED  BY <1>0, <1>1, <1>2, <1>3, <2>1 DEF Others, CallPlace, TerminalTypes
<1>5. TerminalTypes'
  BY <1>0, <1>1, <1>2, <1>3 DEF TerminalTypes, persist
<1>6. CallPlace(k)'
  BY <1>2 DEF CallPlace
<1>7. SessionPlace(k)'
  BY <1>0, <1>1, <1>3 DEF SessionPlace, Contains
<1>8. Places'
  BY <1>0, <1>1, <1>2, <1>3, <1>4, <1>5, <1>6, <1>7, PlacesOne
<1>9. SessionsMatchProcesses'
  BY <1>0, <1>1, <1>2, <1>3, <1>4, MatchOne DEF TerminalInv
<1>10. Histories'
  <2>1. ~Unreset(k)
    BY <1>0 DEF Unreset
  <2>. QED  BY <1>1, <1>2, <1>3, <1>4, <2>1, HistoryOne DEF TerminalInv, Histories
<1>. QED  BY <1>8, <1>9, <1>10

\* The session gets the process that its call has spawned.
LEMMA RegisterKeeps ==
    ASSUME TerminalInv, NEW k \in Keys, RegisterProcess(k)
    PROVE  Places' /\ SessionsMatchProcesses' /\ Histories'
<1>0. /\ TerminalTypes /\ CallPlace(k) /\ SessionPlace(k) /\ Holders /\ Places
      /\ call[k].at = "register"
  BY DEF TerminalInv, Places, RegisterProcess
<1>1. /\ UNCHANGED <<keyed, sessions, drains, alive, spawned, killing, persist, outputs>>
      /\ session' = [session EXCEPT ![k].status = "running", ![k].process = call[k].process]
      /\ gaps' = gaps \cup (IF k \notin sessions THEN {"evicted"} ELSE {})
                      \cup (IF call[k].process \notin alive THEN {"unheard"} ELSE {})
      /\ End(k)
  BY DEF RegisterProcess, counted
<1>2. /\ call'[k].at = "none" /\ call'[k].kind = "none" /\ call'[k].process = 0
      /\ \A x \in Keys \ {k} : call'[x] = call[x]
      /\ call' \in [Keys -> CallType]
  BY <1>0, <1>1, Ends DEF NoCall
<1>3. /\ session'[k].process = call[k].process /\ session'[k].status = "running"
      /\ session'[k].history = session[k].history
      /\ session'[k].pending = session[k].pending
      /\ \A x \in Keys \ {k} : session'[x] = session[x]
      /\ session' \in [Keys -> SessionType]
  <2>. DEFINE new == [session[k] EXCEPT !.status = "running", !.process = call[k].process]
  <2>1. call[k].process \in Nat /\ session[k] \in SessionType
    BY <1>0 DEF TerminalTypes, CallType
  <2>2. /\ new \in SessionType /\ new.process = call[k].process
        /\ new.status = "running" /\ new.history = session[k].history
        /\ new.pending = session[k].pending
    BY <2>1 DEF SessionType
  <2>3. session' = [session EXCEPT ![k] = new]
    BY <1>0, <1>1 DEF TerminalTypes, SessionType
  <2>. HIDE DEF new
  <2>. QED  BY <1>0, <2>2, <2>3 DEF TerminalTypes
<1>4. /\ Others(k) /\ call[k].process # 0
      /\ killing \subseteq alive /\ 0 \notin killing /\ 0 \notin alive
      /\ session[k].process = 0 /\ session[k].pending = <<>> /\ call[k].process \notin killing
  BY <1>0, <1>1, <1>2, <1>3 DEF Others, CallPlace, TerminalTypes, Holders
<1>5. TerminalTypes'
  BY <1>0, <1>1, <1>2, <1>3 DEF TerminalTypes, persist
<1>6. CallPlace(k)'
  BY <1>2 DEF CallPlace
<1>7. SessionPlace(k)'
  BY <1>0, <1>1, <1>3, <1>4 DEF SessionPlace, Contains
<1>8. Places'
  BY <1>0, <1>1, <1>2, <1>3, <1>4, <1>5, <1>6, <1>7, PlacesOne
<1>9. SessionsMatchProcesses'
  <2>1. gaps' \cap {"evicted", "left", "shutdown", "unkilled"} = {} => k \in sessions'
    BY <1>1
  <2>2. gaps' \cap {"unheard", "dropped"} = {} => call[k].process \in alive'
    BY <1>1
  <2>3. session'[k].process = call[k].process
    BY <1>3
  <2>. QED  BY SMTT(30), <1>0, <1>1, <1>2, <1>3, <1>4, <2>1, <2>2, <2>3, MatchOne DEF TerminalInv
<1>10. Histories'
  <2>1. ~Unreset(k)
    BY <1>0 DEF Unreset
  <2>. QED  BY <1>1, <1>2, <1>3, <1>4, <2>1, HistoryOne DEF TerminalInv, Histories
<1>. QED  BY <1>8, <1>9, <1>10

\* A client that leaves gives up the process its call has spawned.
LEMMA LeaveKeeps ==
    ASSUME TerminalInv, NEW k \in Keys, Leave(k)
    PROVE  Places' /\ SessionsMatchProcesses' /\ Histories'
<1>0. /\ TerminalTypes /\ CallPlace(k) /\ SessionPlace(k) /\ Holders /\ Places
  BY DEF TerminalInv, Places
<1>1. /\ UNCHANGED <<keyed, sessions, session, drains, alive, spawned, killing, persist, outputs>>
      /\ gaps' = gaps \cup (IF call[k].process # 0 THEN {"left"} ELSE {})
                      \cup (IF Unreset(k) THEN {"unreset"} ELSE {})
      /\ End(k)
  BY DEF Leave, memory
<1>2. /\ call'[k].at = "none" /\ call'[k].kind = "none" /\ call'[k].process = 0
      /\ \A x \in Keys \ {k} : call'[x] = call[x]
      /\ call' \in [Keys -> CallType]
  BY <1>0, <1>1, Ends DEF NoCall
<1>3. /\ Others(k)
      /\ killing \subseteq alive /\ 0 \notin killing /\ 0 \notin alive
      /\ session[k].process \notin killing
  BY <1>0, <1>1, <1>2 DEF Others, TerminalTypes, Holders
<1>4. TerminalTypes'
  BY <1>0, <1>1, <1>2 DEF TerminalTypes, persist
<1>5. CallPlace(k)'
  BY <1>2 DEF CallPlace
<1>6. SessionPlace(k)'
  BY <1>0, <1>1 DEF SessionPlace
<1>7. Places'
  BY <1>0, <1>1, <1>2, <1>3, <1>4, <1>5, <1>6, PlacesOne
<1>8. SessionsMatchProcesses'
  <2>1. gaps' \cap {"unheard", "dropped"} = {} /\ k \in sessions' /\ session'[k].status = "running"
           => session'[k].process \in alive' \/ Contains(session'[k].pending, Exit)
    BY <1>1 DEF TerminalInv, SessionsMatchProcesses
  <2>. QED  BY <1>0, <1>1, <1>2, <1>3, <2>1, MatchOne DEF TerminalInv
<1>9. Histories'
  BY <1>1, <1>2, <1>3, HistoryOne DEF TerminalInv, Histories
<1>. QED  BY <1>7, <1>8, <1>9

\* The process that is spawned is a new one, in the hand of the call.
LEMMA SpawnKeeps ==
    ASSUME TerminalInv, NEW k \in Keys, Spawn(k)
    PROVE  Places' /\ SessionsMatchProcesses' /\ Histories'
<1>0. /\ TerminalTypes /\ CallPlace(k) /\ SessionPlace(k) /\ Holders /\ Places
      /\ call[k].at = "start" /\ spawned \in Nat
  BY DEF TerminalInv, Places, Spawn, TerminalTypes
<1>1. /\ UNCHANGED <<keyed, sessions, drains, killing, persist, outputs, gaps>>
      /\ session' = [session EXCEPT ![k] = [Stopped(k) EXCEPT !.status = "starting"]]
      /\ spawned' = spawned + 1 /\ alive' = alive \cup {spawned + 1}
      /\ call' = [call EXCEPT ![k].at = "register", ![k].process = spawned + 1]
  BY DEF Spawn, counted
<1>2. /\ call'[k].at = "register" /\ call'[k].kind = call[k].kind
      /\ call'[k].process = spawned + 1
      /\ \A x \in Keys \ {k} : call'[x] = call[x]
      /\ call' \in [Keys -> CallType]
  <2>. DEFINE new == [call[k] EXCEPT !.at = "register", !.process = spawned + 1]
  <2>1. call[k] \in CallType /\ spawned + 1 \in Nat /\ "register" \in Steps
    BY <1>0 DEF TerminalTypes, Steps
  <2>2. /\ new \in CallType /\ new.at = "register" /\ new.kind = call[k].kind
        /\ new.process = spawned + 1
    BY <2>1 DEF CallType
  <2>3. call' = [call EXCEPT ![k] = new]
    BY <1>0, <1>1 DEF TerminalTypes, CallType
  <2>. HIDE DEF new
  <2>. QED  BY <1>0, <2>2, <2>3 DEF TerminalTypes
<1>3. /\ session'[k].process = 0 /\ session'[k].status = "starting"
      /\ session'[k].history = session[k].history /\ session'[k].pending = <<>>
      /\ \A x \in Keys \ {k} : session'[x] = session[x]
      /\ session' \in [Keys -> SessionType]
  <2>. DEFINE new == [Stopped(k) EXCEPT !.status = "starting"]
  <2>1. <<>> \in Seq(Nat) /\ 0 \in Nat /\ session[k] \in SessionType
    BY <1>0 DEF TerminalTypes
  <2>2. /\ Stopped(k) \in SessionType /\ Stopped(k).process = 0 /\ Stopped(k).pending = <<>>
        /\ Stopped(k).history = session[k].history
    BY <2>1 DEF SessionType, Stopped
  <2>3. /\ new \in SessionType /\ new.process = 0 /\ new.status = "starting"
        /\ new.pending = <<>> /\ new.history = session[k].history
    BY <2>2 DEF SessionType
  <2>4. session' = [session EXCEPT ![k] = new]
    BY <1>1
  <2>. HIDE DEF new
  <2>. QED  BY <1>0, <2>3, <2>4 DEF TerminalTypes
<1>4. /\ Others(k) /\ call[k].process = 0
      /\ killing \subseteq 1..spawned /\ alive \subseteq 1..spawned /\ 0 \notin alive
      /\ session[k].process = 0 \/ k \notin sessions
  <2>1. call[k].kind # "clear" /\ call[k].process = 0
    BY <1>0 DEF CallPlace
  <2>. QED  BY <1>0, <1>1, <1>2, <1>3, <2>1 DEF Others, CallPlace, TerminalTypes
<1>5. TerminalTypes'
  BY <1>0, <1>1, <1>2, <1>3 DEF TerminalTypes, persist
<1>6. \A x \in Keys : CallPlace(x)'
  <2>1. CallPlace(k)'
    BY <1>0, <1>1, <1>2, <1>3 DEF CallPlace
  <2>2. ASSUME NEW x \in Keys \ {k} PROVE CallPlace(x)'
    <3>1. CallPlace(x) /\ session'[x] = session[x] /\ call'[x] = call[x] /\ sessions' = sessions
      BY <1>0, <1>1, <1>2, <1>3 DEF Places
    <3>. QED  BY <3>1 DEF CallPlace
  <2>. QED  BY <2>1, <2>2
<1>7. \A x \in Keys : session[x].process \in Nat /\ session[x].process <= spawned
                      /\ call[x].process \in Nat /\ call[x].process <= spawned
  BY <1>0 DEF Holders, TerminalTypes, SessionType, CallType
<1>8. \A x \in Keys : SessionPlace(x)'
  <2>1. SessionPlace(k)'
    BY <1>0, <1>1, <1>3 DEF SessionPlace, Contains
  <2>2. ASSUME NEW x \in Keys \ {k} PROVE SessionPlace(x)'
    <3>1. SessionPlace(x) /\ session'[x] = session[x] /\ drains' = drains
      BY <1>0, <1>1, <1>3 DEF Places
    <3>2. session[x].process # spawned + 1
      BY <1>0, <1>7
    <3>. QED  BY <1>1, <3>1, <3>2 DEF SessionPlace, Contains
  <2>. QED  BY <2>1, <2>2
<1>9. Holders'
  <2>1. \A x \in Keys : session'[x].process <= spawned' /\ call'[x].process <= spawned'
    BY <1>0, <1>1, <1>2, <1>3, <1>7
  <2>2. \A x \in Keys : session'[x].process \notin killing' /\ call'[x].process \notin killing'
    BY <1>0, <1>1, <1>2, <1>3, <1>4 DEF Holders
  <2>3. \A j, x \in Keys :
           session'[j].process = session'[x].process => j = x \/ session'[x].process = 0
    BY <1>0, <1>3 DEF Holders
  <2>4. \A x \in Keys : call[x].process # spawned + 1 /\ session[x].process # spawned + 1
    BY <1>0, <1>7
  <2>5. \A j, x \in Keys : call'[j].process = call'[x].process => j = x \/ call'[x].process = 0
    BY <1>0, <1>2, <2>4 DEF Holders
  <2>6. \A j, x \in Keys : call'[j].process = session'[x].process => session'[x].process = 0
    BY <1>0, <1>2, <1>3, <2>4 DEF Holders
  <2>. QED  BY <2>1, <2>2, <2>3, <2>5, <2>6 DEF Holders
<1>10. Places'
  BY <1>5, <1>6, <1>8, <1>9 DEF Places
<1>11. SessionsMatchProcesses'
  <2>1. ASSUME gaps \cap {"evicted", "left", "shutdown", "unkilled"} = {}, NEW p \in alive'
        PROVE  p \in killing' \/ InHand(p)' \/ (Attached(p) \cap sessions # {})'
    <3>1. CASE p = spawned + 1
      BY <1>2, <3>1 DEF InHand
    <3>2. CASE p \in alive
      <4>1. p # 0 /\ (p \in killing \/ InHand(p) \/ Attached(p) \cap sessions # {})
        BY <1>4, <2>1, <3>2 DEF TerminalInv, SessionsMatchProcesses
      <4>2. InHand(p) => InHand(p)'
        BY <1>2, <1>4, <4>1 DEF InHand
      <4>3. Attached(p) \cap sessions # {} => (Attached(p) \cap sessions # {})'
        BY <1>1, <1>3, <1>4, <4>1 DEF Attached
      <4>. QED  BY <1>1, <4>1, <4>2, <4>3
    <3>. QED  BY <1>1, <3>1, <3>2
  <2>2. ASSUME gaps \cap {"unheard", "dropped"} = {}, NEW x \in sessions,
               session'[x].status = "running"
        PROVE  session'[x].process \in alive' \/ Contains(session'[x].pending, Exit)
    <3>1. x \in Keys \ {k} /\ session'[x] = session[x]
      BY <1>0, <1>3, <2>2 DEF TerminalTypes
    <3>2. session[x].process \in alive \/ Contains(session[x].pending, Exit)
      BY <2>2, <3>1 DEF TerminalInv, SessionsMatchProcesses
    <3>. QED  BY <1>1, <3>1, <3>2
  <2>. QED  BY <1>1, <2>1, <2>2 DEF SessionsMatchProcesses
<1>12. Histories'
  <2>1. ~Unreset(k)
    BY <1>0 DEF Unreset
  <2>. QED  BY <1>1, <1>2, <1>3, <1>4, <2>1, HistoryOne DEF TerminalInv, Histories
<1>. QED  BY <1>10, <1>11, <1>12

-----------------------------------------------------------------------------
(* The processes. *)

\* What a process reports is the last that its session has to drain, and a drain runs.
LEMMA Reported ==
    ASSUME TerminalTypes, NEW k \in Keys, NEW event \in Nat, Report(k, event)
    PROVE  /\ session'[k].process = session[k].process /\ session'[k].status = session[k].status
           /\ session'[k].history = session[k].history
           /\ Contains(session'[k].pending, Exit)
                 <=> Contains(session[k].pending, Exit) \/ event = Exit
           /\ \A x \in Keys \ {k} : session'[x] = session[x]
           /\ session' \in [Keys -> SessionType]
           /\ drains[k] \subseteq drains'[k]
           /\ \A d \in drains'[k] : d \in drains[k] \/ d.process = session[k].process
           /\ \A x \in Keys \ {k} : drains'[x] = drains[x]
           /\ drains' \in [Keys -> SUBSET DrainType]
<1>. DEFINE pending == Append(session[k].pending, event)
            new == [session[k] EXCEPT !.pending = pending, !.draining = TRUE]
            drain == [process |-> session[k].process, carries |-> FALSE, history |-> <<>>]
<1>0. session[k] \in SessionType
  BY DEF TerminalTypes
<1>1. session[k].pending \in Seq(Nat) /\ session[k].process \in Nat
  BY <1>0 DEF SessionType
<1>2. /\ pending \in Seq(Nat) /\ Len(pending) = Len(session[k].pending) + 1
      /\ pending[Len(session[k].pending) + 1] = event
      /\ \A i \in 1..Len(session[k].pending) : pending[i] = session[k].pending[i]
  BY <1>1, AppendProperties
<1>3. Len(session[k].pending) \in Nat
  BY <1>1, LenProperties
<1>. HIDE DEF pending
<1>4. Contains(pending, Exit) <=> Contains(session[k].pending, Exit) \/ event = Exit
  <2>1. \A i \in 1..Len(pending) : i \in 1..Len(session[k].pending)
                                   \/ i = Len(session[k].pending) + 1
    BY <1>2, <1>3
  <2>2. Len(session[k].pending) + 1 \in 1..Len(pending)
        /\ \A i \in 1..Len(session[k].pending) : i \in 1..Len(pending)
    BY <1>2, <1>3
  <2>3. Contains(pending, Exit) <=> \E i \in 1..Len(pending) : pending[i] = Exit
    BY <1>2 DEF Contains
  <2>4. Contains(session[k].pending, Exit)
          <=> \E i \in 1..Len(session[k].pending) : session[k].pending[i] = Exit
    BY <1>1 DEF Contains
  <2>. QED  BY <1>2, <2>1, <2>2, <2>3, <2>4
<1>5. /\ new \in SessionType /\ new.process = session[k].process
      /\ new.status = session[k].status /\ new.history = session[k].history
      /\ new.pending = pending
  BY <1>0, <1>2 DEF SessionType
<1>6. session' = [session EXCEPT ![k] = new]
  BY <1>0 DEF Report, TerminalTypes, SessionType, pending
<1>7. drain \in DrainType /\ drain.process = session[k].process
  <2>1. <<>> \in Seq(Nat)
    OBVIOUS
  <2>. QED  BY <1>1, <2>1 DEF DrainType
<1>8. drains' = drains \/ drains' = [drains EXCEPT ![k] = @ \cup {drain}]
  BY DEF Report
<1>. HIDE DEF new, drain
<1>9. /\ session' \in [Keys -> SessionType] /\ session'[k] = new
      /\ \A x \in Keys \ {k} : session'[x] = session[x]
  BY <1>5, <1>6 DEF TerminalTypes
<1>10. /\ drains[k] \subseteq drains'[k]
       /\ \A d \in drains'[k] : d \in drains[k] \/ d.process = session[k].process
       /\ \A x \in Keys \ {k} : drains'[x] = drains[x]
       /\ drains' \in [Keys -> SUBSET DrainType]
  BY <1>7, <1>8 DEF TerminalTypes
<1>. QED  BY <1>4, <1>5, <1>9, <1>10

LEMMA OutputKeeps ==
    ASSUME TerminalInv, NEW k \in Keys, Output(k)
    PROVE  Places' /\ SessionsMatchProcesses' /\ Histories'
<1>0. /\ TerminalTypes /\ CallPlace(k) /\ SessionPlace(k) /\ Holders /\ Places
      /\ outputs \in Nat
  BY DEF TerminalInv, Places, TerminalTypes
<1>1. /\ UNCHANGED <<keyed, sessions, call, alive, spawned, killing, persist, gaps>>
      /\ session[k].process \in alive /\ outputs' = outputs + 1 /\ Report(k, outputs + 1)
  BY DEF Output
<1>2. outputs + 1 \in Nat /\ outputs + 1 # Exit
  BY <1>0 DEF Exit
<1>3. /\ session'[k].process = session[k].process /\ session'[k].status = session[k].status
      /\ session'[k].history = session[k].history
      /\ Contains(session'[k].pending, Exit) <=> Contains(session[k].pending, Exit)
      /\ \A x \in Keys \ {k} : session'[x] = session[x]
      /\ session' \in [Keys -> SessionType]
      /\ drains[k] \subseteq drains'[k]
      /\ \A d \in drains'[k] : d \in drains[k] \/ d.process = session[k].process
      /\ \A x \in Keys \ {k} : drains'[x] = drains[x]
      /\ drains' \in [Keys -> SUBSET DrainType]
  BY <1>0, <1>1, <1>2, Reported
<1>4. /\ Others(k) /\ session[k].process # 0
      /\ killing \subseteq alive /\ 0 \notin killing /\ 0 \notin alive
      /\ session[k].process \notin killing /\ call[k].process \notin killing
      /\ session[k].process = call[k].process => session[k].process = 0
  BY <1>0, <1>1, <1>3 DEF Others, TerminalTypes, Holders
<1>5. TerminalTypes'
  BY <1>0, <1>1, <1>2, <1>3 DEF TerminalTypes, persist
<1>6. CallPlace(k)'
  BY <1>0, <1>1, <1>3, <1>4 DEF CallPlace
<1>7. SessionPlace(k)'
  BY <1>0, <1>1, <1>3, <1>4 DEF SessionPlace
<1>8. Places'
  BY <1>0, <1>1, <1>3, <1>4, <1>5, <1>6, <1>7, PlacesOne
<1>9. SessionsMatchProcesses'
  BY <1>0, <1>1, <1>3, <1>4, MatchOne DEF TerminalInv
<1>10. Histories'
  <2>1. Unreset(k)' <=> Unreset(k)
    BY <1>1, <1>3 DEF Unreset
  <2>. QED  BY <1>1, <1>3, <1>4, <2>1, HistoryOne DEF TerminalInv, Histories
<1>. QED  BY <1>8, <1>9, <1>10

\* A process that dies is no session's but the one that is told, if it has one.
LEMMA ExitKeeps ==
    ASSUME TerminalInv, NEW p \in 1..spawned, ExitProcess(p)
    PROVE  Places' /\ SessionsMatchProcesses' /\ Histories'
<1>0. /\ TerminalTypes /\ Holders /\ Places /\ p # 0 /\ NoKey \in Keys
  BY NoKeyIsKey DEF TerminalInv, Places
<1>1. /\ UNCHANGED <<keyed, sessions, call, spawned, persist, outputs, gaps>>
      /\ p \in alive /\ alive' = alive \ {p} /\ killing' = killing \ {p}
      /\ \/ Attached(p) = {} /\ UNCHANGED <<session, drains>>
         \/ \E k \in Attached(p) : Report(k, Exit)
  BY DEF ExitProcess, counted
<1>2. PICK k \in Keys :
        /\ \/ Attached(p) = {} /\ UNCHANGED <<session, drains>>
           \/ session[k].process = p /\ Report(k, Exit)
  BY <1>0, <1>1 DEF Attached
<1>3. /\ session'[k].process = session[k].process /\ session'[k].status = session[k].status
      /\ session'[k].history = session[k].history
      /\ \/ session[k].process = p /\ Contains(session'[k].pending, Exit)
         \/ session[k].process # p /\ session'[k] = session[k]
      /\ \A x \in Keys \ {k} : session'[x] = session[x]
      /\ session' \in [Keys -> SessionType]
      /\ drains[k] \subseteq drains'[k]
      /\ \A d \in drains'[k] : d \in drains[k] \/ d.process = p
      /\ \A x \in Keys \ {k} : drains'[x] = drains[x]
      /\ drains' \in [Keys -> SUBSET DrainType]
  <2>1. CASE Attached(p) = {} /\ UNCHANGED <<session, drains>>
    BY <1>0, <2>1 DEF TerminalTypes, Attached
  <2>2. CASE session[k].process = p /\ Report(k, Exit)
    <3>1. Exit \in Nat
      BY DEF Exit
    <3>. QED  BY <1>0, <2>2, <3>1, Reported
  <2>. QED  BY <1>2, <2>1, <2>2
<1>4. /\ Others(k) /\ CallPlace(k) /\ SessionPlace(k)
      /\ killing \subseteq alive /\ 0 \notin killing /\ 0 \notin alive
      /\ session[k].process \notin killing /\ call[k].process \notin killing
      /\ session[k].process = call[k].process => session[k].process = 0
  BY <1>0, <1>1, <1>3 DEF Others, TerminalTypes, Holders, Places
<1>5. \A x \in Keys \ {k} : session[x].process # p
  BY <1>0, <1>2 DEF Holders, Attached
<1>6. TerminalTypes'
  BY <1>0, <1>1, <1>3 DEF TerminalTypes, persist
<1>7. CallPlace(k)'
  BY <1>0, <1>1, <1>3, <1>4 DEF CallPlace
<1>8. SessionPlace(k)'
  BY <1>0, <1>1, <1>3, <1>4 DEF SessionPlace
<1>9. Places'
  BY <1>0, <1>1, <1>3, <1>4, <1>6, <1>7, <1>8, PlacesOne
<1>10. SessionsMatchProcesses'
  <2>1. gaps' \cap {"unheard", "dropped"} = {} /\ k \in sessions' /\ session'[k].status = "running"
           => session'[k].process \in alive' \/ Contains(session'[k].pending, Exit)
    BY <1>1, <1>3 DEF TerminalInv, SessionsMatchProcesses
  <2>. QED  BY <1>0, <1>1, <1>3, <1>4, <1>5, <2>1, MatchOne DEF TerminalInv
<1>11. Histories'
  <2>1. Unreset(k)' <=> Unreset(k)
    BY <1>1, <1>3 DEF Unreset
  <2>. QED  BY <1>1, <1>3, <1>4, <2>1, HistoryOne DEF TerminalInv, Histories
<1>. QED  BY <1>9, <1>10, <1>11

\* A process that is killed is no session's.
LEMMA KillKeeps ==
    ASSUME TerminalInv, NEW p \in 1..spawned, KillProcess(p)
    PROVE  Places' /\ SessionsMatchProcesses' /\ Histories'
<1>0. /\ TerminalTypes /\ Holders /\ Places /\ p # 0 /\ NoKey \in Keys
      /\ killing \subseteq alive /\ 0 \notin killing /\ 0 \notin alive
  BY NoKeyIsKey DEF TerminalInv, Places, TerminalTypes
<1>1. /\ UNCHANGED <<keyed, sessions, session, call, drains, spawned, persist, outputs, gaps>>
      /\ p \in killing /\ alive' = alive \ {p} /\ killing' = killing \ {p}
  BY DEF KillProcess, memory, counted
<1>2. \A x \in Keys : /\ session[x].process # p /\ session[x].process \notin killing
                      /\ call[x].process \notin killing /\ CallPlace(x) /\ SessionPlace(x)
                      /\ session[x].process = call[x].process => session[x].process = 0
  BY <1>0, <1>1 DEF Holders, Places
<1>3. Others(NoKey)
  BY <1>1 DEF Others
<1>4. TerminalTypes'
  BY <1>0, <1>1 DEF TerminalTypes, persist
<1>5. CallPlace(NoKey)'
  BY <1>0, <1>1, <1>2 DEF CallPlace
<1>6. SessionPlace(NoKey)'
  BY <1>0, <1>1, <1>2 DEF SessionPlace
<1>7. Places'
  BY <1>0, <1>1, <1>2, <1>3, <1>4, <1>5, <1>6, PlacesOne
<1>8. SessionsMatchProcesses'
  <2>1. gaps' \cap {"unheard", "dropped"} = {} /\ NoKey \in sessions'
           /\ session'[NoKey].status = "running"
           => session'[NoKey].process \in alive' \/ Contains(session'[NoKey].pending, Exit)
    BY <1>0, <1>1, <1>2 DEF TerminalInv, SessionsMatchProcesses
  <2>. QED  BY <1>0, <1>1, <1>2, <1>3, <2>1, MatchOne DEF TerminalInv
<1>9. Histories'
  <2>1. Unreset(NoKey)' <=> Unreset(NoKey)
    BY <1>1 DEF Unreset
  <2>. QED  BY <1>0, <1>1, <1>3, <2>1, HistoryOne DEF TerminalInv, Histories
<1>. QED  BY <1>7, <1>8, <1>9

\* Nor is one that cannot be killed: it is left to itself, and noted.
LEMMA KillFailsKeeps ==
    ASSUME TerminalInv, NEW p \in 1..spawned, KillFails(p)
    PROVE  Places' /\ SessionsMatchProcesses' /\ Histories'
<1>0. /\ TerminalTypes /\ Holders /\ Places /\ p # 0 /\ NoKey \in Keys
      /\ killing \subseteq alive /\ 0 \notin killing /\ 0 \notin alive
  BY NoKeyIsKey DEF TerminalInv, Places, TerminalTypes
<1>1. /\ UNCHANGED <<keyed, sessions, session, call, drains, spawned, persist, outputs, alive>>
      /\ p \in killing /\ killing' = killing \ {p} /\ gaps' = gaps \cup {"unkilled"}
  BY DEF KillFails, memory
<1>2. \A x \in Keys : /\ session[x].process # p /\ session[x].process \notin killing
                      /\ call[x].process \notin killing /\ CallPlace(x) /\ SessionPlace(x)
                      /\ session[x].process = call[x].process => session[x].process = 0
  BY <1>0, <1>1 DEF Holders, Places
<1>3. Others(NoKey)
  BY <1>1 DEF Others
<1>4. TerminalTypes'
  BY <1>0, <1>1 DEF TerminalTypes, persist
<1>5. CallPlace(NoKey)'
  BY <1>0, <1>1, <1>2 DEF CallPlace
<1>6. SessionPlace(NoKey)'
  BY <1>0, <1>1, <1>2 DEF SessionPlace
<1>7. Places'
  BY <1>0, <1>1, <1>2, <1>3, <1>4, <1>5, <1>6, PlacesOne
<1>8. SessionsMatchProcesses'
  BY <1>1 DEF TerminalInv, SessionsMatchProcesses
<1>9. Histories'
  <2>1. Unreset(NoKey)' <=> Unreset(NoKey)
    BY <1>1 DEF Unreset
  <2>. QED  BY <1>0, <1>1, <1>3, <2>1, HistoryOne DEF TerminalInv, Histories
<1>. QED  BY <1>7, <1>8, <1>9

-----------------------------------------------------------------------------
(* The drains. *)

\* A drain that ends may throw away what is pending, an exit included.
LEMMA EndDrainKeeps ==
    ASSUME TerminalInv, NEW k \in Keys, NEW d \in drains[k], EndDrain(k, d)
    PROVE  Places' /\ SessionsMatchProcesses' /\ Histories'
<1>0. /\ TerminalTypes /\ CallPlace(k) /\ SessionPlace(k) /\ Holders /\ Places /\ ~d.carries
  BY DEF TerminalInv, Places, EndDrain
<1>1. /\ UNCHANGED <<keyed, sessions, call, alive, spawned, killing, persist, outputs>>
      /\ session' = [session EXCEPT ![k].pending = <<>>, ![k].draining = FALSE]
      /\ gaps' = gaps \cup Dropped(k)
      /\ drains' = [drains EXCEPT ![k] = @ \ {d}]
  BY DEF EndDrain, counted
<1>2. /\ session'[k].process = session[k].process /\ session'[k].status = session[k].status
      /\ session'[k].history = session[k].history /\ session'[k].pending = <<>>
      /\ \A x \in Keys \ {k} : session'[x] = session[x]
      /\ session' \in [Keys -> SessionType]
  <2>. DEFINE new == [session[k] EXCEPT !.pending = <<>>, !.draining = FALSE]
  <2>1. <<>> \in Seq(Nat) /\ session[k] \in SessionType
    BY <1>0 DEF TerminalTypes
  <2>2. /\ new \in SessionType /\ new.process = session[k].process
        /\ new.status = session[k].status /\ new.history = session[k].history
        /\ new.pending = <<>>
    BY <2>1 DEF SessionType
  <2>3. session' = [session EXCEPT ![k] = new]
    BY <1>0, <1>1 DEF TerminalTypes, SessionType
  <2>. HIDE DEF new
  <2>. QED  BY <1>0, <2>2, <2>3 DEF TerminalTypes
<1>3. /\ drains'[k] = drains[k] \ {d} /\ \A x \in Keys \ {k} : drains'[x] = drains[x]
      /\ drains' \in [Keys -> SUBSET DrainType]
  BY <1>0, <1>1 DEF TerminalTypes
<1>4. /\ Others(k)
      /\ killing \subseteq alive /\ 0 \notin killing /\ 0 \notin alive
      /\ session[k].process \notin killing /\ call[k].process \notin killing
      /\ session[k].process = call[k].process => session[k].process = 0
  BY <1>0, <1>1, <1>2, <1>3 DEF Others, TerminalTypes, Holders
<1>5. TerminalTypes'
  BY <1>0, <1>1, <1>2, <1>3 DEF TerminalTypes, persist
<1>6. CallPlace(k)'
  BY <1>0, <1>1, <1>2 DEF CallPlace
<1>7. SessionPlace(k)'
  BY <1>0, <1>1, <1>2, <1>3 DEF SessionPlace, Contains
<1>8. Places'
  BY <1>0, <1>1, <1>2, <1>4, <1>5, <1>6, <1>7, PlacesOne
<1>9. SessionsMatchProcesses'
  <2>1. gaps' \cap {"unheard", "dropped"} = {} => session[k].pending = <<>>
    BY <1>1 DEF Dropped
  <2>2. session[k].pending = <<>> => ~Contains(session[k].pending, Exit)
    BY DEF Contains
  <2>3. gaps' \cap {"unheard", "dropped"} = {} /\ k \in sessions' /\ session'[k].status = "running"
           => session'[k].process \in alive'
    BY <1>1, <1>2, <2>1, <2>2 DEF TerminalInv, SessionsMatchProcesses
  <2>. QED  BY <1>0, <1>1, <1>2, <1>4, <2>3, MatchOne DEF TerminalInv
<1>10. Histories'
  <2>1. Unreset(k)' <=> Unreset(k)
    BY <1>1, <1>2 DEF Unreset
  <2>2. (\E e \in drains[k] : e.carries) => \E e \in drains'[k] : e.carries
    BY <1>0, <1>3
  <2>. QED  BY <1>1, <1>2, <1>4, <2>1, <2>2, HistoryOne DEF TerminalInv, Histories
<1>. QED  BY <1>8, <1>9, <1>10

\* An output that is drained is in the history, which the drain carries.
LEMMA DrainOutputKeeps ==
    ASSUME TerminalInv, NEW k \in Keys, NEW d \in drains[k], DrainOutput(k, d)
    PROVE  Places' /\ SessionsMatchProcesses' /\ Histories'
<1>. DEFINE h == Append(session[k].history, Head(session[k].pending))
            e == [d EXCEPT !.carries = TRUE, !.history = h]
            rest == Tail(session[k].pending)
            new == [session[k] EXCEPT !.pending = rest, !.history = h]
<1>0. /\ TerminalTypes /\ CallPlace(k) /\ SessionPlace(k) /\ Holders /\ Places
      /\ ~d.carries /\ session[k].process = d.process /\ session[k].pending # <<>>
      /\ Head(session[k].pending) # Exit
      /\ session[k] \in SessionType /\ d \in DrainType
  BY DEF TerminalInv, Places, DrainOutput, TerminalTypes
<1>1. /\ UNCHANGED <<keyed, sessions, call, alive, spawned, killing, persist, outputs, gaps>>
      /\ session' = [session EXCEPT ![k].pending = Tail(@),
                                    ![k].history = Append(@, Head(session[k].pending))]
      /\ drains' = [drains EXCEPT ![k] = (@ \ {d}) \cup {e}]
  BY DEF DrainOutput, counted
<1>2. /\ rest \in Seq(Nat) /\ h \in Seq(Nat)
      /\ Contains(session[k].pending, Exit) => Contains(rest, Exit)
      /\ Contains(rest, Exit) => Contains(session[k].pending, Exit)
  <2>1. session[k].pending \in Seq(Nat) /\ session[k].history \in Seq(Nat)
    BY <1>0 DEF SessionType
  <2>2. /\ Head(session[k].pending) \in Nat /\ rest \in Seq(Nat)
        /\ Len(rest) = Len(session[k].pending) - 1
        /\ \A i \in 1..Len(rest) : rest[i] = session[k].pending[i + 1]
        /\ Head(session[k].pending) = session[k].pending[1]
    BY <1>0, <2>1, HeadTailProperties
  <2>3. h \in Seq(Nat)
    BY <2>1, <2>2, AppendProperties
  <2>4. Len(session[k].pending) \in Nat
    BY <2>1, LenProperties
  <2>. HIDE DEF rest
  <2>5. ASSUME NEW i \in 1..Len(session[k].pending), session[k].pending[i] = Exit
        PROVE  i - 1 \in 1..Len(rest) /\ rest[i - 1] = Exit
    <3>1. i # 1
      BY <1>0, <2>2, <2>5
    <3>2. i - 1 \in 1..Len(rest) /\ (i - 1) + 1 = i
      BY <2>2, <2>4, <3>1
    <3>. QED  BY <2>2, <2>5, <3>2
  <2>6. \A i \in 1..Len(rest) : i + 1 \in 1..Len(session[k].pending)
    BY <2>2, <2>4
  <2>7. Contains(session[k].pending, Exit) => Contains(rest, Exit)
    BY <2>5 DEF Contains
  <2>8. Contains(rest, Exit) => Contains(session[k].pending, Exit)
    BY <2>2, <2>6 DEF Contains
  <2>. QED  BY <2>2, <2>3, <2>7, <2>8
<1>. HIDE DEF h, rest
<1>3. /\ session' = [session EXCEPT ![k] = new]
      /\ new.pending = rest /\ new.history = h /\ new.process = session[k].process
      /\ new.status = session[k].status /\ new \in SessionType
  BY <1>0, <1>1, <1>2 DEF TerminalTypes, SessionType, h, rest
<1>4. e \in DrainType /\ e.carries /\ e.process = d.process
  BY <1>0, <1>2 DEF DrainType
<1>. HIDE DEF e, new
<1>5. /\ session'[k] = new /\ \A x \in Keys \ {k} : session'[x] = session[x]
      /\ session' \in [Keys -> SessionType]
      /\ drains'[k] = (drains[k] \ {d}) \cup {e}
      /\ \A x \in Keys \ {k} : drains'[x] = drains[x]
      /\ drains' \in [Keys -> SUBSET DrainType]
  BY <1>0, <1>1, <1>3, <1>4 DEF TerminalTypes
<1>6. /\ Others(k)
      /\ killing \subseteq alive /\ 0 \notin killing /\ 0 \notin alive
      /\ session[k].process \notin killing /\ call[k].process \notin killing
      /\ session[k].process = call[k].process => session[k].process = 0
  BY <1>0, <1>1, <1>5 DEF Others, TerminalTypes, Holders
<1>7. TerminalTypes'
  BY <1>0, <1>1, <1>5 DEF TerminalTypes, persist
<1>8. CallPlace(k)'
  BY <1>0, <1>1, <1>3, <1>5 DEF CallPlace
<1>9. SessionPlace(k)'
  BY <1>0, <1>1, <1>2, <1>3, <1>4, <1>5 DEF SessionPlace
<1>10. Places'
  BY <1>0, <1>1, <1>3, <1>5, <1>6, <1>7, <1>8, <1>9, PlacesOne
<1>11. SessionsMatchProcesses'
  <2>1. gaps' \cap {"unheard", "dropped"} = {} /\ k \in sessions' /\ session'[k].status = "running"
           => session'[k].process \in alive' \/ Contains(session'[k].pending, Exit)
    BY <1>1, <1>2, <1>3, <1>5 DEF TerminalInv, SessionsMatchProcesses
  <2>. QED  BY <1>0, <1>1, <1>3, <1>5, <1>6, <2>1, MatchOne DEF TerminalInv
<1>12. Histories'
  BY <1>1, <1>4, <1>5, <1>6, HistoryOne DEF TerminalInv, Histories
<1>. QED  BY <1>10, <1>11, <1>12

\* What a drain carries is persisted.
LEMMA DrainPersistKeeps ==
    ASSUME TerminalInv, NEW k \in Keys, NEW d \in drains[k], DrainPersist(k, d)
    PROVE  Places' /\ SessionsMatchProcesses' /\ Histories'
<1>. DEFINE e == [d EXCEPT !.carries = FALSE, !.history = <<>>]
<1>0. /\ TerminalTypes /\ CallPlace(k) /\ SessionPlace(k) /\ Holders /\ Places /\ d \in DrainType
  BY DEF TerminalInv, Places, TerminalTypes
<1>1. /\ UNCHANGED <<sessions, session, call, alive, spawned, killing, outputs>>
      /\ Persist(k, d.history)
      /\ drains' = [drains EXCEPT ![k] = (@ \ {d}) \cup {x \in {e} : d.process # 0}]
      /\ gaps' = (IF d.history # session[k].history \/ call[k].at = "read"
                    THEN gaps \cup {"stale"} ELSE gaps)
  BY DEF DrainPersist, memory, counted
<1>2. e \in DrainType /\ e.process = d.process /\ d.history \in Seq(Nat)
  <2>1. <<>> \in Seq(Nat)
    OBVIOUS
  <2>. QED  BY <1>0, <2>1 DEF DrainType
<1>. HIDE DEF e
<1>3. /\ \A x \in Keys \ {k} : drains'[x] = drains[x]
      /\ drains' \in [Keys -> SUBSET DrainType]
      /\ \A x \in drains'[k] : x \in drains[k] \/ x.process # 0
  BY <1>0, <1>1, <1>2 DEF TerminalTypes
<1>4. /\ Others(k)
      /\ killing \subseteq alive /\ 0 \notin killing /\ 0 \notin alive
      /\ session[k].process \notin killing /\ call[k].process \notin killing
      /\ session[k].process = call[k].process => session[k].process = 0
  BY <1>0, <1>1, <1>3 DEF Others, TerminalTypes, Holders
<1>5. TerminalTypes'
  BY <1>0, <1>1, <1>2, <1>3 DEF TerminalTypes, Persist
<1>6. CallPlace(k)'
  BY <1>0, <1>1 DEF CallPlace
<1>7. SessionPlace(k)'
  BY <1>0, <1>1, <1>3 DEF SessionPlace
<1>8. Places'
  BY <1>0, <1>1, <1>4, <1>5, <1>6, <1>7, PlacesOne
<1>9. SessionsMatchProcesses'
  <2>1. gaps' \cap {"unheard", "dropped"} = {} /\ k \in sessions' /\ session'[k].status = "running"
           => session'[k].process \in alive' \/ Contains(session'[k].pending, Exit)
    BY <1>1 DEF TerminalInv, SessionsMatchProcesses
  <2>. QED  BY <1>0, <1>1, <1>4, <2>1, MatchOne DEF TerminalInv
<1>10. Histories'
  <2>1. gaps' \cap {"stale", "undeleted", "unreset", "unwritten"} = {} =>
           session'[k].history = d.history /\ call'[k].at # "read"
    BY <1>1
  <2>. QED  BY <1>1, <1>4, <2>1, HistoryPersist
<1>. QED  BY <1>8, <1>9, <1>10

\* A session whose process has exited lets go of it.
LEMMA DrainExitKeeps ==
    ASSUME TerminalInv, NEW k \in Keys, NEW d \in drains[k], DrainExit(k, d)
    PROVE  Places' /\ SessionsMatchProcesses' /\ Histories'
<1>0. /\ TerminalTypes /\ CallPlace(k) /\ SessionPlace(k) /\ Holders /\ Places
      /\ ~d.carries /\ session[k].process = d.process /\ session[k].pending # <<>>
      /\ Head(session[k].pending) = Exit /\ session[k] \in SessionType
  BY DEF TerminalInv, Places, DrainExit, TerminalTypes
<1>1. /\ UNCHANGED <<keyed, call, alive, spawned, killing, persist, outputs, gaps>>
      /\ UpdateAndEvict(k, sessions, [Stopped(k) EXCEPT !.status = "exited"])
      /\ drains' = [drains EXCEPT ![k] = @ \ {d}]
  BY DEF DrainExit, counted
<1>2. session[k].process \notin alive
  <2>1. session[k].pending \in Seq(Nat)
    BY <1>0 DEF SessionType
  <2>2. Head(session[k].pending) = session[k].pending[1]
    BY <1>0, <2>1, HeadTailProperties
  <2>3. Len(session[k].pending) \in Nat /\ Len(session[k].pending) # 0
    BY <1>0, <2>1, LenProperties, EmptySeq
  <2>4. 1 \in 1..Len(session[k].pending)
    BY <2>3
  <2>5. Contains(session[k].pending, Exit)
    BY <1>0, <2>2, <2>4 DEF Contains
  <2>. QED  BY <1>0, <2>5 DEF SessionPlace
<1>3. /\ session'[k].process = 0 /\ session'[k].status = "exited"
      /\ session'[k].history = session[k].history /\ session'[k].pending = <<>>
      /\ \A x \in Keys \ {k} : session'[x] = session[x]
      /\ session' \in [Keys -> SessionType]
      /\ sessions' \subseteq sessions
      /\ \A x \in sessions \ sessions' : x = k \/ session[x].process = 0
  BY <1>0, <1>1, StopsAndEvicts
<1>4. /\ drains'[k] = drains[k] \ {d} /\ \A x \in Keys \ {k} : drains'[x] = drains[x]
      /\ drains' \in [Keys -> SUBSET DrainType]
  BY <1>0, <1>1 DEF TerminalTypes
<1>5. /\ Others(k)
      /\ killing \subseteq alive /\ 0 \notin killing /\ 0 \notin alive
      /\ call[k].process \notin killing
  BY <1>0, <1>1, <1>3, <1>4 DEF Others, TerminalTypes, Holders
<1>6. TerminalTypes'
  BY <1>0, <1>1, <1>3, <1>4 DEF TerminalTypes, persist
<1>7. CallPlace(k)'
  BY <1>0, <1>1, <1>3 DEF CallPlace
<1>8. SessionPlace(k)'
  BY <1>0, <1>1, <1>3, <1>4 DEF SessionPlace, Contains
<1>9. Places'
  BY <1>0, <1>1, <1>3, <1>5, <1>6, <1>7, <1>8, PlacesOne
<1>10. SessionsMatchProcesses'
  BY <1>0, <1>1, <1>2, <1>3, <1>5, MatchOne DEF TerminalInv
<1>11. Histories'
  <2>2. Unreset(k) => session[k].status = "starting"
    BY DEF Unreset
  <2>3. d.process # 0
    BY <1>0 DEF SessionPlace
  <2>4. ~Unreset(k)
    BY <1>0, <2>2, <2>3 DEF SessionPlace
  <2>5. (\E e \in drains[k] : e.carries) => \E e \in drains'[k] : e.carries
    BY <1>0, <1>4
  <2>. QED  BY <1>1, <1>3, <1>5, <2>4, <2>5, HistoryOne DEF TerminalInv, Histories
<1>. QED  BY <1>9, <1>10, <1>11

-----------------------------------------------------------------------------
(* The persist worker, and the shutdown. *)

LEMMA BesideKeeps ==
    ASSUME Places, SessionsMatchProcesses, gaps \subseteq gaps',
           UNCHANGED <<memory, call, drains, alive, spawned, killing, outputs>>,
           text' \in [Keys -> Seq(Nat)], file' \in [Keys -> Seq(Nat)], writing' \in Seq(Nat)
    PROVE  Places' /\ SessionsMatchProcesses'
<1>1. UNCHANGED <<sessions, session, call, drains, alive, spawned, killing, outputs>>
  BY DEF memory
<1>2. TerminalTypes'
  BY <1>1 DEF Places, TerminalTypes
<1>3. Holders'
  BY <1>1 DEF Places, Holders
<1>4. \A k \in Keys : CallPlace(k)' /\ SessionPlace(k)'
  <2>1. ASSUME NEW k \in Keys PROVE CallPlace(k)' /\ SessionPlace(k)'
    BY <1>1 DEF Places, CallPlace, SessionPlace
  <2>. QED  BY <2>1
<1>5. SessionsMatchProcesses'
  BY <1>1 DEF SessionsMatchProcesses, InHand, Attached
<1>. QED  BY <1>2, <1>3, <1>4, <1>5 DEF Places

\* The value that the worker takes goes on with its history, and the others wait
\* as they did.
LEMMA PersistStepKeeps ==
    ASSUME TerminalInv, PersistStep
    PROVE  Places' /\ SessionsMatchProcesses' /\ Histories'
<1>0. /\ TerminalTypes /\ KeyedTypeOK /\ Places /\ key' \in Keys
  BY NextIsKeyedStep, KeyedStepInv DEF TerminalInv, Places, KeyedInv, KeyedTypeOK,
     Next, PersistWorker
<1>1. /\ UNCHANGED <<memory, call, drains, alive, spawned, killing, outputs, file, gaps>>
      /\ IF latest'[key'] # latest[key']
           THEN writing' = text[key'] /\ text' = [text EXCEPT ![key'] = <<>>]
           ELSE UNCHANGED <<writing, text>>
  BY DEF PersistStep, Beside
<1>2. /\ text' \in [Keys -> Seq(Nat)] /\ file' \in [Keys -> Seq(Nat)] /\ writing' \in Seq(Nat)
      /\ \A x \in Keys : text'[x] = text[x] \/ (x = key' /\ latest'[x] # latest[x])
  <2>1. <<>> \in Seq(Nat)
    OBVIOUS
  <2>. QED  BY ZenonT(40), <1>0, <1>1, <2>1 DEF TerminalTypes
<1>3. Places' /\ SessionsMatchProcesses'
  BY <1>0, <1>1, <1>2, BesideKeeps DEF TerminalInv
<1>4. \/ /\ UNCHANGED latest /\ fiber' # "processing" /\ active' \subseteq active
         /\ \A x \in queued' : x \in queued \/ latest[x] # NoValue
      \/ /\ key' = key /\ latest[key] # NoValue /\ latest' = [latest EXCEPT ![key] = NoValue]
         /\ fiber' = "processing" /\ active' \subseteq active \cup {key} /\ queued' \subseteq queued
  <2>1. CASE Take
    BY <2>1 DEF Take
  <2>2. CASE Claim
    BY <2>2 DEF Claim, Rest
  <2>3. CASE NextValue
    BY <2>3 DEF NextValue, Rest
  <2>4. CASE CleanupFailedKey
    BY <2>4 DEF CleanupFailedKey, Rest
  <2>5. CASE Requeue
    BY <2>5 DEF Requeue, Rest
  <2>. QED  BY <2>1, <2>2, <2>3, <2>4, <2>5 DEF PersistStep
<1>5. fiber # "processing" /\ fiber # "dead"
  BY DEF PersistStep, Take, Claim, NextValue, CleanupFailedKey, Requeue
<1>6. \A k \in Keys : Filed(k)' = Filed(k) /\ (Drained(k) => Drained(k)')
  <2>1. CASE /\ UNCHANGED latest /\ fiber' # "processing" /\ active' \subseteq active
             /\ \A x \in queued' : x \in queued \/ latest[x] # NoValue
    <3>1. ASSUME NEW k \in Keys PROVE Filed(k)' = Filed(k) /\ (Drained(k) => Drained(k)')
      <4>1. text'[k] = text[k] /\ UNCHANGED <<latest, file>>
        BY <1>1, <1>2, <2>1
      <4>. QED  BY <1>5, <2>1, <4>1 DEF Filed, Drained
    <3>. QED  BY <3>1
  <2>2. CASE /\ key' = key /\ latest[key] # NoValue /\ latest' = [latest EXCEPT ![key] = NoValue]
             /\ fiber' = "processing" /\ active' \subseteq active \cup {key} /\ queued' \subseteq queued
    <3>1. /\ latest'[key] = NoValue /\ writing' = text[key]
          /\ \A x \in Keys \ {key} : latest'[x] = latest[x] /\ text'[x] = text[x]
      BY <1>0, <1>1, <1>2, <2>2 DEF KeyedTypeOK
    <3>2. ASSUME NEW x \in Keys \ {key} PROVE Filed(x)' = Filed(x) /\ (Drained(x) => Drained(x)')
      <4>1. text'[x] = text[x] /\ latest'[x] = latest[x] /\ file' = file /\ key' # x
        BY <1>1, <2>2, <3>1
      <4>2. Filed(x)' = Filed(x)
        BY <1>5, <4>1 DEF Filed
      <4>3. Drained(x) => Drained(x)'
        BY <2>2, <4>1 DEF Drained
      <4>. QED  BY <4>2, <4>3
    <3>3. ASSUME NEW x \in Keys, x = key PROVE Filed(x)' = Filed(x) /\ ~Drained(x)
      BY <1>5, <2>2, <3>1, <3>3 DEF Filed, Drained
    <3>. QED  BY <3>2, <3>3
  <2>. QED  BY <1>4, <2>1, <2>2
<1>7. \A k \in Keys : Unreset(k)' <=> Unreset(k)
  BY <1>1 DEF Unreset, memory
<1>8. Histories'
  BY <1>1, <1>5, <1>6, <1>7 DEF TerminalInv, Histories, memory
<1>. QED  BY <1>3, <1>8

\* What is written is in the file then.
LEMMA WriteKeeps ==
    ASSUME TerminalInv, WriteHistory
    PROVE  Places' /\ SessionsMatchProcesses' /\ Histories'
<1>0. /\ TerminalTypes /\ KeyedTypeOK /\ Places /\ key \in Keys
  BY DEF TerminalInv, Places, KeyedInv, KeyedTypeOK
<1>1. /\ UNCHANGED <<memory, call, drains, alive, spawned, killing, outputs, text, gaps>>
      /\ UNCHANGED <<latest, queued, active, key>> /\ fiber = "processing" /\ fiber' = "succeeded"
      /\ file' = [file EXCEPT ![key] = writing] /\ writing' = <<>>
  BY DEF WriteHistory, Beside, Succeed
<1>2. /\ text' \in [Keys -> Seq(Nat)] /\ file' \in [Keys -> Seq(Nat)] /\ writing' \in Seq(Nat)
      /\ file'[key] = writing /\ \A x \in Keys \ {key} : file'[x] = file[x]
  <2>1. <<>> \in Seq(Nat)
    OBVIOUS
  <2>. QED  BY <1>0, <1>1, <2>1 DEF TerminalTypes
<1>3. Places' /\ SessionsMatchProcesses'
  BY <1>0, <1>1, <1>2, BesideKeeps DEF TerminalInv
<1>4. \A k \in Keys : /\ Filed(k)' = Filed(k) /\ (Drained(k)' <=> Drained(k))
                      /\ Unreset(k)' <=> Unreset(k)
  <2>1. ASSUME NEW k \in Keys PROVE Filed(k)' = Filed(k)
    <3>1. text'[k] = text[k] /\ (key # k => file'[k] = file[k])
      BY <1>1, <1>2
    <3>. QED  BY <1>1, <1>2, <3>1 DEF Filed
  <2>2. ASSUME NEW k \in Keys PROVE (Drained(k)' <=> Drained(k)) /\ (Unreset(k)' <=> Unreset(k))
    BY <1>1 DEF Drained, Unreset, memory
  <2>. QED  BY <2>1, <2>2
<1>5. Histories'
  BY <1>1, <1>4 DEF TerminalInv, Histories, memory
<1>. QED  BY <1>3, <1>5

LEMMA WriteFailsKeeps ==
    ASSUME TerminalInv, WriteFails
    PROVE  Places' /\ SessionsMatchProcesses' /\ Histories'
<1>1. /\ UNCHANGED <<memory, call, drains, alive, spawned, killing, outputs, text, file>>
      /\ gaps' = gaps \cup {"unwritten"} /\ writing' = <<>> /\ Places
  BY DEF WriteFails, Beside, TerminalInv
<1>2. text' \in [Keys -> Seq(Nat)] /\ file' \in [Keys -> Seq(Nat)] /\ writing' \in Seq(Nat)
  <2>1. <<>> \in Seq(Nat)
    OBVIOUS
  <2>. QED  BY <1>1, <2>1 DEF Places, TerminalTypes
<1>3. Places' /\ SessionsMatchProcesses'
  BY <1>1, <1>2, BesideKeeps DEF TerminalInv
<1>. QED  BY <1>1, <1>3 DEF Histories

LEMMA ShutdownKeeps ==
    ASSUME TerminalInv, Shutdown
    PROVE  Places' /\ SessionsMatchProcesses' /\ Histories'
<1>0. TerminalTypes /\ Places /\ Holders
  BY DEF TerminalInv, Places
<1>1. /\ UNCHANGED <<session, spawned, persist, outputs>> /\ fiber' = "dead" /\ sessions' = {}
      /\ call' = [k \in Keys |-> NoCall] /\ drains' = [k \in Keys |-> {}]
      /\ alive' \subseteq alive /\ killing' = {}
      /\ gaps' = (IF alive' = {} THEN gaps ELSE gaps \cup {"shutdown"})
  BY DEF Shutdown, Interrupt
<1>2. NoCall \in CallType /\ NoCall.at = "none" /\ NoCall.kind = "none" /\ NoCall.process = 0
  BY DEF CallType, NoCall, Steps
<1>3. TerminalTypes'
  BY <1>0, <1>1, <1>2 DEF TerminalTypes, persist
<1>4. \A k \in Keys : call'[k].at = "none" /\ call'[k].kind = "none" /\ call'[k].process = 0
  BY <1>1, <1>2
<1>5. Holders'
  <2>1. 0 <= spawned
    BY <1>0 DEF TerminalTypes
  <2>2. \A k \in Keys : session'[k].process <= spawned' /\ call'[k].process <= spawned'
    BY <1>0, <1>1, <1>4, <2>1 DEF Holders
  <2>3. \A j, k \in Keys :
           /\ session'[j].process = session'[k].process => j = k \/ session'[k].process = 0
           /\ call'[j].process = session'[k].process => session'[k].process = 0
    BY <1>0, <1>1, <1>4 DEF Holders
  <2>. QED  BY <1>1, <1>4, <2>2, <2>3 DEF Holders
<1>6. \A k \in Keys : CallPlace(k)' /\ SessionPlace(k)'
  <2>1. ASSUME NEW k \in Keys PROVE CallPlace(k)' /\ SessionPlace(k)'
    <3>1. CallPlace(k)'
      BY <1>4 DEF CallPlace
    <3>2. SessionPlace(k) /\ drains'[k] = {} /\ session'[k] = session[k]
      BY <1>0, <1>1 DEF Places
    <3>3. SessionPlace(k)'
      BY <1>1, <3>2 DEF SessionPlace
    <3>. QED  BY <3>1, <3>3
  <2>. QED  BY <2>1
<1>7. SessionsMatchProcesses'
  BY <1>1 DEF SessionsMatchProcesses
<1>8. Histories'
  BY <1>1 DEF Histories
<1>. QED  BY <1>3, <1>5, <1>6, <1>7, <1>8 DEF Places

-----------------------------------------------------------------------------
(* The invariant, and what it says. *)

LEMMA TerminalInitInv == Init => TerminalInv
<1>. SUFFICES ASSUME Init PROVE TerminalInv
  OBVIOUS
<1>1. KeyedInv
  BY KeyedInitInv DEF Init
<1>2. /\ sessions = {NoKey} /\ alive = {1} /\ spawned = 1 /\ killing = {} /\ NoKey \in Keys
      /\ outputs = 0 /\ gaps = {} /\ writing = <<>>
  BY NoKeyIsKey DEF Init
<1>3. \A k \in Keys : /\ call[k] = NoCall /\ drains[k] = {} /\ text[k] = <<>> /\ file[k] = <<>>
                      /\ call[k].at = "none" /\ call[k].kind = "none" /\ call[k].process = 0
  BY DEF Init, NoCall
<1>4. NoCall \in CallType /\ <<>> \in Seq(Nat) /\ 0 \in Nat /\ 1 \in Nat
  BY DEF CallType, NoCall, Steps
<1>5. /\ NewSession(<<>>) \in SessionType /\ NewSession(<<>>).process = 0
      /\ NewSession(<<>>).status = "starting" /\ NewSession(<<>>).history = <<>>
      /\ NewSession(<<>>).pending = <<>>
  BY <1>4 DEF NewSession, SessionType
<1>6. /\ Running(1) \in SessionType /\ Running(1).process = 1 /\ Running(1).status = "running"
      /\ Running(1).history = <<>> /\ Running(1).pending = <<>>
  BY <1>4, <1>5 DEF Running, SessionType
<1>7. /\ session \in [Keys -> SessionType]
      /\ \A k \in Keys : /\ session[k].process = IF k = NoKey THEN 1 ELSE 0
                         /\ session[k].status = IF k = NoKey THEN "running" ELSE "starting"
                         /\ session[k].history = <<>> /\ session[k].pending = <<>>
  BY <1>5, <1>6 DEF Init
<1>8. TerminalTypes
  <2>1. call \in [Keys -> CallType] /\ drains \in [Keys -> SUBSET DrainType]
    BY <1>4 DEF Init
  <2>2. text \in [Keys -> Seq(Nat)] /\ file \in [Keys -> Seq(Nat)]
    BY <1>4 DEF Init
  <2>3. alive \subseteq 1..spawned
    BY <1>2
  <2>. QED  BY <1>2, <1>4, <1>7, <2>1, <2>2, <2>3 DEF TerminalTypes
<1>9. Holders
  BY <1>2, <1>3, <1>7 DEF Holders
<1>10. \A k \in Keys : CallPlace(k) /\ SessionPlace(k)
  <2>1. ASSUME NEW k \in Keys PROVE CallPlace(k) /\ SessionPlace(k)
    BY <1>2, <1>3, <1>7 DEF CallPlace, SessionPlace, Contains
  <2>. QED  BY <2>1
<1>11. SessionsMatchProcesses
  <2>1. NoKey \in Attached(1)
    BY <1>2, <1>7 DEF Attached
  <2>. QED  BY <1>2, <1>7, <2>1 DEF SessionsMatchProcesses
<1>12. Histories
  <2>1. \A k \in Keys : latest[k] = NoValue /\ fiber = "taking" /\ active = {}
    BY DEF Init, KeyedInit
  <2>. QED  BY <1>3, <1>7, <2>1 DEF Histories, Filed, Drained
<1>. QED  BY <1>1, <1>8, <1>9, <1>10, <1>11, <1>12 DEF TerminalInv, Places

LEMMA NextKeepsTerminals == TerminalInv /\ [Next]_vars => TerminalInv'
<1>. SUFFICES ASSUME TerminalInv, [Next]_vars PROVE TerminalInv'
  OBVIOUS
<1>1. KeyedInv'
  BY NextIsKeyedStep, KeyedStepInv DEF TerminalInv
<1>2. Places' /\ SessionsMatchProcesses' /\ Histories'
  <2>1. ASSUME NEW k \in Keys, Call(k) \/ CallStep(k) \/ SpawnFails(k) \/ DeleteFails(k) \/ Leave(k)
        PROVE  Places' /\ SessionsMatchProcesses' /\ Histories'
    <3>1. CASE CallStep(k)
      BY <3>1, CreateKeeps, StopKeeps, ResetKeeps, CallKeeps, DeleteKeeps, SpawnKeeps,
         RegisterKeeps DEF CallStep
    <3>. QED  BY <2>1, <3>1, BeginKeeps, SpawnFailsKeeps, DeleteKeeps, LeaveKeeps
  <2>2. ASSUME NEW k \in Keys, Output(k) \/ Drain(k)
        PROVE  Places' /\ SessionsMatchProcesses' /\ Histories'
    <3>1. CASE Drain(k)
      BY <3>1, EndDrainKeeps, DrainOutputKeeps, DrainPersistKeeps, DrainExitKeeps DEF Drain
    <3>. QED  BY <2>2, <3>1, OutputKeeps
  <2>3. ASSUME NEW p \in 1..spawned, ExitProcess(p) \/ KillProcess(p) \/ KillFails(p)
        PROVE  Places' /\ SessionsMatchProcesses' /\ Histories'
    BY <2>3, ExitKeeps, KillKeeps, KillFailsKeeps
  <2>4. CASE PersistWorker \/ WriteFails \/ Shutdown
    BY <2>4, PersistStepKeeps, WriteKeeps, WriteFailsKeeps, ShutdownKeeps DEF PersistWorker
  <2>5. CASE UNCHANGED vars
    <3>1. UNCHANGED <<keyed, memory, call, drains, alive, spawned, killing, persist, outputs, gaps>>
      BY <2>5 DEF vars, counted
    <3>2. Places /\ TerminalTypes /\ NoKey \in Keys /\ Others(NoKey)
      BY <3>1, NoKeyIsKey DEF TerminalInv, Places, Others, memory
    <3>3. Places' /\ SessionsMatchProcesses'
      BY <3>1, <3>2, BesideKeeps DEF TerminalInv, TerminalTypes, persist
    <3>4. Unreset(NoKey)' <=> Unreset(NoKey)
      BY <3>1 DEF Unreset, memory
    <3>5. Histories'
      BY <3>1, <3>2, <3>4, HistoryOne DEF TerminalInv, Histories, memory
    <3>. QED  BY <3>3, <3>5
  <2>. QED  BY <2>1, <2>2, <2>3, <2>4, <2>5 DEF Next
<1>. QED  BY <1>1, <1>2 DEF TerminalInv

\* What relates the sessions, the processes, the calls, the drains and the files
\* of all terminals holds whatever happens to them.
THEOREM TerminalInvariant == Spec => []TerminalInv
BY TerminalInitInv, NextKeepsTerminals, PTL DEF Spec

\* No process is left behind, and no session shown as running has lost its own,
\* for any number of terminals, of calls, and of sessions retained.
THEOREM ProcessesMatchSessions == Spec => []SessionsMatchProcesses
<1>1. TerminalInv => SessionsMatchProcesses
  BY DEF TerminalInv
<1>. QED  BY <1>1, TerminalInvariant, PTL

\* A call goes from reading the history to starting the session by reading it.
LEMMA StartsAfterReading ==
    ASSUME TerminalTypes, Next, NEW k \in Keys, call[k].at = "read", call'[k].at = "start"
    PROVE  ReadHistory(k)
<1>0. NoCall.at = "none" /\ call' # call /\ call'[k] # call[k] /\ call \in [Keys -> CallType]
  BY DEF NoCall, TerminalTypes
<1>1. ASSUME NEW j \in Keys, Call(j) PROVE FALSE
  <2>1. call[j] = NoCall /\ \A x \in Keys \ {j} : call'[x] = call[x]
    BY <1>0, <1>1 DEF Call, CallOpen, CallReopen, CallClear, CallRestart, CallClose, Begin
  <2>. QED  BY <1>0, <2>1
<1>2. ASSUME NEW j \in Keys, CallStep(j) PROVE ReadHistory(k)
  <2>1. \A x \in Keys \ {j} : call'[x] = call[x]
    BY <1>0, <1>2 DEF CallStep, ReadHistory, CreateEmpty, CreateSession, StopProcess,
       ResetHistory, SaveHistory, FlushPersist, CloseSession, DeleteHistory, Forget, Spawn,
       RegisterProcess, GoTo, End
  <2>2. j = k
    BY <1>0, <2>1
  <2>3. ReadHistory(j) \/ call[j].at # "read"
    BY <1>2 DEF CallStep, CreateEmpty, StopProcess, ResetHistory, SaveHistory, FlushPersist,
       CloseSession, DeleteHistory, Forget, Spawn, RegisterProcess
  <2>4. call[k].at = "read"
    BY <1>0
  <2>. QED  BY <2>2, <2>3, <2>4
<1>3. ASSUME NEW j \in Keys, SpawnFails(j) \/ DeleteFails(j) \/ Leave(j) PROVE FALSE
  <2>1. call' = [call EXCEPT ![j] = NoCall]
    BY <1>3 DEF SpawnFails, DeleteFails, Forget, Leave, End
  <2>. QED  BY <1>0, <2>1
<1>4. CASE \E j \in Keys : Output(j) \/ Drain(j)
  BY <1>0, <1>4 DEF Output, Drain, EndDrain, DrainOutput, DrainPersist, DrainExit
<1>5. CASE \E p \in 1..spawned : ExitProcess(p) \/ KillProcess(p) \/ KillFails(p)
  BY <1>0, <1>5 DEF ExitProcess, KillProcess, KillFails
<1>6. CASE PersistWorker \/ WriteFails
  BY <1>0, <1>6 DEF PersistWorker, PersistStep, WriteHistory, WriteFails, Beside
<1>7. CASE Shutdown
  BY <1>0, <1>7 DEF Shutdown
<1>. QED  BY <1>1, <1>2, <1>3, <1>4, <1>5, <1>6, <1>7 DEF Next

\* What it reads is the last history there was.
LEMMA ReadsLastHistory ==
    ASSUME TerminalInv, NEW k \in Keys, ReadHistory(k),
           gaps' \cap Unkept = {}
    PROVE  session'[k].history = session[k].history
<1>1. /\ fiber # "dead" /\ call[k].at = "read" /\ session \in [Keys -> SessionType]
      /\ ~Unreset(k) /\ ~\E d \in drains[k] : d.carries
      /\ gaps \cap {"stale", "undeleted", "unreset", "unwritten"} = {}
  <2>1. gaps' = (IF \E d \in drains[k] : d.carries THEN gaps \cup {"stale"} ELSE gaps)
    BY DEF ReadHistory
  <2>2. fiber # "dead" /\ call[k].at = "read" /\ session \in [Keys -> SessionType]
    BY DEF ReadHistory, Up, TerminalInv, Places, TerminalTypes
  <2>3. ~Unreset(k)
    BY <2>2 DEF Unreset
  <2>. QED  BY <2>1, <2>2, <2>3 DEF Unkept
<1>2. Filed(k) = session[k].history /\ Drained(k)
  BY <1>1 DEF TerminalInv, Histories
<1>3. Filed(k) = file[k]
  <2>1. key = k /\ fiber = "processing" => k \in active
    BY <1>1 DEF TerminalInv, KeyedInv, Positions, Serving
  <2>. QED  BY <1>2, <2>1 DEF Drained, Filed
<1>4. session'[k].history = file[k]
  <2>1. session' = [session EXCEPT ![k] = NewSession(file[k])]
    BY DEF ReadHistory, CreateSession, UpdateAndEvict
  <2>. QED  BY <1>1, <2>1 DEF NewSession
<1>. QED  BY <1>2, <1>3, <1>4

\* A terminal that is opened again shows its last history, for any number of
\* terminals and of sessions retained, whatever its calls, drains, evictions and
\* writes have done in the meantime.
THEOREM ReopenedHistory == Spec => ReopenKeepsHistory
<1>1. TerminalInv /\ [Next]_vars =>
        [\A k \in Keys :
           call[k].at = "read" /\ call'[k].at = "start"
               /\ gaps' \cap Unkept = {}
             => session'[k].history = session[k].history]_vars
  BY StartsAfterReading, ReadsLastHistory DEF TerminalInv, Places
<1>. QED  BY <1>1, TerminalInvariant, PTL DEF Spec, ReopenKeepsHistory
=============================================================================
