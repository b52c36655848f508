------------------------ MODULE KeyedCoalescingWorker ------------------------
(***************************************************************************)
(* makeKeyedCoalescingWorker: one fiber serves a queue of keys, and each   *)
(* key keeps only its latest value.  The terminal manager writes terminal  *)
(* histories to disk through it.  Values of a key are numbered in the      *)
(* order they are enqueued; merging two gives the newer, as the terminal   *)
(* manager's merge does for the history.  A step of the fiber ends where   *)
(* one of its transactions commits or where process runs.                  *)
(***************************************************************************)
EXTENDS Naturals, Sequences, FiniteSets

CONSTANTS Keys,
          MaxValues    \* bound on the values enqueued for a key

ASSUME KeyedCoalescingWorkerAssumption == MaxValues \in Nat /\ Keys # {}

NoValue == 0

VARIABLES
    queue,      \* the TxQueue of keys
    latest,     \* latestByKey
    queued,     \* queuedKeys
    active,     \* activeKeys
    fiber,      \* what the worker fiber is about to do
    key, value, \* the key and the value it is doing it with
    sent,       \* the last value enqueued for each key
    handled     \* the last value of each key whose process has ended

worker == <<fiber, key, value>>
keyed == <<queue, latest, queued, active, worker, sent, handled>>

NoKey == CHOOSE k \in Keys : TRUE

KeyedInit ==
    /\ queue = <<>> /\ queued = {} /\ active = {}
    /\ latest = [k \in Keys |-> NoValue]
    /\ fiber = "taking" /\ key = NoKey /\ value = NoValue
    /\ sent = [k \in Keys |-> 0] /\ handled = [k \in Keys |-> 0]

\* The fiber is done with its key, and takes the next.
Rest == fiber' = "taking" /\ key' = NoKey /\ value' = NoValue

-----------------------------------------------------------------------------
\* Faulty: a key that is being processed is queued again.
EnqueueActive(k) ==
    /\ sent[k] < MaxValues
    /\ sent' = [sent EXCEPT ![k] = @ + 1]
    /\ latest' = [latest EXCEPT ![k] = sent'[k]]
    /\ IF k \in queued
       THEN UNCHANGED <<queue, queued>>
       ELSE queue' = Append(queue, k) /\ queued' = queued \cup {k}
    /\ UNCHANGED <<active, worker, handled>>

\* enqueue: the state and the queue change in one transaction.
Enqueue(k) ==
    /\ sent[k] < MaxValues
    /\ sent' = [sent EXCEPT ![k] = @ + 1]
    /\ latest' = [latest EXCEPT ![k] = sent'[k]]
    /\ IF k \in queued \cup active
       THEN UNCHANGED <<queue, queued>>
       ELSE queue' = Append(queue, k) /\ queued' = queued \cup {k}
    /\ UNCHANGED <<active, worker, handled>>

Take ==
    /\ fiber = "taking"
    /\ queue # <<>>
    /\ key' = Head(queue)
    /\ queue' = Tail(queue)
    /\ fiber' = "claiming"
    /\ UNCHANGED <<latest, queued, active, value, sent, handled>>

\* Faulty: the key is not marked active while its value is processed.
ClaimInactive ==
    /\ fiber = "claiming"
    /\ queued' = queued \ {key}
    /\ IF latest[key] = NoValue
       THEN Rest /\ UNCHANGED latest
       ELSE /\ value' = latest[key]
            /\ latest' = [latest EXCEPT ![key] = NoValue]
            /\ fiber' = "processing" /\ UNCHANGED key
    /\ UNCHANGED <<queue, active, sent, handled>>

\* A key without a value is dropped.
Claim ==
    /\ fiber = "claiming"
    /\ queued' = queued \ {key}
    /\ IF latest[key] = NoValue
       THEN Rest /\ UNCHANGED <<latest, active>>
       ELSE /\ value' = latest[key]
            /\ latest' = [latest EXCEPT ![key] = NoValue]
            /\ active' = active \cup {key}
            /\ fiber' = "processing" /\ UNCHANGED key
    /\ UNCHANGED <<queue, sent, handled>>

Succeed ==
    /\ fiber = "processing"
    /\ handled' = [handled EXCEPT ![key] = value]
    /\ fiber' = "succeeded"
    /\ UNCHANGED <<queue, latest, queued, active, key, value, sent>>

Fail ==
    /\ fiber = "processing"
    /\ handled' = [handled EXCEPT ![key] = value]
    /\ fiber' = "failed"
    /\ UNCHANGED <<queue, latest, queued, active, key, value, sent>>

\* The key stays active while values keep arriving for it.
NextValue ==
    /\ fiber = "succeeded"
    /\ IF latest[key] = NoValue
       THEN active' = active \ {key} /\ Rest /\ UNCHANGED latest
       ELSE /\ value' = latest[key]
            /\ latest' = [latest EXCEPT ![key] = NoValue]
            /\ fiber' = "processing"
            /\ UNCHANGED <<active, key>>
    /\ UNCHANGED <<queue, queued, sent, handled>>

\* Faulty: a value that arrived meanwhile is not queued for.
CleanupWithoutRequeue ==
    /\ fiber = "failed"
    /\ active' = active \ {key}
    /\ Rest
    /\ UNCHANGED <<queue, latest, queued, sent, handled>>

\* cleanupFailedKey: its transaction, then the offer outside of it.
CleanupFailedKey ==
    /\ fiber = "failed"
    /\ active' = active \ {key}
    /\ IF latest[key] # NoValue /\ key \notin queued
       THEN queued' = queued \cup {key} /\ fiber' = "requeueing" /\ UNCHANGED <<key, value>>
       ELSE Rest /\ UNCHANGED queued
    /\ UNCHANGED <<queue, latest, sent, handled>>

Requeue ==
    /\ fiber = "requeueing"
    /\ queue' = Append(queue, key)
    /\ Rest
    /\ UNCHANGED <<latest, queued, active, sent, handled>>

\* The scope closes.
Interrupt ==
    /\ fiber # "dead"
    /\ fiber' = "dead"
    /\ UNCHANGED <<queue, latest, queued, active, key, value, sent, handled>>

\* drainKey returns when this holds.
Drained(k) == latest[k] = NoValue /\ k \notin queued \cup active

-----------------------------------------------------------------------------
KeyedTypeOK ==
    /\ queue \in Seq(Keys)
    /\ latest \in [Keys -> 0..MaxValues]
    /\ queued \in SUBSET Keys /\ active \in SUBSET Keys
    /\ fiber \in {"taking", "claiming", "processing", "succeeded", "failed",
                  "requeueing", "dead"}
    /\ key \in Keys /\ value \in 0..MaxValues
    /\ sent \in [Keys -> 0..MaxValues] /\ handled \in [Keys -> 0..MaxValues]

\* No value is stranded: one that waits has its key in the queue, or in the
\* hands of a fiber that will look at it again, and a key is never in the
\* queue twice nor both queued for and held by the fiber.
NothingStranded ==
    fiber # "dead" =>
        /\ queued \cap active = {}
        /\ \A k \in Keys :
            LET places == Cardinality({i \in DOMAIN queue : queue[i] = k})
                          + (IF fiber \in {"claiming", "requeueing"} /\ key = k THEN 1 ELSE 0)
            IN  /\ places = IF k \in queued THEN 1 ELSE 0
                /\ k \in active <=> fiber \in {"processing", "succeeded", "failed"} /\ key = k
                /\ latest[k] # NoValue => k \in queued \cup active

\* drainKey returns only when what was enqueued for its key has been processed,
\* itself or a newer value in its place.
DrainKeySound ==
    \A k \in Keys : Drained(k) => handled[k] = sent[k]

\* What is enqueued is eventually processed, or superseded by what is, even if the
\* processing of another value fails: whoever waits in drainKey goes on.
EveryValueHandled ==
    \A k \in Keys : ~Drained(k) ~> (Drained(k) \/ fiber = "dead")
=============================================================================
