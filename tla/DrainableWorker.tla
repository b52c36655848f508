--------------------------- MODULE DrainableWorker ---------------------------
(***************************************************************************)
(* makeDrainableWorker: an unbounded queue served by one fiber, and a      *)
(* counter of the items enqueued and not yet processed that drain waits    *)
(* on.  The checkpoint reactor, the provider command reactor and the       *)
(* provider runtime ingestion each run their work through such workers.    *)
(***************************************************************************)
EXTENDS Integers, Sequences, FiniteSets

CONSTANTS Items,    \* what is enqueued, each at most once
          Drainers, \* fibers that call drain, each at most once
          NoItem

ASSUME DrainableWorkerAssumption == IsFiniteSet(Items) /\ NoItem \notin Items

VARIABLES
    queue, open,    \* the TxQueue, and whether it has not been shut down
    outstanding,    \* the TxRef
    fiber,          \* what the worker fiber is doing
    item,           \* the item the fiber has taken
    enqueued,       \* history: the items enqueued so far
    finished,       \* the items whose process has ended, well or not
    drainer,        \* where each drainer is
    promised        \* the items enqueued when it called drain

vars == <<queue, open, outstanding, fiber, item, enqueued, finished, drainer, promised>>

Init ==
    /\ queue = <<>> /\ open = TRUE /\ outstanding = 0
    /\ fiber = "taking" /\ item = NoItem
    /\ enqueued = {} /\ finished = {}
    /\ drainer = [d \in Drainers |-> "out"]
    /\ promised = [d \in Drainers |-> {}]

-----------------------------------------------------------------------------
\* One transaction: a queue that was shut down refuses the offer, the counter
\* is incremented all the same.
Enqueue(i) ==
    /\ i \notin enqueued
    /\ enqueued' = enqueued \cup {i}
    /\ queue' = IF open THEN Append(queue, i) ELSE queue
    /\ outstanding' = outstanding + 1
    /\ UNCHANGED <<open, fiber, item, finished, drainer, promised>>

\* Faulty: the item is counted off when it is taken.
TakeCountedOff ==
    /\ fiber = "taking"
    /\ queue # <<>>
    /\ item' = Head(queue)
    /\ queue' = Tail(queue)
    /\ outstanding' = outstanding - 1
    /\ fiber' = "holding"
    /\ UNCHANGED <<open, enqueued, finished, drainer, promised>>

Take ==
    /\ fiber = "taking"
    /\ queue # <<>>
    /\ item' = Head(queue)
    /\ queue' = Tail(queue)
    /\ fiber' = "holding"
    /\ UNCHANGED <<open, outstanding, enqueued, finished, drainer, promised>>

Process ==
    /\ fiber = "holding"
    /\ fiber' = "processing"
    /\ UNCHANGED <<queue, open, outstanding, item, enqueued, finished, drainer, promised>>

\* Faulty: the counter keeps the item.
EndProcessCounted ==
    /\ fiber = "processing"
    /\ finished' = finished \cup {item}
    /\ item' = NoItem
    /\ UNCHANGED outstanding

\* process ends, and Effect.ensuring decrements the counter.
EndProcess ==
    /\ fiber = "processing"
    /\ finished' = finished \cup {item}
    /\ outstanding' = outstanding - 1
    /\ item' = NoItem

Succeed ==
    /\ EndProcess
    /\ fiber' = "taking"
    /\ UNCHANGED <<queue, open, enqueued, drainer, promised>>

\* Nothing catches a failure of process, so it ends Effect.forever.
Fail ==
    /\ EndProcess
    /\ fiber' = "dead"
    /\ UNCHANGED <<queue, open, enqueued, drainer, promised>>

\* The scope closes: the fiber is interrupted wherever it is, then the queue
\* is shut down.
Interrupt ==
    /\ fiber # "dead"
    /\ fiber' = "dead"
    /\ \/ EndProcess
       \/ fiber # "processing" /\ UNCHANGED <<finished, outstanding, item>>
    /\ UNCHANGED <<queue, open, enqueued, drainer, promised>>

Shutdown ==
    /\ fiber = "dead"
    /\ open
    /\ open' = FALSE
    /\ queue' = <<>>
    /\ UNCHANGED <<outstanding, fiber, item, enqueued, finished, drainer, promised>>

CallDrain(d) ==
    /\ drainer[d] = "out"
    /\ drainer' = [drainer EXCEPT ![d] = "waiting"]
    /\ promised' = [promised EXCEPT ![d] = enqueued]
    /\ UNCHANGED <<queue, open, outstanding, fiber, item, enqueued, finished>>

\* The transaction retries while the counter is positive.
DrainReturns(d) ==
    /\ drainer[d] = "waiting"
    /\ outstanding <= 0
    /\ drainer' = [drainer EXCEPT ![d] = "returned"]
    /\ UNCHANGED <<queue, open, outstanding, fiber, item, enqueued, finished, promised>>

Next ==
    \/ \E i \in Items : Enqueue(i)
    \/ Take \/ Process \/ Succeed \/ Fail \/ Interrupt \/ Shutdown
    \/ \E d \in Drainers : CallDrain(d) \/ DrainReturns(d)

\* The fiber keeps running and what it processes ends; a drainer's transaction
\* is retried when the counter changes.
Spec ==
    /\ Init /\ [][Next]_vars
    /\ WF_vars(Take) /\ WF_vars(Process) /\ WF_vars(Succeed)
    /\ \A d \in Drainers : WF_vars(DrainReturns(d))

-----------------------------------------------------------------------------
TypeOK ==
    /\ queue \in Seq(Items)
    /\ open \in BOOLEAN
    /\ outstanding \in Int
    /\ fiber \in {"taking", "holding", "processing", "dead"}
    /\ item \in Items \cup {NoItem}
    /\ enqueued \in SUBSET Items /\ finished \in SUBSET Items
    /\ drainer \in [Drainers -> {"out", "waiting", "returned"}]
    /\ promised \in [Drainers -> SUBSET Items]

\* drain returns only when everything enqueued before it was called has been
\* processed, whatever is enqueued meanwhile and however the worker ends.
DrainSound ==
    \A d \in Drainers : drainer[d] = "returned" => promised[d] \subseteq finished

\* The counter is exact even after a failure, an interruption or a shutdown.
OutstandingExact == outstanding = Cardinality(enqueued \ finished)

\* While the worker lives, every drain returns.
DrainTerminates ==
    \A d \in Drainers : drainer[d] = "waiting" ~> (drainer[d] = "returned" \/ fiber = "dead")
=============================================================================
