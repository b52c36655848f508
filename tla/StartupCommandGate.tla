------------------------- MODULE StartupCommandGate -------------------------
(***************************************************************************)
(* The gate in front of the orchestration engine while the server starts:  *)
(* a command received before the startup has ended waits in a queue, one   *)
(* received later runs at once.  The readiness is kept twice, in a Ref     *)
(* that callers read and in a Deferred that the worker of the queue        *)
(* awaits, and the two are written one after the other.  A caller acts on  *)
(* the readiness it has read, which may have changed since.                *)
(***************************************************************************)
EXTENDS Naturals, Sequences, FiniteSets

CONSTANTS Callers,  \* one call of enqueueCommand each
          NoCaller

ASSUME GateAssumption == NoCaller \notin Callers

VARIABLES readiness,     \* commandReadinessState
          commandReady,  \* the Deferred
          seen,          \* readinessState, as each caller read it
          stage,         \* where each caller is
          commandQueue,
          current,       \* the command the worker runs
          working,       \* where the worker is
          result,        \* what each call ended with
          started        \* observation: the effects started so far, in order

gate     == <<readiness, commandReady>>
caller   == <<seen, stage>>
worker   == <<current, working>>
gateVars == <<gate, caller, commandQueue, worker, result, started>>

GateInit ==
    /\ readiness = "pending" /\ commandReady = "unset"
    /\ seen = [c \in Callers |-> "pending"]
    /\ stage = [c \in Callers |-> "idle"]
    /\ commandQueue = <<>> /\ current = NoCaller /\ working = "taking"
    /\ result = [c \in Callers |-> "none"]
    /\ started = <<>>

-----------------------------------------------------------------------------
(* The startup ends, in success or in failure. *)

\* signalCommandReady and failCommandReady first write the Ref ...
EndStartup(outcome) ==
    /\ readiness = "pending"
    /\ readiness' = outcome
    /\ UNCHANGED <<commandReady, caller, commandQueue, worker, result, started>>

\* ... and then complete the Deferred.
CompleteReady ==
    /\ readiness # "pending"
    /\ commandReady = "unset"
    /\ commandReady' = readiness
    /\ UNCHANGED <<readiness, caller, commandQueue, worker, result, started>>

-----------------------------------------------------------------------------
(* enqueueCommand *)

ReadReadiness(c) ==
    /\ stage[c] = "idle"
    /\ seen' = [seen EXCEPT ![c] = readiness]
    /\ stage' = [stage EXCEPT ![c] = "read"]
    /\ UNCHANGED <<gate, commandQueue, worker, result, started>>

RunDirectly(c) ==
    /\ stage[c] = "read" /\ seen[c] = "ready"
    /\ started' = Append(started, c)
    /\ stage' = [stage EXCEPT ![c] = "running"]
    /\ UNCHANGED <<gate, seen, commandQueue, worker, result>>

EndDirectly(c) ==
    /\ stage[c] = "running"
    /\ stage' = [stage EXCEPT ![c] = "ended"]
    /\ result' = [result EXCEPT ![c] = "ran"]
    /\ UNCHANGED <<gate, seen, commandQueue, worker, started>>

\* Faulty: the caller is refused while its command stays queued.
RefuseButOffer(c) ==
    /\ stage[c] = "read" /\ seen[c] # "ready"
    /\ commandQueue' = Append(commandQueue, c)
    /\ stage' = [stage EXCEPT ![c] = "ended"]
    /\ result' = [result EXCEPT ![c] = "refused"]
    /\ UNCHANGED <<gate, seen, worker, started>>

Refuse(c) ==
    /\ stage[c] = "read" /\ seen[c] = "failed"
    /\ stage' = [stage EXCEPT ![c] = "ended"]
    /\ result' = [result EXCEPT ![c] = "refused"]
    /\ UNCHANGED <<gate, seen, commandQueue, worker, started>>

Offer(c) ==
    /\ stage[c] = "read" /\ seen[c] = "pending"
    /\ commandQueue' = Append(commandQueue, c)
    /\ stage' = [stage EXCEPT ![c] = "waiting"]
    /\ UNCHANGED <<gate, seen, worker, result, started>>

\* The caller awaits the result of its queued command.
Return(c) ==
    /\ stage[c] = "waiting" /\ result[c] # "none"
    /\ stage' = [stage EXCEPT ![c] = "ended"]
    /\ UNCHANGED <<gate, seen, commandQueue, worker, result, started>>

\* The client goes away: its fiber is interrupted, its queued command is not.
Abandon(c) ==
    /\ stage[c] = "waiting"
    /\ stage' = [stage EXCEPT ![c] = "gone"]
    /\ UNCHANGED <<gate, seen, commandQueue, worker, result, started>>

-----------------------------------------------------------------------------
(* commandWorker *)

Take ==
    /\ working = "taking" /\ commandQueue # <<>>
    /\ current' = Head(commandQueue)
    /\ commandQueue' = Tail(commandQueue)
    /\ working' = "awaiting"
    /\ UNCHANGED <<gate, caller, result, started>>

StartQueued ==
    /\ working = "awaiting" /\ commandReady = "ready"
    /\ started' = Append(started, current)
    /\ working' = "running"
    /\ UNCHANGED <<gate, caller, commandQueue, current, result>>

\* settleQueuedCommand, whether the effect succeeded, failed or died.
EndQueued ==
    /\ working = "running"
    /\ result' = [result EXCEPT ![current] = "ran"]
    /\ working' = "taking" /\ current' = NoCaller
    /\ UNCHANGED <<gate, caller, commandQueue, started>>

\* Faulty: the failed await ends the worker.
RefuseAndStop ==
    /\ working = "awaiting" /\ commandReady = "failed"
    /\ result' = [result EXCEPT ![current] = "refused"]
    /\ UNCHANGED <<gate, caller, commandQueue, worker, started>>

\* The await fails, and so does the queued command; the worker goes on.
RefuseQueued ==
    /\ working = "awaiting" /\ commandReady = "failed"
    /\ result' = [result EXCEPT ![current] = "refused"]
    /\ working' = "taking" /\ current' = NoCaller
    /\ UNCHANGED <<gate, caller, commandQueue, started>>

-----------------------------------------------------------------------------
EnqueueCommand(c) ==
    \/ RunDirectly(c) \/ EndDirectly(c) \/ Refuse(c) \/ Offer(c) \/ Return(c)

CommandWorker == Take \/ StartQueued \/ EndQueued \/ RefuseQueued

-----------------------------------------------------------------------------
(* Properties *)

Readiness == {"pending", "ready", "failed"}

GateTypeOK ==
    /\ readiness \in Readiness
    /\ commandReady \in {"unset", "ready", "failed"}
    /\ seen \in [Callers -> Readiness]
    /\ stage \in [Callers -> {"idle", "read", "running", "waiting", "ended", "gone"}]
    /\ commandQueue \in Seq(Callers)
    /\ current \in Callers \cup {NoCaller}
    /\ working \in {"taking", "awaiting", "running"}
    /\ result \in [Callers -> {"none", "ran", "refused"}]
    /\ started \in Seq(Callers)

Started(c) == \E i \in DOMAIN started : started[i] = c

\* A command is started at most once, and a caller that is told the startup
\* failed can rely on its command never running.
AnsweredAsRun ==
    /\ \A i, j \in DOMAIN started : started[i] = started[j] => i = j
    /\ \A c \in Callers : result[c] = "ran" => Started(c)
    /\ \A c \in Callers : result[c] = "refused" => ~Started(c)
=============================================================================
