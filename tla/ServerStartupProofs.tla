------------------------- MODULE ServerStartupProofs -------------------------
(***************************************************************************)
(* Proofs about the startup, its gate and the welcome event, for any set   *)
(* of callers and subscribers and any number of crashes.                   *)
(***************************************************************************)
EXTENDS ServerStartup, SequenceTheorems, FiniteSetTheorems, TLAPS

\* A command that waits behind the gate: nobody has been told anything.
Pending(c) == stage[c] \in {"waiting", "gone"} /\ result[c] = "none"

\* Each command is in one place, and where it is tells whether it has started.
Places ==
    /\ \A i, j \in 1..Len(commandQueue) : commandQueue[i] = commandQueue[j] => i = j
    /\ \A i \in 1..Len(commandQueue) :
          /\ Pending(commandQueue[i]) /\ ~Started(commandQueue[i])
          /\ commandQueue[i] # current
    /\ working = "taking" <=> current = NoCaller
    /\ working # "taking" => Pending(current)
    /\ working = "awaiting" => ~Started(current)
    /\ working = "running" => Started(current)
    /\ \A c \in Callers :
          /\ stage[c] \in {"idle", "read"} => result[c] = "none" /\ ~Started(c)
          /\ stage[c] = "running" => result[c] = "none" /\ Started(c)

\* What callers and the worker go by is what the startup has decided.
Readings ==
    /\ \A c \in Callers : seen[c] = "ready" => readiness = "ready"
    /\ commandReady = "ready" => readiness = "ready"
    /\ started # <<>> => readiness = "ready"

GateInv == GateTypeOK /\ Places /\ Readings /\ AnsweredAsRun

\* The readiness is decided at the end of the startup, after the welcome.
Phases ==
    /\ readiness = "pending" <=> at \notin {"http", "done", "failed"}
    /\ readiness = "ready" <=> at \in {"http", "done"}
    /\ at = "signal" => \E e \in events : e.type = "welcome"
    /\ readiness = "ready" => \E e \in events : e.type = "welcome" /\ e # publishing
    /\ publishing.type = "welcome" => at = "signal"

\* What the startup has found still holds: it is the only one who writes.
Database ==
    /\ project \in [id : Nat, status : {"none", "active", "deleted"}]
    /\ thread \in [id : Nat, project : Nat, status : {"none", "active", "archived", "deleted"}]
    /\ found \in [project : Nat, thread : Nat]
    /\ thread.project <= project.id
    /\ at \in {"project", "createProject", "thread", "createThread"} => chats /\ auto
    /\ at \in {"thread", "createThread"} =>
          found.project = project.id /\ project.status = "active"

IInv == GateInv /\ Phases /\ Database /\ WelcomeNamesExisting

-----------------------------------------------------------------------------
(* The gate. *)

\* Started only grows by the command that starts.
LEMMA StartedGrows ==
    ASSUME started \in Seq(Callers), NEW c \in Callers, started' = Append(started, c)
    PROVE  /\ Started(c)'
           /\ \A d \in Callers : d # c => (Started(d)' <=> Started(d))
           /\ started' \in Seq(Callers)
           /\ started' # <<>>
<1>1. /\ Len(started') = Len(started) + 1
      /\ started'[Len(started) + 1] = c
      /\ \A i \in 1..Len(started) : started'[i] = started[i]
      /\ started' \in Seq(Callers)
  BY AppendProperties
<1>2. Len(started) \in Nat /\ DOMAIN started = 1..Len(started)
      /\ DOMAIN started' = 1..Len(started')
  BY <1>1, LenProperties
<1>3. \A i \in DOMAIN started' : i \in DOMAIN started \/ i = Len(started) + 1
  BY <1>1, <1>2
<1>4. Len(started) + 1 \in DOMAIN started'
  BY <1>1, <1>2
<1>5. \A i \in DOMAIN started : i \in DOMAIN started'
  BY <1>1, <1>2
<1>. QED  BY <1>1, <1>2, <1>3, <1>4, <1>5, EmptySeq DEF Started

\* No command is started twice when one starts that has not.
LEMMA StartedOnce ==
    ASSUME started \in Seq(Callers), NEW c \in Callers, started' = Append(started, c), ~Started(c),
           \A i, j \in DOMAIN started : started[i] = started[j] => i = j
    PROVE  \A i, j \in DOMAIN started' : started'[i] = started'[j] => i = j
<1>1. /\ Len(started') = Len(started) + 1
      /\ started'[Len(started) + 1] = c
      /\ \A i \in 1..Len(started) : started'[i] = started[i]
      /\ started' \in Seq(Callers)
  BY AppendProperties
<1>2. Len(started) \in Nat /\ DOMAIN started = 1..Len(started)
      /\ DOMAIN started' = 1..Len(started')
  BY <1>1, LenProperties
<1>3. \A i \in DOMAIN started' : i \in DOMAIN started \/ i = Len(started) + 1
  BY <1>1, <1>2
<1>4. \A i \in DOMAIN started : started[i] # c
  BY DEF Started
<1>. QED  BY <1>1, <1>2, <1>3, <1>4

\* A gate that starts with the process.
LEMMA GateInitInv == GateInit => GateInv
<1>. SUFFICES ASSUME GateInit PROVE GateInv
  OBVIOUS
<1>1. started = <<>> /\ commandQueue = <<>> /\ DOMAIN started = {} /\ Len(commandQueue) = 0
  BY DEF GateInit
<1>2. \A c : ~Started(c)
  BY <1>1 DEF Started
<1>3. GateTypeOK
  BY <1>1 DEF GateInit, GateTypeOK, Readiness
<1>4. Places
  BY <1>1, <1>2 DEF GateInit, Places, Pending
<1>5. Readings
  BY <1>1 DEF GateInit, Readings
<1>6. AnsweredAsRun
  BY <1>1, <1>2 DEF GateInit, AnsweredAsRun
<1>. QED  BY <1>3, <1>4, <1>5, <1>6 DEF GateInv

LEMMA EndStartupGate ==
    ASSUME GateInv, NEW outcome \in {"ready", "failed"}, EndStartup(outcome)
    PROVE  GateInv'
<1>. USE DEF GateInv, EndStartup, caller, worker
<1>1. GateTypeOK'
  BY DEF GateTypeOK, Readiness
<1>2. Places'
  BY DEF Places, Pending, Started
<1>3. Readings'
  BY DEF Readings
<1>4. AnsweredAsRun'
  BY DEF AnsweredAsRun, Started
<1>. QED  BY <1>1, <1>2, <1>3, <1>4

LEMMA CompleteReadyGate ==
    ASSUME GateInv, CompleteReady
    PROVE  GateInv'
<1>. USE DEF GateInv, CompleteReady, caller, worker
<1>1. GateTypeOK'
  BY DEF GateTypeOK, Readiness
<1>2. Places'
  BY DEF Places, Pending, Started
<1>3. Readings'
  BY DEF Readings
<1>4. AnsweredAsRun'
  BY DEF AnsweredAsRun, Started
<1>. QED  BY <1>1, <1>2, <1>3, <1>4

\* A caller: what it has read is the readiness, which never goes back.
LEMMA CallerGate ==
    ASSUME GateInv, NEW c \in Callers,
           ReadReadiness(c) \/ Refuse(c) \/ EndDirectly(c) \/ Return(c) \/ Abandon(c)
    PROVE  GateInv'
<1>. USE DEF GateInv
<1>. DEFINE Act == ReadReadiness(c) \/ Refuse(c) \/ EndDirectly(c) \/ Return(c) \/ Abandon(c)
<1>. USE DEF ReadReadiness, Refuse, EndDirectly, Return, Abandon, gate, worker
<1>1. /\ UNCHANGED <<readiness, commandReady, commandQueue, current, working, started>>
      /\ stage' \in [Callers -> {"idle", "read", "running", "waiting", "ended", "gone"}]
      /\ seen' \in [Callers -> Readiness]
      /\ result' \in [Callers -> {"none", "ran", "refused"}]
      /\ \A d \in Callers \ {c} : stage'[d] = stage[d] /\ seen'[d] = seen[d]
                                  /\ result'[d] = result[d]
      /\ Started(c)' = Started(c)
  BY DEF GateTypeOK, Started
<1>2. GateTypeOK'
  BY <1>1 DEF GateTypeOK
<1>3. /\ \A d \in Callers : Started(d)' <=> Started(d)
  BY <1>1 DEF Started
<1>4. Pending(c) => Pending(c)' /\ stage[c] \notin {"idle", "read", "running"}
  BY DEF Pending, GateTypeOK
<1>5. \A d \in Callers : Pending(d) => Pending(d)'
  BY <1>1, <1>4 DEF Pending
<1>6. \A i \in 1..Len(commandQueue) : commandQueue[i] \in Callers
  BY DEF GateTypeOK
<1>7. /\ stage'[c] \in {"idle", "read"} => result'[c] = "none" /\ ~Started(c)
      /\ stage'[c] # "running"
      /\ result'[c] = "ran" => Started(c)
      /\ result'[c] = "refused" => ~Started(c)
      /\ seen'[c] = "ready" => readiness = "ready"
  BY DEF GateTypeOK, Places, Readings, AnsweredAsRun
<1>8. working # "taking" => current \in Callers
  BY DEF GateTypeOK, Places
<1>9. Places'
  BY <1>1, <1>3, <1>5, <1>6, <1>7, <1>8 DEF Places
<1>10. Readings'
  BY <1>1, <1>7 DEF Readings
<1>11. AnsweredAsRun'
  BY <1>1, <1>3, <1>7 DEF AnsweredAsRun
<1>. QED  BY <1>2, <1>9, <1>10, <1>11

LEMMA OfferGate ==
    ASSUME GateInv, NEW c \in Callers, Offer(c)
    PROVE  GateInv'
<1>. USE DEF GateInv, Offer, gate, worker
<1>1. /\ Len(commandQueue') = Len(commandQueue) + 1
      /\ commandQueue'[Len(commandQueue) + 1] = c
      /\ \A i \in 1..Len(commandQueue) : commandQueue'[i] = commandQueue[i]
      /\ commandQueue' \in Seq(Callers)
      /\ Len(commandQueue) \in Nat
  BY AppendProperties, LenProperties DEF GateTypeOK
<1>2. \A i \in 1..Len(commandQueue') : i \in 1..Len(commandQueue) \/ i = Len(commandQueue) + 1
  BY <1>1
<1>3. /\ stage' = [stage EXCEPT ![c] = "waiting"] /\ stage'[c] = "waiting"
      /\ result[c] = "none" /\ ~Started(c)
      /\ \A d \in Callers : Started(d)' <=> Started(d)
  BY DEF GateTypeOK, Places, Started
<1>4. Pending(c)' /\ (\A d \in Callers : Pending(d) => Pending(d)') /\ ~Pending(c)
  BY <1>3 DEF Pending, GateTypeOK
<1>5. \A i \in 1..Len(commandQueue) : commandQueue[i] \in Callers /\ commandQueue[i] # c
  BY <1>4 DEF GateTypeOK, Places
<1>6. working # "taking" => current \in Callers /\ current # c
  BY <1>4 DEF GateTypeOK, Places
<1>7. current # c
  BY <1>6, GateAssumption DEF Places
<1>8. GateTypeOK'
  BY <1>1 DEF GateTypeOK
<1>9. Places'
  <2>1. \A i, j \in 1..Len(commandQueue') : commandQueue'[i] = commandQueue'[j] => i = j
    BY <1>1, <1>2, <1>5 DEF Places
  <2>2. \A i \in 1..Len(commandQueue') :
          (Pending(commandQueue[i]) /\ ~Started(commandQueue[i]) /\ commandQueue[i] # current)'
    BY <1>1, <1>2, <1>3, <1>4, <1>5, <1>7 DEF Places, Pending, Started
  <2>3. \A d \in Callers :
          /\ stage'[d] \in {"idle", "read"} => result[d] = "none" /\ ~Started(d)
          /\ stage'[d] = "running" => result[d] = "none" /\ Started(d)
    BY <1>3 DEF Places, GateTypeOK
  <2>4. \A d \in Callers : stage'[d] = "running" => d # c
    BY <1>3
  <2>. QED  BY <1>3, <1>4, <1>6, <2>1, <2>2, <2>3, <2>4 DEF Places
<1>10. Readings'
  BY DEF Readings
<1>11. AnsweredAsRun'
  BY <1>3 DEF AnsweredAsRun
<1>. QED  BY <1>8, <1>9, <1>10, <1>11

LEMMA RunDirectlyGate ==
    ASSUME GateInv, NEW c \in Callers, RunDirectly(c)
    PROVE  GateInv'
<1>. USE DEF GateInv, RunDirectly, gate, worker
<1>1. /\ Started(c)'
      /\ \A d \in Callers : d # c => (Started(d)' <=> Started(d))
      /\ started' \in Seq(Callers) /\ started' # <<>>
  BY StartedGrows DEF GateTypeOK
<1>2. result[c] = "none" /\ ~Started(c) /\ stage'[c] = "running" /\ ~Pending(c)
  BY DEF Places, GateTypeOK, Pending
<1>3. \A i \in 1..Len(commandQueue) : commandQueue[i] \in Callers \ {c}
  BY <1>2 DEF GateTypeOK, Places
<1>4. working # "taking" => current \in Callers \ {c}
  BY <1>2 DEF GateTypeOK, Places
<1>5. \A d \in Callers \ {c} : stage'[d] = stage[d] /\ (Pending(d) <=> Pending(d)')
  BY DEF GateTypeOK, Pending
<1>6. GateTypeOK'
  BY <1>1 DEF GateTypeOK
<1>7. Places'
  <2>1. \A i \in 1..Len(commandQueue) :
          /\ Pending(commandQueue[i])' /\ ~Started(commandQueue[i])'
          /\ commandQueue[i] # current
    BY <1>1, <1>3, <1>5 DEF Places
  <2>2. \A d \in Callers :
          /\ stage'[d] \in {"idle", "read"} => result[d] = "none" /\ ~Started(d)'
          /\ stage'[d] = "running" => result[d] = "none" /\ Started(d)'
    BY <1>1, <1>2, <1>5 DEF Places
  <2>3. working # "taking" => Pending(current)'
    BY <1>4, <1>5 DEF Places
  <2>4. working # "taking" => (Started(current)' <=> Started(current))
    BY <1>1, <1>4
  <2>5. working \in {"taking", "awaiting", "running"}
    BY DEF GateTypeOK
  <2>. QED  BY <2>1, <2>2, <2>3, <2>4, <2>5 DEF Places
<1>8. Readings'
  BY <1>1 DEF Readings
<1>9. AnsweredAsRun'
  <2>1. \A i, j \in DOMAIN started' : started'[i] = started'[j] => i = j
    BY <1>2, StartedOnce DEF GateTypeOK, AnsweredAsRun
  <2>. QED  BY <1>1, <1>2, <2>1 DEF AnsweredAsRun
<1>. QED  BY <1>6, <1>7, <1>8, <1>9

-----------------------------------------------------------------------------
(* The worker of the queue. *)

LEMMA TakeGate ==
    ASSUME GateInv, Take
    PROVE  GateInv'
<1>. USE DEF GateInv, Take, gate, caller
<1>1. /\ commandQueue \in Seq(Callers) /\ commandQueue # <<>>
      /\ Len(commandQueue) \in Nat \ {0} /\ current' = commandQueue[1]
      /\ Len(commandQueue') = Len(commandQueue) - 1
      /\ \A i \in 1..Len(commandQueue') : commandQueue'[i] = commandQueue[i + 1]
      /\ commandQueue' \in Seq(Callers)
  BY HeadTailProperties, LenProperties, EmptySeq DEF GateTypeOK
<1>2. /\ 1 \in 1..Len(commandQueue) /\ current' \in Callers /\ current' # NoCaller
      /\ \A i \in 1..Len(commandQueue') : i + 1 \in 1..Len(commandQueue) /\ i + 1 # 1
  BY <1>1, GateAssumption
<1>3. (\A d : Pending(d)' <=> Pending(d)) /\ (\A d : Started(d)' <=> Started(d))
  BY DEF Pending, Started
<1>4. GateTypeOK'
  BY <1>1, <1>2 DEF GateTypeOK
<1>5. Places'
  <2>1. \A i, j \in 1..Len(commandQueue') : commandQueue'[i] = commandQueue'[j] => i = j
    BY <1>1, <1>2 DEF Places
  <2>2. \A i \in 1..Len(commandQueue') :
          (Pending(commandQueue[i]) /\ ~Started(commandQueue[i]) /\ commandQueue[i] # current)'
    BY <1>1, <1>2 DEF Places, Pending, Started
  <2>3. Pending(current') /\ ~Started(current')
    BY <1>1, <1>2 DEF Places
  <2>. QED  BY <1>2, <1>3, <2>1, <2>2, <2>3 DEF Places, Pending, Started
<1>6. Readings' /\ AnsweredAsRun'
  BY <1>3 DEF Readings, AnsweredAsRun
<1>. QED  BY <1>4, <1>5, <1>6

LEMMA StartQueuedGate ==
    ASSUME GateInv, StartQueued
    PROVE  GateInv'
<1>. USE DEF GateInv, StartQueued, gate, caller
<1>1. current \in Callers /\ Pending(current) /\ ~Started(current) /\ current' = current
  BY DEF GateTypeOK, Places
<1>2. /\ Started(current)'
      /\ \A d \in Callers : d # current => (Started(d)' <=> Started(d))
      /\ started' \in Seq(Callers) /\ started' # <<>>
  BY <1>1, StartedGrows DEF GateTypeOK, Started
<1>3. \A i \in 1..Len(commandQueue) : commandQueue[i] \in Callers \ {current}
  BY DEF GateTypeOK, Places
<1>4. (\A d : Pending(d)' <=> Pending(d))
  BY DEF Pending
<1>5. GateTypeOK'
  BY <1>2 DEF GateTypeOK
<1>6. Places'
  <2>1. \A i \in 1..Len(commandQueue) :
          (Pending(commandQueue[i]) /\ ~Started(commandQueue[i]) /\ commandQueue[i] # current)'
    BY <1>2, <1>3 DEF Places, Pending, Started
  <2>2. \A d \in Callers :
          /\ stage'[d] \in {"idle", "read"} => result'[d] = "none" /\ ~Started(d)'
          /\ stage'[d] = "running" => result'[d] = "none" /\ Started(d)'
    BY <1>1, <1>2 DEF Places, Pending
  <2>3. current' # NoCaller
    BY <1>1, GateAssumption
  <2>. QED  BY <1>1, <1>2, <1>4, <2>1, <2>2, <2>3 DEF Places
<1>7. Readings'
  BY <1>2 DEF Readings
<1>8. AnsweredAsRun'
  <2>1. \A i, j \in DOMAIN started' : started'[i] = started'[j] => i = j
    BY <1>1, StartedOnce DEF GateTypeOK, AnsweredAsRun
  <2>. QED  BY <1>1, <1>2, <2>1 DEF AnsweredAsRun, Pending
<1>. QED  BY <1>5, <1>6, <1>7, <1>8

LEMMA SettleGate ==
    ASSUME GateInv, EndQueued \/ RefuseQueued
    PROVE  GateInv'
<1>. USE DEF GateInv, EndQueued, RefuseQueued, gate, caller
<1>1. /\ current \in Callers /\ Pending(current)
      /\ working' = "taking" /\ current' = NoCaller
      /\ UNCHANGED <<readiness, commandReady, seen, stage, commandQueue, started>>
  BY DEF GateTypeOK, Places
<1>2. /\ result' \in [Callers -> {"none", "ran", "refused"}]
      /\ \A d \in Callers \ {current} : result'[d] = result[d]
      /\ result'[current] = "ran" => Started(current)
      /\ result'[current] = "refused" => ~Started(current)
  BY <1>1 DEF GateTypeOK, Places
<1>3. \A i \in 1..Len(commandQueue) : commandQueue[i] \in Callers \ {current}
  BY DEF GateTypeOK, Places
<1>4. \A d : Started(d)' <=> Started(d)
  BY <1>1 DEF Started
<1>5. GateTypeOK'
  BY <1>1, <1>2 DEF GateTypeOK
<1>6. Places'
  <2>1. \A i \in 1..Len(commandQueue) :
          (Pending(commandQueue[i]) /\ ~Started(commandQueue[i]) /\ commandQueue[i] # current)'
    BY <1>1, <1>2, <1>3, GateAssumption DEF Places, Pending, Started
  <2>2. \A d \in Callers :
          /\ stage'[d] \in {"idle", "read"} => result'[d] = "none" /\ ~Started(d)
          /\ stage'[d] = "running" => result'[d] = "none" /\ Started(d)
    BY <1>1, <1>2 DEF Places, Pending
  <2>. QED  BY <1>1, <1>4, <2>1, <2>2 DEF Places
<1>7. Readings'
  BY <1>1 DEF Readings
<1>8. AnsweredAsRun'
  BY <1>1, <1>2, <1>4 DEF AnsweredAsRun
<1>. QED  BY <1>5, <1>6, <1>7, <1>8

\* What is not about the gate leaves it as it is.
LEMMA StutterGate ==
    ASSUME GateInv, UNCHANGED gateVars
    PROVE  GateInv'
<1>. USE DEF gateVars, gate, caller, worker
<1>1. GateTypeOK' /\ Readings' /\ AnsweredAsRun'
  BY DEF GateInv, GateTypeOK, Readings, AnsweredAsRun, Started
<1>2. Places'
  BY DEF GateInv, Places, Pending, Started
<1>. QED  BY <1>1, <1>2 DEF GateInv

\* A command runs only when the startup has succeeded.
LEMMA RunningWhenReady ==
    ASSUME GateInv, NEW c \in Callers, Running(c)
    PROVE  readiness = "ready"
<1>1. Started(c)
  BY DEF GateInv, Places, Running
<1>2. started # <<>>
  BY <1>1 DEF Started
<1>. QED  BY <1>2 DEF GateInv, Readings

\* Callers and the worker leave the readiness alone.
LEMMA GateStep ==
    ASSUME GateInv, Gate \/ Clients
    PROVE  GateInv' /\ readiness' = readiness
<1>1. CASE Take
  BY <1>1, TakeGate DEF Take, gate
<1>2. CASE StartQueued
  BY <1>2, StartQueuedGate DEF StartQueued, gate
<1>3. CASE EndQueued \/ RefuseQueued
  BY <1>3, SettleGate DEF EndQueued, RefuseQueued, gate
<1>4. ASSUME NEW c \in Callers, RunDirectly(c)  PROVE GateInv' /\ readiness' = readiness
  BY <1>4, RunDirectlyGate DEF RunDirectly, gate
<1>5. ASSUME NEW c \in Callers, Offer(c)  PROVE GateInv' /\ readiness' = readiness
  BY <1>5, OfferGate DEF Offer, gate
<1>6. ASSUME NEW c \in Callers,
             ReadReadiness(c) \/ Refuse(c) \/ EndDirectly(c) \/ Return(c) \/ Abandon(c)
      PROVE  GateInv' /\ readiness' = readiness
  BY <1>6, CallerGate DEF ReadReadiness, Refuse, EndDirectly, Return, Abandon, gate
<1>. QED
  BY <1>1, <1>2, <1>3, <1>4, <1>5, <1>6 DEF Gate, Clients, CommandWorker, EnqueueCommand
-----------------------------------------------------------------------------
(* The phases of the startup. *)

LEMMA InitInv == Init => IInv
<1>. SUFFICES ASSUME Init PROVE IInv
  OBVIOUS
<1>1. GateInv
  BY GateInitInv DEF Init
<1>2. Phases /\ Database /\ WelcomeNamesExisting
  BY DEF Init, Boot, GateInit, Phases, Database, WelcomeNamesExisting, Nothing, NoEvent
<1>. QED  BY <1>1, <1>2 DEF IInv

\* The steps up to the welcome.
LEMMA PrepareInv ==
    ASSUME IInv,
           \/ StartReactors \/ EnsureChats \/ LookUpProject \/ CreateProject \/ LookUpThread
           \/ CreateThread \/ StepFails
    PROVE  IInv'
<1>. USE DEF StartReactors, EnsureChats, LookUpProject, CreateProject, LookUpThread, CreateThread,
             StepFails, Step, OnlyFiber, database
<1>1. /\ UNCHANGED <<gateVars, auto, listening, lifecycle, client, deaths>>
      /\ at \notin {"signal", "http", "done", "failed"}
      /\ at' \notin {"signal", "http", "done", "failed"}
  OBVIOUS
<1>2. GateInv'
  BY <1>1, StutterGate DEF IInv
<1>3. Phases'
  BY <1>1 DEF IInv, Phases, gateVars, gate, lifecycle
<1>4. Database'
  BY <1>1 DEF IInv, Database
<1>5. WelcomeNamesExisting'
  <2>1. publishing'.type # "welcome"
    BY <1>1 DEF IInv, Phases, lifecycle
  <2>. QED  BY <1>1, <2>1 DEF IInv, Database, WelcomeNamesExisting
<1>. QED  BY <1>2, <1>3, <1>4, <1>5 DEF IInv

LEMMA AnnounceWelcomeInv ==
    ASSUME IInv, AnnounceWelcome
    PROVE  IInv'
<1>. USE DEF AnnounceWelcome, Step, database, Announce
<1>1. GateInv'
  BY StutterGate DEF IInv
<1>2. Phases'
  BY DEF IInv, Phases, gateVars, gate
<1>3. Database' /\ WelcomeNamesExisting'
  BY DEF IInv, Database, WelcomeNamesExisting
<1>. QED  BY <1>1, <1>2, <1>3 DEF IInv

LEMMA AnnounceReadyInv ==
    ASSUME IInv, AnnounceReady
    PROVE  IInv'
<1>. USE DEF AnnounceReady, Step, database, Announce
<1>1. GateInv'
  BY StutterGate DEF IInv
<1>2. publishing'.type = "ready"
  OBVIOUS
<1>3. Phases'
  BY <1>2 DEF IInv, Phases, gateVars, gate
<1>4. Database' /\ WelcomeNamesExisting'
  BY <1>2 DEF IInv, Database, WelcomeNamesExisting
<1>. QED  BY <1>1, <1>3, <1>4 DEF IInv

LEMMA PublishInv ==
    ASSUME IInv, Publish
    PROVE  IInv'
<1>. USE DEF Publish, database, fiber
<1>1. GateInv'
  BY StutterGate DEF IInv
<1>2. publishing'.type = "none"
  BY DEF NoEvent
<1>3. Phases'
  BY <1>2 DEF IInv, Phases, gateVars, gate
<1>4. Database' /\ WelcomeNamesExisting'
  BY <1>2 DEF IInv, Database, WelcomeNamesExisting
<1>. QED  BY <1>1, <1>3, <1>4 DEF IInv

LEMMA SignalInv ==
    ASSUME IInv, Signal
    PROVE  IInv'
<1>. USE DEF Signal, Step, database, lifecycle
<1>1. GateInv'
  BY EndStartupGate DEF IInv
<1>2. \E e \in events : e.type = "welcome" /\ e # publishing
  BY DEF IInv, Phases, NoEvent
<1>3. publishing.type = "none"
  BY DEF NoEvent
<1>4. Phases'
  BY <1>2, <1>3 DEF IInv, Phases, EndStartup
<1>5. Database' /\ WelcomeNamesExisting'
  BY <1>3 DEF IInv, Database, WelcomeNamesExisting
<1>. QED  BY <1>1, <1>4, <1>5 DEF IInv

LEMMA SignalFailureInv ==
    ASSUME IInv, SignalFailure
    PROVE  IInv'
<1>. USE DEF SignalFailure, Step, database, lifecycle
<1>1. GateInv'
  BY EndStartupGate DEF IInv
<1>2. Phases'
  BY DEF IInv, Phases, EndStartup
<1>3. Database' /\ WelcomeNamesExisting'
  BY DEF IInv, Database, WelcomeNamesExisting, Phases
<1>. QED  BY <1>1, <1>2, <1>3 DEF IInv

\* What neither moves the startup nor touches the database.
LEMMA ElsewhereInv ==
    ASSUME IInv, GateInv', readiness' = readiness, UNCHANGED <<database, fiber, lifecycle>>
    PROVE  IInv'
<1>. USE DEF database, fiber, lifecycle
<1>1. Phases'
  BY DEF IInv, Phases
<1>2. Database' /\ WelcomeNamesExisting'
  BY DEF IInv, Database, WelcomeNamesExisting
<1>. QED  BY <1>1, <1>2 DEF IInv

LEMMA RunCommandInv ==
    ASSUME IInv, RunCommand
    PROVE  IInv'
<1>. USE DEF RunCommand, fiber, lifecycle
<1>1. GateInv'
  BY StutterGate DEF IInv
<1>2. readiness = "ready"
  BY RunningWhenReady DEF IInv
<1>3. at \in {"http", "done"} /\ publishing.type # "welcome"
  BY <1>2 DEF IInv, Phases
<1>4. Phases'
  BY DEF IInv, Phases, gateVars, gate
<1>5. Database'
  BY <1>3 DEF IInv, Database
<1>6. WelcomeNamesExisting'
  BY <1>3 DEF WelcomeNamesExisting
<1>. QED  BY <1>1, <1>4, <1>5, <1>6 DEF IInv

LEMMA CrashInv ==
    ASSUME IInv, Crash
    PROVE  IInv'
<1>. USE DEF Crash, database
<1>1. GateInit'
  BY DEF GateInit
<1>2. GateInv'
  BY <1>1, GateInitInv, PTL
<1>3. Phases' /\ Database' /\ WelcomeNamesExisting'
  BY DEF IInv, Phases, Database, WelcomeNamesExisting, Nothing, NoEvent
<1>. QED  BY <1>2, <1>3 DEF IInv

LEMMA NextInv == IInv /\ [Next]_vars => IInv'
<1>. SUFFICES ASSUME IInv, [Next]_vars PROVE IInv'
  OBVIOUS
<1>1. CASE StartReactors \/ EnsureChats \/ LookUpProject \/ CreateProject \/ LookUpThread
             \/ CreateThread \/ StepFails
  BY <1>1, PrepareInv
<1>2. CASE AnnounceWelcome
  BY <1>2, AnnounceWelcomeInv
<1>3. CASE Publish
  BY <1>3, PublishInv
<1>4. CASE Signal
  BY <1>4, SignalInv
<1>5. CASE SignalFailure
  BY <1>5, SignalFailureInv
<1>6. CASE Complete
  <2>1. GateInv' /\ readiness' = readiness
    BY <1>6, CompleteReadyGate DEF IInv, Complete, CompleteReady
  <2>. QED  BY <1>6, <2>1, ElsewhereInv DEF Complete
<1>7. CASE AnnounceReady
  BY <1>7, AnnounceReadyInv
<1>8. CASE Gate \/ Clients
  <2>1. GateInv' /\ readiness' = readiness
    BY <1>8, GateStep DEF IInv
  <2>. QED  BY <1>8, <2>1, ElsewhereInv DEF Gate, Clients
<1>9. CASE RunCommand
  BY <1>9, RunCommandInv
<1>10. CASE Crash
  BY <1>10, CrashInv
<1>11. CASE MarkHttpListening \/ (\E s \in Subscribers : Stream(s)) \/ UNCHANGED vars
  <2>1. UNCHANGED <<gateVars, database, fiber, lifecycle>>
    BY <1>11 DEF MarkHttpListening, Stream, ReadSnapshot, Subscribe, Receive, vars, lifecycle
  <2>2. GateInv' /\ readiness' = readiness
    BY <2>1, StutterGate DEF IInv, gateVars, gate
  <2>. QED  BY <2>1, <2>2, ElsewhereInv
<1>. QED
  BY <1>1, <1>2, <1>3, <1>4, <1>5, <1>6, <1>7, <1>8, <1>9, <1>10, <1>11 DEF Next, Startup

THEOREM Invariance == Spec => []IInv
BY InitInv, NextInv, PTL DEF Spec

-----------------------------------------------------------------------------
(* The lifecycle and those who follow it. *)

Welcome == [type |-> "welcome", sequence |-> 1]
Ready   == [type |-> "ready", sequence |-> 2]

\* A boot has at most one event of each type, and the fiber tells which.
Lifecycle ==
    \/ /\ at \notin {"signal", "http", "done"}
       /\ sequence = 0 /\ events = {} /\ publishing = NoEvent
    \/ /\ at \in {"signal", "http"}
       /\ sequence = 1 /\ events = {Welcome} /\ publishing \in {Welcome, NoEvent}
       /\ at = "http" => publishing = NoEvent
    \/ /\ at = "done"
       /\ sequence = 2 /\ events = {Welcome, Ready} /\ publishing \in {Ready, NoEvent}

Increasing(q) == \A i, j \in DOMAIN q : i < j => q[i].sequence < q[j].sequence
In(e, q)      == \E i \in DOMAIN q : q[i] = e

\* What a subscriber was sent and what it is going to be sent are in order, and
\* what is being published is neither, but in its snapshot.
Orderly(s) ==
    /\ received[s] \in Seq(events) /\ inbox[s] \in Seq(events)
    /\ Increasing(received[s]) /\ Increasing(inbox[s])
    /\ \A i \in DOMAIN received[s], j \in DOMAIN inbox[s] :
          inbox[s][j].sequence > from[s] => received[s][i].sequence < inbox[s][j].sequence
    /\ from[s] \in 0..sequence
    /\ publishing # NoEvent =>
          /\ ~In(publishing, inbox[s])
          /\ In(publishing, received[s]) => publishing.sequence <= from[s]
    /\ sub[s] # "live" =>
          /\ inbox[s] = <<>>
          /\ \A i \in DOMAIN received[s] : received[s][i].sequence <= from[s]

\* Each event is in its snapshot, or on its way, or among those it was too late for.
Covered(s) ==
    /\ sub[s] # "away" => \A e \in events : e.sequence <= from[s] => In(e, received[s])
    /\ sub[s] = "live" =>
          /\ missed[s] \subseteq events
          /\ \A e \in events : e.sequence > from[s] =>
                e \in missed[s] \/ In(e, received[s]) \/ In(e, inbox[s]) \/ e = publishing

StreamInv ==
    /\ Lifecycle
    /\ inbox \in [Subscribers -> Seq(events)] /\ received \in [Subscribers -> Seq(events)]
    /\ sub \in [Subscribers -> {"away", "snapshot", "live"}]
    /\ from \in [Subscribers -> Nat] /\ missed \in [Subscribers -> SUBSET events]
    /\ \A s \in Subscribers : Orderly(s) /\ Covered(s)

\* Sequences tell the events apart, and the one that is being published is the last.
LEMMA EventsBySequence ==
    ASSUME Lifecycle
    PROVE  /\ sequence \in Nat
           /\ \A e \in events : e.sequence \in 1..sequence
           /\ \A d, e \in events : d.sequence = e.sequence => d = e
           /\ publishing # NoEvent => publishing \in events /\ publishing.sequence = sequence
           /\ NoEvent \notin events
BY DEF Lifecycle, Welcome, Ready, NoEvent

\* A set that can be put in order is.
LEMMA OrderedSet ==
    ASSUME NEW S, NEW n \in Nat, Cardinality(S) = n, NEW q \in [1..n -> S], Increasing(q)
    PROVE  /\ InOrder(S) \in [1..n -> S] /\ InOrder(S) \in Seq(S)
           /\ Increasing(InOrder(S))
<1>1. \E o \in [1..n -> S] : \A i, j \in DOMAIN o : i < j => o[i].sequence < o[j].sequence
  BY DEF Increasing
<1>2. InOrder(S) \in [1..n -> S]
      /\ \A i, j \in DOMAIN InOrder(S) : i < j => InOrder(S)[i].sequence < InOrder(S)[j].sequence
  BY <1>1, Zenon DEF InOrder
<1>. QED  BY <1>2, SeqDef DEF Increasing

\* The snapshot in order: all events, each once.
LEMMA SnapshotInOrder ==
    ASSUME Lifecycle
    PROVE  /\ InOrder(events) \in Seq(events)
           /\ Increasing(InOrder(events))
           /\ \A e \in events : In(e, InOrder(events))
<1>. DEFINE o == InOrder(events)
<1>1. CASE events = {}
  <2>1. Cardinality(events) = 0
    BY <1>1, FS_EmptySet
  <2>. DEFINE q == <<>>
  <2>2. q \in [1..0 -> events] /\ Increasing(q)
    BY DEF Increasing
  <2>. HIDE DEF q
  <2>3. 0 \in Nat
    OBVIOUS
  <2>4. o \in Seq(events) /\ Increasing(o)
    BY <2>1, <2>2, <2>3, OrderedSet, Zenon
  <2>. QED  BY <1>1, <2>4
<1>2. CASE events = {Welcome}
  <2>1. Cardinality(events) = 1
    BY <1>2, FS_Singleton
  <2>. DEFINE q == [i \in 1..1 |-> Welcome]
  <2>2. q \in [1..1 -> events] /\ Increasing(q)
    BY <1>2 DEF Increasing
  <2>. HIDE DEF q
  <2>3. o \in [1..1 -> events] /\ o \in Seq(events) /\ Increasing(o)
    BY <2>1, <2>2, OrderedSet
  <2>. HIDE DEF o
  <2>4. DOMAIN o = 1..1 /\ 1 \in DOMAIN o /\ o[1] = Welcome
    BY <1>2, <2>3
  <2>5. In(Welcome, o)
    BY <2>4 DEF In
  <2>. QED  BY <1>2, <2>3, <2>5 DEF o
<1>3. CASE events = {Welcome, Ready}
  <2>1. Welcome # Ready
    BY DEF Welcome, Ready
  <2>2. Cardinality(events) = 2
    <3>1. IsFiniteSet({Welcome}) /\ Cardinality({Welcome}) = 1 /\ Ready \notin {Welcome}
      BY <2>1, FS_Singleton
    <3>2. Cardinality({Welcome} \cup {Ready}) = 1 + 1
      BY <3>1, FS_AddElement
    <3>3. events = {Welcome} \cup {Ready}
      BY <1>3
    <3>. QED  BY <3>2, <3>3
  <2>. DEFINE q == [i \in 1..2 |-> IF i = 1 THEN Welcome ELSE Ready]
  <2>3. q \in [1..2 -> events] /\ Increasing(q)
    BY <1>3 DEF Welcome, Ready, Increasing
  <2>. HIDE DEF q
  <2>4. o \in [1..2 -> events] /\ o \in Seq(events) /\ Increasing(o)
    BY <2>2, <2>3, OrderedSet
  <2>. HIDE DEF o
  <2>5. 1 \in DOMAIN o /\ 2 \in DOMAIN o /\ 1 < 2 /\ o[1] \in events /\ o[2] \in events
    BY <2>4
  <2>6. o[1].sequence < o[2].sequence
    BY <2>4, <2>5 DEF Increasing
  <2>7. o[1] = Welcome /\ o[2] = Ready
    BY <1>3, <2>5, <2>6 DEF Welcome, Ready
  <2>8. In(Welcome, o) /\ In(Ready, o)
    BY <2>5, <2>7 DEF In
  <2>. QED  BY <1>3, <2>4, <2>8 DEF o
<1>. QED  BY <1>1, <1>2, <1>3 DEF Lifecycle

\* The steps of the others leave a subscription and the lifecycle alone.
LEMMA StreamStays ==
    ASSUME StreamInv, UNCHANGED <<lifecycle, client>>, Lifecycle'
    PROVE  StreamInv'
BY DEF StreamInv, Orderly, Covered, In, Increasing, lifecycle, client

LEMMA BootStream == Boot => StreamInv
<1>. SUFFICES ASSUME Boot PROVE StreamInv
  OBVIOUS
<1>1. Lifecycle
  BY DEF Boot, Lifecycle
<1>2. <<>> \in Seq(events) /\ DOMAIN <<>> = {}
  OBVIOUS
<1>3. \A s \in Subscribers : Orderly(s) /\ Covered(s)
  BY <1>2 DEF Boot, Orderly, Covered, Increasing
<1>. QED  BY <1>1, <1>2, <1>3 DEF Boot, StreamInv

\* A new event is on its way to those who follow, and in nobody's snapshot.
LEMMA AnnounceStream ==
    ASSUME StreamInv, AnnounceWelcome \/ AnnounceReady
    PROVE  StreamInv'
<1>1. UNCHANGED client
  BY DEF AnnounceWelcome, AnnounceReady
<1>2. Lifecycle'
  BY DEF StreamInv, Lifecycle, AnnounceWelcome, AnnounceReady, Step, Announce, Welcome, Ready,
         NoEvent
<1>3. /\ sequence' = sequence + 1 /\ publishing = NoEvent
      /\ publishing' \notin events /\ publishing'.sequence = sequence + 1
      /\ events' = events \cup {publishing'}
  BY DEF StreamInv, Lifecycle, AnnounceWelcome, AnnounceReady, Step, Announce, Welcome, Ready,
         NoEvent
<1>4. /\ sequence \in Nat /\ \A e \in events : e.sequence \in 1..sequence
      /\ NoEvent \notin events
  BY EventsBySequence DEF StreamInv
<1>5. ASSUME NEW q \in Seq(events) PROVE q \in Seq(events') /\ ~In(publishing', q)
  <2>1. q \in Seq(events')
    BY <1>3, SeqMonotonic
  <2>2. \A i \in DOMAIN q : q[i] \in events
    BY LenProperties, ElementOfSeq
  <2>. QED  BY <2>1, <2>2, <1>3 DEF In
<1>6. inbox' \in [Subscribers -> Seq(events')] /\ received' \in [Subscribers -> Seq(events')]
      /\ missed' \in [Subscribers -> SUBSET events']
  BY <1>1, <1>3, <1>5 DEF StreamInv, client
<1>7. ASSUME NEW s \in Subscribers PROVE Orderly(s)' /\ Covered(s)'
  <2>1. Orderly(s) /\ Covered(s) /\ inbox[s] \in Seq(events) /\ received[s] \in Seq(events)
    BY DEF StreamInv
  <2>2. /\ inbox[s] \in Seq(events') /\ ~In(publishing', inbox[s])
        /\ received[s] \in Seq(events') /\ ~In(publishing', received[s])
    BY <2>1, <1>5
  <2>3. from[s] \in 0..sequence' /\ from[s] < publishing'.sequence
    BY <2>1, <1>3, <1>4 DEF Orderly
  <2>4. Orderly(s)'
    BY <1>1, <2>1, <2>2, <2>3 DEF Orderly, In, Increasing, client
  <2>5. Covered(s)'
    <3>1. UNCHANGED <<sub, from, inbox, received, missed>>
          /\ \A e : (In(e, received[s])' <=> In(e, received[s]))
                    /\ (In(e, inbox[s])' <=> In(e, inbox[s]))
      BY <1>1 DEF In, client
    <3>2. \A e \in events' : e.sequence <= from[s] => e \in events
      BY <1>3, <1>4, <2>3
    <3>3. \A e \in events' : (e \in events /\ e # publishing) \/ e = publishing'
      BY <1>3, <1>4
    <3>. QED  BY <1>3, <2>1, <3>1, <3>2, <3>3 DEF Covered
  <2>. QED  BY <2>4, <2>5
<1>. QED  BY <1>1, <1>2, <1>6, <1>7 DEF StreamInv, client

\* What is appended is the last.
LEMMA Appended ==
    ASSUME NEW S, NEW q \in Seq(S), NEW e \in S
    PROVE  /\ Append(q, e) \in Seq(S)
           /\ \A d : In(d, Append(q, e)) <=> In(d, q) \/ d = e
           /\ Increasing(q) /\ (\A i \in DOMAIN q : q[i].sequence < e.sequence)
                 => Increasing(Append(q, e))
<1>1. /\ Append(q, e) \in Seq(S) /\ Len(Append(q, e)) = Len(q) + 1
      /\ Append(q, e)[Len(q) + 1] = e
      /\ \A i \in 1..Len(q) : Append(q, e)[i] = q[i]
  BY AppendProperties
<1>2. /\ Len(q) \in Nat /\ DOMAIN q = 1..Len(q)
      /\ DOMAIN Append(q, e) = 1..(Len(q) + 1)
  BY <1>1, LenProperties
<1>. DEFINE a == Append(q, e)
           n == Len(q)
<1>3. /\ n \in Nat /\ DOMAIN q = 1..n /\ DOMAIN a = 1..(n + 1)
      /\ a[n + 1] = e /\ \A i \in 1..n : a[i] = q[i]
  BY <1>1, <1>2
<1>4. a \in Seq(S)
  BY <1>1
<1>. HIDE DEF a, n
<1>5. \A d : In(d, a) <=> In(d, q) \/ d = e
  BY <1>3 DEF In
<1>6. ASSUME Increasing(q), \A i \in DOMAIN q : q[i].sequence < e.sequence
      PROVE  Increasing(a)
  <2>1. ASSUME NEW i \in DOMAIN a, NEW j \in DOMAIN a, i < j
        PROVE  a[i].sequence < a[j].sequence
    <3>1. i \in DOMAIN q /\ a[i] = q[i]
      BY <1>3, <2>1
    <3>2. CASE j \in DOMAIN q /\ a[j] = q[j]
      BY <1>6, <2>1, <3>1, <3>2 DEF Increasing
    <3>3. CASE a[j] = e
      BY <1>6, <3>1, <3>3
    <3>4. (j \in DOMAIN q /\ a[j] = q[j]) \/ a[j] = e
      BY <1>3
    <3>. QED  BY <3>2, <3>3, <3>4
  <2>. QED  BY <2>1 DEF Increasing
<1>. QED  BY <1>4, <1>5, <1>6 DEF a

\* What is taken was the first.
LEMMA Taken ==
    ASSUME NEW S, NEW q \in Seq(S), q # <<>>, Increasing(q)
    PROVE  /\ Tail(q) \in Seq(S) /\ Head(q) \in S /\ In(Head(q), q)
           /\ \A d : In(d, q) <=> In(d, Tail(q)) \/ d = Head(q)
           /\ Increasing(Tail(q))
           /\ \A i \in DOMAIN Tail(q) : Head(q).sequence < Tail(q)[i].sequence
<1>1. /\ Tail(q) \in Seq(S) /\ Len(Tail(q)) = Len(q) - 1 /\ Head(q) = q[1] /\ Head(q) \in S
      /\ \A i \in 1..Len(Tail(q)) : Tail(q)[i] = q[i + 1]
  BY HeadTailProperties
<1>2. /\ Len(q) \in Nat \ {0} /\ DOMAIN q = 1..Len(q) /\ DOMAIN Tail(q) = 1..(Len(q) - 1)
  BY <1>1, LenProperties, EmptySeq
<1>. DEFINE t == Tail(q)
           h == Head(q)
           n == Len(q)
<1>3. /\ n \in Nat \ {0} /\ DOMAIN q = 1..n /\ DOMAIN t = 1..(n - 1)
      /\ q[1] = h /\ \A i \in 1..(n - 1) : t[i] = q[i + 1]
  BY <1>1, <1>2
<1>4. t \in Seq(S) /\ h \in S
  BY <1>1
<1>. HIDE DEF t, h, n
<1>5. \A d : In(d, q) <=> In(d, t) \/ d = h
  <2>1. ASSUME NEW i \in DOMAIN q, i # 1
        PROVE  i - 1 \in DOMAIN t /\ t[i - 1] = q[i]
    <3>1. i - 1 \in 1..(n - 1) /\ (i - 1) + 1 = i
      BY <1>3, <2>1
    <3>. QED  BY <1>3, <3>1
  <2>2. \A i \in DOMAIN t : i + 1 \in DOMAIN q /\ t[i] = q[i + 1]
    BY <1>3
  <2>3. 1 \in DOMAIN q
    BY <1>3
  <2>. QED  BY <1>3, <2>1, <2>2, <2>3 DEF In
<1>6. Increasing(t)
  <2>1. ASSUME NEW i \in DOMAIN t, NEW j \in DOMAIN t, i < j
        PROVE  t[i].sequence < t[j].sequence
    <3>1. /\ i + 1 \in DOMAIN q /\ j + 1 \in DOMAIN q /\ i + 1 < j + 1
          /\ t[i] = q[i + 1] /\ t[j] = q[j + 1]
      BY <1>3, <2>1
    <3>. QED  BY <3>1 DEF Increasing
  <2>. QED  BY <2>1 DEF Increasing
<1>7. \A i \in DOMAIN t : h.sequence < t[i].sequence
  <2>1. \A i \in DOMAIN t : i + 1 \in DOMAIN q /\ 1 < i + 1 /\ t[i] = q[i + 1]
    BY <1>3
  <2>2. 1 \in DOMAIN q
    BY <1>3
  <2>. QED  BY <1>3, <2>1, <2>2 DEF Increasing
<1>. QED  BY <1>4, <1>5, <1>6, <1>7 DEF t, h

LEMMA PublishStream ==
    ASSUME StreamInv, Publish
    PROVE  StreamInv'
<1>1. /\ publishing # NoEvent /\ publishing' = NoEvent
      /\ inbox' = [s \in Subscribers |->
                     IF sub[s] = "live" THEN Append(inbox[s], publishing) ELSE inbox[s]]
      /\ UNCHANGED <<at, sequence, events, sub, from, received, missed>>
  BY DEF Publish, fiber
<1>2. Lifecycle'
  BY <1>1 DEF StreamInv, Lifecycle
<1>3. /\ sequence \in Nat /\ \A e \in events : e.sequence \in 1..sequence
      /\ \A d, e \in events : d.sequence = e.sequence => d = e
      /\ publishing \in events /\ publishing.sequence = sequence
  BY <1>1, EventsBySequence DEF StreamInv
<1>4. ASSUME NEW s \in Subscribers
      PROVE  inbox'[s] \in Seq(events) /\ Orderly(s)' /\ Covered(s)'
  <2>1. Orderly(s) /\ Covered(s) /\ inbox[s] \in Seq(events) /\ received[s] \in Seq(events)
    BY DEF StreamInv
  <2>2. CASE sub[s] # "live"
    <3>1. inbox'[s] = inbox[s]
      BY <1>1, <2>2
    <3>. QED  BY <1>1, <2>1, <2>2, <3>1 DEF Orderly, Covered, In, Increasing
  <2>3. CASE sub[s] = "live"
    <3>. DEFINE q == inbox[s]
    <3>1. inbox'[s] = Append(q, publishing)
      BY <1>1, <2>3
    <3>2. \A i \in DOMAIN q : q[i] \in events /\ q[i] # publishing
      BY <1>1, <2>1, LenProperties, ElementOfSeq DEF Orderly, In
    <3>3. \A i \in DOMAIN q : q[i].sequence < publishing.sequence
      BY <1>3, <3>2
    <3>4. \A i \in DOMAIN received[s] : received[s][i] \in events
      BY <2>1, LenProperties, ElementOfSeq
    <3>5. publishing.sequence > from[s] =>
            \A i \in DOMAIN received[s] : received[s][i].sequence < publishing.sequence
      BY <1>1, <1>3, <2>1, <3>4 DEF Orderly, In
    <3>6. /\ inbox'[s] \in Seq(events) /\ Increasing(inbox'[s])
          /\ \A d : In(d, inbox'[s]) <=> In(d, q) \/ d = publishing
      BY <1>3, <2>1, <3>1, <3>3, Appended DEF Orderly
    <3>7. \A j \in DOMAIN inbox'[s] : In(inbox'[s][j], q) \/ inbox'[s][j] = publishing
      BY <3>6 DEF In
    <3>8. \A i \in DOMAIN received[s], j \in DOMAIN inbox'[s] :
            inbox'[s][j].sequence > from[s]
              => received[s][i].sequence < inbox'[s][j].sequence
      BY <2>1, <3>5, <3>7 DEF Orderly, In
    <3>9. Orderly(s)'
      BY <1>1, <2>1, <2>3, <3>6, <3>8 DEF Orderly
    <3>10. Covered(s)'
      <4>1. \A d : In(d, inbox[s])' <=> In(d, q) \/ d = publishing
        BY <3>6 DEF In
      <4>2. \A d : In(d, received[s])' <=> In(d, received[s])
        BY <1>1 DEF In
      <4>. QED  BY <1>1, <2>1, <2>3, <4>1, <4>2 DEF Covered
    <3>. QED  BY <3>6, <3>9, <3>10
  <2>. QED  BY <2>2, <2>3
<1>. QED  BY <1>1, <1>2, <1>4 DEF StreamInv

\* A subscription that is touched, among those that are not.
LEMMA OneStream ==
    ASSUME StreamInv, UNCHANGED <<at, lifecycle>>, NEW s \in Subscribers,
           inbox' \in [Subscribers -> Seq(events)], received' \in [Subscribers -> Seq(events)],
           sub' \in [Subscribers -> {"away", "snapshot", "live"}],
           from' \in [Subscribers -> Nat], missed' \in [Subscribers -> SUBSET events],
           \A x \in Subscribers \ {s} :
              UNCHANGED <<sub[x], from[x], inbox[x], received[x], missed[x]>>,
           Orderly(s)', Covered(s)'
    PROVE  StreamInv'
<1>1. Lifecycle'
  BY DEF StreamInv, Lifecycle, lifecycle
<1>2. ASSUME NEW x \in Subscribers \ {s} PROVE Orderly(x)' /\ Covered(x)'
  <2>1. Orderly(x) /\ Covered(x)
    BY DEF StreamInv
  <2>2. /\ sub'[x] = sub[x] /\ from'[x] = from[x] /\ inbox'[x] = inbox[x]
        /\ received'[x] = received[x] /\ missed'[x] = missed[x]
        /\ UNCHANGED <<sequence, events, publishing>>
    BY DEF lifecycle
  <2>3. Orderly(x)'
    BY <2>1, <2>2 DEF Orderly, In, Increasing
  <2>4. Covered(x)'
    BY <2>1, <2>2 DEF Covered, In
  <2>. QED  BY <2>3, <2>4
<1>. QED  BY <1>1, <1>2 DEF StreamInv, lifecycle

\* The snapshot that is read has everything but what comes after it.
LEMMA ReadSnapshotStream ==
    ASSUME StreamInv, NEW s \in Subscribers, ReadSnapshot(s)
    PROVE  StreamInv'
<1>. DEFINE o == InOrder(events)
<1>1. /\ sub[s] = "away" /\ UNCHANGED <<at, lifecycle, inbox, missed>>
      /\ sub' = [sub EXCEPT ![s] = "snapshot"]
      /\ from' = [from EXCEPT ![s] = sequence] /\ received' = [received EXCEPT ![s] = o]
  BY DEF ReadSnapshot, fiber
<1>2. o \in Seq(events) /\ Increasing(o) /\ \A e \in events : In(e, o)
  BY SnapshotInOrder DEF StreamInv
<1>3. /\ sequence \in Nat /\ \A e \in events : e.sequence \in 1..sequence
      /\ publishing # NoEvent => publishing \in events /\ publishing.sequence = sequence
  BY EventsBySequence DEF StreamInv
<1>4. \A i \in DOMAIN o : o[i] \in events
  BY <1>2, LenProperties, ElementOfSeq
<1>5. inbox[s] = <<>> /\ inbox[s] \in Seq(events) /\ DOMAIN inbox[s] = {}
  BY <1>1 DEF StreamInv, Orderly
<1>. HIDE DEF o
<1>6. /\ sub'[s] = "snapshot" /\ from'[s] = sequence /\ received'[s] = o /\ inbox'[s] = inbox[s]
      /\ UNCHANGED <<sequence, events, publishing>>
  BY <1>1 DEF StreamInv, lifecycle
<1>7. Orderly(s)'
  <2>1. \A i \in DOMAIN o : o[i].sequence <= sequence
    BY <1>3, <1>4
  <2>. QED  BY <1>2, <1>3, <1>5, <1>6, <2>1 DEF Orderly, In, Increasing
<1>8. Covered(s)'
  BY <1>2, <1>6 DEF Covered, In
<1>9. /\ received' \in [Subscribers -> Seq(events)] /\ from' \in [Subscribers -> Nat]
      /\ sub' \in [Subscribers -> {"away", "snapshot", "live"}]
      /\ inbox' \in [Subscribers -> Seq(events)] /\ missed' \in [Subscribers -> SUBSET events]
  BY <1>1, <1>2, <1>3 DEF StreamInv
<1>10. \A x \in Subscribers \ {s} :
          UNCHANGED <<sub[x], from[x], inbox[x], received[x], missed[x]>>
  BY <1>1 DEF StreamInv
<1>. QED  BY <1>1, <1>7, <1>8, <1>9, <1>10, OneStream

\* Who subscribes is too late for what was published since its snapshot.
LEMMA SubscribeStream ==
    ASSUME StreamInv, NEW s \in Subscribers, Subscribe(s)
    PROVE  StreamInv'
<1>. DEFINE late == {e \in events : e.sequence > from[s] /\ e # publishing}
<1>1. /\ sub[s] = "snapshot" /\ UNCHANGED <<at, lifecycle, inbox, received, from>>
      /\ sub' = [sub EXCEPT ![s] = "live"] /\ missed' = [missed EXCEPT ![s] = late]
  BY DEF Subscribe, fiber
<1>2. /\ sub'[s] = "live" /\ missed'[s] = late /\ UNCHANGED <<sequence, events, publishing>>
  BY <1>1 DEF StreamInv, lifecycle
<1>3. Orderly(s) /\ Covered(s)
  BY DEF StreamInv
<1>4. Orderly(s)'
  BY <1>1, <1>2, <1>3 DEF Orderly, In, Increasing
<1>5. Covered(s)'
  BY <1>1, <1>2, <1>3 DEF Covered, In
<1>6. /\ received' \in [Subscribers -> Seq(events)] /\ from' \in [Subscribers -> Nat]
      /\ sub' \in [Subscribers -> {"away", "snapshot", "live"}]
      /\ inbox' \in [Subscribers -> Seq(events)] /\ missed' \in [Subscribers -> SUBSET events]
  BY <1>1 DEF StreamInv
<1>7. \A x \in Subscribers \ {s} :
          UNCHANGED <<sub[x], from[x], inbox[x], received[x], missed[x]>>
  BY <1>1 DEF StreamInv
<1>. QED  BY <1>1, <1>4, <1>5, <1>6, <1>7, OneStream

\* The event that is taken is sent, or was in the snapshot.
LEMMA ReceiveStream ==
    ASSUME StreamInv, NEW s \in Subscribers, Receive(s)
    PROVE  StreamInv'
<1>. DEFINE h == Head(inbox[s])
           t == Tail(inbox[s])
           r == received[s]
<1>1. /\ inbox[s] # <<>> /\ UNCHANGED <<at, lifecycle, sub, from, missed>>
      /\ inbox' = [inbox EXCEPT ![s] = t]
      /\ received' = IF h.sequence > from[s] THEN [received EXCEPT ![s] = Append(r, h)]
                                             ELSE received
  BY DEF Receive, fiber
<1>2. Orderly(s) /\ Covered(s) /\ inbox[s] \in Seq(events) /\ r \in Seq(events)
  BY DEF StreamInv
<1>3. /\ t \in Seq(events) /\ h \in events /\ In(h, inbox[s])
      /\ \A d : In(d, inbox[s]) <=> In(d, t) \/ d = h
      /\ Increasing(t) /\ \A j \in DOMAIN t : h.sequence < t[j].sequence
  BY <1>1, <1>2, Taken DEF Orderly
<1>4. /\ Append(r, h) \in Seq(events)
      /\ \A d : In(d, Append(r, h)) <=> In(d, r) \/ d = h
      /\ (\A i \in DOMAIN r : r[i].sequence < h.sequence) => Increasing(Append(r, h))
  BY <1>2, <1>3, Appended DEF Orderly
<1>5. h.sequence > from[s] => \A i \in DOMAIN r : r[i].sequence < h.sequence
  BY <1>2, <1>3 DEF Orderly, In
<1>6. sub[s] = "live"
  BY <1>1, <1>2 DEF Orderly
<1>7. /\ inbox'[s] = t /\ UNCHANGED <<sequence, events, publishing, from, sub, missed>>
      /\ received'[s] = IF h.sequence > from[s] THEN Append(r, h) ELSE r
  BY <1>1 DEF StreamInv, lifecycle
<1>8. /\ \A d : In(d, received'[s]) <=> In(d, r) \/ (d = h /\ h.sequence > from[s])
      /\ received'[s] \in Seq(events) /\ Increasing(received'[s])
  BY <1>2, <1>4, <1>5, <1>7 DEF Orderly
<1>9. /\ received' \in [Subscribers -> Seq(events)] /\ from' \in [Subscribers -> Nat]
      /\ sub' \in [Subscribers -> {"away", "snapshot", "live"}]
      /\ inbox' \in [Subscribers -> Seq(events)] /\ missed' \in [Subscribers -> SUBSET events]
  BY <1>1, <1>3, <1>4 DEF StreamInv
<1>10. \A x \in Subscribers \ {s} :
          UNCHANGED <<sub[x], from[x], inbox[x], received[x], missed[x]>>
  BY <1>1 DEF StreamInv
<1>. HIDE DEF h, t, r
<1>11. \A i \in DOMAIN received'[s], j \in DOMAIN t :
          t[j].sequence > from[s] => received'[s][i].sequence < t[j].sequence
  <2>1. \A i \in DOMAIN r, j \in DOMAIN t :
          t[j].sequence > from[s] => r[i].sequence < t[j].sequence
    <3>1. \A j \in DOMAIN t : In(t[j], inbox[s])
      BY <1>3 DEF In
    <3>. QED  BY <1>2, <3>1 DEF Orderly, In, r
  <2>2. \A i \in DOMAIN received'[s] : In(received'[s][i], r) \/ received'[s][i] = h
    BY <1>8 DEF In
  <2>. QED  BY <1>3, <2>1, <2>2 DEF In
<1>12. Orderly(s)'
  <2>1. publishing # NoEvent =>
          /\ publishing # h /\ ~In(publishing, t)
          /\ In(publishing, r) => publishing.sequence <= from[s]
    BY <1>2, <1>3 DEF Orderly, r
  <2>2. publishing # NoEvent =>
          /\ ~In(publishing, inbox[s])'
          /\ In(publishing, received[s])' => publishing.sequence <= from[s]
    BY <1>7, <1>8, <2>1 DEF In
  <2>. QED  BY <1>2, <1>3, <1>6, <1>7, <1>8, <1>11, <2>2 DEF Orderly, Increasing
<1>13. Covered(s)'
  <2>1. \A d : In(d, inbox[s])' <=> In(d, t)
    BY <1>7 DEF In
  <2>2. \A d : In(d, received[s])' <=> In(d, r) \/ (d = h /\ h.sequence > from[s])
    BY <1>8 DEF In
  <2>. QED  BY <1>2, <1>3, <1>6, <1>7, <2>1, <2>2 DEF Covered, r
<1>. QED  BY <1>1, <1>9, <1>10, <1>12, <1>13, OneStream

LEMMA NextStream == StreamInv /\ [Next]_vars => StreamInv'
<1>. SUFFICES ASSUME StreamInv, [Next]_vars PROVE StreamInv'
  OBVIOUS
<1>1. CASE StartReactors \/ EnsureChats \/ LookUpProject \/ CreateProject \/ LookUpThread
             \/ CreateThread \/ StepFails \/ Signal \/ SignalFailure
  <2>1. UNCHANGED <<lifecycle, client>>
    BY <1>1 DEF StartReactors, EnsureChats, LookUpProject, CreateProject, LookUpThread,
                CreateThread, StepFails, Signal, SignalFailure, OnlyFiber
  <2>2. \/ /\ at \notin {"signal", "http", "done"}
           /\ at' \notin {"signal", "http", "done"}
        \/ at = "signal" /\ at' = "http" /\ publishing = NoEvent
    BY <1>1 DEF StartReactors, EnsureChats, LookUpProject, CreateProject, LookUpThread,
                CreateThread, StepFails, Signal, SignalFailure, Step
  <2>3. Lifecycle'
    BY <2>1, <2>2 DEF StreamInv, Lifecycle, lifecycle
  <2>. QED  BY <2>1, <2>3, StreamStays
<1>2. CASE AnnounceWelcome \/ AnnounceReady
  BY <1>2, AnnounceStream
<1>3. CASE Publish
  BY <1>3, PublishStream
<1>4. CASE Complete \/ MarkHttpListening \/ Gate \/ Clients \/ RunCommand \/ UNCHANGED vars
  <2>1. UNCHANGED <<lifecycle, client>> /\ at' = at
    BY <1>4 DEF Complete, MarkHttpListening, Gate, Clients, RunCommand, vars, fiber
  <2>2. Lifecycle'
    BY <2>1 DEF StreamInv, Lifecycle, lifecycle
  <2>. QED  BY <2>1, <2>2, StreamStays
<1>5. CASE Crash
  <2>1. Boot'
    BY <1>5 DEF Crash, Boot
  <2>. QED  BY <2>1, BootStream, PTL
<1>6. ASSUME NEW s \in Subscribers, Stream(s) PROVE StreamInv'
  BY <1>6, ReadSnapshotStream, SubscribeStream, ReceiveStream DEF Stream
<1>. QED  BY <1>1, <1>2, <1>3, <1>4, <1>5, <1>6 DEF Next, Startup

\* What a boot has announced, and where each event is for each subscriber.
THEOREM StreamInvariance == Spec => []StreamInv
<1>1. Init => StreamInv
  BY BootStream DEF Init
<1>. QED  BY <1>1, NextStream, PTL DEF Spec

\* Subscribers are sent the lifecycle in order, each event once, and lack none
\* but those they were too late for.
LEMMA StreamDelivers == StreamInv => LifecycleDelivered
<1>. SUFFICES ASSUME StreamInv, NEW s \in Subscribers
              PROVE  /\ Increasing(received[s])
                     /\ sub[s] = "live" /\ inbox[s] = <<>> /\ publishing = NoEvent =>
                          events = missed[s] \cup {received[s][i] : i \in DOMAIN received[s]}
  BY DEF LifecycleDelivered, Increasing
<1>1. Orderly(s) /\ Covered(s) /\ received[s] \in Seq(events) /\ missed[s] \subseteq events
  BY DEF StreamInv
<1>2. ASSUME sub[s] = "live", inbox[s] = <<>>, publishing = NoEvent
      PROVE  events = missed[s] \cup {received[s][i] : i \in DOMAIN received[s]}
  <2>1. /\ sequence \in Nat /\ \A e \in events : e.sequence \in 1..sequence
        /\ NoEvent \notin events /\ from[s] \in Nat
    BY EventsBySequence DEF StreamInv
  <2>2. \A i \in DOMAIN received[s] : received[s][i] \in events
    BY <1>1, LenProperties, ElementOfSeq
  <2>3. ~In(NoEvent, inbox[s]) /\ \A e : ~In(e, inbox[s])
    BY <1>2 DEF In
  <2>4. \A e \in events : e \in missed[s] \/ In(e, received[s])
    BY <1>1, <1>2, <2>1, <2>3 DEF Covered
  <2>. QED  BY <1>1, <2>2, <2>4 DEF In
<1>. QED  BY <1>1, <1>2 DEF Orderly

\* A subscriber gets the lifecycle events in order, none twice, and all of them
\* but those published between its snapshot and its live part.
THEOREM LifecycleIsDelivered == Spec => []LifecycleDelivered
BY StreamInvariance, StreamDelivers, PTL

\* No command of a client starts before the startup has succeeded and published
\* its welcome, whatever the callers had read.
THEOREM GateHolds == Spec => []CommandsFollowWelcome
<1>1. IInv => CommandsFollowWelcome
  BY DEF IInv, GateInv, Readings, Phases, CommandsFollowWelcome, Published
<1>. QED  BY <1>1, Invariance, PTL

\* A caller that is refused can rely on its command never running; one that is
\* answered has run, once.
THEOREM RefusedNeverRuns == Spec => []AnsweredAsRun
<1>1. IInv => AnsweredAsRun
  BY DEF IInv, GateInv
<1>. QED  BY <1>1, Invariance, PTL

\* However often the server has died, and whatever clients have deleted, the
\* welcome names a project and a thread that can be shown.
THEOREM WelcomeIsValid == Spec => []WelcomeNamesExisting
<1>1. IInv => WelcomeNamesExisting
  BY DEF IInv
<1>. QED  BY <1>1, Invariance, PTL
=============================================================================
