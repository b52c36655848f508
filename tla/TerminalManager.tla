--------------------------- MODULE TerminalManager ---------------------------
(***************************************************************************)
(* Terminals, one per thread: a session each, the shell process it runs,   *)
(* and its history, which is kept in memory and written to a file through  *)
(* the keyed coalescing worker.  The calls for a thread exclude each other; *)
(* the fibers that drain what a process has reported run beside them, and  *)
(* so does the eviction of inactive sessions.  A call, or a drain, goes on *)
(* with the session it has looked up, wherever that is by then.            *)
(***************************************************************************)
EXTENDS KeyedCoalescingWorker, SequencesExt

CONSTANTS MaxRetained,   \* maxRetainedInactiveSessions, 128 in the code
          MaxCalls,      \* the bounds: calls,
          MaxOutputs,    \* outputs of processes,
          MaxFaults      \* failures, clients that leave and shutdowns

ASSUME TerminalAssumption ==
    /\ {MaxRetained, MaxCalls, MaxOutputs, MaxFaults} \subseteq Nat
    /\ MaxValues >= MaxCalls + MaxOutputs

Kinds == {"open", "clear", "restart", "close", "delete"}
Exit  == 0   \* a pending event: an exit, or the number of an output

VARIABLES
    sessions,   \* the keys that have a session in the manager's map
    session,    \* the session of each key, the last one if it has left the map
    call,       \* the call that holds the lock of each thread
    drains,     \* the drain fibers of each session
    alive,      \* the processes that are alive
    spawned,    \* how many there have been
    killing,    \* those a kill fiber is after
    text,       \* the history that goes with latest, for each key
    writing,    \* the one the persist worker is about to write
    file,       \* the file of each key, empty if there is none
    calls, outputs, faults,
    gaps        \* observation: what was given up

memory  == <<sessions, session>>
persist == <<text, writing, file>>
counted == <<calls, outputs, faults>>
vars == <<keyed, memory, call, drains, alive, spawned, killing, persist, counted, gaps>>

\* A session that has not run: startSession sets its status.
NewSession(history) ==
    [status |-> "starting", process |-> 0, history |-> history, pending |-> <<>>,
     draining |-> FALSE]

NoCall == [at |-> "none", kind |-> "none", process |-> 0]

Running(p) == [NewSession(<<>>) EXCEPT !.status = "running", !.process = p]

\* The terminal of one thread is open.
Init ==
    /\ KeyedInit
    /\ sessions = {NoKey} /\ alive = {1} /\ spawned = 1
    /\ session = [k \in Keys |-> IF k = NoKey THEN Running(1) ELSE NewSession(<<>>)]
    /\ call = [k \in Keys |-> NoCall] /\ drains = [k \in Keys |-> {}] /\ killing = {}
    /\ text = [k \in Keys |-> <<>>] /\ writing = <<>> /\ file = [k \in Keys |-> <<>>]
    /\ calls = 0 /\ outputs = 0 /\ faults = 0
    /\ gaps = {}

Up == fiber # "dead"
Fault == faults < MaxFaults /\ faults' = faults + 1

-----------------------------------------------------------------------------
(* evictInactiveSessionsIfNeeded: the sessions that do not run, down to the  *)
(* number retained; the least recently updated ones in the code, any here.   *)

Retain(keys, evictable) ==
    LET excess == Cardinality(evictable) - MaxRetained
    IN  IF excess <= 0 THEN {keys} ELSE {keys \ e : e \in kSubset(excess, evictable)}

\* Faulty: running sessions are counted, and evicted, as well.
EvictAny(keys, s) == Retain(keys, keys)

Evict(keys, s) == Retain(keys, {k \in keys : s[k].status # "running"})

\* A session is updated, and then the inactive ones are evicted.
UpdateAndEvict(k, keys, s) ==
    /\ session' = [session EXCEPT ![k] = s]
    /\ sessions' \in Evict(keys, session')

-----------------------------------------------------------------------------
(* The calls.  Each takes the lock of its thread.                            *)

Begin(k, kind, at) ==
    /\ Up /\ calls < MaxCalls /\ call[k] = NoCall /\ calls' = calls + 1
    /\ call' = [call EXCEPT ![k] = [NoCall EXCEPT !.kind = kind, !.at = at]]
    /\ UNCHANGED <<keyed, memory, drains, alive, spawned, killing, persist, outputs, faults,
                   gaps>>

\* Faulty: what is being written is not waited for.
CallOpenUnflushed(k) == k \notin sessions /\ Begin(k, "open", "read")

\* open, without a session: what is being written is waited for and read.
CallOpen(k) == k \notin sessions /\ Begin(k, "open", "flush")

\* open, with one: a process in another directory, or with other variables, is
\* stopped; one that runs as it should is left alone, and nothing happens.
CallReopen(k) ==
    /\ k \in sessions
    /\ \/ Begin(k, "reopen", "stop")
       \/ session[k].status \in {"exited", "error"} /\ Begin(k, "reopen", "reset")
       \/ session[k].status = "starting" /\ Begin(k, "reopen", "start")

\* clear is refused without a session.
CallClear(k) == k \in sessions /\ Begin(k, "clear", "reset")

CallRestart(k) == Begin(k, "restart", IF k \in sessions THEN "stop" ELSE "create")

CallClose(k, kind) == Begin(k, kind, IF k \in sessions THEN "stop" ELSE "flush")

\* A call goes on to its next step, or ends.
GoTo(k, at) == call' = [call EXCEPT ![k].at = at, ![k].process = 0]
End(k) == call' = [call EXCEPT ![k] = NoCall]

\* The new session has no drain yet.  One of the session before has nothing left
\* to do but to persist what it carries.
CreateSession(k, history) ==
    /\ UpdateAndEvict(k, sessions \cup {k}, NewSession(history))
    /\ drains' = [drains EXCEPT ![k] = {[d EXCEPT !.process = 0] : d \in {e \in @ : e.carries}}]
    /\ GoTo(k, IF call[k].kind = "open" THEN "start" ELSE "reset")

\* The history is read from the file, which lacks what a drain still carries ...
ReadHistory(k) ==
    /\ Up /\ call[k].at = "read"
    /\ CreateSession(k, file[k])
    /\ gaps' = IF \E d \in drains[k] : d.carries THEN gaps \cup {"stale"} ELSE gaps
    /\ UNCHANGED <<keyed, alive, spawned, killing, persist, counted>>

\* ... but for a restart, which starts with an empty one.
CreateEmpty(k) ==
    /\ Up /\ call[k].at = "create"
    /\ CreateSession(k, <<>>)
    /\ UNCHANGED <<keyed, alive, spawned, killing, persist, counted, gaps>>

\* A session without its process, and without what that has reported.
Stopped(k) ==
    [session[k] EXCEPT !.process = 0, !.pending = <<>>, !.draining = FALSE]

\* stopProcess: the session lets go of its process, which a fiber of its own
\* then kills, and counts as inactive.
StopProcess(k) ==
    LET p == session[k].process IN
    /\ Up /\ call[k].at = "stop"
    /\ IF p = 0
         THEN UNCHANGED <<memory, killing>>
         ELSE /\ killing' = killing \cup ({p} \cap alive)
              /\ UpdateAndEvict(k, sessions, [Stopped(k) EXCEPT !.status = "exited"])
    /\ GoTo(k, IF call[k].kind \in {"close", "delete"} THEN "save" ELSE "reset")
    /\ UNCHANGED <<keyed, drains, alive, spawned, persist, counted, gaps>>

\* queuePersist and persistHistory put a history into the persist worker.
Persist(k, history) ==
    /\ Enqueue(k)
    /\ text' = [text EXCEPT ![k] = history]
    /\ UNCHANGED <<writing, file>>

\* What a session has not drained is given up with it, an exit included.
Dropped(k) == IF session[k].pending # <<>> THEN {"dropped"} ELSE {}

\* The history is emptied, and persisted.
ResetHistory(k) ==
    /\ Up /\ call[k].at = "reset"
    /\ session' = [session EXCEPT ![k].history = <<>>, ![k].pending = <<>>,
                                  ![k].draining = FALSE]
    /\ gaps' = gaps \cup Dropped(k)
    /\ Persist(k, <<>>)
    /\ GoTo(k, "flush")
    /\ UNCHANGED <<sessions, drains, alive, spawned, killing, counted>>

\* A session that is closed is persisted as it is.
SaveHistory(k) ==
    /\ Up /\ call[k].at = "save"
    /\ Persist(k, session[k].history)
    /\ GoTo(k, "flush")
    /\ UNCHANGED <<memory, drains, alive, spawned, killing, counted, gaps>>

\* flushPersist waits until nothing is written or waits to be.
FlushPersist(k) ==
    /\ Up /\ call[k].at = "flush"
    /\ Drained(k)
    /\ CASE call[k].kind = "open" -> GoTo(k, "read")
         [] call[k].kind = "clear" -> End(k)
         [] call[k].kind \in {"close", "delete"} -> GoTo(k, "unmap")
         [] OTHER -> GoTo(k, "start")
    /\ UNCHANGED <<keyed, memory, drains, alive, spawned, killing, persist, counted, gaps>>

\* The session leaves the map; its file may be deleted.
CloseSession(k) ==
    /\ Up /\ call[k].at = "unmap"
    /\ sessions' = sessions \ {k}
    /\ IF call[k].kind = "delete" THEN GoTo(k, "delete") ELSE End(k)
    /\ UNCHANGED <<keyed, session, drains, alive, spawned, killing, persist, counted, gaps>>

\* With the file goes what the last session leaves to the next one.  A write that
\* is still to come brings the file back.
Forget(k) ==
    /\ Up /\ call[k].at = "delete"
    /\ session' = [session EXCEPT ![k].history = <<>>]
    /\ End(k)
    /\ UNCHANGED <<keyed, sessions, drains, alive, spawned, killing, text, writing, calls,
                   outputs>>

DeleteHistory(k) ==
    /\ Forget(k)
    /\ file' = [file EXCEPT ![k] = <<>>]
    /\ gaps' = IF Drained(k) THEN gaps ELSE gaps \cup {"stale"}
    /\ UNCHANGED faults

\* The file cannot be removed, or the directory not be read: it stays, the failure
\* is logged, and the call succeeds.
DeleteFails(k) ==
    /\ Forget(k) /\ Fault
    /\ gaps' = gaps \cup {"undeleted"}
    /\ UNCHANGED file

\* startSession: the session is prepared, and its process spawned.
Spawn(k) ==
    /\ Up /\ call[k].at = "start"
    /\ session' = [session EXCEPT ![k] = [Stopped(k) EXCEPT !.status = "starting"]]
    /\ spawned' = spawned + 1
    /\ alive' = alive \cup {spawned'}
    /\ call' = [call EXCEPT ![k].at = "register", ![k].process = spawned']
    /\ UNCHANGED <<keyed, sessions, drains, killing, persist, counted, gaps>>

SpawnFails(k) ==
    /\ Up /\ call[k].at = "start" /\ Fault
    /\ UpdateAndEvict(k, sessions, [Stopped(k) EXCEPT !.status = "error"])
    /\ End(k)
    /\ UNCHANGED <<keyed, drains, alive, spawned, killing, persist, calls, outputs, gaps>>

\* The session may have been evicted since; then nobody finds its process again.
RegisterProcess(k) ==
    /\ Up /\ call[k].at = "register"
    /\ session' = [session EXCEPT ![k].status = "running", ![k].process = call[k].process]
    /\ gaps' = gaps \cup (IF k \notin sessions THEN {"evicted"} ELSE {})
                    \cup (IF call[k].process \notin alive THEN {"unheard"} ELSE {})
    /\ End(k)
    /\ UNCHANGED <<keyed, sessions, drains, alive, spawned, killing, persist, counted>>

\* A restart has created a session, and the history before it is still in the file.
Unreset(k) ==
    call[k].kind = "restart" /\ call[k].at = "reset" /\ session[k].status = "starting"

\* The client goes away, and its call ends where it is; or it fails there, as one
\* whose file cannot be read does.
Leave(k) ==
    /\ Up /\ call[k] # NoCall /\ Fault
    /\ gaps' = gaps \cup (IF call[k].process # 0 THEN {"left"} ELSE {})
                    \cup (IF Unreset(k) THEN {"unreset"} ELSE {})
    /\ End(k)
    /\ UNCHANGED <<keyed, memory, drains, alive, spawned, killing, persist, calls, outputs>>

-----------------------------------------------------------------------------
(* The processes, and the fibers that drain what they report.                *)

Attached(p) == {k \in Keys : session[k].process = p}

\* enqueueProcessEvent, and the fork of a drain when none runs.
Report(k, event) ==
    /\ session' = [session EXCEPT ![k].pending = Append(@, event), ![k].draining = TRUE]
    /\ drains' = IF session[k].draining
                   THEN drains
                   ELSE [drains EXCEPT ![k] = @ \cup {[process |-> session[k].process,
                                                       carries |-> FALSE, history |-> <<>>]}]

Output(k) ==
    /\ Up /\ session[k].process \in alive
    /\ outputs < MaxOutputs /\ outputs' = outputs + 1
    /\ Report(k, outputs')
    /\ UNCHANGED <<keyed, sessions, call, alive, spawned, killing, persist, calls, faults, gaps>>

\* A process exits.  Nobody hears of it while its session does not have it yet,
\* or has let go of it.
ExitProcess(p) ==
    /\ Up /\ p \in alive
    /\ alive' = alive \ {p} /\ killing' = killing \ {p}
    /\ \/ Attached(p) = {} /\ UNCHANGED <<session, drains>>
       \/ \E k \in Attached(p) : Report(k, Exit)
    /\ UNCHANGED <<keyed, sessions, call, spawned, persist, counted, gaps>>

\* The kill fiber's first signal, or its second, ends the process ...
KillProcess(p) ==
    /\ Up /\ p \in killing
    /\ alive' = alive \ {p} /\ killing' = killing \ {p}
    /\ UNCHANGED <<keyed, memory, call, drains, spawned, persist, counted, gaps>>

\* ... or cannot be sent: a first one that fails is not followed by a second, the
\* failure is logged, and the process lives on without a session.
KillFails(p) ==
    /\ Up /\ p \in killing /\ Fault
    /\ killing' = killing \ {p}
    /\ gaps' = gaps \cup {"unkilled"}
    /\ UNCHANGED <<keyed, memory, call, drains, alive, spawned, persist, calls, outputs>>

\* drainProcessEvents: a fiber of another process than the session's throws away
\* what it finds, and so ends one that finds nothing.
EndDrain(k, d) ==
    LET foreign == session[k].process # d.process IN
    /\ Up /\ d \in drains[k] /\ ~d.carries
    /\ foreign \/ session[k].pending = <<>>
    /\ session' = [session EXCEPT ![k].pending = <<>>, ![k].draining = FALSE]
    /\ gaps' = gaps \cup Dropped(k)
    /\ drains' = [drains EXCEPT ![k] = @ \ {d}]
    /\ UNCHANGED <<keyed, sessions, call, alive, spawned, killing, persist, counted>>

\* An output is added to the history ...
DrainOutput(k, d) ==
    LET s == session[k] IN
    /\ Up /\ d \in drains[k] /\ ~d.carries /\ s.process = d.process
    /\ s.pending # <<>> /\ Head(s.pending) # Exit
    /\ session' = [session EXCEPT ![k].pending = Tail(@),
                                  ![k].history = Append(@, Head(s.pending))]
    /\ drains' = [drains EXCEPT ![k] = (@ \ {d}) \cup
                    {[d EXCEPT !.carries = TRUE, !.history = Append(s.history, Head(s.pending))]}]
    /\ UNCHANGED <<keyed, sessions, call, alive, spawned, killing, persist, counted, gaps>>

\* ... and the history, as it was then, is persisted.
DrainPersist(k, d) ==
    /\ Up /\ d \in drains[k] /\ d.carries
    /\ Persist(k, d.history)
    /\ drains' = [drains EXCEPT ![k] = (@ \ {d}) \cup
                    {e \in {[d EXCEPT !.carries = FALSE, !.history = <<>>]} : d.process # 0}]
    /\ gaps' = IF d.history # session[k].history \/ call[k].at = "read"
                 THEN gaps \cup {"stale"} ELSE gaps
    /\ UNCHANGED <<memory, call, alive, spawned, killing, counted>>

DrainExit(k, d) ==
    LET s == session[k] IN
    /\ Up /\ d \in drains[k] /\ ~d.carries /\ s.process = d.process
    /\ s.pending # <<>> /\ Head(s.pending) = Exit
    /\ UpdateAndEvict(k, sessions, [Stopped(k) EXCEPT !.status = "exited"])
    /\ drains' = [drains EXCEPT ![k] = @ \ {d}]
    /\ UNCHANGED <<keyed, call, alive, spawned, killing, persist, counted, gaps>>

-----------------------------------------------------------------------------
(* The persist worker: KeyedCoalescingWorker, whose process writes the file. *)

Beside == UNCHANGED <<memory, call, drains, alive, spawned, killing, calls, outputs>>

\* Taking a value takes the history that goes with it.
PersistStep ==
    /\ Take \/ Claim \/ NextValue \/ CleanupFailedKey \/ Requeue
    /\ IF latest'[key'] # latest[key']
         THEN writing' = text[key'] /\ text' = [text EXCEPT ![key'] = <<>>]
         ELSE UNCHANGED <<writing, text>>
    /\ UNCHANGED <<file, faults, gaps>>
    /\ Beside

WriteHistory ==
    /\ Succeed
    /\ file' = [file EXCEPT ![key] = writing] /\ writing' = <<>>
    /\ UNCHANGED <<text, faults, gaps>>
    /\ Beside

\* A write that fails is logged; a defect of the file system fails the process.
WriteFails ==
    /\ Succeed \/ Fail
    /\ Fault
    /\ gaps' = gaps \cup {"unwritten"} /\ writing' = <<>>
    /\ UNCHANGED <<text, file>>
    /\ Beside

\* The server shuts down: the processes of its sessions are killed, as far as they
\* can be signalled; the fibers are interrupted, those that kill and the one that
\* writes included.
Shutdown ==
    /\ Interrupt /\ Fault
    /\ sessions' = {}
    /\ call' = [k \in Keys |-> NoCall] /\ drains' = [k \in Keys |-> {}]
    /\ \E killed \in SUBSET {session[k].process : k \in sessions} : alive' = alive \ killed
    /\ killing' = {}
    /\ gaps' = IF alive' = {} THEN gaps ELSE gaps \cup {"shutdown"}
    /\ UNCHANGED <<session, spawned, persist, calls, outputs>>

-----------------------------------------------------------------------------
CallStep(k) ==
    \/ ReadHistory(k) \/ CreateEmpty(k) \/ StopProcess(k)
    \/ ResetHistory(k) \/ SaveHistory(k) \/ FlushPersist(k) \/ CloseSession(k)
    \/ DeleteHistory(k) \/ Spawn(k) \/ RegisterProcess(k)

Drain(k) ==
    \E d \in drains[k] :
        EndDrain(k, d) \/ DrainOutput(k, d) \/ DrainPersist(k, d) \/ DrainExit(k, d)

PersistWorker == PersistStep \/ WriteHistory

Call(k) ==
    \/ CallOpen(k) \/ CallReopen(k) \/ CallClear(k) \/ CallRestart(k)
    \/ CallClose(k, "close") \/ CallClose(k, "delete")

Next ==
    \/ \E k \in Keys : Call(k) \/ CallStep(k) \/ SpawnFails(k) \/ DeleteFails(k) \/ Leave(k)
    \/ \E k \in Keys : Output(k) \/ Drain(k)
    \/ \E p \in 1..spawned : ExitProcess(p) \/ KillProcess(p) \/ KillFails(p)
    \/ PersistWorker \/ WriteFails \/ Shutdown

\* The persist worker keeps running, and what it waits for of the file system ends.
\* Nobody has to call, no process has to report or exit, and nothing has to fail.
Spec == Init /\ [][Next]_vars /\ WF_vars(PersistWorker)

-----------------------------------------------------------------------------
(* Properties *)

TypeOK ==
    /\ KeyedTypeOK
    /\ sessions \subseteq Keys
    /\ \A k \in Keys :
          /\ session[k].status \in {"starting", "running", "exited", "error"}
          /\ session[k].process \in 0..spawned
          /\ session[k].draining \in BOOLEAN
          /\ call[k].kind \in Kinds \cup {"reopen", "none"}
    /\ alive \subseteq 1..spawned /\ killing \subseteq alive /\ spawned \in 0..(MaxCalls + 1)

InHand(p) == \E k \in Keys : call[k].process = p

\* A process that is alive is that of a session clients can reach, or about to
\* be, or about to be killed; and a session that is shown as running has one, or
\* is about to notice its exit: whatever else was stopped, restarted or evicted.
\* The first is given up when a session is evicted while its process is spawned,
\* or a client leaves or the server stops at that moment, or when the process
\* cannot be signalled; the second, when an exit comes before it is listened to, or
\* is thrown away with what is pending.
SessionsMatchProcesses ==
    /\ gaps \cap {"evicted", "left", "shutdown", "unkilled"} = {} =>
          \A p \in alive : p \in killing \/ InHand(p) \/ Attached(p) \cap sessions # {}
    /\ gaps \cap {"unheard", "dropped"} = {} =>
          \A k \in sessions : session[k].status = "running" =>
             session[k].process \in alive \/ Contains(session[k].pending, Exit)

Unkept == {"evicted", "stale", "undeleted", "unreset", "unwritten"}

\* A terminal that is opened again shows the history it had, after it was closed
\* or evicted, and none after it was deleted: what was still to be written then
\* has been, unless writing or deleting failed, or a drain persisted what it had read before
\* a clear or a deletion, or after the file was read; or a client left a restart
\* before it had emptied the file.
ReopenKeepsHistory ==
    [][\A k \in Keys :
         call[k].at = "read" /\ call'[k].at = "start"
             /\ gaps' \cap Unkept = {}
           => session'[k].history = session[k].history]_vars
=============================================================================
