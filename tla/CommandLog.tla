----------------------------- MODULE CommandLog ------------------------------
(***************************************************************************)
(* What the orchestration engine promises, whatever is queued, retried,    *)
(* fails or crashes: it behaves as a machine that takes one command at a   *)
(* time, decides it against the whole committed log, appends its events    *)
(* and records its outcome in one step, and never decides it again.        *)
(***************************************************************************)
EXTENDS Decider

VARIABLES log,      \* the events, in order
          outcome   \* the recorded outcome of each command

vars == <<log, outcome>>

Outcome == [status : {"none", "accepted", "rejected"}, sequence : Nat]

Init == /\ log = <<>>
        /\ outcome = [c \in Commands |-> [status |-> "none", sequence |-> 0]]

\* The receipt names the last event of the command.
Accept(c) ==
    /\ outcome[c].status = "none"
    /\ \E bodies \in Decisions(log, Content[c]) :
          log' = log \o Saved(Len(log), c, bodies)
    /\ outcome' = [outcome EXCEPT ![c] = [status |-> "accepted", sequence |-> Len(log')]]

Reject(c) ==
    /\ outcome[c].status = "none"
    /\ Decisions(log, Content[c]) = {}
    /\ outcome' = [outcome EXCEPT ![c] = [status |-> "rejected", sequence |-> Len(log)]]
    /\ UNCHANGED log

Next == \E c \in Commands : Accept(c) \/ Reject(c)

Spec == Init /\ [][Next]_vars

-----------------------------------------------------------------------------
TypeOK == /\ log \in Seq(Event)
          /\ outcome \in [Commands -> Outcome]

At(i, type, t) == log[i].body = ThreadEvent(type, t)

\* A thread is created at most once, nothing happens to it before, and its
\* archivings and unarchivings alternate, an archiving first: a client that
\* replays the log never meets an event its state cannot take.
ThreadHistoriesWellFormed ==
    \A t \in Threads, i \in DOMAIN log : log[i].body.thread = t =>
        /\ IF log[i].body.type = "thread.created"
           THEN \A j \in 1..(i - 1) : log[j].body.thread # t
           ELSE \E j \in 1..(i - 1) :
                   log[j].body.thread = t /\ log[j].body.type = "thread.created"
        /\ At(i, "thread.archived", t) =>
              \A j \in 1..(i - 1) : At(j, "thread.archived", t) =>
                  \E k \in (j + 1)..(i - 1) : At(k, "thread.unarchived", t)
        /\ At(i, "thread.unarchived", t) =>
              \E j \in 1..(i - 1) :
                  /\ At(j, "thread.archived", t)
                  /\ \A k \in (j + 1)..(i - 1) : ~At(k, "thread.unarchived", t)

\* When a project is deleted, every thread created in it until then has been
\* deleted before, whichever of them were deleted, archived or forked already.
DeletionCascades ==
    \A p \in Projects, i \in DOMAIN log :
        log[i].body = ProjectEvent("project.deleted", p) =>
            \A t \in Threads, j \in 1..(i - 1) :
                log[j].body = ThreadCreated(t, p) =>
                    \E k \in (j + 1)..(i - 1) : At(k, "thread.deleted", t)
=============================================================================
