------------------------- MODULE ProjectionPipeline -------------------------
(***************************************************************************)
(* The SQL projections of the orchestration log.  Each projector keeps the *)
(* sequence of the last event it has applied and advances it in the        *)
(* transaction that applies the event.  While the server runs, the events  *)
(* of a command are projected in the transaction that appends them.  When  *)
(* it starts, every projector catches up with the log from its own cursor, *)
(* one transaction per event, and a crash may end that at any step.  A     *)
(* release of the server may bring a projector the database has no rows    *)
(* of.  An event is its sequence.                                          *)
(***************************************************************************)
EXTENDS Naturals, Sequences, FiniteSets, FiniteSetsExt

CONSTANTS Projectors,   \* the projectors in their fixed order, a sequence
          Required,     \* REQUIRED_SNAPSHOT_PROJECTORS
          FirstRelease, \* the projectors of the first release
          ReadLimit,    \* DEFAULT_READ_FROM_SEQUENCE_LIMIT: 1000 in the code
          MaxEvents,    \* bound on the events committed
          MaxBatch      \* bound on the events of one command

Names == {Projectors[i] : i \in DOMAIN Projectors}

ASSUME PipelineAssumption ==
    /\ Projectors \in Seq(Names)
    /\ \A i, j \in DOMAIN Projectors : Projectors[i] = Projectors[j] => i = j
    /\ FirstRelease \subseteq Names /\ Required \subseteq Names
    /\ FirstRelease # {} /\ Required # {}
    /\ ReadLimit \in Nat \ {0} /\ MaxEvents \in Nat /\ MaxBatch \in Nat \ {0}

VARIABLES
    \* the database
    committed,   \* sequence of the last event of the log
    cursor,      \* last_applied_sequence of each projector, 0 without a row
    applied,     \* the events each projector has applied, in order
    \* the server
    installed,   \* the projectors of the release that runs
    phase,       \* "down", "bootstrap" or "up"
    turn,        \* the projector that is catching up
    next, last,  \* what it has read of the log and not applied: next .. last
    behind       \* observation: projectors for which the log was too long to be read

bootstrapping == <<turn, next, last, behind>>
vars == <<committed, cursor, applied, installed, phase, bootstrapping>>

Init ==
    /\ committed = 0
    /\ cursor = [p \in Names |-> 0]
    /\ applied = [p \in Names |-> <<>>]
    /\ installed = FirstRelease
    /\ phase = "down" /\ turn = 1 /\ next = 1 /\ last = 0 /\ behind = {}

\* computeSnapshotSequence
SnapshotSequence == Min({cursor[p] : p \in Required})

-----------------------------------------------------------------------------
\* The server that starts next is of a release with one more projector.
Upgrade(p) ==
    /\ phase = "down"
    /\ p \notin installed
    /\ installed' = installed \cup {p}
    /\ UNCHANGED <<committed, cursor, applied, phase, bootstrapping>>

\* readFromSequence(lastAppliedSequence), for the projector whose turn it is.
ReadLog(i) ==
    LET from == cursor[Projectors[i]]
    IN  /\ next' = from + 1
        /\ last' = IF from + ReadLimit < committed THEN from + ReadLimit ELSE committed
        /\ behind' = IF Projectors[i] \in installed /\ last' < committed
                        THEN behind \cup {Projectors[i]} ELSE behind

StartBootstrap ==
    /\ phase = "down"
    /\ phase' = "bootstrap"
    /\ turn' = 1
    /\ ReadLog(1)
    /\ UNCHANGED <<committed, cursor, applied, installed>>

\* Faulty: the cursor is left behind.
ApplyWithoutCursor ==
    /\ phase = "bootstrap"
    /\ Projectors[turn] \in installed /\ next <= last
    /\ applied' = [applied EXCEPT ![Projectors[turn]] = Append(@, next)]
    /\ next' = next + 1
    /\ UNCHANGED <<committed, cursor, installed, phase, turn, last, behind>>

\* runProjectorForEvent: the projection and its cursor in one transaction.
ApplyNext ==
    /\ phase = "bootstrap"
    /\ Projectors[turn] \in installed /\ next <= last
    /\ cursor' = [cursor EXCEPT ![Projectors[turn]] = next]
    /\ applied' = [applied EXCEPT ![Projectors[turn]] = Append(@, next)]
    /\ next' = next + 1
    /\ UNCHANGED <<committed, installed, phase, turn, last, behind>>

NextProjector ==
    /\ phase = "bootstrap"
    /\ Projectors[turn] \in installed => next > last
    /\ turn < Len(Projectors)
    /\ turn' = turn + 1
    /\ ReadLog(turn + 1)
    /\ UNCHANGED <<committed, cursor, applied, installed, phase>>

\* Faulty: the server is up after its first projector has caught up.
EndBootstrapEarly ==
    /\ phase = "bootstrap"
    /\ Projectors[turn] \in installed => next > last
    /\ phase' = "up"
    /\ UNCHANGED <<committed, cursor, applied, installed, bootstrapping>>

\* The engine's layer is built; commands are decided from here on.
EndBootstrap ==
    /\ phase = "bootstrap"
    /\ Projectors[turn] \in installed => next > last
    /\ turn = Len(Projectors)
    /\ phase' = "up"
    /\ UNCHANGED <<committed, cursor, applied, installed, bootstrapping>>

\* A command's events are appended and projected in one transaction; one that
\* is rolled back changes nothing.
ProjectCommand ==
    /\ phase = "up"
    /\ \E n \in 1..MaxBatch :
        /\ committed + n <= MaxEvents
        /\ committed' = committed + n
        /\ cursor' = [p \in Names |-> IF p \in installed THEN committed' ELSE cursor[p]]
        /\ applied' = [p \in Names |->
              IF p \in installed THEN applied[p] \o [i \in 1..n |-> committed + i]
                                 ELSE applied[p]]
    /\ UNCHANGED <<installed, phase, bootstrapping>>

\* The server stops, crashes, or fails to start on a storage error.
Stop ==
    /\ phase # "down"
    /\ phase' = "down"
    /\ UNCHANGED <<committed, cursor, applied, installed, bootstrapping>>

Next ==
    \/ \E p \in Names : Upgrade(p)
    \/ StartBootstrap \/ ApplyNext \/ NextProjector \/ EndBootstrap
    \/ ProjectCommand \/ Stop

Spec == Init /\ [][Next]_vars

-----------------------------------------------------------------------------
(* Properties *)

TypeOK ==
    /\ {committed, last} \subseteq 0..MaxEvents
    /\ next \in 1..(MaxEvents + 1)
    /\ cursor \in [Names -> 0..MaxEvents]
    /\ applied \in [Names -> Seq(1..MaxEvents)]
    /\ installed \subseteq Names
    /\ phase \in {"down", "bootstrap", "up"}
    /\ turn \in DOMAIN Projectors /\ behind \subseteq Names

\* No projector applies an event twice or out of the order of the log, whatever
\* was interrupted and resumed; and none skips one, unless it has been more than
\* ReadLimit events behind when the server started.
ProjectedOnceInOrder ==
    \A p \in Names :
        /\ \A i, j \in DOMAIN applied[p] : i < j => applied[p][i] < applied[p][j]
        /\ p \notin behind => applied[p] = [n \in 1..cursor[p] |-> n]

\* A server that is up has no projection behind its log, so its snapshot is of
\* the whole log whenever its release has the projectors a snapshot needs: again
\* unless one of them has been too far behind.
CaughtUpWhenUp ==
    phase = "up" =>
        /\ \A p \in installed \ behind : cursor[p] = committed
        /\ Required \subseteq installed \ behind => SnapshotSequence = committed
=============================================================================
