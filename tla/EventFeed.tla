------------------------------ MODULE EventFeed ------------------------------
(***************************************************************************)
(* What the orchestration engine promises those who read its read model    *)
(* and listen to its event stream.  Three cursors over the event log: what *)
(* is committed to the database, what the in-memory read model has folded, *)
(* and what has been published to the live subscribers.                    *)
(***************************************************************************)
EXTENDS Naturals

VARIABLES up,          \* the server process is running
          committed,   \* sequence of the last committed event
          adopted,     \* snapshotSequence of the in-memory read model
          published    \* sequence of the last event published, or of the
                       \* snapshot the process started from

vars == <<up, committed, adopted, published>>

Init == /\ up = FALSE
        /\ committed = 0 /\ adopted = 0 /\ published = 0

\* A started process begins at the end of the log.
Start == /\ ~up
         /\ up' = TRUE
         /\ adopted' = committed
         /\ published' = committed
         /\ UNCHANGED committed

Stop == /\ up
        /\ up' = FALSE
        /\ adopted' = 0
        /\ published' = 0
        /\ UNCHANGED committed

\* One command's events; the previous command's have all been published.
Commit == /\ up
          /\ published = committed
          /\ committed' > committed
          /\ UNCHANGED <<up, adopted, published>>

Adopt == /\ up
         /\ adopted < committed
         /\ adopted' = committed
         /\ UNCHANGED <<up, committed, published>>

\* An event is published after the read model has folded it.
Publish == /\ up
           /\ published < adopted
           /\ published' = published + 1
           /\ UNCHANGED <<up, committed, adopted>>

Next == Start \/ Stop \/ Commit \/ Adopt \/ Publish

Spec == Init /\ [][Next]_vars
=============================================================================
