-------------------------- MODULE MCBootstrapTurnStart -------------------------
(* A first message sent twice, which asks for everything, and a message to    *)
(* the same thread that only starts a turn.                                   *)
EXTENDS BootstrapTurnStart

CONSTANTS first, again, later

MCRequest ==
    [a \in Attempts |->
        [message |-> IF a = again THEN first ELSE a,
         createThread |-> a # later, worktreePath |-> FALSE,
         prepareWorktree |-> a # later, runSetupScript |-> a # later]]
=============================================================================
