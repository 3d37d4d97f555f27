---------------------------- MODULE MCEdpClient ----------------------------
(***************************************************************************)
(* The worlds in which TLC runs EdpClient.  In the wild one everything may *)
(* happen, and the network task deletes its client at any time.  In the    *)
(* early one no attempt fails, no login is refused and nothing is deleted, *)
(* but a disconnection may be reported before the 10 ms timers are due; in *)
(* the calm one it may not.                                                *)
(***************************************************************************)
EXTENDS EdpClient

Recoverable == FaultKinds \ {"connectfail", "refuse"}

Wild == [faults |-> FaultKinds, close |-> "any", deletes |-> TRUE]
Early == [faults |-> Recoverable, close |-> "any", deletes |-> FALSE]
Calm == [faults |-> Recoverable, close |-> "slow", deletes |-> FALSE]

MCWorlds == {Wild, Early, Calm}

\* CONNCLOSE, and connections that close at once.
ConncloseWorlds == {[faults |-> {"connclose"}, close |-> "quick", deletes |-> FALSE]}
=============================================================================
