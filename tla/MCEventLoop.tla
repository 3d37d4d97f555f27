----------------------------- MODULE MCEventLoop -----------------------------
(***************************************************************************)
(* Small instances of EventLoop: two state machines that start in one and  *)
(* the same state, rings of two slots.                                     *)
(***************************************************************************)
EXTENDS EventLoop

CONSTANTS h1, h2

MCHandlers == {h1, h2}
MCInitHandler == [t \in 0 .. TASKS_CNT - 1 |-> h1]
=============================================================================
