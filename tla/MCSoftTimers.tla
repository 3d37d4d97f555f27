---------------------------- MODULE MCSoftTimers ----------------------------
(***************************************************************************)
(* A small instance of SoftTimers: a pool smaller than the number of keys, *)
(* timeouts of 0 and 1 tick.                                               *)
(***************************************************************************)
EXTENDS SoftTimers
=============================================================================
