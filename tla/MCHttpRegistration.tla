------------------------- MODULE MCHttpRegistration -------------------------
(***************************************************************************)
(* An instance of HttpRegistration: a cloud with a few ids and keys, and   *)
(* behaviours without faults and with one kind of fault each.              *)
(***************************************************************************)
EXTENDS HttpRegistration

MCBudget == [restart |-> 2, forget |-> 1, ask |-> 1, session |-> 3]
MCFaultSets == {{}, {"slow"}, {"lost"}, {"hasty"}, {"leaves"}}
=============================================================================
