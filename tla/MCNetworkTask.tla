---------------------------- MODULE MCNetworkTask ----------------------------
(***************************************************************************)
(* Instances of NetworkTask: a device left alone (MaxConsole = 0), and one *)
(* with a user at the console.                                             *)
(***************************************************************************)
EXTENDS NetworkTask
=============================================================================
