---------------------------- MODULE MCEdpStream ----------------------------
(***************************************************************************)
(* Instances of EdpStream: strings of which two together need a second     *)
(* digit of length, and buffers that have to grow several times.           *)
(***************************************************************************)
EXTENDS EdpStream

MCStrings == {<<1>>, <<2, 9, 7>>}
=============================================================================
