--------------------------- MODULE MCUartConsole ---------------------------
(***************************************************************************)
(* Small instances of UartConsole.  The FIFO and the line buffer hold      *)
(* fewer bytes than are typed: both overflow.                              *)
(***************************************************************************)
EXTENDS UartConsole
=============================================================================
