--------------------------- MODULE PacketChannel ---------------------------
(***************************************************************************)
(* What a session may expect of the EDP codec and of its receive callback: *)
(* every packet sent is received once, unchanged and in order.             *)
(***************************************************************************)
EXTENDS Naturals, Sequences

CONSTANT Messages

VARIABLES sent, received

vars == <<sent, received>>

Init == sent = <<>> /\ received = <<>>

Send ==
  /\ Len(sent') = Len(sent) + 1
  /\ SubSeq(sent', 1, Len(sent)) = sent
  /\ sent'[Len(sent')] \in Messages
  /\ UNCHANGED received

Receive ==
  /\ Len(received) < Len(sent)
  /\ received' = Append(received, sent[Len(received) + 1])
  /\ UNCHANGED sent

Spec == Init /\ [][Send \/ Receive]_vars
=============================================================================
