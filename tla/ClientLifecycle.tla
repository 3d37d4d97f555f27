--------------------------- MODULE ClientLifecycle ---------------------------
(***************************************************************************)
(* The EDP client as network_task.c sees it: onenet_tcpclient_create makes *)
(* one if there is none, onenet_tcpclient_delete begins to close it, and   *)
(* the object is freed some time later.  NetworkTask.tla uses the client   *)
(* through these actions; EdpClient.tla implements them.                   *)
(***************************************************************************)
VARIABLE client

Init == client = "none"

\* A client that is still being closed makes create fail.
Create == client' = IF client = "none" THEN "open" ELSE client

Delete == client' = IF client = "none" THEN "none" ELSE "closing"

Freed ==
  /\ client = "closing"
  /\ client' = "none"

Next == Create \/ Delete \/ Freed

Spec == Init /\ [][Next]_client
=============================================================================
