------------------------------ MODULE EventFifo ------------------------------
(***************************************************************************)
(* What the event loop of app/fsm/fsm.c promises its callers: every task   *)
(* has a bounded first-in first-out list of pending signals.  A message    *)
(* that os_post_message accepts is appended; one that finds the list full  *)
(* is refused and changes nothing; the handler of a task is only ever      *)
(* called with the oldest pending signal, which leaves the list.           *)
(***************************************************************************)
EXTENDS Naturals, Sequences

CONSTANTS
  Tasks,     \* the ids of the tasks
  Capacity,  \* how many signals one task can have pending
  Signals,   \* the signals that can be posted
  EntrySig   \* the signal that the start-up code posts to every task

VARIABLES
  pending,   \* pending[t] is the list of t's accepted, undelivered signals
  current    \* <<t, s>> while t's handler runs for the signal s, else <<>>

vars == <<pending, current>>

Room(t) == Len(pending[t]) < Capacity

Init ==
  /\ pending = [t \in Tasks |-> <<>>]
  /\ current = <<>>

\* A message is accepted.
Accept(t, s) ==
  /\ Room(t)
  /\ pending' = [pending EXCEPT ![t] = Append(@, s)]
  /\ UNCHANGED current

\* The start-up code posts the entry signal to every task that has room.
AcceptAll ==
  /\ pending' = [t \in Tasks |->
                   IF Room(t) THEN Append(pending[t], EntrySig) ELSE pending[t]]
  /\ UNCHANGED current

\* The handler of t is called with the oldest pending signal of t.
Deliver(t) ==
  /\ current = <<>>
  /\ pending[t] # <<>>
  /\ current' = <<t, Head(pending[t])>>
  /\ pending' = [pending EXCEPT ![t] = Tail(@)]

\* The handler returns.
Finish ==
  /\ current # <<>>
  /\ current' = <<>>
  /\ UNCHANGED pending

Next ==
  \/ \E t \in Tasks, s \in Signals : Accept(t, s)
  \/ AcceptAll
  \/ \E t \in Tasks : Deliver(t)
  \/ Finish

Spec == Init /\ [][Next]_vars
=============================================================================
