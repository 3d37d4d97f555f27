------------------------------ MODULE TimerMap ------------------------------
(***************************************************************************)
(* What the software timers of app/fsm/fsm.c promise: at most one timer    *)
(* per key (a task and a signal).  A timer counts ticks down and fires its *)
(* key on the tick that finds it at 0; it then starts again from its       *)
(* period, or is gone if it has none.  A deleted timer does not fire.      *)
(***************************************************************************)
EXTENDS Naturals

CONSTANTS Keys, Timeouts, None

VARIABLES
  timer,   \* timer[k] is None or [left, period], period being None for one shot
  unseen,  \* the armed keys that the tick in progress has still to look at
  fired    \* the keys fired by the tick in progress or the last one

vars == <<timer, unseen, fired>>

ActiveKeys == {k \in Keys : timer[k] # None}

Init ==
  /\ timer = [k \in Keys |-> None]
  /\ unseen = {}
  /\ fired = {}

Start(k, left, period) ==
  /\ timer[k] = None
  /\ timer' = [timer EXCEPT ![k] = [left |-> left, period |-> period]]

OneShot(k, t) == Start(k, t, None) /\ UNCHANGED <<unseen, fired>>

Periodic(k, t) == Start(k, t, t) /\ UNCHANGED <<unseen, fired>>

Delete(k) ==
  /\ timer' = [timer EXCEPT ![k] = None]
  /\ UNCHANGED <<unseen, fired>>

Clear ==
  /\ timer' = [k \in Keys |-> None]
  /\ UNCHANGED <<unseen, fired>>

TickBegin ==
  /\ unseen = {}
  /\ unseen' = ActiveKeys
  /\ fired' = {}
  /\ UNCHANGED timer

CountDown(k) ==
  /\ timer[k].left > 0
  /\ timer' = [timer EXCEPT ![k].left = @ - 1]
  /\ UNCHANGED fired

Fire(k) ==
  /\ timer[k].left = 0
  /\ fired' = fired \cup {k}
  /\ timer' = [timer EXCEPT ![k] =
       IF @.period = None THEN None ELSE [left |-> @.period, period |-> @.period]]

Look(k) ==
  /\ unseen' = unseen \ {k}
  /\ CountDown(k) \/ Fire(k)

Next ==
  \/ unseen = {} /\ \E k \in Keys, t \in Timeouts : OneShot(k, t) \/ Periodic(k, t)
  \/ unseen = {} /\ \E k \in Keys : Delete(k)
  \/ unseen = {} /\ Clear
  \/ TickBegin
  \/ \E k \in unseen : Look(k)

Spec == Init /\ [][Next]_vars
=============================================================================
