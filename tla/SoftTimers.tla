----------------------------- MODULE SoftTimers -----------------------------
(***************************************************************************)
(* The software timers of app/fsm/fsm.c: a pool of TIMER_CNT slots, the    *)
(* calls that start and stop a timer, and the scan of the pool that the    *)
(* SDK runs every millisecond.  A timer is known by its key, the pair of   *)
(* its task_id and sig; the para that it carries along is 0 in every call. *)
(*                                                                         *)
(* The scan is one step per slot, since each expired slot calls            *)
(* os_post_message; no other call can run meanwhile.  The callers here are *)
(* arbitrary; NetworkTask.tla puts the ones of the firmware in their place *)
(* and gives the expired keys to the event loop.                           *)
(***************************************************************************)
EXTENDS Naturals

CONSTANTS
  TIMER_CNT,  \* slots of the pool (32 in fsm.h)
  Keys,       \* the timers in use
  Timeouts,   \* the timeouts and periods the callers ask for
  NoKey,      \* INVALID_TASK_ID
  ReArm       \* TRUE if a caller may start a timer that is running

TimerIds == 0 .. TIMER_CNT - 1

ASSUME SoftTimersAssumption ==
  /\ TIMER_CNT \in Nat \ {0}
  /\ Timeouts \subseteq Nat
  /\ NoKey \notin Keys \cup Nat
  /\ NoKey \notin [left : Nat, period : Nat \cup {NoKey}]
  /\ ReArm \in BOOLEAN

VARIABLES
  timer_pool,  \* the slots; a free one has key NoKey
  scan,        \* the loop variable of os_timer_update, TIMER_CNT outside it
  fired        \* the keys the running scan, or the last one, has posted

timerVars == <<timer_pool, scan, fired>>

FreeSlot == [key |-> NoKey, reloading |-> FALSE, timeout |-> 0, reload |-> 0]

Init ==
  /\ timer_pool = [j \in TimerIds |-> FreeSlot]
  /\ scan = TIMER_CNT
  /\ fired = {}

-----------------------------------------------------------------------------
(* The calls *)

First(S) == CHOOSE j \in S : \A l \in S : j <= l

Having(k) == {j \in TimerIds : timer_pool[j].key = k}

Running(k) == Having(k) # {}

\* os_timer_set and os_reload_timer_set stop at the first slot that has the key
\* or is free, whichever comes first.
Candidates(k) == Having(k) \cup Having(NoKey)

\* Mutant: the flag of the slot's former timer is kept.
TimerSetKeepsFlag(k, t) ==
  \/ /\ Candidates(k) = {}
     /\ UNCHANGED timer_pool
  \/ /\ Candidates(k) # {}
     /\ timer_pool' = [timer_pool EXCEPT ![First(Candidates(k))] =
          [@ EXCEPT !.key = k, !.timeout = t]]

\* Mutant: the "break" after a free slot is forgotten.
ReloadSetAnyFree(k, t) ==
  \/ /\ Having(NoKey) = {}
     /\ UNCHANGED timer_pool
  \/ /\ Having(NoKey) # {}
     /\ timer_pool' = [j \in TimerIds |->
          IF j \in Having(NoKey)
            THEN [key |-> k, timeout |-> t, reload |-> t, reloading |-> TRUE]
            ELSE timer_pool[j]]

OsTimerSet(k, t) ==
  \/ /\ Candidates(k) = {}        \* the pool is full: nothing happens
     /\ UNCHANGED timer_pool
  \/ /\ Candidates(k) # {}
     /\ timer_pool' = [timer_pool EXCEPT ![First(Candidates(k))] =
          IF @.key = k THEN [@ EXCEPT !.timeout = t]
                       ELSE [@ EXCEPT !.key = k, !.timeout = t, !.reloading = FALSE]]

OsReloadTimerSet(k, t) ==
  \/ /\ Candidates(k) = {}
     /\ UNCHANGED timer_pool
  \/ /\ Candidates(k) # {}
     /\ timer_pool' = [timer_pool EXCEPT ![First(Candidates(k))] =
          IF @.key = k THEN [@ EXCEPT !.reload = t]
                       ELSE [key |-> k, timeout |-> t, reload |-> t, reloading |-> TRUE]]

OsTimerDel(k) ==
  \/ /\ ~Running(k)
     /\ UNCHANGED timer_pool
  \/ /\ Running(k)
     /\ timer_pool' = [timer_pool EXCEPT ![First(Having(k))] =
          [@ EXCEPT !.key = NoKey, !.reloading = FALSE]]

\* The second loop of os_init_tasks; it leaves the flags as they are.
ClearPool == timer_pool' = [j \in TimerIds |-> [timer_pool[j] EXCEPT !.key = NoKey]]

-----------------------------------------------------------------------------
(* os_timer_update *)

ScanBegin ==
  /\ scan = TIMER_CNT
  /\ scan' = 0
  /\ UNCHANGED timer_pool

SkipFree ==
  /\ timer_pool[scan].key = NoKey
  /\ UNCHANGED timer_pool

\* Mutant: the test for 0 is missing.
CountBelowZero ==
  /\ timer_pool[scan].key # NoKey
  /\ timer_pool' = [timer_pool EXCEPT ![scan].timeout = @ - 1]

\* Mutant: the count stops at 1.
CountStopsAtOne ==
  /\ timer_pool[scan].key # NoKey
  /\ timer_pool[scan].timeout > 0
  /\ timer_pool' = [timer_pool EXCEPT ![scan].timeout = IF @ > 1 THEN @ - 1 ELSE @]

CountDown ==
  /\ timer_pool[scan].key # NoKey
  /\ timer_pool[scan].timeout > 0
  /\ timer_pool' = [timer_pool EXCEPT ![scan].timeout = @ - 1]

\* The slot's key is posted by whoever conjoins this action.
Expire ==
  /\ timer_pool[scan].key # NoKey
  /\ timer_pool[scan].timeout = 0
  /\ LET slot == timer_pool[scan]
     IN  timer_pool' = [timer_pool EXCEPT ![scan] =
           IF slot.reloading THEN [slot EXCEPT !.timeout = slot.reload]
                             ELSE [slot EXCEPT !.key = NoKey]]

NextSlot == scan < TIMER_CNT /\ scan' = scan + 1

UpdateBegin == ScanBegin /\ fired' = {}

UpdateSlot ==
  /\ NextSlot
  /\ \/ (SkipFree \/ CountDown) /\ UNCHANGED fired
     \/ Expire /\ fired' = fired \cup {timer_pool[scan].key}

-----------------------------------------------------------------------------
(* Arbitrary callers *)

MayStart(k) == ReArm \/ ~Running(k)

CallTimerSet(k, t) == MayStart(k) /\ OsTimerSet(k, t) /\ UNCHANGED <<scan, fired>>

CallReloadTimerSet(k, t) ==
  MayStart(k) /\ OsReloadTimerSet(k, t) /\ UNCHANGED <<scan, fired>>

CallTimerDel(k) == OsTimerDel(k) /\ UNCHANGED <<scan, fired>>

CallClear == ClearPool /\ UNCHANGED <<scan, fired>>

Call ==
  /\ scan = TIMER_CNT
  /\ \/ \E k \in Keys, t \in Timeouts : CallTimerSet(k, t) \/ CallReloadTimerSet(k, t)
     \/ \E k \in Keys : CallTimerDel(k)
     \/ CallClear

Next == Call \/ UpdateBegin \/ UpdateSlot

Spec == Init /\ [][Next]_timerVars

\* The SDK's 1 ms timer keeps firing and the scan runs to its end.
FairSpec == Spec /\ WF_timerVars(UpdateBegin) /\ WF_timerVars(UpdateSlot)
-----------------------------------------------------------------------------
(* Properties *)

TypeOK ==
  /\ timer_pool \in [TimerIds -> [key : Keys \cup {NoKey}, reloading : BOOLEAN,
                                  timeout : Nat, reload : Nat]]
  /\ scan \in 0 .. TIMER_CNT
  /\ fired \subseteq Keys

(***************************************************************************)
(* At most one slot per key.  os_timer_del clears one slot only, so a      *)
(* second one would go on posting after the timer was deleted.             *)
(***************************************************************************)
UniqueTimers ==
  \A j, l \in TimerIds :
    timer_pool[j].key = timer_pool[l].key /\ timer_pool[j].key # NoKey => j = l

TimerOf(k) ==
  IF Running(k)
    THEN LET slot == timer_pool[First(Having(k))]
         IN  [left |-> slot.timeout, period |-> IF slot.reloading THEN slot.reload ELSE NoKey]
    ELSE NoKey

(***************************************************************************)
(* As long as no caller starts a running timer, the pool implements one    *)
(* timer per key: which slot a timer lands in, what a slot held before and *)
(* the order of the scan do not show.                                      *)
(***************************************************************************)
Abstract == INSTANCE TimerMap WITH
  None <- NoKey,
  timer <- [k \in Keys |-> TimerOf(k)],
  unseen <- {k \in Keys : \E j \in Having(k) : j >= scan}

ImplementsTimerMap == Abstract!Spec

(***************************************************************************)
(* A reloading timer never dies of itself: unless a caller deletes it, it  *)
(* posts again and again.                                                  *)
(***************************************************************************)
Reloading(k) == \E j \in Having(k) : timer_pool[j].reloading

ReloadingFires == \A k \in Keys : []<>(Reloading(k) => k \in fired)
=============================================================================
