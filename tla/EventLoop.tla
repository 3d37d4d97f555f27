------------------------------ MODULE EventLoop ------------------------------
(***************************************************************************)
(* The event loop of app/fsm/fsm.c and the glue of app/fcmd/cmd_esp8266.c  *)
(* that drives it: one ring of pending signals per task, os_post_message,  *)
(* the dispatch pass that runs one signal per task, the EXIT/ENTRY calls   *)
(* of a state transition, and the hook that arms a 0 ms SDK timer.         *)
(*                                                                         *)
(* Everything runs in the one non-preemptive context in which the SDK      *)
(* calls timers, tasks and network callbacks back; no interrupt handler    *)
(* touches this state.  os_dispatch is a loop that calls handlers, and a   *)
(* handler calls os_post_message and os_stm_tran as it likes, so the pass  *)
(* is modelled as one step per iteration and per call, and nothing but the *)
(* running handler may act until the pass is over.                         *)
(*                                                                         *)
(* The handlers here are arbitrary: NetworkTask.tla puts the ones of the   *)
(* firmware in their place.                                                *)
(***************************************************************************)
EXTENDS Naturals, Sequences

CONSTANTS
  TASKS_CNT,    \* number of state machines (2 in fsm.h)
  QUEUE_SIZE,   \* slots of a ring (8 in fsm.h)
  Events,       \* the signals of fsm_event.h other than ENTRY and EXIT
  Handlers,     \* the functions a state of a state machine can be
  InitHandler   \* the initial tasks_pool

STM_ENTRY_SIG == "STM_ENTRY_SIG"
STM_EXIT_SIG == "STM_EXIT_SIG"

Tasks == 0 .. TASKS_CNT - 1
Slots == 0 .. QUEUE_SIZE - 1
Signals == Events \cup {STM_ENTRY_SIG, STM_EXIT_SIG}

ASSUME EventLoopAssumption ==
  /\ TASKS_CNT \in Nat \ {0}
  /\ QUEUE_SIZE \in Nat \ {0}
  /\ InitHandler \in [Tasks -> Handlers]

VARIABLES
  head, tail, used, buf,  \* tasks_queue[t].head, .tail, .used and .buf
  tasks_pool,             \* the current state of each state machine
  stm_ret_value,          \* TRUE when a handler has asked for a transition (STM_TRAN)
  stm_state_temp,         \* the state asked for
  dispatch_hook,          \* TRUE once fsm_init has registered the hook
  next_dispatch,          \* "another pass is about to happen"
  dispatch_timer,         \* TRUE while fsm_dispatch_timer is armed
  phase,                  \* what the CPU is executing, see Phases
  i,                      \* the loop variable of os_dispatch
  sig                     \* e.sig, the signal os_dispatch calls a handler with

queueVars == <<head, tail, used, buf>>
wakeVars == <<dispatch_hook, next_dispatch, dispatch_timer>>
loopVars == <<tasks_pool, stm_ret_value, stm_state_temp, phase, i, sig>>
vars == <<queueVars, wakeVars, loopVars>>

(***************************************************************************)
(* "sdk": outside os_dispatch, in whatever callback the SDK runs;          *)
(* "loop": in os_dispatch, about to look at task i; "event", "exit" and    *)
(* "entry": in the call of a handler for an event, for STM_EXIT_SIG and    *)
(* for STM_ENTRY_SIG.                                                      *)
(***************************************************************************)
HandlerPhases == {"event", "exit", "entry"}
Phases == {"sdk", "loop"} \cup HandlerPhases

\* The bss starts zeroed, and signal 0 is STM_ENTRY_SIG.
Init ==
  /\ head = [t \in Tasks |-> 0]
  /\ tail = [t \in Tasks |-> 0]
  /\ used = [t \in Tasks |-> 0]
  /\ buf = [t \in Tasks |-> [k \in Slots |-> STM_ENTRY_SIG]]
  /\ tasks_pool = InitHandler
  /\ stm_ret_value = FALSE
  /\ stm_state_temp \in Handlers   \* NULL; never read before it is written
  /\ dispatch_hook = FALSE
  /\ next_dispatch = 0
  /\ dispatch_timer = FALSE
  /\ phase = "sdk"
  /\ i = 0
  /\ sig = STM_ENTRY_SIG

-----------------------------------------------------------------------------
(* os_post_message *)

\* "k++; if (k >= QUEUE_SIZE) k = 0;"
WrapNoWrap(k) == k + 1
Wrap(k) == IF k + 1 >= QUEUE_SIZE THEN 0 ELSE k + 1

\* The end of os_post_message: if no pass is due, note one and call the hook,
\* which (re)arms the 0 ms timer.
CallHook ==
  /\ next_dispatch' = 1
  /\ dispatch_timer' = (dispatch_timer \/ (next_dispatch = 0 /\ dispatch_hook))
  /\ UNCHANGED dispatch_hook

Enqueue(t, s) ==
  /\ buf' = [buf EXCEPT ![t][tail[t]] = s]
  /\ tail' = [tail EXCEPT ![t] = Wrap(@)]
  /\ used' = [used EXCEPT ![t] = @ + 1]
  /\ UNCHANGED head

\* Mutant: the fullness test is ">" instead of ">=".
PostOffByOne(t, s) ==
  \/ /\ used[t] > QUEUE_SIZE
     /\ UNCHANGED <<queueVars, wakeVars>>
  \/ /\ used[t] <= QUEUE_SIZE
     /\ Enqueue(t, s)
     /\ CallHook

\* Mutant: the message is stored, but a pass is requested only for an empty queue.
PostWakesOnlyIfEmpty(t, s) ==
  \/ /\ used[t] >= QUEUE_SIZE
     /\ UNCHANGED <<queueVars, wakeVars>>
  \/ /\ used[t] < QUEUE_SIZE
     /\ Enqueue(t, s)
     /\ IF used[t] = 0 THEN CallHook ELSE UNCHANGED wakeVars

OsPostMessage(t, s) ==
  \/ /\ used[t] >= QUEUE_SIZE      \* QUEUE_FULLED, which no caller looks at
     /\ UNCHANGED <<queueVars, wakeVars>>
  \/ /\ used[t] < QUEUE_SIZE
     /\ Enqueue(t, s)
     /\ CallHook

(***************************************************************************)
(* fsm_init: register the hook, then os_init_tasks posts STM_ENTRY_SIG to  *)
(* every task.  The console can call it again at any time (fcmd_cfg.h).    *)
(* (Its clearing of the timer pool is in SoftTimers.tla.)                  *)
(***************************************************************************)
HasRoom(t) == used[t] < QUEUE_SIZE

FsmInit ==
  /\ phase = "sdk"
  /\ dispatch_hook' = TRUE
  /\ buf' = [t \in Tasks |-> IF HasRoom(t) THEN [buf[t] EXCEPT ![tail[t]] = STM_ENTRY_SIG]
                                           ELSE buf[t]]
  /\ tail' = [t \in Tasks |-> IF HasRoom(t) THEN Wrap(tail[t]) ELSE tail[t]]
  /\ used' = [t \in Tasks |-> IF HasRoom(t) THEN used[t] + 1 ELSE used[t]]
  /\ IF \E t \in Tasks : HasRoom(t)
       THEN /\ next_dispatch' = 1
            /\ dispatch_timer' = (dispatch_timer \/ next_dispatch = 0)
       ELSE UNCHANGED <<next_dispatch, dispatch_timer>>
  /\ UNCHANGED <<head, loopVars>>

-----------------------------------------------------------------------------
(* os_dispatch *)

\* Mutant: the flag is not cleared, so the next post does not call the hook.
DispatchKeepsFlag ==
  /\ phase = "sdk"
  /\ dispatch_timer
  /\ dispatch_timer' = FALSE
  /\ phase' = "loop"
  /\ i' = 0
  /\ UNCHANGED <<next_dispatch, queueVars, dispatch_hook, tasks_pool, stm_ret_value,
                 stm_state_temp, sig>>

\* The SDK fires the 0 ms one-shot timer and os_dispatch begins.
DispatchBegin ==
  /\ phase = "sdk"
  /\ dispatch_timer
  /\ dispatch_timer' = FALSE
  /\ next_dispatch' = 0
  /\ phase' = "loop"
  /\ i' = 0
  /\ UNCHANGED <<queueVars, dispatch_hook, tasks_pool, stm_ret_value, stm_state_temp, sig>>

\* Task i has a signal: take the oldest one and call the handler.
DispatchTake ==
  /\ phase = "loop"
  /\ i < TASKS_CNT
  /\ used[i] > 0
  /\ used' = [used EXCEPT ![i] = @ - 1]
  /\ sig' = buf[i][head[i]]
  /\ head' = [head EXCEPT ![i] = Wrap(@)]
  /\ phase' = "event"
  /\ UNCHANGED <<tail, buf, wakeVars, tasks_pool, stm_ret_value, stm_state_temp, i>>

\* Task i has none.
DispatchSkip ==
  /\ phase = "loop"
  /\ i < TASKS_CNT
  /\ used[i] = 0
  /\ i' = i + 1
  /\ UNCHANGED <<queueVars, wakeVars, tasks_pool, stm_ret_value, stm_state_temp, phase, sig>>

\* The loop is over; os_power_sleep does nothing in this build.
DispatchEnd ==
  /\ phase = "loop"
  /\ i = TASKS_CNT
  /\ phase' = "sdk"
  /\ UNCHANGED <<queueVars, wakeVars, tasks_pool, stm_ret_value, stm_state_temp, i, sig>>

\* Mutant: stm_ret_value is not reset, so the next task inherits the transition.
ReturnKeepsTran(ret, temp) ==
  /\ phase \in HandlerPhases
  /\ stm_state_temp' = temp
  /\ stm_ret_value' = ret
  /\ \/ /\ phase = "event" /\ ret
        /\ phase' = "exit" /\ sig' = STM_EXIT_SIG
        /\ UNCHANGED <<tasks_pool, i>>
     \/ /\ phase = "event" /\ ~ret
        /\ phase' = "loop" /\ i' = i + 1
        /\ UNCHANGED <<tasks_pool, sig>>
     \/ /\ phase = "exit"
        /\ phase' = "entry" /\ sig' = STM_ENTRY_SIG
        /\ UNCHANGED <<tasks_pool, i>>
     \/ /\ phase = "entry"
        /\ tasks_pool' = [tasks_pool EXCEPT ![i] = temp]
        /\ phase' = "loop" /\ i' = i + 1
        /\ UNCHANGED sig

\* Mutant: the pass ends with the first task that had an event.
ReturnEndsPass(ret, temp) ==
  /\ phase \in HandlerPhases
  /\ stm_state_temp' = temp
  /\ stm_ret_value' = (ret /\ phase # "event")
  /\ \/ /\ phase = "event" /\ ret
        /\ phase' = "exit" /\ sig' = STM_EXIT_SIG
        /\ UNCHANGED <<tasks_pool, i>>
     \/ /\ phase = "event" /\ ~ret
        /\ phase' = "loop" /\ i' = TASKS_CNT
        /\ UNCHANGED <<tasks_pool, sig>>
     \/ /\ phase = "exit"
        /\ phase' = "entry" /\ sig' = STM_ENTRY_SIG
        /\ UNCHANGED <<tasks_pool, i>>
     \/ /\ phase = "entry"
        /\ tasks_pool' = [tasks_pool EXCEPT ![i] = temp]
        /\ phase' = "loop" /\ i' = TASKS_CNT
        /\ UNCHANGED sig

(***************************************************************************)
(* The running handler returns to os_dispatch, leaving stm_ret_value = ret *)
(* and stm_state_temp = temp.  After an event the transition, if one was   *)
(* asked for, calls the old state with STM_EXIT_SIG; after that the new    *)
(* state with STM_ENTRY_SIG; after that tasks_pool is updated.             *)
(***************************************************************************)
ReturnWith(ret, temp) ==
  /\ phase \in HandlerPhases
  /\ stm_state_temp' = temp
  /\ stm_ret_value' = (ret /\ phase # "event")
  /\ \/ /\ phase = "event" /\ ret
        /\ phase' = "exit" /\ sig' = STM_EXIT_SIG
        /\ UNCHANGED <<tasks_pool, i>>
     \/ /\ phase = "event" /\ ~ret
        /\ phase' = "loop" /\ i' = i + 1
        /\ UNCHANGED <<tasks_pool, sig>>
     \/ /\ phase = "exit"
        /\ phase' = "entry" /\ sig' = STM_ENTRY_SIG
        /\ UNCHANGED <<tasks_pool, i>>
     \/ /\ phase = "entry"
        /\ tasks_pool' = [tasks_pool EXCEPT ![i] = temp]
        /\ phase' = "loop" /\ i' = i + 1
        /\ UNCHANGED sig

\* os_stm_tran
OsStmTran(h) ==
  /\ stm_ret_value' = TRUE
  /\ stm_state_temp' = h

\* Handler h is running for task t and signal s.
Running(t, h, s) ==
  /\ phase \in HandlerPhases
  /\ i = t
  /\ sig = s
  /\ h = IF phase = "entry" THEN stm_state_temp ELSE tasks_pool[t]

-----------------------------------------------------------------------------
(* Arbitrary callbacks and handlers *)

\* The running SDK callback or handler posts a message.
CallPost ==
  /\ dispatch_hook
  /\ phase # "loop"
  /\ \E t \in Tasks, s \in Events : OsPostMessage(t, s)
  /\ UNCHANGED loopVars

\* A handler asks for a transition.  All the handlers of app/task do this only
\* for events, never while they handle STM_ENTRY_SIG or STM_EXIT_SIG.
CallTran ==
  /\ phase = "event"
  /\ \E h \in Handlers : OsStmTran(h)
  /\ UNCHANGED <<queueVars, wakeVars, tasks_pool, phase, i, sig>>

HandlerReturn ==
  /\ ReturnWith(stm_ret_value, stm_state_temp)
  /\ UNCHANGED <<queueVars, wakeVars>>

Next ==
  \/ FsmInit
  \/ DispatchBegin
  \/ DispatchTake
  \/ DispatchSkip
  \/ DispatchEnd
  \/ HandlerReturn
  \/ CallPost
  \/ CallTran

Spec == Init /\ [][Next]_vars

(***************************************************************************)
(* The SDK fires an armed timer and the loop runs on: the CPU is not       *)
(* preempted for ever.  Handlers return.  Nobody is obliged to post.       *)
(***************************************************************************)
Fairness ==
  /\ WF_vars(DispatchBegin)
  /\ WF_vars(DispatchTake \/ DispatchSkip \/ DispatchEnd)
  /\ WF_vars(HandlerReturn)

FairSpec == Spec /\ Fairness
-----------------------------------------------------------------------------
(* Properties *)

TypeOK ==
  /\ head \in [Tasks -> Slots]
  /\ tail \in [Tasks -> Slots]
  /\ used \in [Tasks -> 0 .. QUEUE_SIZE]
  /\ buf \in [Tasks -> [Slots -> Signals]]
  /\ tasks_pool \in [Tasks -> Handlers]
  /\ stm_ret_value \in BOOLEAN
  /\ stm_state_temp \in Handlers
  /\ dispatch_hook \in BOOLEAN
  /\ next_dispatch \in {0, 1}
  /\ dispatch_timer \in BOOLEAN
  /\ phase \in Phases
  /\ i \in 0 .. TASKS_CNT
  /\ sig \in Signals
  /\ phase \in HandlerPhases => i \in Tasks

\* The slot k places after slot h, going round the ring.
SlotAfter(h, k) == IF h + k >= QUEUE_SIZE THEN h + k - QUEUE_SIZE ELSE h + k

\* The signals of task t that are still to be delivered, oldest first.
Pending(t) == [k \in 1 .. used[t] |-> buf[t][SlotAfter(head[t], k - 1)]]

(***************************************************************************)
(* The three counters of a ring agree: the slot os_post_message will write *)
(* is the one just behind the newest pending signal, so that no accepted   *)
(* signal is overwritten and none is delivered twice.                      *)
(***************************************************************************)
RingConsistent == \A t \in Tasks : tail[t] = SlotAfter(head[t], used[t])

(***************************************************************************)
(* next_dispatch ("another pass is about to happen") tells the truth: it   *)
(* is set exactly while the 0 ms timer is armed.  If it were ever set      *)
(* without the timer, os_post_message would never call the hook again and  *)
(* the firmware's event loop would stop for good.                          *)
(***************************************************************************)
WakeupArmed == (next_dispatch = 1) <=> dispatch_timer

(***************************************************************************)
(* A transition that is asked for is carried out, or not yet known to      *)
(* os_dispatch: stm_ret_value and stm_state_temp, which all the tasks      *)
(* share, never leak from one task's handler into the next task's.         *)
(***************************************************************************)
NoStrayTran == stm_ret_value => phase = "event"

(***************************************************************************)
(* Whoever posts, and wherever in a pass, an accepted message leaves a     *)
(* pass due: the fact that lets os_dispatch clear next_dispatch first and  *)
(* look at the queues afterwards.                                          *)
(***************************************************************************)
AcceptedPostWakes == [][(\E t \in Tasks : used'[t] > used[t]) => dispatch_timer']_vars

\* The rings implement first-in first-out lists of signals.
Fifo == INSTANCE EventFifo WITH
  Capacity <- QUEUE_SIZE,
  EntrySig <- STM_ENTRY_SIG,
  pending <- [t \in Tasks |-> Pending(t)],
  current <- IF phase = "event" THEN <<i, sig>> ELSE <<>>

ImplementsFifo == Fifo!Spec

TakenFrom(t) == phase = "event" /\ i = t

(***************************************************************************)
(* os_dispatch takes one message per task and does not ask for another     *)
(* pass when messages remain.  As long as passes keep being asked for (in  *)
(* the firmware, by the SYS_TICK timer) no task starves: a pending message *)
(* of any task leads to that task's handler being called.                  *)
(***************************************************************************)
DeliveredWithTraffic ==
  []<>(next_dispatch = 1) => \A t \in Tasks : used[t] > 0 ~> TakenFrom(t)
=============================================================================
