------------------------- MODULE NetworkTaskProofs -------------------------
(***************************************************************************)
(* What holds of the two state machines for rings and timer pools of any   *)
(* size and any periods: smartconfig runs in network_smart only, unless it *)
(* is started elsewhere by hand, whatever else the user does at the        *)
(* console; and on a device left alone the timers and the EDP client       *)
(* belong to the states they are started in, and no ring ever fills up.    *)
(***************************************************************************)
EXTENDS NetworkTask, TLAPS

TmP == INSTANCE SoftTimersProofs WITH
  Keys <- {SYS_TICK, NW_TICK, NW_CHECK},
  Timeouts <- {SysTickPeriod, NwTickPeriod, RegisterPeriod},
  ReArm <- TRUE,
  fired <- {}

Actors == {"driver_actor", "network_actor", "network_idle", "network_smart", "network_sta"}
Keys == {SYS_TICK, NW_TICK, NW_CHECK}
Periods == {SysTickPeriod, NwTickPeriod, RegisterPeriod}

-----------------------------------------------------------------------------
(* The queues *)

LEMMA Rings ==
  /\ Os!Tasks = {DRIVER_ID, NETWORK_ID}
  /\ Os!Slots = 0 .. QUEUE_SIZE - 1
  /\ QUEUE_SIZE \in Nat \ {0}
  /\ 0 \in Os!Slots
  BY NetworkTaskAssumption DEF Os!Tasks, Os!Slots, DRIVER_ID, NETWORK_ID

QueueTypes ==
  /\ head \in [Os!Tasks -> Os!Slots]
  /\ tail \in [Os!Tasks -> Os!Slots]
  /\ used \in [Os!Tasks -> 0 .. QUEUE_SIZE]
  /\ buf \in [Os!Tasks -> [Os!Slots -> Os!Signals]]
  /\ Os!RingConsistent

\* The signal of task t that is k places behind the oldest one.
Nth(t, k) == buf[t][Os!SlotAfter(head[t], k)]

\* The signals that wait for task t, and those that do not wait in front.
Waiting(t) == {Nth(t, k) : k \in 0 .. used[t] - 1}
Behind(t) == {Nth(t, k) : k \in 1 .. used[t] - 1}

LEMMA BehindWaits ==
  ASSUME NEW t
  PROVE  Behind(t) \subseteq Waiting(t)
  BY DEF Behind, Waiting

\* Going round the ring.
LEMMA WrapInSlots == ASSUME NEW h \in Os!Slots PROVE Os!Wrap(h) \in Os!Slots
  BY Rings DEF Os!Wrap

LEMMA RingSlots ==
  ASSUME NEW h \in Os!Slots, NEW n \in 0 .. QUEUE_SIZE
  PROVE  /\ Os!SlotAfter(h, n) \in Os!Slots
         /\ Os!SlotAfter(h, 0) = h
         /\ n < QUEUE_SIZE => /\ Os!SlotAfter(h, n + 1) = Os!Wrap(Os!SlotAfter(h, n))
                              /\ Os!SlotAfter(Os!Wrap(h), n) = Os!SlotAfter(h, n + 1)
  BY Rings DEF Os!Wrap, Os!SlotAfter

\* Different positions of a ring that is not full are different slots.
LEMMA RingInjective ==
  ASSUME NEW h \in Os!Slots, NEW m \in 0 .. QUEUE_SIZE - 1, NEW n \in 0 .. QUEUE_SIZE - 1,
         m # n
  PROVE  Os!SlotAfter(h, m) # Os!SlotAfter(h, n)
  BY Rings DEF Os!SlotAfter

\* What is stored is what waits afterwards, behind the others.
LEMMA Stored ==
  ASSUME QueueTypes, QueueTypes', NEW t \in Os!Tasks, NEW s,
         used[t] < QUEUE_SIZE, head'[t] = head[t], used'[t] = used[t] + 1,
         buf'[t] = [buf[t] EXCEPT ![tail[t]] = s]
  PROVE  /\ Waiting(t)' \subseteq Waiting(t) \cup {s}
         /\ Behind(t)' \subseteq Behind(t) \cup {s}
         /\ used[t] = 0 => Behind(t)' = {}
<1>1. /\ head[t] \in Os!Slots /\ used[t] \in 0 .. QUEUE_SIZE - 1
      /\ tail[t] = Os!SlotAfter(head[t], used[t]) /\ tail[t] \in Os!Slots
      /\ buf[t] \in [Os!Slots -> Os!Signals]
  <2>1. /\ head[t] \in Os!Slots /\ tail[t] \in Os!Slots /\ used[t] \in 0 .. QUEUE_SIZE
        /\ buf[t] \in [Os!Slots -> Os!Signals]
    BY DEF QueueTypes
  <2>2. tail[t] = Os!SlotAfter(head[t], used[t])
    BY DEF QueueTypes, Os!RingConsistent
  <2> QED
    BY <2>1, <2>2, Rings
<1>2. ASSUME NEW k \in 0 .. used[t]
      PROVE  /\ k = used[t] => Nth(t, k)' = s
             /\ k # used[t] => Nth(t, k)' = Nth(t, k)
  <2>1. Os!SlotAfter(head[t], k) \in Os!Slots
    <3>1. k \in 0 .. QUEUE_SIZE
      BY <1>1, Rings
    <3> QED
      BY <1>1, <3>1, RingSlots
  <2>2. Nth(t, k)' = buf'[t][Os!SlotAfter(head[t], k)]
    BY DEF Nth, Os!SlotAfter
  <2>3. CASE k = used[t]
    BY <1>1, <2>1, <2>2, <2>3
  <2>4. CASE k # used[t]
    <3>1. k \in 0 .. QUEUE_SIZE - 1
      BY <1>1, Rings
    <3>2. Os!SlotAfter(head[t], k) # tail[t]
      BY <1>1, <2>4, <3>1, RingInjective
    <3> QED
      BY <1>1, <2>1, <2>2, <2>4, <3>2 DEF Nth
  <2> QED
    BY <2>3, <2>4
<1>3. \A k : k \in 0 .. used'[t] - 1 <=> k \in 0 .. used[t]
  BY <1>1
<1>4. Waiting(t)' \subseteq Waiting(t) \cup {s}
  <2> SUFFICES ASSUME NEW k \in 0 .. used'[t] - 1 PROVE Nth(t, k)' \in Waiting(t) \cup {s}
    BY DEF Waiting
  <2>1. k \in 0 .. used[t]
    BY <1>3
  <2>2. CASE k = used[t]
    BY <1>2, <2>1, <2>2
  <2>3. CASE k # used[t]
    <3>1. k \in 0 .. used[t] - 1
      BY <1>1, <2>1, <2>3
    <3> QED
      BY <1>2, <2>1, <2>3, <3>1 DEF Waiting
  <2> QED
    BY <2>2, <2>3
<1>5. Behind(t)' \subseteq Behind(t) \cup {s}
  <2> SUFFICES ASSUME NEW k \in 1 .. used'[t] - 1 PROVE Nth(t, k)' \in Behind(t) \cup {s}
    BY DEF Behind
  <2>1. k \in 0 .. used[t] /\ k \in Nat \ {0}
    BY <1>1
  <2>2. CASE k = used[t]
    BY <1>2, <2>1, <2>2
  <2>3. CASE k # used[t]
    <3>1. k \in 1 .. used[t] - 1
      BY <1>1, <2>1, <2>3
    <3> QED
      BY <1>2, <2>1, <2>3, <3>1 DEF Behind
  <2> QED
    BY <2>2, <2>3
<1>6. used[t] = 0 => Behind(t)' = {}
  BY DEF Behind
<1> QED
  BY <1>4, <1>5, <1>6

LEMMA NotTouched ==
  ASSUME NEW t, head'[t] = head[t], used'[t] = used[t], buf'[t] = buf[t]
  PROVE  Waiting(t)' = Waiting(t) /\ Behind(t)' = Behind(t)
  BY DEF Waiting, Behind, Nth, Os!SlotAfter

\* No signal waits for task t that did not wait before or is in S.
Gains(t, S) ==
  /\ Waiting(t)' \subseteq Waiting(t) \cup S
  /\ Behind(t)' \subseteq Behind(t) \cup S

LEMMA QueuesKept ==
  ASSUME QueueTypes, UNCHANGED <<head, tail, used, buf>>
  PROVE  QueueTypes' /\ \A u \in Os!Tasks : Gains(u, {})
<1>1. QueueTypes'
  BY DEF QueueTypes, Os!RingConsistent, Os!SlotAfter
<1>2. \A u \in Os!Tasks : Gains(u, {})
  BY NotTouched DEF Gains
<1> QED
  BY <1>1, <1>2

\* os_post_message, whether or not there is room.
LEMMA PostQueues ==
  ASSUME QueueTypes, NEW t \in Os!Tasks, NEW s \in Os!Signals, Post(t, s)
  PROVE  QueueTypes' /\ \A u \in Os!Tasks : Gains(u, IF u = t THEN {s} ELSE {})
<1>1. CASE UNCHANGED <<head, tail, used, buf>>
  <2>1. QueueTypes' /\ \A u \in Os!Tasks : Gains(u, {})
    BY <1>1, QueuesKept
  <2> QED
    BY <2>1 DEF Gains
<1>2. CASE used[t] < QUEUE_SIZE /\ Os!Enqueue(t, s)
  <2>1. /\ head' = head
        /\ tail' = [tail EXCEPT ![t] = Os!Wrap(tail[t])]
        /\ used' = [used EXCEPT ![t] = used[t] + 1]
        /\ buf' = [buf EXCEPT ![t] = [buf[t] EXCEPT ![tail[t]] = s]]
    BY <1>2 DEF Os!Enqueue, QueueTypes
  <2>2. used[t] \in 0 .. QUEUE_SIZE - 1 /\ tail[t] \in Os!Slots /\ head[t] \in Os!Slots
        /\ tail[t] = Os!SlotAfter(head[t], used[t])
    <3>1. used[t] \in 0 .. QUEUE_SIZE /\ tail[t] \in Os!Slots /\ head[t] \in Os!Slots
      BY DEF QueueTypes
    <3>2. tail[t] = Os!SlotAfter(head[t], used[t])
      BY DEF QueueTypes, Os!RingConsistent
    <3> QED
      BY <1>2, <3>1, <3>2, Rings
  <2>3. /\ head' \in [Os!Tasks -> Os!Slots]
        /\ tail' \in [Os!Tasks -> Os!Slots]
        /\ used' \in [Os!Tasks -> 0 .. QUEUE_SIZE]
        /\ buf' \in [Os!Tasks -> [Os!Slots -> Os!Signals]]
    <3>1. Os!Wrap(tail[t]) \in Os!Slots
      BY <2>2, WrapInSlots
    <3>2. used[t] + 1 \in 0 .. QUEUE_SIZE
      BY <2>2, Rings
    <3>3. [buf[t] EXCEPT ![tail[t]] = s] \in [Os!Slots -> Os!Signals]
      BY <2>2 DEF QueueTypes
    <3> QED
      BY <2>1, <3>1, <3>2, <3>3 DEF QueueTypes
  <2>4. Os!RingConsistent'
    <3> SUFFICES ASSUME NEW u \in Os!Tasks
                 PROVE  tail'[u] = Os!SlotAfter(head'[u], used'[u])
      BY DEF Os!RingConsistent, Os!SlotAfter
    <3>1. CASE u = t
      <4>1. tail'[u] = Os!Wrap(tail[t]) /\ used'[u] = used[t] + 1
        BY <2>1, <3>1 DEF QueueTypes
      <4>2. used[t] \in 0 .. QUEUE_SIZE /\ used[t] < QUEUE_SIZE
        BY <2>2, Rings
      <4>3. Os!SlotAfter(head[t], used[t] + 1) = Os!Wrap(Os!SlotAfter(head[t], used[t]))
        BY <2>2, <4>2, RingSlots
      <4> QED
        BY <2>1, <2>2, <3>1, <4>1, <4>3
    <3>2. CASE u # t
      BY <2>1, <3>2 DEF QueueTypes, Os!RingConsistent
    <3> QED
      BY <3>1, <3>2
  <2>5. QueueTypes'
    BY <2>3, <2>4 DEF QueueTypes
  <2>6. Gains(t, {s})
    <3>1. used'[t] = used[t] + 1 /\ buf'[t] = [buf[t] EXCEPT ![tail[t]] = s]
      BY <2>1 DEF QueueTypes
    <3> QED
      BY <1>2, <2>1, <2>5, <3>1, Stored DEF Gains
  <2>7. ASSUME NEW u \in Os!Tasks, u # t PROVE Gains(u, {})
    BY <2>1, <2>7, NotTouched DEF Gains, QueueTypes
  <2> QED
    BY <2>5, <2>6, <2>7
<1> QED
  BY <1>1, <1>2 DEF Post, Os!OsPostMessage, Os!queueVars

\* Taking the oldest signal leaves those behind it.
LEMMA TakeQueues ==
  ASSUME QueueTypes, NEW t \in Os!Tasks, t = i, Os!DispatchTake
  PROVE  /\ QueueTypes'
         /\ sig' \in Waiting(t) /\ sig' \in Os!Signals
         /\ Waiting(t)' \subseteq Behind(t)
         /\ \A u \in Os!Tasks : Gains(u, {})
<1>1. /\ head[t] \in Os!Slots /\ used[t] \in 1 .. QUEUE_SIZE
      /\ tail[t] = Os!SlotAfter(head[t], used[t])
      /\ buf[t] \in [Os!Slots -> Os!Signals]
  <2>1. head[t] \in Os!Slots /\ used[t] \in 0 .. QUEUE_SIZE /\ used[t] > 0
        /\ buf[t] \in [Os!Slots -> Os!Signals]
    BY DEF QueueTypes, Os!DispatchTake
  <2>2. tail[t] = Os!SlotAfter(head[t], used[t])
    BY DEF QueueTypes, Os!RingConsistent
  <2> QED
    BY <2>1, <2>2, Rings
<1>2. /\ head' = [head EXCEPT ![t] = Os!Wrap(head[t])]
      /\ used' = [used EXCEPT ![t] = used[t] - 1]
      /\ UNCHANGED <<tail, buf>>
      /\ sig' = buf[t][head[t]]
  BY DEF Os!DispatchTake, QueueTypes
<1>3. head'[t] = Os!Wrap(head[t]) /\ used'[t] = used[t] - 1 /\ used[t] - 1 \in 0 .. QUEUE_SIZE
  BY <1>1, <1>2, Rings DEF QueueTypes
<1>4. \A k \in 0 .. used'[t] - 1 : Nth(t, k)' = Nth(t, k + 1)
  <2> SUFFICES ASSUME NEW k \in 0 .. used'[t] - 1 PROVE Nth(t, k)' = Nth(t, k + 1)
    OBVIOUS
  <2>1. k \in 0 .. QUEUE_SIZE /\ k < QUEUE_SIZE
    BY <1>1, <1>3, Rings
  <2>2. Os!SlotAfter(Os!Wrap(head[t]), k) = Os!SlotAfter(head[t], k + 1)
    BY <1>1, <2>1, RingSlots
  <2>3. Nth(t, k)' = buf'[t][Os!SlotAfter(head'[t], k)]
    BY DEF Nth, Os!SlotAfter
  <2> QED
    BY <1>2, <1>3, <2>2, <2>3 DEF Nth
<1>5. Waiting(t)' \subseteq Behind(t)
  <2> SUFFICES ASSUME NEW k \in 0 .. used'[t] - 1 PROVE Nth(t, k)' \in Behind(t)
    BY DEF Waiting
  <2>1. k + 1 \in 1 .. used[t] - 1
    BY <1>1, <1>3, Rings
  <2> QED
    BY <1>4, <2>1 DEF Behind
<1>6. sig' \in Waiting(t) /\ sig' \in Os!Signals
  <2>1. sig' = Nth(t, 0) /\ 0 \in 0 .. used[t] - 1
    <3>1. Os!SlotAfter(head[t], 0) = head[t]
      <4>1. 0 \in 0 .. QUEUE_SIZE
        BY Rings
      <4> QED
        BY <1>1, <4>1, RingSlots
    <3> QED
      BY <1>1, <1>2, <3>1, Rings DEF Nth
  <2>2. sig' \in Os!Signals
    BY <1>1, <1>2
  <2> QED
    BY <2>1, <2>2 DEF Waiting
<1>7. \A u \in Os!Tasks : Gains(u, {})
  <2>1. Gains(t, {})
    <3>1. Behind(t)' \subseteq Waiting(t)'
      BY DEF Behind, Waiting, Nth, Os!SlotAfter
    <3> QED
      BY <1>5, <3>1, BehindWaits DEF Gains
  <2>2. ASSUME NEW u \in Os!Tasks, u # t PROVE Gains(u, {})
    BY <1>2, <2>2, NotTouched DEF Gains, QueueTypes
  <2> QED
    BY <2>1, <2>2
<1>8. QueueTypes'
  <2>1. /\ head' \in [Os!Tasks -> Os!Slots]
        /\ tail' \in [Os!Tasks -> Os!Slots]
        /\ used' \in [Os!Tasks -> 0 .. QUEUE_SIZE]
        /\ buf' \in [Os!Tasks -> [Os!Slots -> Os!Signals]]
    <3>1. Os!Wrap(head[t]) \in Os!Slots
      BY <1>1, WrapInSlots
    <3> QED
      BY <1>2, <1>3, <3>1 DEF QueueTypes
  <2>2. Os!RingConsistent'
    <3> SUFFICES ASSUME NEW u \in Os!Tasks
                 PROVE  tail'[u] = Os!SlotAfter(head'[u], used'[u])
      BY DEF Os!RingConsistent, Os!SlotAfter
    <3>1. CASE u = t
      <4>1. used[t] - 1 < QUEUE_SIZE /\ (used[t] - 1) + 1 = used[t]
        BY <1>1, Rings
      <4>2. Os!SlotAfter(Os!Wrap(head[t]), used[t] - 1) = Os!SlotAfter(head[t], (used[t] - 1) + 1)
        BY <1>1, <1>3, <4>1, RingSlots
      <4> QED
        BY <1>1, <1>2, <1>3, <3>1, <4>1, <4>2
    <3>2. CASE u # t
      BY <1>2, <3>2 DEF QueueTypes, Os!RingConsistent
    <3> QED
      BY <3>1, <3>2
  <2> QED
    BY <2>1, <2>2 DEF QueueTypes
<1> QED
  BY <1>5, <1>6, <1>7, <1>8

\* fsm_init posts STM_ENTRY_SIG to every task that has room.
LEMMA FsmInitQueues ==
  ASSUME QueueTypes, Os!FsmInit
  PROVE  /\ QueueTypes'
         /\ \A u \in Os!Tasks :
              /\ Waiting(u)' \subseteq Waiting(u) \cup {"STM_ENTRY_SIG"}
              /\ used[u] = 0 => Behind(u)' = {}
<1>1. ASSUME NEW u \in Os!Tasks
      PROVE  /\ head[u] \in Os!Slots /\ tail[u] \in Os!Slots /\ used[u] \in 0 .. QUEUE_SIZE
             /\ buf[u] \in [Os!Slots -> Os!Signals] /\ head'[u] = head[u]
             /\ tail[u] = Os!SlotAfter(head[u], used[u])
  <2>1. tail[u] = Os!SlotAfter(head[u], used[u])
    BY DEF QueueTypes, Os!RingConsistent
  <2> QED
    BY <2>1 DEF QueueTypes, Os!FsmInit
<1>2. ASSUME NEW u \in Os!Tasks, used[u] < QUEUE_SIZE
      PROVE  /\ tail'[u] = Os!Wrap(tail[u])
             /\ used'[u] = used[u] + 1
             /\ buf'[u] = [buf[u] EXCEPT ![tail[u]] = "STM_ENTRY_SIG"]
  BY <1>2 DEF Os!FsmInit, Os!HasRoom, Os!STM_ENTRY_SIG
<1>3. ASSUME NEW u \in Os!Tasks, ~(used[u] < QUEUE_SIZE)
      PROVE  tail'[u] = tail[u] /\ used'[u] = used[u] /\ buf'[u] = buf[u]
  BY <1>3 DEF Os!FsmInit, Os!HasRoom
<1>4. ASSUME NEW u \in Os!Tasks
      PROVE  /\ tail'[u] \in Os!Slots /\ used'[u] \in 0 .. QUEUE_SIZE
             /\ buf'[u] \in [Os!Slots -> Os!Signals]
             /\ tail'[u] = Os!SlotAfter(head'[u], used'[u])
  <2>1. CASE used[u] < QUEUE_SIZE
    <3>1. "STM_ENTRY_SIG" \in Os!Signals
      BY DEF Os!Signals, Os!STM_ENTRY_SIG
    <3>2. used[u] + 1 \in 0 .. QUEUE_SIZE
      BY <1>1, <2>1, Rings
    <3>3. Os!Wrap(tail[u]) \in Os!Slots /\ Os!Wrap(tail[u]) = Os!SlotAfter(head[u], used[u] + 1)
      <4>1. Os!SlotAfter(head[u], used[u] + 1) = Os!Wrap(Os!SlotAfter(head[u], used[u]))
        BY <1>1, <2>1, RingSlots
      <4> QED
        BY <1>1, <4>1, WrapInSlots
    <3> QED
      BY <1>1, <1>2, <2>1, <3>1, <3>2, <3>3
  <2>2. CASE ~(used[u] < QUEUE_SIZE)
    BY <1>1, <1>3, <2>2
  <2> QED
    BY <2>1, <2>2
<1>5. QueueTypes'
  <2>1. /\ head' = head
        /\ tail' = [u \in Os!Tasks |-> tail'[u]]
        /\ used' = [u \in Os!Tasks |-> used'[u]]
        /\ buf' = [u \in Os!Tasks |-> buf'[u]]
    BY DEF Os!FsmInit
  <2>2. /\ head' \in [Os!Tasks -> Os!Slots]
        /\ tail' \in [Os!Tasks -> Os!Slots]
        /\ used' \in [Os!Tasks -> 0 .. QUEUE_SIZE]
        /\ buf' \in [Os!Tasks -> [Os!Slots -> Os!Signals]]
    BY <1>4, <2>1 DEF QueueTypes
  <2>3. Os!RingConsistent'
    BY <1>4 DEF Os!RingConsistent, Os!SlotAfter
  <2> QED
    BY <2>2, <2>3 DEF QueueTypes
<1>6. ASSUME NEW u \in Os!Tasks
      PROVE  /\ Waiting(u)' \subseteq Waiting(u) \cup {"STM_ENTRY_SIG"}
             /\ used[u] = 0 => Behind(u)' = {}
  <2>1. CASE used[u] < QUEUE_SIZE
    BY <1>1, <1>2, <1>5, <2>1, Stored
  <2>2. CASE ~(used[u] < QUEUE_SIZE)
    <3>1. Waiting(u)' = Waiting(u)
      BY <1>1, <1>3, <2>2, NotTouched
    <3>2. used[u] # 0
      BY <2>2, Rings
    <3> QED
      BY <3>1, <3>2
  <2> QED
    BY <2>1, <2>2
<1> QED
  BY <1>5, <1>6

-----------------------------------------------------------------------------
(* Handlers *)

(***************************************************************************)
(* A handler asks for a transition only for an event, and it returns in    *)
(* the same step, so that stm_ret_value is never left set.  Outside an     *)
(* event the signal is that of the phase.                                  *)
(***************************************************************************)
LoopTypes ==
  /\ tasks_pool \in [Os!Tasks -> Actors]
  /\ stm_state_temp \in Actors
  /\ phase \in Os!Phases
  /\ i \in 0 .. 2
  /\ sig \in Os!Signals
  /\ phase \in Os!HandlerPhases => i \in Os!Tasks
  /\ stm_ret_value = FALSE
  /\ phase = "exit" => sig = "STM_EXIT_SIG"
  /\ phase = "entry" => sig = "STM_ENTRY_SIG"

\* The handler that runs returns at the end of the step, with or without a transition.
Returns == Os!ReturnWith(FALSE, stm_state_temp)
Moves(h) == phase = "event" /\ Os!ReturnWith(TRUE, h)

\* Only the events of Handled move the network machine, and not into network_actor.
LEMMA HandlerReturns ==
  ASSUME LoopTypes, HandlerStep
  PROVE  \/ Returns
         \/ /\ \E h \in {"network_idle", "network_smart", "network_sta"} : Moves(h)
            /\ i = NETWORK_ID /\ sig \notin {"STM_ENTRY_SIG", "STM_EXIT_SIG"}
            /\ tasks_pool[NETWORK_ID] # "network_sta"
            /\ tasks_pool[NETWORK_ID] = "network_actor" => sig = "NW_TRAN_IDLE_EVT"
<1>1. CASE \/ DriverEntry \/ DriverIgnores \/ ActorEntry \/ ActorTranAp \/ IdleEntry \/ IdleExit
           \/ IdleTickOffline \/ SmartEntry \/ SmartExit \/ StaEntry \/ StaExit \/ StaUpgrade
           \/ NetworkIgnores
  <2>1. Return
    BY <1>1 DEF DriverEntry, DriverIgnores, ActorEntry, ActorTranAp, IdleEntry, IdleExit,
                IdleTickOffline, SmartEntry, SmartExit, StaEntry, StaExit, StaUpgrade,
                NetworkIgnores
  <2> QED
    BY <2>1 DEF Return, Returns, LoopTypes
<1>2. ASSUME NEW h \in Actors, NEW s, NEW new, NetworkRuns(h, s), ReturnTran(new),
             s \notin {"STM_ENTRY_SIG", "STM_EXIT_SIG"}
      PROVE  Moves(new) /\ i = NETWORK_ID /\ sig = s /\ tasks_pool[NETWORK_ID] = h
  BY <1>2 DEF NetworkRuns, Os!Running, ReturnTran, Moves, LoopTypes, Os!HandlerPhases
<1>3. CASE ActorTranIdle
  BY <1>2, <1>3 DEF ActorTranIdle, Actors
<1>4. CASE IdleTranSmart \/ IdleTickOnline
  BY <1>2, <1>4 DEF IdleTranSmart, IdleTickOnline, Actors
<1>5. CASE SmartOk \/ SmartTimeout
  BY <1>2, <1>5 DEF SmartOk, SmartTimeout, Actors
<1> QED
  BY <1>1, <1>3, <1>4, <1>5 DEF HandlerStep

\* What a return does to the loop's variables.
LEMMA ReturnTypes ==
  ASSUME LoopTypes, NEW ret \in BOOLEAN, NEW temp \in Actors, Os!ReturnWith(ret, temp),
         ret => phase = "event"
  PROVE  LoopTypes'
<1>1. i \in Os!Tasks /\ i + 1 \in 0 .. 2
  BY Rings DEF LoopTypes, Os!ReturnWith, DRIVER_ID, NETWORK_ID
<1>2. tasks_pool' \in [Os!Tasks -> Actors] /\ stm_state_temp' \in Actors
  BY <1>1 DEF LoopTypes, Os!ReturnWith
<1>3. stm_ret_value' = FALSE
  BY DEF LoopTypes, Os!ReturnWith
<1>4. /\ phase' \in Os!Phases /\ i' \in 0 .. 2 /\ sig' \in Os!Signals
      /\ phase' \in Os!HandlerPhases => i' \in Os!Tasks
      /\ phase' = "exit" => sig' = "STM_EXIT_SIG"
      /\ phase' = "entry" => sig' = "STM_ENTRY_SIG"
  BY <1>1 DEF LoopTypes, Os!ReturnWith, Os!Phases, Os!HandlerPhases, Os!Signals,
              Os!STM_ENTRY_SIG, Os!STM_EXIT_SIG
<1> QED
  BY <1>2, <1>3, <1>4 DEF LoopTypes

LEMMA LoopKept ==
  ASSUME LoopTypes, UNCHANGED <<tasks_pool, stm_ret_value, stm_state_temp, phase, i, sig>>
  PROVE  LoopTypes'
  BY DEF LoopTypes

LEMMA HandlerLoop == ASSUME LoopTypes, HandlerStep PROVE LoopTypes'
<1>1. CASE Returns
  BY <1>1, ReturnTypes DEF Returns, LoopTypes
<1>2. ASSUME NEW h \in {"network_idle", "network_smart", "network_sta"}, Moves(h)
      PROVE  LoopTypes'
  BY <1>2, ReturnTypes DEF Moves, Actors
<1> QED
  BY <1>1, <1>2, HandlerReturns

\* What a handler posts, if anything.
LEMMA HandlerPosts ==
  ASSUME HandlerStep
  PROVE  \/ NoPost
         \/ DriverEntry /\ Post(NETWORK_ID, "NW_TRAN_SMART_EVT")
         \/ ActorEntry /\ Post(NETWORK_ID, "NW_TRAN_IDLE_EVT")
  BY DEF HandlerStep, DriverEntry, DriverIgnores, ActorEntry, ActorTranIdle, ActorTranAp, IdleEntry,
         IdleExit, IdleTranSmart, IdleTickOnline, IdleTickOffline, SmartEntry, SmartExit, SmartOk,
         SmartTimeout, StaEntry, StaExit, StaUpgrade, NetworkIgnores

\* What a handler does to the timers.
LEMMA HandlerTimers ==
  ASSUME HandlerStep
  PROVE  \/ NoTimer
         \/ DriverEntry /\ StartTimer(SYS_TICK, SysTickPeriod)
         \/ IdleEntry /\ StartTimer(NW_TICK, NwTickPeriod)
         \/ IdleExit /\ StopTimer(NW_TICK)
         \/ StaEntry /\ StartTimer(NW_CHECK, RegisterPeriod)
         \/ StaExit /\ StopTimer(NW_CHECK)
  BY DEF HandlerStep, DriverEntry, DriverIgnores, ActorEntry, ActorTranIdle, ActorTranAp, IdleEntry,
         IdleExit, IdleTranSmart, IdleTickOnline, IdleTickOffline, SmartEntry, SmartExit, SmartOk,
         SmartTimeout, StaEntry, StaExit, StaUpgrade, NetworkIgnores

-----------------------------------------------------------------------------
(* The timer pool *)

Slot == [key : Keys \cup {NoKey}, reloading : BOOLEAN, timeout : Nat, reload : Nat]

TimerTypes ==
  /\ timer_pool \in [Tm!TimerIds -> Slot]
  /\ scan \in 0 .. TIMER_CNT

LEMMA PoolFacts ==
  /\ TmP!SoftTimersAssumption
  /\ Tm!TimerIds = 0 .. TIMER_CNT - 1
  /\ TIMER_CNT \in Nat /\ 0 \in Tm!TimerIds /\ 1 \in Tm!TimerIds /\ 2 \in Tm!TimerIds
  /\ NoKey \notin Keys /\ Periods \subseteq Nat
<1>1. TmP!SoftTimersAssumption
  BY NetworkTaskAssumption DEF TmP!SoftTimersAssumption
<1> QED
  BY <1>1, NetworkTaskAssumption DEF Tm!TimerIds, Keys, Periods

LEMMA FirstSlot ==
  ASSUME NEW S \in SUBSET Tm!TimerIds, S # {}
  PROVE  Tm!First(S) \in S
<1>1. TmP!First(S) \in S
  BY PoolFacts, TmP!FirstInSet DEF TmP!TimerIds, Tm!TimerIds
<1> QED
  BY <1>1 DEF TmP!First, Tm!First

\* The three tasks' timers are different ones.
LEMMA DistinctKeys ==
  /\ SYS_TICK \in Keys /\ NW_TICK \in Keys /\ NW_CHECK \in Keys
  /\ SYS_TICK # NW_TICK /\ SYS_TICK # NW_CHECK /\ NW_TICK # NW_CHECK
  BY DEF Keys, SYS_TICK, NW_TICK, NW_CHECK, DRIVER_ID, NETWORK_ID

\* Starting a timer gives it one slot, its own or a free one, or none if there is none.
LEMMA StartSlot ==
  ASSUME TimerTypes, NEW k \in Keys, NEW p \in Nat, Tm!OsReloadTimerSet(k, p)
  PROVE  \/ Tm!Candidates(k) = {} /\ timer_pool' = timer_pool
         \/ \E j \in Tm!Candidates(k), slot \in Slot :
              /\ timer_pool' = [timer_pool EXCEPT ![j] = slot]
              /\ slot.key = k
              /\ slot.reloading = TRUE \/ (timer_pool[j].key = k /\ slot.reloading = timer_pool[j].reloading)
<1>1. CASE Tm!Candidates(k) = {}
  BY <1>1 DEF Tm!OsReloadTimerSet
<1>2. CASE Tm!Candidates(k) # {}
  <2> DEFINE j == Tm!First(Tm!Candidates(k))
             old == timer_pool[j]
             slot == IF old.key = k THEN [old EXCEPT !.reload = p]
                     ELSE [key |-> k, timeout |-> p, reload |-> p, reloading |-> TRUE]
  <2>1. Tm!Candidates(k) \in SUBSET Tm!TimerIds
    BY DEF Tm!Candidates, Tm!Having
  <2>2. j \in Tm!Candidates(k) /\ j \in Tm!TimerIds
    BY <1>2, <2>1, FirstSlot
  <2>3. timer_pool' = [timer_pool EXCEPT ![j] = slot]
    BY <1>2, <2>2 DEF Tm!OsReloadTimerSet, TimerTypes
  <2>4. old \in Slot
    BY <2>2 DEF TimerTypes
  <2>5. slot \in Slot /\ slot.key = k
        /\ (slot.reloading = TRUE \/ (old.key = k /\ slot.reloading = old.reloading))
    BY <2>4 DEF Slot
  <2> HIDE DEF slot, j
  <2> QED
    BY <2>2, <2>3, <2>5
<1> QED
  BY <1>1, <1>2

\* Deleting a timer frees the first slot that has its key.
LEMMA StopSlot ==
  ASSUME TimerTypes, NEW k \in Keys, Tm!OsTimerDel(k)
  PROVE  \/ Tm!Having(k) = {} /\ timer_pool' = timer_pool
         \/ \E j \in Tm!Having(k), slot \in Slot :
              timer_pool' = [timer_pool EXCEPT ![j] = slot] /\ slot.key = NoKey
<1>1. CASE Tm!Having(k) = {}
  BY <1>1 DEF Tm!OsTimerDel, Tm!Running
<1>2. CASE Tm!Having(k) # {}
  <2> DEFINE j == Tm!First(Tm!Having(k))
             old == timer_pool[j]
             slot == [old EXCEPT !.key = NoKey, !.reloading = FALSE]
  <2>1. Tm!Having(k) \in SUBSET Tm!TimerIds
    BY DEF Tm!Having
  <2>2. j \in Tm!Having(k) /\ j \in Tm!TimerIds
    BY <1>2, <2>1, FirstSlot
  <2>3. timer_pool' = [timer_pool EXCEPT ![j] = slot]
    BY <1>2, <2>2 DEF Tm!OsTimerDel, Tm!Running, TimerTypes
  <2>4. old \in Slot
    BY <2>2 DEF TimerTypes
  <2>5. slot \in Slot /\ slot.key = NoKey
    BY <2>4 DEF Slot
  <2> HIDE DEF slot, j
  <2> QED
    BY <2>2, <2>3, <2>5
<1> QED
  BY <1>1, <1>2

LEMMA HandlerTimerTypes == ASSUME TimerTypes, HandlerStep PROVE TimerTypes'
<1>1. ASSUME NEW k \in Keys, NEW p \in Nat, StartTimer(k, p) PROVE TimerTypes'
  <2>1. Tm!OsReloadTimerSet(k, p) /\ scan' = scan
    BY <1>1 DEF StartTimer
  <2>2. timer_pool' \in [Tm!TimerIds -> Slot]
    BY <2>1, StartSlot DEF TimerTypes
  <2> QED
    BY <2>1, <2>2 DEF TimerTypes
<1>2. ASSUME NEW k \in Keys, StopTimer(k) PROVE TimerTypes'
  <2>1. Tm!OsTimerDel(k) /\ scan' = scan
    BY <1>2 DEF StopTimer
  <2>2. timer_pool' \in [Tm!TimerIds -> Slot]
    BY <2>1, StopSlot DEF TimerTypes
  <2> QED
    BY <2>1, <2>2 DEF TimerTypes
<1>3. CASE NoTimer
  BY <1>3 DEF NoTimer, timerVars, TimerTypes
<1>4. SysTickPeriod \in Nat /\ NwTickPeriod \in Nat /\ RegisterPeriod \in Nat
  BY NetworkTaskAssumption
<1> QED
  BY <1>1, <1>2, <1>3, <1>4, HandlerTimers, DistinctKeys

\* The scan counts and reloads; it frees a slot only if its timer is not reloading.
LEMMA ScanSlot ==
  ASSUME TimerTypes, Tm!NextSlot, Tm!SkipFree \/ Tm!CountDown \/ Tm!Expire
  PROVE  /\ TimerTypes'
         /\ \A j \in Tm!TimerIds :
              \/ /\ timer_pool'[j].key = timer_pool[j].key
                 /\ timer_pool'[j].reloading = timer_pool[j].reloading
              \/ timer_pool[j].key # NoKey /\ ~timer_pool[j].reloading
<1>1. scan \in Tm!TimerIds /\ scan' \in 0 .. TIMER_CNT
  BY PoolFacts DEF Tm!NextSlot, TimerTypes
<1> DEFINE old == timer_pool[scan]
<1>2. old \in Slot
  BY <1>1 DEF TimerTypes
<1>3. CASE Tm!SkipFree
  BY <1>1, <1>3 DEF Tm!SkipFree, TimerTypes
<1>4. CASE Tm!CountDown
  <2> DEFINE slot == [old EXCEPT !.timeout = old.timeout - 1]
  <2>1. timer_pool' = [timer_pool EXCEPT ![scan] = slot]
    BY <1>1, <1>4 DEF Tm!CountDown, TimerTypes
  <2>2. slot \in Slot /\ slot.key = old.key /\ slot.reloading = old.reloading
    BY <1>2, <1>4 DEF Tm!CountDown, Slot
  <2> HIDE DEF slot
  <2> QED
    BY <1>1, <2>1, <2>2 DEF TimerTypes
<1>5. CASE Tm!Expire
  <2> DEFINE slot == IF old.reloading THEN [old EXCEPT !.timeout = old.reload]
                     ELSE [old EXCEPT !.key = NoKey]
  <2>1. timer_pool' = [timer_pool EXCEPT ![scan] = slot] /\ old.key # NoKey
    BY <1>1, <1>5 DEF Tm!Expire, TimerTypes
  <2>2. slot \in Slot /\ (old.reloading => slot.key = old.key /\ slot.reloading = old.reloading)
    BY <1>2 DEF Slot
  <2> HIDE DEF slot
  <2> QED
    BY <1>1, <2>1, <2>2 DEF TimerTypes
<1> QED
  BY <1>3, <1>4, <1>5

-----------------------------------------------------------------------------
(* What every step does to the queues, the loop and the pool *)

Signals == NetEvents \cup {"STM_ENTRY_SIG", "STM_EXIT_SIG"}

LEMMA SignalsAre == Os!Signals = Signals /\ DRIVER_ID \in Os!Tasks /\ NETWORK_ID \in Os!Tasks
  BY Rings DEF Signals, Os!Signals, Os!STM_ENTRY_SIG, Os!STM_EXIT_SIG

LEMMA KeyParts ==
  ASSUME NEW key \in Keys
  PROVE  key[1] \in Os!Tasks /\ key[2] \in NetEvents \cap {"SYS_TICK_EVT", "NW_TICK_EVT", "NW_CHECK_REGISTER_EVT"}
  BY SignalsAre DEF Keys, SYS_TICK, NW_TICK, NW_CHECK, NetEvents

\* Posting happens outside the dispatch loop, or in the two handlers that post.
Posts ==
  \/ \E t \in Os!Tasks, s \in Os!Signals : ConsolePost /\ Post(t, s)
  \/ SmartlinkOver /\ Post(NETWORK_ID, "NW_SMART_OK_EVT")
  \/ \E key \in Keys : TickExpire /\ Post(key[1], key[2])
  \/ DriverEntry /\ Post(NETWORK_ID, "NW_TRAN_SMART_EVT")
  \/ ActorEntry /\ Post(NETWORK_ID, "NW_TRAN_IDLE_EVT")

QueueFrame == UNCHANGED <<head, tail, used, buf, dispatch_hook>>
Wakes == UNCHANGED <<next_dispatch, dispatch_timer>>

LEMMA StepQueues ==
  ASSUME TimerTypes, [Next]_vars
  PROVE  \/ QueueFrame
         \/ Posts
         \/ DispatchLoop /\ Os!DispatchTake
         \/ (SystemInitDone \/ ConsoleInit) /\ Os!FsmInit
<1>1. CASE HandlerStep
  BY <1>1, HandlerPosts DEF Posts, NoPost, QueueFrame
<1>2. CASE TickExpire
  <2>1. scan \in Tm!TimerIds
    BY <1>2, PoolFacts DEF TickExpire, Tm!NextSlot, TimerTypes
  <2>2. timer_pool[scan].key \in Keys
    BY <1>2, <2>1 DEF TickExpire, Tm!Expire, TimerTypes, Slot
  <2> QED
    BY <1>2, <2>2 DEF TickExpire, Posts
<1>3. CASE ConsolePost
  <2>1. PICK t \in Os!Tasks, s \in Os!Signals : Post(t, s)
    BY <1>3 DEF ConsolePost
  <2> QED
    BY <1>3, <2>1 DEF Posts
<1>4. CASE SmartlinkOver
  BY <1>4 DEF SmartlinkOver, Posts
<1>5. CASE DispatchLoop
  BY <1>5 DEF DispatchLoop, Os!DispatchSkip, Os!DispatchEnd, Os!queueVars, Os!wakeVars, QueueFrame
<1>6. CASE SystemInitDone \/ ConsoleInit
  BY <1>6 DEF SystemInitDone, ConsoleInit, FsmInit
<1>7. CASE DispatchBegin \/ TickBegin \/ TickSlot \/ WifiUp \/ WifiDown \/ SmartlinkLink
           \/ ClientFreed \/ ConsoleSdk \/ UNCHANGED vars
  BY <1>7 DEF DispatchBegin, Os!DispatchBegin, Os!queueVars, TickBegin, TickSlot, WifiUp, WifiDown,
              SmartlinkLink, ClientFreed, ConsoleSdk, vars, osVars, QueueFrame
<1> QED
  BY <1>1, <1>2, <1>3, <1>4, <1>5, <1>6, <1>7 DEF Next, DeviceStep

\* A post of any kind is one of a signal to a task.
LEMMA PostsAre ==
  ASSUME Posts
  PROVE  \E t \in Os!Tasks, s \in Os!Signals : Post(t, s)
<1>1. {"NW_SMART_OK_EVT", "NW_TRAN_SMART_EVT", "NW_TRAN_IDLE_EVT"} \subseteq Signals
  BY DEF Signals, NetEvents
<1>2. \A key \in Keys : key[1] \in Os!Tasks /\ key[2] \in Signals
  BY KeyParts DEF Signals
<1> QED
  BY <1>1, <1>2, SignalsAre DEF Posts

LEMMA QueueStep ==
  ASSUME QueueTypes, LoopTypes, TimerTypes, [Next]_vars
  PROVE  QueueTypes'
<1>1. CASE QueueFrame
  BY <1>1, QueuesKept DEF QueueFrame
<1>2. CASE Posts
  BY <1>2, PostsAre, PostQueues
<1>3. CASE Os!DispatchTake
  <2>1. i \in Os!Tasks
    BY <1>3, Rings DEF Os!DispatchTake, LoopTypes, DRIVER_ID, NETWORK_ID
  <2> QED
    BY <1>3, <2>1, TakeQueues
<1>4. CASE Os!FsmInit
  BY <1>4, FsmInitQueues
<1> QED
  BY <1>1, <1>2, <1>3, <1>4, StepQueues

LoopFrame == UNCHANGED <<tasks_pool, stm_ret_value, stm_state_temp, phase, i, sig>>

\* Only the passes of os_dispatch and the handlers they call move the loop's variables.
LEMMA StepLoop ==
  ASSUME [Next]_vars
  PROVE  LoopFrame \/ DispatchBegin \/ DispatchLoop \/ HandlerStep
  BY DEF Next, DeviceStep, SystemInitDone, ConsoleInit, FsmInit, Os!FsmInit, Os!loopVars, ConsolePost,
         ConsoleSdk, TickBegin, TickSlot, TickExpire, WifiUp, WifiDown, SmartlinkLink, SmartlinkOver,
         ClientFreed, vars, osVars, LoopFrame

LEMMA LoopStep ==
  ASSUME QueueTypes, LoopTypes, [Next]_vars
  PROVE  LoopTypes'
<1>1. CASE LoopFrame
  BY <1>1, LoopKept DEF LoopFrame
<1>2. CASE DispatchBegin
  <2>1. 0 \in 0 .. 2
    OBVIOUS
  <2> QED
    BY <1>2, <2>1 DEF DispatchBegin, Os!DispatchBegin, LoopTypes, Os!Phases, Os!HandlerPhases
<1>3. CASE Os!DispatchTake
  <2>1. i \in Os!Tasks
    BY <1>3, Rings DEF Os!DispatchTake, LoopTypes, DRIVER_ID, NETWORK_ID
  <2>2. sig' \in Os!Signals
    BY <1>3, <2>1, TakeQueues
  <2> QED
    BY <1>3, <2>1, <2>2 DEF Os!DispatchTake, LoopTypes, Os!Phases, Os!HandlerPhases
<1>4. CASE Os!DispatchSkip \/ Os!DispatchEnd
  <2>1. i' \in 0 .. 2 /\ phase' \in {"sdk", "loop"}
    BY <1>4 DEF Os!DispatchSkip, Os!DispatchEnd, LoopTypes
  <2> QED
    BY <1>4, <2>1 DEF Os!DispatchSkip, Os!DispatchEnd, LoopTypes, Os!Phases, Os!HandlerPhases
<1>5. CASE HandlerStep
  BY <1>5, HandlerLoop
<1> QED
  BY <1>1, <1>2, <1>3, <1>4, <1>5, StepLoop DEF DispatchLoop

LEMMA TimerStep ==
  ASSUME TimerTypes, [Next]_vars
  PROVE  TimerTypes'
<1>1. CASE HandlerStep
  BY <1>1, HandlerTimerTypes
<1>2. CASE TickSlot \/ TickExpire
  BY <1>2, ScanSlot DEF TickSlot, TickExpire
<1>3. CASE TickBegin
  BY <1>3, PoolFacts DEF TickBegin, Tm!ScanBegin, TimerTypes
<1>4. CASE SystemInitDone \/ ConsoleInit
  <2>1. timer_pool' = [j \in Tm!TimerIds |-> [timer_pool[j] EXCEPT !.key = NoKey]] /\ scan' = scan
    BY <1>4 DEF SystemInitDone, ConsoleInit, FsmInit, Tm!ClearPool
  <2>2. \A j \in Tm!TimerIds : [timer_pool[j] EXCEPT !.key = NoKey] \in Slot
    BY DEF TimerTypes, Slot
  <2> QED
    BY <2>1, <2>2 DEF TimerTypes
<1>5. CASE UNCHANGED timerVars
  BY <1>5 DEF timerVars, TimerTypes
<1> QED
  BY <1>1, <1>2, <1>3, <1>4, <1>5
     DEF Next, DeviceStep, ConsolePost, ConsoleSdk, DispatchBegin, DispatchLoop, WifiUp, WifiDown,
         SmartlinkLink, SmartlinkOver, ClientFreed, vars

-----------------------------------------------------------------------------
(* Types *)

RestTypes ==
  /\ dispatch_hook \in BOOLEAN /\ next_dispatch \in {0, 1} /\ dispatch_timer \in BOOLEAN
  /\ late \in 0 .. LateTicks
  /\ opmode \in Opmodes
  /\ wifi \in {"down", "got_ip"}
  /\ smartconfig \in {"off", "searching", "linked"}
  /\ by_hand \in BOOLEAN
  /\ client \in {"none", "open", "closing"}
  /\ s_update_system \in BOOLEAN
  /\ console \in 0 .. MaxConsole

Base == QueueTypes /\ LoopTypes /\ TimerTypes /\ RestTypes

LEMMA InitBase == Init => Base
<1> SUFFICES ASSUME Init PROVE Base
  OBVIOUS
<1>1. QueueTypes
  BY Rings, SignalsAre DEF Init, Os!Init, QueueTypes, Os!RingConsistent, Os!SlotAfter, Signals, Os!STM_ENTRY_SIG
<1>2. LoopTypes
  <2>1. tasks_pool \in [Os!Tasks -> Actors]
    BY Rings DEF Init, Os!Init, Actors
  <2>2. sig \in Os!Signals /\ phase = "sdk" /\ i = 0 /\ stm_ret_value = FALSE
        /\ stm_state_temp \in Actors
    BY SignalsAre DEF Init, Os!Init, Signals, Os!STM_ENTRY_SIG, Actors
  <2> QED
    BY <2>1, <2>2 DEF LoopTypes, Os!Phases, Os!HandlerPhases
<1>3. TimerTypes
  BY PoolFacts DEF Init, Tm!Init, TimerTypes, Slot, Tm!FreeSlot
<1>4. RestTypes
  <2>1. 0 \in 0 .. LateTicks /\ 0 \in 0 .. MaxConsole
    BY NetworkTaskAssumption
  <2> QED
    BY <2>1 DEF Init, Os!Init, RestTypes, Opmodes, StationModes
<1> QED
  BY <1>1, <1>2, <1>3, <1>4 DEF Base

LEMMA RestStep ==
  ASSUME Base, [Next]_vars
  PROVE  RestTypes'
<1>1. (dispatch_hook \in BOOLEAN /\ next_dispatch \in {0, 1} /\ dispatch_timer \in BOOLEAN)'
  <2>1. ASSUME NEW t, NEW s, Post(t, s)
        PROVE  (dispatch_hook \in BOOLEAN /\ next_dispatch \in {0, 1} /\ dispatch_timer \in BOOLEAN)'
    BY <2>1 DEF Post, Os!OsPostMessage, Os!CallHook, Os!wakeVars, Base, RestTypes
  <2>2. CASE Posts
    BY <2>1, <2>2, PostsAre
  <2>3. CASE HandlerStep
    BY <2>1, <2>3, HandlerPosts DEF NoPost, Base, RestTypes
  <2>4. CASE SystemInitDone \/ ConsoleInit
    BY <2>4 DEF SystemInitDone, ConsoleInit, FsmInit, Os!FsmInit, Base, RestTypes
  <2>5. CASE DispatchBegin \/ DispatchLoop
    BY <2>5 DEF DispatchBegin, Os!DispatchBegin, DispatchLoop, Os!DispatchTake, Os!DispatchSkip,
                Os!DispatchEnd, Os!wakeVars, Base, RestTypes
  <2>6. CASE UNCHANGED osVars
    BY <2>6 DEF osVars, Base, RestTypes
  <2>7. CASE ConsolePost \/ SmartlinkOver \/ TickExpire
    BY <2>1, <2>7 DEF ConsolePost, SmartlinkOver, TickExpire
  <2> QED
    BY <2>2, <2>3, <2>4, <2>5, <2>6, <2>7
       DEF Next, DeviceStep, ConsoleSdk, TickBegin, TickSlot, WifiUp, WifiDown, SmartlinkLink,
           ClientFreed, vars
<1>2. late' \in 0 .. LateTicks
  <2>1. CASE TickBegin \/ DispatchBegin
    BY <2>1, NetworkTaskAssumption DEF TickBegin, DispatchBegin, Base, RestTypes
  <2>2. CASE HandlerStep
    BY <2>2, HandlerTimers DEF NoTimer, StartTimer, StopTimer, Base, RestTypes
  <2>3. CASE UNCHANGED late
    BY <2>3 DEF Base, RestTypes
  <2> QED
    BY <2>1, <2>2, <2>3
       DEF Next, DeviceStep, SystemInitDone, ConsoleInit, FsmInit, ConsolePost, ConsoleSdk,
           DispatchLoop, TickSlot, TickExpire, WifiUp, WifiDown, SmartlinkLink, SmartlinkOver,
           ClientFreed, vars
<1>3. console' \in 0 .. MaxConsole
  <2>1. CASE ConsoleInit \/ ConsolePost \/ ConsoleSdk
    BY <2>1, NetworkTaskAssumption
       DEF ConsoleInit, ConsolePost, ConsoleSdk, UserCommand, Base, RestTypes
  <2>2. CASE UNCHANGED console
    BY <2>2 DEF Base, RestTypes
  <2> QED
    BY <2>1, <2>2 DEF Next, SystemInitDone, vars
<1>4. /\ opmode' \in Opmodes
      /\ wifi' \in {"down", "got_ip"}
      /\ smartconfig' \in {"off", "searching", "linked"}
      /\ by_hand' \in BOOLEAN
      /\ client' \in {"none", "open", "closing"}
      /\ s_update_system' \in BOOLEAN
  <2>1. CASE UNCHANGED <<sdkVars, appVars>>
    BY <2>1 DEF sdkVars, appVars, Base, RestTypes
  <2>2. CASE ActorTranAp \/ SmartEntry \/ SmartTimeout \/ ConsoleSdk
    <3>1. {"STATION_MODE", "SOFTAP_MODE", "STATIONAP_MODE"} \subseteq Opmodes
      BY DEF Opmodes, StationModes
    <3> QED
      BY <2>2, <3>1 DEF ActorTranAp, SmartEntry, SmartTimeout, ConsoleSdk, SmartlinkStart,
                        SmartlinkStop, SetOpmode, appVars, Base, RestTypes
  <2>3. CASE SmartExit \/ SmartlinkLink \/ SmartlinkOver \/ WifiUp \/ WifiDown
    BY <2>3 DEF SmartExit, SmartlinkStop, SmartlinkLink, SmartlinkOver, WifiUp, WifiDown, appVars,
                Base, RestTypes
  <2>4. CASE StaEntry \/ StaExit \/ StaUpgrade \/ ClientFreed
    BY <2>4 DEF StaEntry, StaExit, StaUpgrade, ClientFreed, Client!Create, Client!Delete, Client!Freed,
                sdkVars, Base, RestTypes
  <2> QED
    BY <2>1, <2>2, <2>3, <2>4
       DEF Next, DeviceStep, SystemInitDone, ConsoleInit, FsmInit, ConsolePost, DispatchBegin,
           DispatchLoop, TickBegin, TickSlot, TickExpire, vars, HandlerStep, DriverEntry,
           DriverIgnores, ActorEntry, ActorTranIdle, IdleEntry, IdleExit, IdleTranSmart,
           IdleTickOnline, IdleTickOffline, SmartOk, NetworkIgnores
<1> QED
  BY <1>1, <1>2, <1>3, <1>4 DEF RestTypes

LEMMA BaseStep == ASSUME Base, [Next]_vars PROVE Base'
  BY QueueStep, LoopStep, TimerStep, RestStep DEF Base

\* Every variable of the two machines, the loop under them and the pool keeps its type, whatever
\* the user does at the console.
THEOREM TypeCorrect == Spec => []TypeOK
<1>1. Base => TypeOK
  <2> SUFFICES ASSUME Base PROVE TypeOK
    OBVIOUS
  <2>1. Os!TypeOK
    BY DEF Base, QueueTypes, LoopTypes, RestTypes, Os!TypeOK, Actors
  <2>2. Tm!TypeOK
    BY DEF Base, TimerTypes, Slot, Keys, Tm!TypeOK
  <2> QED
    BY <2>1, <2>2 DEF Base, RestTypes, TypeOK
<1> QED
  BY <1>1, InitBase, BaseStep, PTL DEF Spec

-----------------------------------------------------------------------------
(* Smartconfig *)

(***************************************************************************)
(* network_smart starts smartconfig when it is entered and stops it when   *)
(* it is told to exit.  Between the exit of one state and the end of the   *)
(* entry of the next, tasks_pool still names the old state; by then        *)
(* smartconfig is off, or it has just been started by the new state.  A    *)
(* user at the console may start it anywhere, and by_hand says so.         *)
(***************************************************************************)
SmartInv ==
  /\ smartconfig # "off" /\ ~by_hand =>
       InState("network_smart") /\ ~(phase = "entry" /\ i = NETWORK_ID)
  /\ console = 0 => ~by_hand

\* Who calls a state of the network machine with STM_EXIT_SIG.
LEMMA ExitHandlers ==
  ASSUME HandlerStep, i = NETWORK_ID, sig = "STM_EXIT_SIG", phase # "entry",
         tasks_pool[NETWORK_ID] # "driver_actor"
  PROVE  /\ tasks_pool[NETWORK_ID] = "network_idle" => IdleExit
         /\ tasks_pool[NETWORK_ID] = "network_smart" => SmartExit
         /\ tasks_pool[NETWORK_ID] = "network_sta" => StaExit
         /\ tasks_pool[NETWORK_ID] = "network_actor" => NetworkIgnores
<1>1. ASSUME NEW h, NEW s, NetworkRuns(h, s) PROVE s = "STM_EXIT_SIG" /\ h = tasks_pool[NETWORK_ID]
  BY <1>1 DEF NetworkRuns, Os!Running
<1>2. ASSUME NEW s PROVE ~DriverRuns(s)
  BY DEF DriverRuns, Os!Running, DRIVER_ID, NETWORK_ID
<1>3. IdleExit \/ SmartExit \/ StaExit \/ NetworkIgnores
  BY <1>1, <1>2 DEF HandlerStep, DriverEntry, DriverIgnores, ActorEntry, ActorTranIdle, ActorTranAp,
     IdleEntry, IdleTranSmart, IdleTickOnline, IdleTickOffline, SmartEntry, SmartOk, SmartTimeout,
     StaEntry, StaUpgrade
<1>4. NetworkIgnores => tasks_pool[NETWORK_ID] = "network_actor"
  <2> SUFFICES ASSUME NEW h \in NetworkStates, NEW s \in Os!Signals \ Handled(h), NetworkRuns(h, s)
               PROVE  h = "network_actor" /\ h = tasks_pool[NETWORK_ID]
    BY DEF NetworkIgnores
  <2> QED
    BY <1>1 DEF NetworkStates, Handled
<1> QED
  BY <1>1, <1>3, <1>4 DEF IdleExit, SmartExit, StaExit

\* The user has not been at the console, before and after the step.
LEMMA StillAlone ==
  ASSUME RestTypes, [Next]_vars, console' = 0
  PROVE  console = 0 /\ ~ConsoleInit /\ ~ConsolePost /\ ~ConsoleSdk
<1>1. console \in Nat
  BY NetworkTaskAssumption DEF RestTypes
<1> QED
  BY <1>1 DEF Next, SystemInitDone, ConsoleInit, ConsolePost, ConsoleSdk, UserCommand, vars

\* While the console is not used smartconfig is never started there.
LEMMA HandStep ==
  ASSUME Base, SmartInv, [Next]_vars, console' = 0
  PROVE  ~by_hand'
<1>1. ~by_hand /\ ~ConsoleSdk
  BY StillAlone DEF Base, SmartInv
<1> QED
  BY <1>1 DEF Next, DeviceStep, SystemInitDone, ConsoleInit, FsmInit, ConsolePost, DispatchBegin,
     DispatchLoop, TickBegin, TickSlot, TickExpire, WifiUp, WifiDown, SmartlinkLink, SmartlinkOver,
     ClientFreed, vars, sdkVars, HandlerStep, DriverEntry, DriverIgnores, ActorEntry,
     ActorTranIdle, ActorTranAp, IdleEntry, IdleExit, IdleTranSmart, IdleTickOnline,
     IdleTickOffline, SmartEntry, SmartExit, SmartOk, SmartTimeout, StaEntry, StaExit, StaUpgrade,
     NetworkIgnores

\* Every step keeps it: only the entry of network_smart and the console start smartconfig.
LEMMA SmartStep ==
  ASSUME Base, SmartInv, [Next]_vars
  PROVE  SmartInv'
<1> SUFFICES ASSUME smartconfig' # "off", ~by_hand'
             PROVE  InState("network_smart")' /\ ~(phase = "entry" /\ i = NETWORK_ID)'
  BY HandStep DEF SmartInv
<1>0. LoopTypes /\ tasks_pool \in [Os!Tasks -> Actors] /\ NETWORK_ID \in Os!Tasks
  BY SignalsAre DEF Base, LoopTypes
<1>1. CASE SmartEntry
  <2>1. /\ NetworkRuns("network_smart", "STM_ENTRY_SIG") /\ Returns
    BY <1>0, <1>1 DEF SmartEntry, Return, Returns, LoopTypes
  <2>2. i = NETWORK_ID /\ phase # "exit"
    BY <1>0, <2>1 DEF NetworkRuns, Os!Running, LoopTypes
  <2>3. CASE phase = "entry"
    BY <1>0, <2>1, <2>2, <2>3 DEF NetworkRuns, Os!Running, Returns, Os!ReturnWith, InState
  <2>4. CASE phase = "event"
    BY <1>0, <2>1, <2>2, <2>4 DEF NetworkRuns, Os!Running, Returns, Os!ReturnWith, InState
  <2> QED
    BY <2>1, <2>2, <2>3, <2>4 DEF Returns, Os!ReturnWith, Os!HandlerPhases
<1>2. CASE ConsoleSdk
  <2>1. phase' = "sdk" /\ tasks_pool' = tasks_pool
    BY <1>2 DEF ConsoleSdk, Idle, osVars
  <2>2. CASE SmartlinkStart /\ by_hand' = ~InState("network_smart")
    BY <2>1, <2>2 DEF InState
  <2>3. CASE UNCHANGED <<smartconfig, by_hand>>
    BY <2>1, <2>3 DEF SmartInv, InState
  <2>4. CASE SmartlinkStop
    BY <2>4 DEF SmartlinkStop
  <2> QED
    BY <1>2, <2>2, <2>3, <2>4 DEF ConsoleSdk
<1>3. ASSUME ~SmartEntry, ~ConsoleSdk PROVE smartconfig # "off" /\ ~by_hand /\ ~SmartExit
  BY <1>3 DEF Next, DeviceStep, SystemInitDone, ConsoleInit, FsmInit, ConsolePost, DispatchBegin,
     DispatchLoop, TickBegin, TickSlot, TickExpire, WifiUp, WifiDown, SmartlinkLink, SmartlinkOver,
     ClientFreed, vars, sdkVars, HandlerStep, DriverEntry, DriverIgnores, ActorEntry,
     ActorTranIdle, ActorTranAp, IdleEntry, IdleExit, IdleTranSmart, IdleTickOnline,
     IdleTickOffline, SmartExit, SmartlinkStop, SmartOk, SmartTimeout, StaEntry, StaExit, StaUpgrade,
     NetworkIgnores
<1>4. CASE HandlerStep /\ ~SmartEntry /\ ~ConsoleSdk
  <2>1. InState("network_smart") /\ ~(phase = "entry" /\ i = NETWORK_ID) /\ ~SmartExit
    BY <1>3, <1>4 DEF SmartInv
  <2>2. ~(phase = "exit" /\ i = NETWORK_ID)
    BY <1>0, <1>4, <2>1, ExitHandlers DEF LoopTypes, InState
  <2>3. PICK ret \in BOOLEAN, temp \in Actors : Os!ReturnWith(ret, temp)
    <3>1. CASE Returns
      BY <1>0, <3>1 DEF Returns, LoopTypes
    <3>2. ASSUME NEW h \in {"network_idle", "network_smart", "network_sta"}, Moves(h)
          PROVE  \E ret \in BOOLEAN, temp \in Actors : Os!ReturnWith(ret, temp)
      BY <3>2 DEF Moves, Actors
    <3> QED
      BY <1>0, <1>4, <3>1, <3>2, HandlerReturns
  <2>4. CASE i = NETWORK_ID
    BY <1>0, <2>1, <2>2, <2>3, <2>4 DEF Os!ReturnWith, InState, Os!HandlerPhases
  <2>5. CASE i # NETWORK_ID
    <3>1. tasks_pool'[NETWORK_ID] = tasks_pool[NETWORK_ID]
      BY <1>0, <2>3, <2>5 DEF Os!ReturnWith
    <3>2. ~(phase = "entry" /\ i = NETWORK_ID)'
      BY <2>3, <2>5 DEF Os!ReturnWith
    <3> QED
      BY <2>1, <3>1, <3>2 DEF InState
  <2> QED
    BY <2>4, <2>5
<1>5. CASE LoopFrame /\ ~SmartEntry /\ ~ConsoleSdk
  BY <1>3, <1>5 DEF LoopFrame, SmartInv, InState
<1>6. CASE (DispatchBegin \/ DispatchLoop) /\ ~SmartEntry /\ ~ConsoleSdk
  <2>1. phase' # "entry" /\ tasks_pool' = tasks_pool
    BY <1>6 DEF DispatchBegin, Os!DispatchBegin, DispatchLoop, Os!DispatchTake, Os!DispatchSkip,
                Os!DispatchEnd
  <2> QED
    BY <1>3, <1>6, <2>1 DEF SmartInv, InState
<1> QED
  BY <1>1, <1>2, <1>4, <1>5, <1>6, StepLoop

\* Smartconfig, which takes the radio away from the station, runs only in network_smart
\* (network_task.c, smartlink.c) unless the user has started it elsewhere with smartlink_start,
\* whichever signals the user posts to either machine, and whichever other commands are typed.
THEOREM SmartconfigStaysHome == Spec => []SmartconfigOnlyInSmart
<1>1. Init => SmartInv
  BY DEF Init, SmartInv
<1>2. SmartInv => SmartconfigOnlyInSmart
  BY DEF SmartInv, SmartconfigOnlyInSmart
<1> QED
  BY <1>1, <1>2, InitBase, BaseStep, SmartStep, PTL DEF Spec

-----------------------------------------------------------------------------
(* A device left alone: the EDP client *)

Called(t, s) == phase = "event" /\ i = t /\ sig = s

\* Only fsm_init posts STM_ENTRY_SIG, and nobody STM_EXIT_SIG.
LEMMA AlonePosts ==
  ASSUME Posts, ~ConsolePost
  PROVE  \E t \in Os!Tasks, s \in Os!Signals \ {"STM_ENTRY_SIG", "STM_EXIT_SIG"} :
           /\ Post(t, s)
           /\ t = NETWORK_ID /\ s = "NW_TRAN_IDLE_EVT" => ActorEntry
<1>1. {"NW_SMART_OK_EVT", "NW_TRAN_SMART_EVT", "NW_TRAN_IDLE_EVT"}
        \subseteq Os!Signals \ {"STM_ENTRY_SIG", "STM_EXIT_SIG"}
  BY SignalsAre DEF Signals, NetEvents
<1>2. ASSUME NEW key \in Keys
      PROVE  /\ key[1] \in Os!Tasks
             /\ key[2] \in Os!Signals \ {"STM_ENTRY_SIG", "STM_EXIT_SIG", "NW_TRAN_IDLE_EVT"}
  BY KeyParts, SignalsAre DEF Signals
<1> QED
  BY <1>1, <1>2, SignalsAre DEF Posts

ExitInv ==
  console = 0 =>
    /\ \A t \in Os!Tasks : "STM_EXIT_SIG" \notin Waiting(t)
    /\ phase = "event" => sig # "STM_EXIT_SIG"

\* On a device left alone STM_EXIT_SIG is never an event.
LEMMA ExitStep ==
  ASSUME Base, ExitInv, [Next]_vars
  PROVE  ExitInv'
<1> SUFFICES ASSUME console' = 0
             PROVE  /\ \A t \in Os!Tasks : "STM_EXIT_SIG" \notin Waiting(t)'
                    /\ phase' = "event" => sig' # "STM_EXIT_SIG"
  BY DEF ExitInv
<1>0. /\ QueueTypes /\ LoopTypes /\ TimerTypes /\ ~ConsolePost
      /\ \A t \in Os!Tasks : "STM_EXIT_SIG" \notin Waiting(t)
      /\ phase = "event" => sig # "STM_EXIT_SIG"
  BY StillAlone DEF Base, ExitInv
<1>1. ASSUME NEW t \in Os!Tasks PROVE "STM_EXIT_SIG" \notin Waiting(t)'
  <2>1. CASE QueueFrame
    BY <1>0, <2>1, QueuesKept DEF QueueFrame, Gains
  <2>2. CASE Posts
    BY <1>0, <2>2, AlonePosts, PostQueues DEF Gains
  <2>3. CASE DispatchLoop /\ Os!DispatchTake
    <3>1. i \in Os!Tasks
      BY <1>0, <2>3, Rings DEF Os!DispatchTake, LoopTypes, DRIVER_ID, NETWORK_ID
    <3> QED
      BY <1>0, <2>3, <3>1, TakeQueues DEF Gains
  <2>4. CASE Os!FsmInit
    <3>1. Waiting(t)' \subseteq Waiting(t) \cup {"STM_ENTRY_SIG"}
      BY <1>0, <2>4, FsmInitQueues
    <3> QED
      BY <1>0, <3>1
  <2>5. QueueFrame \/ Posts \/ (DispatchLoop /\ Os!DispatchTake) \/ Os!FsmInit
    BY <1>0, StepQueues
  <2> QED
    BY <2>1, <2>2, <2>3, <2>4, <2>5
<1>2. phase' = "event" => sig' # "STM_EXIT_SIG"
  <2>1. CASE LoopFrame
    BY <1>0, <2>1 DEF LoopFrame
  <2>2. CASE DispatchBegin \/ Os!DispatchSkip \/ Os!DispatchEnd
    BY <2>2 DEF DispatchBegin, Os!DispatchBegin, Os!DispatchSkip, Os!DispatchEnd
  <2>3. CASE Os!DispatchTake
    <3>1. i \in Os!Tasks
      BY <1>0, <2>3, Rings DEF Os!DispatchTake, LoopTypes, DRIVER_ID, NETWORK_ID
    <3> QED
      BY <1>0, <2>3, <3>1, TakeQueues
  <2>4. CASE HandlerStep
    BY <1>0, <2>4, HandlerReturns DEF Returns, Moves, Os!ReturnWith
  <2> QED
    BY <2>1, <2>2, <2>3, <2>4, StepLoop DEF DispatchLoop
<1> QED
  BY <1>1, <1>2

\* Who calls the new state of the network machine when it is entered.
LEMMA EntryHandlers ==
  ASSUME HandlerStep, i = NETWORK_ID, sig = "STM_ENTRY_SIG", phase = "entry"
  PROVE  /\ stm_state_temp = "network_idle" => IdleEntry
         /\ stm_state_temp = "network_sta" => StaEntry
<1>1. ASSUME NEW h, NEW s, NetworkRuns(h, s) PROVE s = "STM_ENTRY_SIG" /\ h = stm_state_temp
  BY <1>1 DEF NetworkRuns, Os!Running
<1>2. ASSUME NEW s PROVE ~DriverRuns(s)
  BY DEF DriverRuns, Os!Running, DRIVER_ID, NETWORK_ID
<1>3. ActorEntry \/ IdleEntry \/ SmartEntry \/ StaEntry \/ NetworkIgnores
  BY <1>1, <1>2 DEF HandlerStep, DriverEntry, DriverIgnores, ActorTranIdle, ActorTranAp,
     IdleExit, IdleTranSmart, IdleTickOnline, IdleTickOffline, SmartExit, SmartOk, SmartTimeout,
     StaExit, StaUpgrade
<1>4. ~NetworkIgnores
  <2> SUFFICES ASSUME NEW h \in NetworkStates, NEW s \in Os!Signals \ Handled(h), NetworkRuns(h, s)
               PROVE  FALSE
    BY DEF NetworkIgnores
  <2> QED
    BY <1>1 DEF NetworkStates, Handled
<1> QED
  BY <1>1, <1>3, <1>4 DEF ActorEntry, IdleEntry, SmartEntry, StaEntry

(***************************************************************************)
(* network_sta is never left: it asks for no transition, and the exit that *)
(* would delete the client never comes.  So a client is created when the   *)
(* machine enters network_sta, and only then.                              *)
(***************************************************************************)
ClientInv ==
  console = 0 =>
    /\ client # "closing"
    /\ client = "open" <=> InState("network_sta")
    /\ phase \in {"exit", "entry"} /\ i = NETWORK_ID => ~InState("network_sta")

LEMMA ClientStep ==
  ASSUME Base, ExitInv, ClientInv, [Next]_vars
  PROVE  ClientInv'
<1> SUFFICES ASSUME console' = 0
             PROVE  /\ client' # "closing"
                    /\ client' = "open" <=> tasks_pool'[NETWORK_ID] = "network_sta"
                    /\ phase' \in {"exit", "entry"} /\ i' = NETWORK_ID
                         => tasks_pool'[NETWORK_ID] # "network_sta"
  BY DEF ClientInv, InState
<1>0. /\ LoopTypes /\ tasks_pool \in [Os!Tasks -> Actors] /\ NETWORK_ID \in Os!Tasks
      /\ client \in {"none", "open", "closing"} /\ client # "closing"
      /\ client = "open" <=> tasks_pool[NETWORK_ID] = "network_sta"
      /\ phase \in {"exit", "entry"} /\ i = NETWORK_ID => tasks_pool[NETWORK_ID] # "network_sta"
      /\ phase = "event" => sig # "STM_EXIT_SIG"
  BY StillAlone, SignalsAre DEF Base, LoopTypes, RestTypes, ClientInv, ExitInv, InState
<1>1. CASE StaEntry
  <2>1. NetworkRuns("network_sta", "STM_ENTRY_SIG") /\ Returns /\ Client!Create
    BY <1>0, <1>1 DEF StaEntry, Return, Returns, LoopTypes
  <2>2. i = NETWORK_ID /\ phase \in {"event", "entry"}
    BY <1>0, <2>1 DEF NetworkRuns, Os!Running, LoopTypes, Os!HandlerPhases
  <2>3. phase' = "loop" /\ tasks_pool'[NETWORK_ID] = "network_sta"
    BY <1>0, <2>1, <2>2 DEF NetworkRuns, Os!Running, Returns, Os!ReturnWith
  <2> QED
    BY <1>0, <2>1, <2>3 DEF Client!Create
<1>2. ~StaExit /\ ~ClientFreed /\ ~ConsoleSdk
  BY <1>0, StillAlone DEF Base, StaExit, NetworkRuns, Os!Running, LoopTypes, Os!HandlerPhases, ClientFreed, Client!Freed
<1>3. ASSUME ~StaEntry PROVE client' = client
  BY <1>2, <1>3 DEF Next, DeviceStep, SystemInitDone, ConsoleInit, FsmInit, ConsolePost, DispatchBegin,
     DispatchLoop, TickBegin, TickSlot, TickExpire, WifiUp, WifiDown, SmartlinkLink, SmartlinkOver,
     vars, appVars, HandlerStep, DriverEntry, DriverIgnores, ActorEntry,
     ActorTranIdle, ActorTranAp, IdleEntry, IdleExit, IdleTranSmart, IdleTickOnline,
     IdleTickOffline, SmartEntry, SmartExit, SmartOk, SmartTimeout, StaUpgrade, NetworkIgnores
<1>4. CASE HandlerStep /\ ~StaEntry
  <2>1. CASE Returns /\ i = NETWORK_ID /\ phase = "entry"
    <3>1. stm_state_temp # "network_sta"
      BY <1>0, <1>4, <2>1, EntryHandlers DEF LoopTypes
    <3> QED
      BY <1>0, <1>3, <1>4, <2>1, <3>1 DEF Returns, Os!ReturnWith
  <2>2. CASE Returns /\ i = NETWORK_ID /\ phase # "entry"
    BY <1>0, <1>3, <1>4, <2>2 DEF Returns, Os!ReturnWith, Os!HandlerPhases
  <2>3. CASE Returns /\ i # NETWORK_ID
    <3>1. tasks_pool'[NETWORK_ID] = tasks_pool[NETWORK_ID] /\ (phase' \in {"exit", "entry"} => i' = i)
      BY <1>0, <2>3 DEF Returns, Os!ReturnWith
    <3> QED
      BY <1>0, <1>3, <1>4, <2>3, <3>1
  <2>4. ASSUME NEW h, Moves(h), tasks_pool[NETWORK_ID] # "network_sta"
        PROVE  /\ tasks_pool'[NETWORK_ID] = tasks_pool[NETWORK_ID]
               /\ tasks_pool'[NETWORK_ID] # "network_sta"
    BY <2>4 DEF Moves, Os!ReturnWith
  <2> QED
    BY <1>0, <1>3, <1>4, <2>1, <2>2, <2>3, <2>4, HandlerReturns
<1>5. CASE LoopFrame /\ ~StaEntry
  BY <1>0, <1>3, <1>5 DEF LoopFrame
<1>6. CASE (DispatchBegin \/ DispatchLoop) /\ ~StaEntry
  <2>1. phase' \notin {"exit", "entry"} /\ tasks_pool' = tasks_pool
    BY <1>6 DEF DispatchBegin, Os!DispatchBegin, DispatchLoop, Os!DispatchTake, Os!DispatchSkip,
                Os!DispatchEnd
  <2> QED
    BY <1>0, <1>3, <1>6, <2>1
<1> QED
  BY <1>1, <1>4, <1>5, <1>6, StepLoop

LEMMA InitAlone == Init => ExitInv /\ ClientInv
<1> SUFFICES ASSUME Init PROVE ExitInv /\ ClientInv
  OBVIOUS
<1>1. \A t \in Os!Tasks : Waiting(t) = {}
  BY DEF Init, Os!Init, Waiting
<1>2. ExitInv
  BY <1>1 DEF Init, Os!Init, ExitInv
<1>3. InState("network_actor")
  BY SignalsAre DEF Init, Os!Init, InState, DRIVER_ID, NETWORK_ID
<1>4. ClientInv
  BY <1>3 DEF Init, Os!Init, ClientInv, InState
<1> QED
  BY <1>2, <1>4

\* Until the user interferes, the EDP client exists exactly while the machine is in network_sta
\* (network_task.c), for any ring size: also when messages are lost to a full ring.
THEOREM ClientBelongsToSta == Spec => [](console = 0 => ClientFollowsState)
<1>1. ClientInv => (console = 0 => ClientFollowsState)
  BY DEF ClientInv, ClientFollowsState
<1> QED
  BY <1>1, InitBase, BaseStep, InitAlone, ExitStep, ClientStep, PTL DEF Spec

-----------------------------------------------------------------------------
(* A device left alone: the timers *)

AllReload == \A j \in Tm!TimerIds : timer_pool[j].key # NoKey => timer_pool[j].reloading = TRUE

\* One slot per key, and no timer that frees its slot when it expires.
PoolInv == Tm!UniqueTimers /\ AllReload

LEMMA RunningHas ==
  ASSUME NEW k
  PROVE  Tm!Running(k) <=> \E j \in Tm!TimerIds : timer_pool[j].key = k
  BY DEF Tm!Running, Tm!Having

LEMMA RunningHasNext ==
  ASSUME NEW k
  PROVE  Tm!Running(k)' <=> \E j \in Tm!TimerIds : timer_pool'[j].key = k
  BY DEF Tm!Running, Tm!Having, Tm!TimerIds

LEMMA PoolSame ==
  ASSUME PoolInv,
         \A j \in Tm!TimerIds : /\ timer_pool'[j].key = timer_pool[j].key
                               /\ timer_pool'[j].reloading = timer_pool[j].reloading
  PROVE  PoolInv' /\ \A k \in Keys : Tm!Running(k)' <=> Tm!Running(k)
<1>1. PoolInv'
  BY DEF PoolInv, Tm!UniqueTimers, AllReload, Tm!TimerIds
<1>2. \A k \in Keys : Tm!Running(k)' <=> Tm!Running(k)
  BY RunningHas, RunningHasNext
<1> QED
  BY <1>1, <1>2

\* A timer that does not run finds a slot: three slots do not hold two other timers only.
LEMMA FindsSlot ==
  ASSUME TimerTypes, Tm!UniqueTimers, NEW k \in Keys, ~Tm!Running(k)
  PROVE  Tm!Candidates(k) # {}
<1> SUFFICES ASSUME Tm!Candidates(k) = {} PROVE FALSE
  OBVIOUS
<1>1. \A j \in Tm!TimerIds : timer_pool[j].key \in Keys \ {k}
  BY DEF Tm!Candidates, Tm!Having, TimerTypes, Slot
<1>2. /\ 0 \in Tm!TimerIds /\ 1 \in Tm!TimerIds /\ 2 \in Tm!TimerIds
      /\ timer_pool[0].key # timer_pool[1].key
      /\ timer_pool[0].key # timer_pool[2].key
      /\ timer_pool[1].key # timer_pool[2].key
  BY <1>1, PoolFacts DEF Tm!UniqueTimers
<1> QED
  BY <1>1, <1>2, DistinctKeys DEF Keys

\* os_reload_timer_set starts a timer that does not run, and touches no other.
LEMMA StartRuns ==
  ASSUME TimerTypes, PoolInv, NEW k \in Keys, NEW p \in Nat, ~Tm!Running(k),
         Tm!OsReloadTimerSet(k, p)
  PROVE  /\ PoolInv' /\ Tm!Running(k)'
         /\ \A l \in Keys \ {k} : Tm!Running(l)' <=> Tm!Running(l)
<1>1. PICK j \in Tm!Candidates(k), slot \in Slot :
        /\ timer_pool' = [timer_pool EXCEPT ![j] = slot]
        /\ slot.key = k
        /\ slot.reloading = TRUE \/ timer_pool[j].key = k
  BY StartSlot, FindsSlot DEF PoolInv
<1>2. j \in Tm!TimerIds /\ timer_pool[j].key = NoKey /\ slot.reloading = TRUE
  BY <1>1, RunningHas DEF Tm!Candidates, Tm!Having
<1>3. \A l \in Tm!TimerIds : timer_pool[l].key # k
  BY RunningHas
<1>4. \A l \in Tm!TimerIds : timer_pool'[l] = IF l = j THEN slot ELSE timer_pool[l]
  BY <1>1, <1>2 DEF TimerTypes
<1>5. PoolInv'
  BY <1>1, <1>2, <1>3, <1>4 DEF PoolInv, Tm!UniqueTimers, AllReload, Tm!TimerIds
<1>6. Tm!Running(k)'
  BY <1>1, <1>2, <1>4, RunningHasNext
<1>7. ASSUME NEW l \in Keys, l # k PROVE Tm!Running(l)' <=> Tm!Running(l)
  <2>1. l # NoKey
    BY PoolFacts
  <2> QED
    BY <1>1, <1>2, <1>4, <1>7, <2>1, RunningHas, RunningHasNext
<1> QED
  BY <1>5, <1>6, <1>7

\* os_timer_del stops a timer for good: there is no second slot with its key.
LEMMA StopStops ==
  ASSUME TimerTypes, PoolInv, NEW k \in Keys, Tm!OsTimerDel(k)
  PROVE  /\ PoolInv' /\ ~Tm!Running(k)'
         /\ \A l \in Keys \ {k} : Tm!Running(l)' <=> Tm!Running(l)
<1>1. CASE Tm!Having(k) = {} /\ timer_pool' = timer_pool
  <2>1. ~Tm!Running(k)
    BY <1>1 DEF Tm!Running
  <2> QED
    BY <1>1, <2>1, PoolSame
<1>2. ASSUME NEW j \in Tm!Having(k), NEW slot \in Slot,
             timer_pool' = [timer_pool EXCEPT ![j] = slot], slot.key = NoKey
      PROVE  /\ PoolInv' /\ ~Tm!Running(k)'
             /\ \A l \in Keys \ {k} : Tm!Running(l)' <=> Tm!Running(l)
  <2>1. j \in Tm!TimerIds /\ timer_pool[j].key = k /\ k # NoKey
    BY PoolFacts DEF Tm!Having
  <2>2. \A l \in Tm!TimerIds : timer_pool'[l] = IF l = j THEN slot ELSE timer_pool[l]
    BY <1>2, <2>1 DEF TimerTypes
  <2>3. \A l \in Tm!TimerIds : timer_pool[l].key = k => l = j
    BY <2>1 DEF PoolInv, Tm!UniqueTimers
  <2>4. PoolInv'
    BY <1>2, <2>2 DEF PoolInv, Tm!UniqueTimers, AllReload, Tm!TimerIds
  <2>5. ~Tm!Running(k)'
    BY <1>2, <2>1, <2>2, <2>3, RunningHasNext
  <2>6. ASSUME NEW l \in Keys, l # k PROVE Tm!Running(l)' <=> Tm!Running(l)
    <3>1. l # NoKey
      BY PoolFacts
    <3> QED
      BY <1>2, <2>1, <2>2, <2>6, <3>1, RunningHas, RunningHasNext
  <2> QED
    BY <2>4, <2>5, <2>6
<1> QED
  BY <1>1, <1>2, StopSlot

\* Signal s waits for task t, or its handler is running for it.
Coming(t, s) == s \in Waiting(t) \/ Called(t, s)

\* Nothing happens before fsm_init but the coming and going of the router.
StartInv ==
  console = 0 /\ ~dispatch_hook =>
    /\ phase = "sdk" /\ ~dispatch_timer
    /\ \A t \in Os!Tasks : used[t] = 0
    /\ InState("network_actor")
    /\ smartconfig = "off"
    /\ \A k \in Keys : ~Tm!Running(k)

LEMMA StartStep ==
  ASSUME Base, StartInv, [Next]_vars
  PROVE  StartInv'
<1> SUFFICES ASSUME console' = 0, ~dispatch_hook'
             PROVE  /\ phase' = "sdk" /\ ~dispatch_timer'
                    /\ \A t \in Os!Tasks : used'[t] = 0
                    /\ InState("network_actor")'
                    /\ smartconfig' = "off"
                    /\ \A k \in Keys : ~Tm!Running(k)'
  BY DEF StartInv, Os!Tasks
<1>1. ~SystemInitDone /\ ~ConsoleInit /\ ~ConsolePost /\ ~ConsoleSdk /\ console = 0
  BY StillAlone DEF Base, SystemInitDone, FsmInit, Os!FsmInit
<1>2. ASSUME NEW t, NEW s, Post(t, s) PROVE dispatch_hook' = dispatch_hook
  BY <1>2 DEF Post, Os!OsPostMessage, Os!CallHook, Os!wakeVars
<1>3. ~dispatch_hook
  <2>1. CASE HandlerStep
    BY <1>2, <2>1, HandlerPosts DEF NoPost
  <2>2. CASE SmartlinkOver \/ TickExpire
    BY <1>2, <2>2 DEF SmartlinkOver, TickExpire
  <2> QED
    BY <1>1, <2>1, <2>2 DEF Next, DeviceStep, DispatchBegin, Os!DispatchBegin, DispatchLoop,
       Os!DispatchTake, Os!DispatchSkip, Os!DispatchEnd, Os!wakeVars, TickBegin, TickSlot, WifiUp,
       WifiDown, SmartlinkLink, ClientFreed, vars, osVars
<1>4. /\ phase = "sdk" /\ ~dispatch_timer /\ \A t \in Os!Tasks : used[t] = 0
      /\ InState("network_actor") /\ smartconfig = "off" /\ \A k \in Keys : ~Tm!Running(k)
  BY <1>1, <1>3 DEF StartInv
<1>5. \A j \in Tm!TimerIds : timer_pool[j].key = NoKey
  BY <1>4, RunningHas DEF Base, TimerTypes, Slot
<1>6. ~HandlerStep
  <2> SUFFICES ASSUME HandlerStep PROVE FALSE
    OBVIOUS
  <2>1. phase \in Os!HandlerPhases
    BY HandlerReturns DEF Base, Returns, Moves, Os!ReturnWith
  <2> QED
    BY <1>4, <2>1 DEF Os!HandlerPhases
<1>7. ~DispatchBegin /\ ~DispatchLoop /\ ~TickBegin /\ ~SmartlinkLink /\ ~SmartlinkOver
  BY <1>3, <1>4 DEF DispatchBegin, Os!DispatchBegin, DispatchLoop, Os!DispatchTake,
     Os!DispatchSkip, Os!DispatchEnd, TickBegin, SmartlinkLink, SmartlinkOver
<1>8. ~TickExpire /\ (TickSlot => UNCHANGED timer_pool)
  <2>1. Tm!NextSlot => scan \in Tm!TimerIds
    BY PoolFacts DEF Base, TimerTypes, Tm!NextSlot
  <2> QED
    BY <1>5, <2>1 DEF TickExpire, TickSlot, Tm!Expire, Tm!SkipFree, Tm!CountDown
<1>9. UNCHANGED <<phase, dispatch_timer, used, tasks_pool, smartconfig, timer_pool>>
  BY <1>1, <1>6, <1>7, <1>8 DEF Next, DeviceStep, TickSlot, WifiUp, WifiDown, ClientFreed, vars,
     osVars, sdkVars, timerVars
<1> QED
  BY <1>4, <1>9 DEF InState, Tm!Running, Tm!Having

\* Only the first fsm_init posts STM_ENTRY_SIG, and only ActorEntry NW_TRAN_IDLE_EVT.
LEMMA EntryComes ==
  ASSUME Base, [Next]_vars, console' = 0, ~SystemInitDone, NEW t \in Os!Tasks
  PROVE  /\ "STM_ENTRY_SIG" \in Waiting(t)' => "STM_ENTRY_SIG" \in Waiting(t)
         /\ "STM_ENTRY_SIG" \in Behind(t)' => "STM_ENTRY_SIG" \in Behind(t)
         /\ t = NETWORK_ID /\ "NW_TRAN_IDLE_EVT" \in Waiting(t)'
              => "NW_TRAN_IDLE_EVT" \in Waiting(t) \/ ActorEntry
<1>0. QueueTypes /\ LoopTypes /\ TimerTypes /\ ~ConsolePost /\ ~ConsoleSdk /\ ~ConsoleInit
  BY StillAlone DEF Base
<1>1. CASE QueueFrame
  BY <1>0, <1>1, QueuesKept DEF QueueFrame, Gains
<1>2. CASE Posts
  <2>1. PICK u \in Os!Tasks, s \in Os!Signals \ {"STM_ENTRY_SIG", "STM_EXIT_SIG"} :
          /\ Post(u, s)
          /\ u = NETWORK_ID /\ s = "NW_TRAN_IDLE_EVT" => ActorEntry
    BY <1>0, <1>2, AlonePosts
  <2>2. Gains(t, IF t = u THEN {s} ELSE {})
    BY <1>0, <2>1, PostQueues
  <2> QED
    BY <2>1, <2>2 DEF Gains
<1>3. CASE Os!DispatchTake
  <2>1. i \in Os!Tasks
    BY <1>0, <1>3, Rings DEF Os!DispatchTake, LoopTypes, DRIVER_ID, NETWORK_ID
  <2> QED
    BY <1>0, <1>3, <2>1, TakeQueues DEF Gains
<1> QED
  BY <1>0, <1>1, <1>2, <1>3, StepQueues

(***************************************************************************)
(* STM_ENTRY_SIG is an event once per task, at the start.  While it is to  *)
(* come the network machine stays in network_actor: NW_TRAN_IDLE_EVT,      *)
(* which moves it on, is posted by the handler that takes it.              *)
(***************************************************************************)
EntryFacts(t) ==
  /\ "STM_ENTRY_SIG" \notin Behind(t)
  /\ Called(t, "STM_ENTRY_SIG") => "STM_ENTRY_SIG" \notin Waiting(t)
  /\ t = NETWORK_ID =>
       /\ phase \in {"exit", "entry"} => "STM_ENTRY_SIG" \notin Waiting(t)
       /\ Coming(t, "STM_ENTRY_SIG")
            => InState("network_actor") /\ ~Coming(t, "NW_TRAN_IDLE_EVT")

EntryInv ==
  console = 0 =>
    /\ phase \in {"exit", "entry"} => i = NETWORK_ID
    /\ \A t \in Os!Tasks : EntryFacts(t)

LEMMA EntryStep ==
  ASSUME Base, StartInv, EntryInv, [Next]_vars
  PROVE  EntryInv'
<1> SUFFICES ASSUME console' = 0
             PROVE  /\ phase' \in {"exit", "entry"} => i' = NETWORK_ID
                    /\ \A t \in Os!Tasks : EntryFacts(t)'
  BY DEF EntryInv, Os!Tasks
<1>0. /\ QueueTypes /\ LoopTypes /\ ~ConsoleInit
      /\ phase \in {"exit", "entry"} => i = NETWORK_ID
      /\ \A t \in Os!Tasks : EntryFacts(t)
      /\ NETWORK_ID \in Os!Tasks /\ tasks_pool \in [Os!Tasks -> Actors]
      /\ console = 0
  BY StillAlone, SignalsAre DEF Base, EntryInv, LoopTypes
<1>1. CASE SystemInitDone
  <2>1. /\ phase' = "sdk" /\ tasks_pool' = tasks_pool /\ InState("network_actor")
        /\ \A t \in Os!Tasks : used[t] = 0
        /\ Os!FsmInit
    BY <1>0, <1>1 DEF SystemInitDone, FsmInit, Os!FsmInit, Os!loopVars, StartInv
  <2>2. ASSUME NEW t \in Os!Tasks PROVE Waiting(t)' \subseteq {"STM_ENTRY_SIG"} /\ Behind(t)' = {}
    <3>1. Waiting(t) = {}
      BY <2>1 DEF Waiting
    <3> QED
      BY <1>0, <2>1, <3>1, FsmInitQueues
  <2> QED
    BY <2>1, <2>2 DEF EntryFacts, Coming, Called, InState
<1>2. ASSUME ~SystemInitDone, NEW t \in Os!Tasks
      PROVE  /\ "STM_ENTRY_SIG" \in Waiting(t)' => "STM_ENTRY_SIG" \in Waiting(t)
             /\ "STM_ENTRY_SIG" \in Behind(t)' => "STM_ENTRY_SIG" \in Behind(t)
             /\ t = NETWORK_ID /\ "NW_TRAN_IDLE_EVT" \in Waiting(t)'
                  => "NW_TRAN_IDLE_EVT" \in Waiting(t) \/ ActorEntry
  BY <1>2, EntryComes
<1>3. CASE HandlerStep
  <2>1. ~SystemInitDone /\ phase \in Os!HandlerPhases /\ phase' # "event" /\ phase' # phase
    <3>1. phase \in Os!HandlerPhases /\ phase' # "event" /\ phase' # phase
      BY <1>0, <1>3, HandlerReturns DEF Returns, Moves, Os!ReturnWith, Os!HandlerPhases
    <3> QED
      BY <3>1 DEF SystemInitDone, FsmInit, Os!FsmInit, Os!loopVars
  <2>2. phase' \in {"exit", "entry"} => i' = NETWORK_ID
    BY <1>0, <1>3, HandlerReturns DEF Returns, Moves, Os!ReturnWith, Os!HandlerPhases
  <2>3. ASSUME NEW t \in Os!Tasks PROVE EntryFacts(t)'
    <3>1. ~Called(t, "STM_ENTRY_SIG")' /\ ~Called(t, "NW_TRAN_IDLE_EVT")'
      BY <2>1 DEF Called
    <3>2. "STM_ENTRY_SIG" \notin Behind(t)'
      BY <1>0, <1>2, <2>1 DEF EntryFacts
    <3>3. ASSUME t = NETWORK_ID, "STM_ENTRY_SIG" \in Waiting(t)'
          PROVE  /\ phase' \notin {"exit", "entry"}
                 /\ InState("network_actor")' /\ "NW_TRAN_IDLE_EVT" \notin Waiting(t)'
      <4>1. /\ "STM_ENTRY_SIG" \in Waiting(t) /\ InState("network_actor")
            /\ "NW_TRAN_IDLE_EVT" \notin Waiting(t) /\ ~Called(t, "NW_TRAN_IDLE_EVT")
            /\ ~Called(t, "STM_ENTRY_SIG") /\ phase = "event"
        BY <1>0, <1>2, <2>1, <3>3 DEF EntryFacts, Coming, Os!HandlerPhases
      <4>2. ~ActorEntry
        BY <3>3, <4>1 DEF ActorEntry, NetworkRuns, Os!Running, Called
      <4>3. Returns
        <5>1. i = NETWORK_ID => sig # "NW_TRAN_IDLE_EVT"
          BY <3>3, <4>1 DEF Called
        <5> QED
          BY <1>0, <1>3, <4>1, <5>1, HandlerReturns DEF InState
      <4>4. phase' = "loop" /\ tasks_pool' = tasks_pool
        BY <4>1, <4>3 DEF Returns, Os!ReturnWith
      <4> QED
        BY <1>2, <2>1, <3>3, <4>1, <4>2, <4>4 DEF InState
    <3> QED
      BY <3>1, <3>2, <3>3 DEF EntryFacts, Coming
  <2> QED
    BY <2>2, <2>3
<1>4. CASE LoopFrame /\ ~HandlerStep /\ ~SystemInitDone
  <2>1. ~ActorEntry
    BY <1>4 DEF HandlerStep
  <2>2. ASSUME NEW t \in Os!Tasks PROVE EntryFacts(t)'
    <3>1. \A s : Called(t, s)' <=> Called(t, s)
      BY <1>4 DEF LoopFrame, Called
    <3> QED
      BY <1>0, <1>2, <1>4, <2>1, <3>1 DEF LoopFrame, EntryFacts, Coming, InState
  <2> QED
    BY <1>0, <1>4, <2>2 DEF LoopFrame
<1>5. CASE (DispatchBegin \/ Os!DispatchSkip \/ Os!DispatchEnd) /\ ~HandlerStep /\ ~SystemInitDone
  <2>1. /\ phase' \in {"sdk", "loop"} /\ tasks_pool' = tasks_pool
        /\ ~ActorEntry
    BY <1>5 DEF DispatchBegin, Os!DispatchBegin, Os!DispatchSkip, Os!DispatchEnd, HandlerStep
  <2>2. ASSUME NEW t \in Os!Tasks PROVE EntryFacts(t)'
    <3>1. ~Called(t, "STM_ENTRY_SIG")' /\ ~Called(t, "NW_TRAN_IDLE_EVT")'
      BY <2>1 DEF Called
    <3> QED
      BY <1>0, <1>2, <1>5, <2>1, <3>1 DEF EntryFacts, Coming, InState
  <2> QED
    BY <2>1, <2>2
<1>6. CASE Os!DispatchTake /\ ~HandlerStep /\ ~SystemInitDone
  <2>1. i \in Os!Tasks /\ phase' = "event" /\ i' = i /\ tasks_pool' = tasks_pool /\ ~ActorEntry
    BY <1>0, <1>6, Rings DEF Os!DispatchTake, LoopTypes, DRIVER_ID, NETWORK_ID, HandlerStep
  <2>2. ASSUME NEW t \in Os!Tasks PROVE EntryFacts(t)'
    <3>1. CASE t = i
      <4>1. sig' \in Waiting(t) /\ Waiting(t)' \subseteq Behind(t)
        BY <1>0, <1>6, <3>1, TakeQueues
      <4>2. "STM_ENTRY_SIG" \notin Waiting(t)' /\ "STM_ENTRY_SIG" \notin Behind(t)'
        BY <1>0, <1>2, <1>6, <4>1 DEF EntryFacts
      <4>3. ASSUME t = NETWORK_ID, sig' = "STM_ENTRY_SIG"
            PROVE  InState("network_actor")' /\ "NW_TRAN_IDLE_EVT" \notin Waiting(t)'
        BY <1>0, <2>1, <4>1, <4>3, BehindWaits DEF EntryFacts, Coming, InState
      <4> QED
        BY <2>1, <4>2, <4>3 DEF EntryFacts, Coming, Called
    <3>2. CASE t # i
      <4>1. ~Called(t, "STM_ENTRY_SIG")' /\ ~Called(t, "NW_TRAN_IDLE_EVT")'
        BY <2>1, <3>2 DEF Called
      <4> QED
        BY <1>0, <1>2, <1>6, <2>1, <4>1 DEF EntryFacts, Coming, InState
    <3> QED
      BY <3>1, <3>2
  <2> QED
    BY <2>1, <2>2
<1> QED
  BY <1>1, <1>3, <1>4, <1>5, <1>6, StepLoop DEF DispatchLoop

(***************************************************************************)
(* A timer runs while its state is the current one, up to the exit of the  *)
(* state; a state's timer is started by its entry, when it does not run,   *)
(* so that no timer ever has two slots.                                    *)
(***************************************************************************)
Entering == phase = "entry" /\ i = NETWORK_ID

TimerInv ==
  console = 0 =>
    /\ PoolInv
    /\ Coming(DRIVER_ID, "STM_ENTRY_SIG") => ~Tm!Running(SYS_TICK)
    /\ Tm!Running(NW_TICK) <=> InState("network_idle") /\ ~Entering
    /\ Tm!Running(NW_CHECK) <=> InState("network_sta") /\ ~Entering

\* The driver's STM_ENTRY_SIG, once taken, does not come again.
LEMMA DriverComing ==
  ASSUME Base, EntryInv, [Next]_vars, console' = 0, ~SystemInitDone,
         Coming(DRIVER_ID, "STM_ENTRY_SIG")'
  PROVE  Coming(DRIVER_ID, "STM_ENTRY_SIG") /\ ~DriverEntry
<1>0. console = 0 /\ DRIVER_ID \in Os!Tasks /\ LoopTypes /\ QueueTypes
  BY StillAlone, SignalsAre DEF Base
<1>1. /\ "STM_ENTRY_SIG" \in Waiting(DRIVER_ID)' => "STM_ENTRY_SIG" \in Waiting(DRIVER_ID)
      /\ Called(DRIVER_ID, "STM_ENTRY_SIG") => "STM_ENTRY_SIG" \notin Waiting(DRIVER_ID)
      /\ phase \in {"exit", "entry"} => i = NETWORK_ID
  BY <1>0, EntryComes DEF EntryInv, EntryFacts
<1>2. HandlerStep => phase' # "event"
  BY <1>0, HandlerReturns DEF Returns, Moves, Os!ReturnWith
<1>3. DriverEntry => Called(DRIVER_ID, "STM_ENTRY_SIG")
  BY <1>1 DEF DriverEntry, DriverRuns, Os!Running, Called, Os!HandlerPhases, DRIVER_ID, NETWORK_ID
<1>4. ~DriverEntry
  BY <1>1, <1>2, <1>3 DEF Coming, Called, HandlerStep
<1>5. CASE Called(DRIVER_ID, "STM_ENTRY_SIG")'
  <2>1. CASE LoopFrame
    BY <1>4, <1>5, <2>1 DEF LoopFrame, Called, Coming
  <2>2. CASE Os!DispatchTake
    <3>1. i = DRIVER_ID
      BY <1>5, <2>2 DEF Os!DispatchTake, Called
    <3> QED
      BY <1>0, <1>4, <1>5, <2>2, <3>1, TakeQueues DEF Called, Coming
  <2>3. CASE DispatchBegin \/ Os!DispatchSkip \/ Os!DispatchEnd
    BY <1>5, <2>3 DEF DispatchBegin, Os!DispatchBegin, Os!DispatchSkip, Os!DispatchEnd, Called
  <2> QED
    BY <1>2, <1>5, <2>1, <2>2, <2>3, StepLoop DEF DispatchLoop, Called
<1> QED
  BY <1>1, <1>4, <1>5 DEF Coming

LEMMA TimerInvStep ==
  ASSUME Base, StartInv, ExitInv, ClientInv, EntryInv, TimerInv, [Next]_vars
  PROVE  TimerInv'
<1> SUFFICES ASSUME console' = 0
             PROVE  /\ PoolInv'
                    /\ Coming(DRIVER_ID, "STM_ENTRY_SIG")' => ~Tm!Running(SYS_TICK)'
                    /\ Tm!Running(NW_TICK)' <=> tasks_pool'[NETWORK_ID] = "network_idle" /\ ~Entering'
                    /\ Tm!Running(NW_CHECK)' <=> tasks_pool'[NETWORK_ID] = "network_sta" /\ ~Entering'
  BY DEF TimerInv, InState
<1>0. /\ TimerTypes /\ LoopTypes /\ ~ConsoleInit /\ ~ConsolePost /\ ~ConsoleSdk /\ PoolInv
      /\ NETWORK_ID \in Os!Tasks /\ tasks_pool \in [Os!Tasks -> Actors]
      /\ Coming(DRIVER_ID, "STM_ENTRY_SIG") => ~Tm!Running(SYS_TICK)
      /\ Tm!Running(NW_TICK) <=> tasks_pool[NETWORK_ID] = "network_idle" /\ ~Entering
      /\ Tm!Running(NW_CHECK) <=> tasks_pool[NETWORK_ID] = "network_sta" /\ ~Entering
      /\ phase = "event" => sig # "STM_EXIT_SIG"
      /\ phase \in {"exit", "entry"} => i = NETWORK_ID /\ tasks_pool[NETWORK_ID] # "network_sta"
      /\ Called(NETWORK_ID, "STM_ENTRY_SIG") => tasks_pool[NETWORK_ID] = "network_actor"
      /\ console = 0
  BY StillAlone, SignalsAre
     DEF Base, LoopTypes, TimerInv, ExitInv, ClientInv, EntryInv, EntryFacts, Coming, InState
<1>1. CASE SystemInitDone
  <2>1. /\ tasks_pool[NETWORK_ID] = "network_actor" /\ tasks_pool' = tasks_pool
        /\ timer_pool' = [j \in Tm!TimerIds |-> [timer_pool[j] EXCEPT !.key = NoKey]]
    BY <1>0, <1>1 DEF SystemInitDone, FsmInit, Os!FsmInit, Os!loopVars, StartInv, InState, Tm!ClearPool
  <2>2. \A j \in Tm!TimerIds : timer_pool'[j].key = NoKey
    BY <1>0, <2>1 DEF TimerTypes, Slot
  <2>3. \A k \in Keys : ~Tm!Running(k)'
    BY <2>2, PoolFacts, RunningHasNext
  <2>4. PoolInv'
    BY <2>2 DEF PoolInv, Tm!UniqueTimers, AllReload, Tm!TimerIds
  <2> QED
    BY <2>1, <2>3, <2>4, DistinctKeys
<1>2. CASE HandlerStep /\ ~SystemInitDone
  <2>0. SysTickPeriod \in Nat /\ NwTickPeriod \in Nat /\ RegisterPeriod \in Nat
    BY NetworkTaskAssumption
  <2>1. CASE phase = "exit"
    <3>1. /\ i = NETWORK_ID /\ sig = "STM_EXIT_SIG" /\ ~Entering
          /\ phase' = "entry" /\ i' = NETWORK_ID /\ tasks_pool' = tasks_pool
      BY <1>0, <1>2, <2>1, HandlerReturns DEF LoopTypes, Returns, Moves, Os!ReturnWith, Entering
    <3>2. ~DriverEntry /\ ~IdleEntry /\ ~StaEntry
      BY <3>1 DEF DriverEntry, IdleEntry, StaEntry, DriverRuns, NetworkRuns, Os!Running
    <3>3. ~StaExit /\ (IdleExit => tasks_pool[NETWORK_ID] = "network_idle")
      BY <1>0, <2>1 DEF StaExit, IdleExit, NetworkRuns, Os!Running
    <3>4. CASE tasks_pool[NETWORK_ID] = "network_idle"
      <4>1. StopTimer(NW_TICK)
        BY <1>2, <2>1, <3>1, <3>4, ExitHandlers DEF IdleExit
      <4>2. PoolInv' /\ ~Tm!Running(NW_TICK)'
            /\ (Tm!Running(NW_CHECK)' <=> Tm!Running(NW_CHECK))
            /\ (Tm!Running(SYS_TICK)' <=> Tm!Running(SYS_TICK))
        BY <1>0, <4>1, StopStops, DistinctKeys DEF StopTimer
      <4> QED
        BY <1>0, <1>2, <3>1, <3>4, <4>2, DriverComing DEF Entering
    <3>5. CASE tasks_pool[NETWORK_ID] # "network_idle"
      <4>1. timer_pool' = timer_pool
        BY <1>2, <3>2, <3>3, <3>5, HandlerTimers DEF NoTimer, timerVars
      <4>2. PoolInv' /\ \A k \in Keys : Tm!Running(k)' <=> Tm!Running(k)
        BY <1>0, <4>1, PoolSame
      <4> QED
        <5>1. ~Tm!Running(NW_TICK)' /\ ~Tm!Running(NW_CHECK)'
          BY <1>0, <2>1, <3>1, <3>5, <4>2, DistinctKeys
        <5>2. Tm!Running(SYS_TICK)' <=> Tm!Running(SYS_TICK)
          BY <4>2, DistinctKeys
        <5> QED
          BY <1>0, <1>2, <3>1, <3>5, <4>2, <5>1, <5>2, DriverComing DEF Entering
    <3> QED
      BY <3>4, <3>5
  <2>2. CASE phase = "entry"
    <3>1. /\ i = NETWORK_ID /\ sig = "STM_ENTRY_SIG" /\ Entering
          /\ ~Entering' /\ tasks_pool'[NETWORK_ID] = stm_state_temp
      BY <1>0, <1>2, <2>2, HandlerReturns DEF LoopTypes, Returns, Moves, Os!ReturnWith, Entering
    <3>2. ~DriverEntry /\ ~IdleExit /\ ~StaExit
      BY <3>1 DEF DriverEntry, IdleExit, StaExit, DriverRuns, NetworkRuns, Os!Running, DRIVER_ID,
                  NETWORK_ID
    <3>3. /\ IdleEntry => stm_state_temp = "network_idle"
          /\ StaEntry => stm_state_temp = "network_sta"
      BY <2>2 DEF StaEntry, IdleEntry, NetworkRuns, Os!Running
    <3>4. CASE stm_state_temp = "network_idle"
      <4>1. StartTimer(NW_TICK, NwTickPeriod)
        BY <1>2, <2>2, <3>1, <3>4, EntryHandlers DEF IdleEntry
      <4>2. PoolInv' /\ Tm!Running(NW_TICK)'
            /\ (Tm!Running(NW_CHECK)' <=> Tm!Running(NW_CHECK))
            /\ (Tm!Running(SYS_TICK)' <=> Tm!Running(SYS_TICK))
        BY <1>0, <2>0, <3>1, <4>1, StartRuns, DistinctKeys DEF StartTimer
      <4> QED
        BY <1>0, <1>2, <3>1, <3>4, <4>2, DriverComing
    <3>5. CASE stm_state_temp = "network_sta"
      <4>1. StartTimer(NW_CHECK, RegisterPeriod)
        BY <1>2, <2>2, <3>1, <3>5, EntryHandlers DEF StaEntry
      <4>2. PoolInv' /\ Tm!Running(NW_CHECK)'
            /\ (Tm!Running(NW_TICK)' <=> Tm!Running(NW_TICK))
            /\ (Tm!Running(SYS_TICK)' <=> Tm!Running(SYS_TICK))
        BY <1>0, <2>0, <3>1, <4>1, StartRuns, DistinctKeys DEF StartTimer
      <4> QED
        BY <1>0, <1>2, <3>1, <3>5, <4>2, DriverComing
    <3>6. CASE stm_state_temp \notin {"network_idle", "network_sta"}
      <4>1. timer_pool' = timer_pool
        BY <1>2, <3>2, <3>3, <3>6, HandlerTimers DEF NoTimer, timerVars
      <4>2. PoolInv' /\ \A k \in Keys : Tm!Running(k)' <=> Tm!Running(k)
        BY <1>0, <4>1, PoolSame
      <4> QED
        BY <1>0, <1>2, <3>1, <3>6, <4>2, DriverComing, DistinctKeys
    <3> QED
      BY <3>4, <3>5, <3>6
  <2>3. CASE phase = "event"
    <3>1. tasks_pool' = tasks_pool /\ ~Entering /\ ~Entering'
      BY <1>0, <1>2, <2>3, HandlerReturns DEF Returns, Moves, Os!ReturnWith, Entering
    <3>2. ~IdleEntry /\ ~StaEntry /\ ~IdleExit /\ ~StaExit
      BY <1>0, <2>3 DEF IdleEntry, StaEntry, IdleExit, StaExit, NetworkRuns, Os!Running, Called
    <3>3. CASE NoTimer
      <4>1. PoolInv' /\ \A k \in Keys : Tm!Running(k)' <=> Tm!Running(k)
        BY <1>0, <3>3, PoolSame DEF NoTimer, timerVars
      <4> QED
        BY <1>0, <1>2, <3>1, <4>1, DriverComing, DistinctKeys
    <3>4. CASE DriverEntry /\ StartTimer(SYS_TICK, SysTickPeriod)
      <4>1. ~Tm!Running(SYS_TICK)
        BY <1>0, <2>3, <3>4 DEF DriverEntry, DriverRuns, Os!Running, Coming, Called
      <4>2. PoolInv' /\ (Tm!Running(NW_TICK)' <=> Tm!Running(NW_TICK))
            /\ (Tm!Running(NW_CHECK)' <=> Tm!Running(NW_CHECK))
        BY <1>0, <2>0, <3>4, <4>1, StartRuns, DistinctKeys DEF StartTimer
      <4> QED
        BY <1>0, <1>2, <3>1, <3>4, <4>2, DriverComing
    <3> QED
      BY <1>2, <3>2, <3>3, <3>4, HandlerTimers
  <2>4. phase \in {"event", "exit", "entry"}
    BY <1>2, HandlerReturns, <1>0 DEF Returns, Moves, Os!ReturnWith, Os!HandlerPhases
  <2> QED
    BY <2>1, <2>2, <2>3, <2>4
<1>3. CASE ~HandlerStep /\ ~SystemInitDone
  <2>1. PoolInv' /\ \A k \in Keys : Tm!Running(k)' <=> Tm!Running(k)
    <3>1. CASE TickSlot \/ TickExpire
      <4>1. Tm!NextSlot /\ (Tm!SkipFree \/ Tm!CountDown \/ Tm!Expire)
        BY <3>1 DEF TickSlot, TickExpire
      <4>2. \A j \in Tm!TimerIds : /\ timer_pool'[j].key = timer_pool[j].key
                                  /\ timer_pool'[j].reloading = timer_pool[j].reloading
        BY <1>0, <4>1, ScanSlot DEF PoolInv, AllReload
      <4> QED
        BY <1>0, <4>2, PoolSame
    <3>2. CASE timer_pool' = timer_pool
      BY <1>0, <3>2, PoolSame
    <3> QED
      BY <1>0, <1>3, <3>1, <3>2
         DEF Next, DeviceStep, DispatchBegin, DispatchLoop, TickBegin, Tm!ScanBegin, WifiUp, WifiDown,
             SmartlinkLink, SmartlinkOver, ClientFreed, vars, timerVars
  <2>2. tasks_pool' = tasks_pool /\ (Entering' <=> Entering)
    <3>1. CASE LoopFrame
      BY <3>1 DEF LoopFrame, Entering
    <3>2. CASE DispatchBegin \/ DispatchLoop
      BY <3>2 DEF DispatchBegin, Os!DispatchBegin, DispatchLoop, Os!DispatchTake, Os!DispatchSkip,
                  Os!DispatchEnd, Entering
    <3> QED
      BY <1>3, <3>1, <3>2, StepLoop
  <2> QED
    BY <1>0, <1>3, <2>1, <2>2, DriverComing, DistinctKeys
<1> QED
  BY <1>1, <1>2, <1>3

LEMMA InitTimers == Init => StartInv /\ EntryInv /\ TimerInv
<1> SUFFICES ASSUME Init PROVE StartInv /\ EntryInv /\ TimerInv
  OBVIOUS
<1>1. \A t \in Os!Tasks : Waiting(t) = {} /\ Behind(t) = {} /\ used[t] = 0
  BY DEF Init, Os!Init, Waiting, Behind
<1>2. InState("network_actor") /\ phase = "sdk" /\ ~dispatch_timer /\ smartconfig = "off"
  BY SignalsAre DEF Init, Os!Init, InState, DRIVER_ID, NETWORK_ID
<1>3. \A j \in Tm!TimerIds : timer_pool[j].key = NoKey
  BY DEF Init, Tm!Init, Tm!FreeSlot
<1>4. \A k \in Keys : ~Tm!Running(k)
  BY <1>3, PoolFacts, RunningHas
<1>5. StartInv
  BY <1>1, <1>2, <1>4 DEF StartInv
<1>6. EntryInv
  BY <1>1, <1>2 DEF EntryInv, EntryFacts, Coming, Called
<1>7. TimerInv
  <2>1. PoolInv
    BY <1>3 DEF PoolInv, Tm!UniqueTimers, AllReload
  <2> QED
    BY <1>2, <1>4, <2>1, DistinctKeys DEF TimerInv, InState
<1> QED
  BY <1>5, <1>6, <1>7

\* Until the user interferes, each state of the network machine runs with its own timer and no
\* other (network_task.c, fsm.c), for any ring, any pool and any periods: also when ticks are lost
\* to a full ring and late scans overlap the transitions.
THEOREM TimersBelongToStates == Spec => [](console = 0 => TimersFollowState)
<1>1. TimerInv => (console = 0 => TimersFollowState)
  BY DEF TimerInv, TimersFollowState, Settled, Entering
<1> QED
  BY <1>1, InitBase, BaseStep, InitAlone, ExitStep, ClientStep, InitTimers, StartStep, EntryStep,
     TimerInvStep, PTL DEF Spec

\* Nor does a timer ever get a second slot of the pool, which os_timer_del would leave running.
THEOREM OneSlotPerTimer == Spec => [](console = 0 => Tm!UniqueTimers)
<1>1. TimerInv => (console = 0 => Tm!UniqueTimers)
  BY DEF TimerInv, PoolInv
<1> QED
  BY <1>1, InitBase, BaseStep, InitAlone, ExitStep, ClientStep, InitTimers, StartStep, EntryStep,
     TimerInvStep, PTL DEF Spec
-----------------------------------------------------------------------------
(* A device left alone: the queues *)

(***************************************************************************)
(* Room for the three messages of the start, and no timer that could fire  *)
(* twice while a dispatch pass is late.  In the code a ring has 8 slots,   *)
(* the shortest period is 100 ms, and the dispatch timer is due at once.   *)
(***************************************************************************)
RoomAssumption ==
  /\ QUEUE_SIZE >= 3
  /\ \A p \in Periods : LateTicks <= p

One(b) == IF b THEN 1 ELSE 0

\* The signals of task t that have another one behind them.
Ahead(t) == {Nth(t, k) : k \in 0 .. used[t] - 2}

NwTicks == {"NW_TICK_EVT", "NW_CHECK_REGISTER_EVT"}

WakeRoom ==
  /\ phase # "sdk" => scan = TIMER_CNT
  /\ dispatch_timer <=> next_dispatch = 1

\* A pass that is past the driver has emptied its ring.
DriverRoom ==
  /\ used[DRIVER_ID] <= 1
  /\ phase # "sdk" /\ ~(phase = "loop" /\ i = 0) => used[DRIVER_ID] = 0

\* At the start each STM_ENTRY_SIG still to be handled will add one message to network_actor's
\* ring, and NW_TRAN_IDLE_EVT comes last.
ActorRoom ==
  /\ Coming(DRIVER_ID, "STM_ENTRY_SIG") => "STM_ENTRY_SIG" \in Waiting(NETWORK_ID)
  /\ InState("network_actor") =>
       used[NETWORK_ID] + One(Coming(DRIVER_ID, "STM_ENTRY_SIG"))
                        + One(Called(NETWORK_ID, "STM_ENTRY_SIG")) <= 2
  /\ "NW_TRAN_IDLE_EVT" \notin Ahead(NETWORK_ID)
  /\ Called(NETWORK_ID, "NW_TRAN_IDLE_EVT") => used[NETWORK_ID] = 0

\* After the start the ring holds a tick of the current state at most, which a pass empties.
StateRoom ==
  /\ phase \in {"exit", "entry"} =>
       used[NETWORK_ID] = 0 /\ stm_state_temp \in {"network_idle", "network_sta"}
  /\ ~InState("network_actor") =>
       /\ InState("network_idle") \/ InState("network_sta")
       /\ used[NETWORK_ID] <= 1
       /\ Waiting(NETWORK_ID) \subseteq NwTicks
       /\ phase = "event" /\ i = NETWORK_ID => sig \in NwTicks /\ used[NETWORK_ID] = 0
       /\ phase = "loop" /\ i = 2 => used[NETWORK_ID] = 0

\* How often the scan can still look at slot j before the pass that is due.
Visits(j) == (LateTicks - late) + One(scan <= j)

\* A timer whose message waits does not expire before the pass that takes it.
TimeRoom ==
  \A j \in Tm!TimerIds : timer_pool[j].key # NoKey =>
    /\ timer_pool[j].reload >= LateTicks
    /\ phase = "sdk" /\ used[timer_pool[j].key[1]] > 0
         => dispatch_timer /\ timer_pool[j].timeout >= Visits(j)

RoomFacts == WakeRoom /\ DriverRoom /\ ActorRoom /\ StateRoom /\ TimeRoom

RoomInv == console = 0 => RoomFacts

\* What the earlier invariants say of a device left alone.
AloneInv == Base /\ SmartInv /\ StartInv /\ ExitInv /\ ClientInv /\ EntryInv /\ TimerInv

LEMMA InitAloneInv == Init => AloneInv
<1>1. Init => SmartInv
  BY DEF Init, SmartInv
<1> QED
  BY <1>1, InitBase, InitAlone, InitTimers DEF AloneInv

LEMMA AloneInvStep == ASSUME AloneInv, [Next]_vars PROVE AloneInv'
  BY BaseStep, SmartStep, StartStep, ExitStep, ClientStep, EntryStep, TimerInvStep DEF AloneInv

-----------------------------------------------------------------------------
(* What the operators do to the counts and to what is ahead *)

LEMMA Ids == DRIVER_ID = 0 /\ NETWORK_ID = 1 /\ DRIVER_ID # NETWORK_ID
  BY DEF DRIVER_ID, NETWORK_ID

LEMMA Counts ==
  ASSUME QueueTypes, NEW t \in Os!Tasks
  PROVE  /\ used[t] \in Nat /\ used[t] <= QUEUE_SIZE
         /\ used[t] = 0 => Waiting(t) = {} /\ Ahead(t) = {}
         /\ used[t] <= 1 => Ahead(t) = {}
<1>1. used[t] \in 0 .. QUEUE_SIZE
  BY DEF QueueTypes
<1> QED
  BY <1>1, Rings DEF Waiting, Ahead

\* A message that finds room goes last, and a pass is due.
LEMMA PostAdds ==
  ASSUME QueueTypes, NEW t \in Os!Tasks, NEW s \in Os!Signals, Post(t, s), used[t] < QUEUE_SIZE
  PROVE  /\ used'[t] = used[t] + 1 /\ Ahead(t)' \subseteq Waiting(t)
         /\ \A u \in Os!Tasks \ {t} : used'[u] = used[u] /\ Waiting(u)' = Waiting(u)
                                      /\ Ahead(u)' = Ahead(u)
         /\ next_dispatch' = 1
         /\ dispatch_timer' = (dispatch_timer \/ (next_dispatch = 0 /\ dispatch_hook))
<1>0. used[t] \in Nat /\ tail[t] \in Os!Slots /\ head[t] \in Os!Slots
      /\ tail[t] = Os!SlotAfter(head[t], used[t]) /\ t \in DOMAIN used
  BY Counts DEF QueueTypes, Os!RingConsistent
<1>1. /\ head' = head
      /\ used' = [used EXCEPT ![t] = used[t] + 1]
      /\ buf' = [buf EXCEPT ![t] = [buf[t] EXCEPT ![tail[t]] = s]]
      /\ next_dispatch' = 1
      /\ dispatch_timer' = (dispatch_timer \/ (next_dispatch = 0 /\ dispatch_hook))
  BY <1>0, Rings DEF Post, Os!OsPostMessage, Os!Enqueue, Os!CallHook, QueueTypes
<1>2. used'[t] = used[t] + 1 /\ buf'[t] = [buf[t] EXCEPT ![tail[t]] = s]
  BY <1>1 DEF QueueTypes
<1>3. Ahead(t)' \subseteq Waiting(t)
  <2> SUFFICES ASSUME NEW k \in 0 .. used'[t] - 2 PROVE Nth(t, k)' \in Waiting(t)
    BY DEF Ahead
  <2>1. k \in 0 .. used[t] - 1 /\ k \in 0 .. QUEUE_SIZE - 1 /\ used[t] \in 0 .. QUEUE_SIZE - 1
        /\ k # used[t]
    BY <1>0, <1>2, Rings
  <2>2. Os!SlotAfter(head[t], k) # tail[t]
    BY <1>0, <2>1, RingInjective
  <2>3. Nth(t, k)' = buf'[t][Os!SlotAfter(head'[t], k)]
    BY DEF Nth, Os!SlotAfter
  <2>4. k \in 0 .. QUEUE_SIZE
    BY <2>1, Rings
  <2>5. Os!SlotAfter(head[t], k) \in Os!Slots /\ buf[t] \in [Os!Slots -> Os!Signals]
    BY <1>0, <2>4, RingSlots DEF QueueTypes
  <2>6. Nth(t, k)' = Nth(t, k)
    BY <1>1, <1>2, <2>2, <2>3, <2>5 DEF Nth
  <2> QED
    BY <2>1, <2>6 DEF Waiting
<1>4. ASSUME NEW u \in Os!Tasks \ {t}
      PROVE  used'[u] = used[u] /\ Waiting(u)' = Waiting(u) /\ Ahead(u)' = Ahead(u)
  <2>1. head'[u] = head[u] /\ used'[u] = used[u] /\ buf'[u] = buf[u]
    BY <1>1 DEF QueueTypes
  <2> QED
    BY <2>1, NotTouched DEF Ahead, Nth, Os!SlotAfter
<1> QED
  BY <1>1, <1>2, <1>3, <1>4

\* Taking a message does not bring one to the front that was last.
LEMMA TakeRemoves ==
  ASSUME QueueTypes, NEW t \in Os!Tasks, t = i, Os!DispatchTake
  PROVE  /\ used[t] > 0 /\ used'[t] = used[t] - 1
         /\ Ahead(t)' \subseteq Ahead(t)
         /\ used[t] >= 2 => sig' \in Ahead(t)
         /\ \A u \in Os!Tasks \ {t} : used'[u] = used[u] /\ Waiting(u)' = Waiting(u)
                                      /\ Ahead(u)' = Ahead(u)
<1>0. used[t] \in Nat /\ used[t] <= QUEUE_SIZE /\ head[t] \in Os!Slots /\ used[t] > 0
  BY Counts DEF QueueTypes, Os!DispatchTake
<1>1. /\ head' = [head EXCEPT ![t] = Os!Wrap(head[t])]
      /\ used' = [used EXCEPT ![t] = used[t] - 1]
      /\ UNCHANGED buf
      /\ sig' = buf[t][head[t]]
  BY DEF Os!DispatchTake, QueueTypes
<1>2. head'[t] = Os!Wrap(head[t]) /\ used'[t] = used[t] - 1
  BY <1>1 DEF QueueTypes
<1>3. Ahead(t)' \subseteq Ahead(t)
  <2> SUFFICES ASSUME NEW k \in 0 .. used'[t] - 2 PROVE Nth(t, k)' \in Ahead(t)
    BY DEF Ahead
  <2>1. k \in 0 .. QUEUE_SIZE /\ k < QUEUE_SIZE /\ k + 1 \in 0 .. used[t] - 2
    BY <1>0, <1>2, Rings
  <2>2. Os!SlotAfter(Os!Wrap(head[t]), k) = Os!SlotAfter(head[t], k + 1)
    BY <1>0, <2>1, RingSlots
  <2>3. Nth(t, k)' = buf'[t][Os!SlotAfter(head'[t], k)]
    BY DEF Nth, Os!SlotAfter
  <2>4. Nth(t, k)' = Nth(t, k + 1)
    BY <1>1, <1>2, <2>2, <2>3 DEF Nth
  <2> QED
    BY <2>1, <2>4 DEF Ahead
<1>4. ASSUME used[t] >= 2 PROVE sig' \in Ahead(t)
  <2>1. 0 \in 0 .. QUEUE_SIZE /\ 0 \in 0 .. used[t] - 2
    BY <1>0, <1>4, Rings
  <2>2. sig' = Nth(t, 0)
    BY <1>0, <1>1, <2>1, RingSlots DEF Nth
  <2> QED
    BY <2>1, <2>2 DEF Ahead
<1>5. ASSUME NEW u \in Os!Tasks \ {t}
      PROVE  used'[u] = used[u] /\ Waiting(u)' = Waiting(u) /\ Ahead(u)' = Ahead(u)
  <2>1. head'[u] = head[u] /\ used'[u] = used[u] /\ buf'[u] = buf[u]
    BY <1>1 DEF QueueTypes
  <2> QED
    BY <2>1, NotTouched DEF Ahead, Nth, Os!SlotAfter
<1> QED
  BY <1>0, <1>2, <1>3, <1>4, <1>5

\* fsm_init on empty rings.
LEMMA InitAdds ==
  ASSUME QueueTypes, Os!FsmInit, NEW t \in Os!Tasks, \A u \in Os!Tasks : used[u] = 0
  PROVE  /\ used'[t] = 1 /\ Ahead(t)' = {} /\ Waiting(t)' = {"STM_ENTRY_SIG"}
         /\ next_dispatch' = 1 /\ dispatch_timer' = (dispatch_timer \/ next_dispatch = 0)
<1>0. used[t] = 0 /\ Os!HasRoom(t) /\ head[t] \in Os!Slots /\ tail[t] \in Os!Slots
      /\ tail[t] = Os!SlotAfter(head[t], used[t]) /\ buf[t] \in [Os!Slots -> Os!Signals]
  BY Rings DEF QueueTypes, Os!RingConsistent, Os!HasRoom
<1>1. /\ used'[t] = 1 /\ head' = head
      /\ buf'[t] = [buf[t] EXCEPT ![tail[t]] = "STM_ENTRY_SIG"]
      /\ next_dispatch' = 1 /\ dispatch_timer' = (dispatch_timer \/ next_dispatch = 0)
  BY <1>0 DEF Os!FsmInit, Os!STM_ENTRY_SIG
<1>2. Nth(t, 0)' = "STM_ENTRY_SIG"
  <2>1. tail[t] = Os!SlotAfter(head[t], 0)
    BY <1>0
  <2>2. Nth(t, 0)' = buf'[t][Os!SlotAfter(head'[t], 0)]
    BY DEF Nth, Os!SlotAfter
  <2> QED
    BY <1>0, <1>1, <2>1, <2>2
<1>3. Waiting(t)' = {"STM_ENTRY_SIG"}
  <2>1. \A k : k \in 0 .. used'[t] - 1 <=> k = 0
    BY <1>1
  <2> QED
    BY <1>2, <2>1 DEF Waiting
<1>4. Ahead(t)' = {}
  BY <1>1 DEF Ahead
<1> QED
  BY <1>1, <1>3, <1>4

LEMMA QueuesSame ==
  ASSUME UNCHANGED <<head, used, buf>>, NEW t
  PROVE  used'[t] = used[t] /\ Waiting(t)' = Waiting(t) /\ Ahead(t)' = Ahead(t)
<1>1. Waiting(t)' = Waiting(t)
  BY NotTouched
<1>2. Ahead(t)' = Ahead(t)
  BY DEF Ahead, Nth, Os!SlotAfter
<1> QED
  BY <1>1, <1>2
-----------------------------------------------------------------------------
(* One step of a device left alone *)

\* The facts that the steps below start from.
RoomContext ==
  /\ RoomAssumption /\ AloneInv /\ RoomFacts /\ console = 0

LEMMA ContextFacts ==
  ASSUME RoomContext
  PROVE  /\ QueueTypes /\ LoopTypes /\ TimerTypes /\ RestTypes
         /\ WakeRoom /\ DriverRoom /\ ActorRoom /\ StateRoom /\ TimeRoom
         /\ EntryFacts(DRIVER_ID) /\ EntryFacts(NETWORK_ID) /\ PoolInv
         /\ phase \in {"exit", "entry"} => i = NETWORK_ID
         /\ phase = "event" => sig # "STM_EXIT_SIG"
         /\ Tm!Running(NW_TICK) \/ Tm!Running(NW_CHECK) => ~InState("network_actor")
         /\ ~(Tm!Running(NW_TICK) /\ Tm!Running(NW_CHECK))
         /\ smartconfig # "off" => InState("network_smart")
         /\ ~dispatch_hook => /\ phase = "sdk" /\ \A t \in Os!Tasks : used[t] = 0
                              /\ InState("network_actor") /\ \A k \in Keys : ~Tm!Running(k)
         /\ DRIVER_ID \in Os!Tasks /\ NETWORK_ID \in Os!Tasks
         /\ used[DRIVER_ID] \in Nat /\ used[NETWORK_ID] \in Nat
         /\ late \in 0 .. LateTicks /\ LateTicks \in Nat
         /\ QUEUE_SIZE \in Nat /\ QUEUE_SIZE >= 3
         /\ tasks_pool \in [Os!Tasks -> Actors] /\ scan \in 0 .. TIMER_CNT
<1>1. /\ QueueTypes /\ LoopTypes /\ TimerTypes /\ RestTypes
      /\ WakeRoom /\ DriverRoom /\ ActorRoom /\ StateRoom /\ TimeRoom
      /\ DRIVER_ID \in Os!Tasks /\ NETWORK_ID \in Os!Tasks
  BY SignalsAre DEF RoomContext, AloneInv, Base, RoomFacts
<1>2. EntryFacts(DRIVER_ID) /\ EntryFacts(NETWORK_ID)
      /\ (phase \in {"exit", "entry"} => i = NETWORK_ID)
  BY <1>1 DEF RoomContext, AloneInv, EntryInv
<1>3. /\ PoolInv
      /\ Tm!Running(NW_TICK) \/ Tm!Running(NW_CHECK) => ~InState("network_actor")
      /\ ~(Tm!Running(NW_TICK) /\ Tm!Running(NW_CHECK))
  BY DEF RoomContext, AloneInv, TimerInv, InState
<1>4. phase = "event" => sig # "STM_EXIT_SIG"
  BY DEF RoomContext, AloneInv, ExitInv
<1>5. smartconfig # "off" => InState("network_smart")
  BY DEF RoomContext, AloneInv, SmartInv
<1>6. ~dispatch_hook => /\ phase = "sdk" /\ \A t \in Os!Tasks : used[t] = 0
                        /\ InState("network_actor") /\ \A k \in Keys : ~Tm!Running(k)
  BY DEF RoomContext, AloneInv, StartInv
<1>7. used[DRIVER_ID] \in Nat /\ used[NETWORK_ID] \in Nat
  BY <1>1, Counts
<1>8. late \in 0 .. LateTicks /\ LateTicks \in Nat /\ QUEUE_SIZE \in Nat /\ QUEUE_SIZE >= 3
  BY <1>1, NetworkTaskAssumption DEF RestTypes, RoomContext, RoomAssumption
<1>9. tasks_pool \in [Os!Tasks -> Actors] /\ scan \in 0 .. TIMER_CNT
  BY <1>1 DEF LoopTypes, TimerTypes
<1> QED
  BY <1>1, <1>2, <1>3, <1>4, <1>5, <1>6, <1>7, <1>8, <1>9

\* Handlers leave the scan alone and do not end in the SDK.
LEMMA HandlerEnds ==
  ASSUME LoopTypes, HandlerStep
  PROVE  /\ phase \in Os!HandlerPhases /\ phase' \in {"loop", "exit", "entry"} /\ phase' # phase
         /\ i \in Os!Tasks /\ i' = IF phase' = "loop" THEN i + 1 ELSE i
         /\ \A s : ~Called(DRIVER_ID, s)' /\ ~Called(NETWORK_ID, s)'
         /\ scan' = scan
<1>1. /\ phase \in Os!HandlerPhases /\ phase' \in {"loop", "exit", "entry"} /\ phase' # phase
      /\ i' = IF phase' = "loop" THEN i + 1 ELSE i
  <2>1. CASE Returns
    BY <2>1 DEF Returns, Os!ReturnWith, Os!HandlerPhases
  <2>2. ASSUME NEW h, Moves(h)
        PROVE  phase = "event" /\ phase' = "exit" /\ i' = i
    BY <2>2 DEF Moves, Os!ReturnWith
  <2> QED
    BY <2>1, <2>2, HandlerReturns DEF Os!HandlerPhases
<1>2. scan' = scan
  BY HandlerTimers DEF NoTimer, StartTimer, StopTimer, timerVars
<1> QED
  BY <1>1, <1>2 DEF Called, LoopTypes

\* Smartconfig is the only way into network_smart.
LEMMA HandlerMoves ==
  ASSUME LoopTypes, HandlerStep, Moves("network_smart")
  PROVE  (i = NETWORK_ID /\ sig = "NW_TRAN_SMART_EVT" /\ InState("network_idle"))
<1>1. stm_ret_value = FALSE /\ phase = "event" /\ phase' = "exit"
  BY DEF LoopTypes, Moves, Os!ReturnWith
<1>2. ~Return
  BY <1>1 DEF Return, Os!ReturnWith, LoopTypes
<1>3. stm_state_temp' = "network_smart"
  BY DEF Moves, Os!ReturnWith
<1>4. ASSUME NEW h, ReturnTran(h) PROVE h = "network_smart"
  BY <1>3, <1>4 DEF ReturnTran, Os!ReturnWith
<1>5. IdleTranSmart
  BY <1>2, <1>4 DEF HandlerStep, DriverEntry, DriverIgnores, ActorEntry, ActorTranIdle, ActorTranAp,
     IdleEntry, IdleExit, IdleTickOnline, IdleTickOffline, SmartEntry, SmartExit, SmartOk,
     SmartTimeout, StaEntry, StaExit, StaUpgrade, NetworkIgnores
<1> QED
  BY <1>1, <1>5 DEF IdleTranSmart, NetworkRuns, Os!Running, InState

\* The only handlers that post run for STM_ENTRY_SIG in the first pass, and find room.
LEMMA PostingHandlers ==
  ASSUME RoomContext, HandlerStep
  PROVE  /\ DriverEntry => /\ Called(DRIVER_ID, "STM_ENTRY_SIG")
                           /\ "STM_ENTRY_SIG" \in Waiting(NETWORK_ID)
                           /\ InState("network_actor") /\ used[NETWORK_ID] <= 1
         /\ ActorEntry => /\ Called(NETWORK_ID, "STM_ENTRY_SIG")
                          /\ InState("network_actor") /\ used[NETWORK_ID] <= 1
<1> USE ContextFacts
<1>1. ASSUME DriverEntry
      PROVE  /\ Called(DRIVER_ID, "STM_ENTRY_SIG") /\ "STM_ENTRY_SIG" \in Waiting(NETWORK_ID)
             /\ InState("network_actor") /\ used[NETWORK_ID] <= 1
  <2>1. Called(DRIVER_ID, "STM_ENTRY_SIG")
    BY <1>1, Ids DEF DriverEntry, DriverRuns, Os!Running, Called, Os!HandlerPhases
  <2>2. "STM_ENTRY_SIG" \in Waiting(NETWORK_ID) /\ One(Coming(DRIVER_ID, "STM_ENTRY_SIG")) = 1
    BY <2>1 DEF ActorRoom, Coming, One
  <2>3. InState("network_actor")
    BY <2>2 DEF EntryFacts, Coming
  <2>4. One(Called(NETWORK_ID, "STM_ENTRY_SIG")) \in {0, 1}
    BY DEF One
  <2> QED
    BY <2>1, <2>2, <2>3, <2>4 DEF ActorRoom
<1>2. ASSUME ActorEntry
      PROVE  /\ Called(NETWORK_ID, "STM_ENTRY_SIG") /\ InState("network_actor")
             /\ used[NETWORK_ID] <= 1
  <2>1. phase = "event"
    BY <1>2 DEF ActorEntry, NetworkRuns, Os!Running, Os!HandlerPhases, LoopTypes, StateRoom
  <2>2. Called(NETWORK_ID, "STM_ENTRY_SIG") /\ InState("network_actor")
    BY <1>2, <2>1 DEF ActorEntry, NetworkRuns, Os!Running, Called, InState
  <2>3. One(Coming(DRIVER_ID, "STM_ENTRY_SIG")) \in {0, 1}
        /\ One(Called(NETWORK_ID, "STM_ENTRY_SIG")) = 1
    BY <2>2 DEF One
  <2> QED
    BY <2>2, <2>3 DEF ActorRoom
<1> QED
  BY <1>1, <1>2

\* A timer expires for a task whose ring is empty.
LEMMA ExpiryFindsRoom ==
  ASSUME RoomContext, TickExpire
  PROVE  /\ phase = "sdk" /\ dispatch_hook /\ scan \in Tm!TimerIds
         /\ timer_pool[scan].key \in Keys /\ Tm!Running(timer_pool[scan].key)
         /\ timer_pool[scan].key[1] \in Os!Tasks
         /\ timer_pool[scan].key[2] \in Os!Signals \ {"STM_ENTRY_SIG", "NW_TRAN_IDLE_EVT"}
         /\ used[timer_pool[scan].key[1]] = 0
         /\ Post(timer_pool[scan].key[1], timer_pool[scan].key[2])
<1> USE ContextFacts
<1>1. scan < TIMER_CNT /\ scan \in Tm!TimerIds
  BY PoolFacts DEF TickExpire, Tm!NextSlot, TimerTypes
<1>2. phase = "sdk"
  BY <1>1, PoolFacts DEF WakeRoom
<1>3. timer_pool[scan].key # NoKey /\ timer_pool[scan].timeout = 0
  BY DEF TickExpire, Tm!Expire
<1>4. timer_pool[scan].key \in Keys
  BY <1>1, <1>3 DEF TimerTypes, Slot
<1>5. Tm!Running(timer_pool[scan].key)
  BY <1>1, RunningHas
<1>6. dispatch_hook
  BY <1>4, <1>5
<1>7. timer_pool[scan].key[1] \in Os!Tasks
      /\ timer_pool[scan].key[2] \in Os!Signals \ {"STM_ENTRY_SIG", "NW_TRAN_IDLE_EVT"}
  BY <1>4, KeyParts, SignalsAre DEF Signals
<1>8. used[timer_pool[scan].key[1]] = 0
  <2>1. Visits(scan) > 0
    BY <1>1 DEF Visits, One, TimerTypes
  <2>2. used[timer_pool[scan].key[1]] \in Nat
    BY <1>7, Counts
  <2>3. used[timer_pool[scan].key[1]] > 0 => timer_pool[scan].timeout >= Visits(scan)
    BY <1>1, <1>2, <1>3 DEF TimeRoom
  <2>4. Visits(scan) \in Nat
    BY <1>1 DEF Visits, One, TimerTypes
  <2> HIDE DEF Visits
  <2> QED
    BY <1>3, <2>1, <2>2, <2>3, <2>4
<1> QED
  BY <1>1, <1>2, <1>4, <1>5, <1>6, <1>7, <1>8 DEF TickExpire

\* Everything that can happen to a device left alone.
LEMMA AloneSteps ==
  ASSUME RoomContext, [Next]_vars, console' = 0
  PROVE  \/ SystemInitDone
         \/ HandlerStep /\ DriverEntry
         \/ HandlerStep /\ ActorEntry
         \/ HandlerStep /\ ~DriverEntry /\ ~ActorEntry /\ NoPost
         \/ DispatchBegin
         \/ Os!DispatchTake /\ UNCHANGED <<timerVars, late>>
         \/ Os!DispatchSkip /\ UNCHANGED <<timerVars, late>>
         \/ Os!DispatchEnd /\ UNCHANGED <<timerVars, late>>
         \/ TickBegin \/ TickSlot \/ TickExpire
         \/ UNCHANGED <<osVars, timerVars, late>>
<1>1. ~ConsoleInit /\ ~ConsolePost /\ ~ConsoleSdk
  BY ContextFacts, StillAlone
<1>2. ~SmartlinkOver
  BY ContextFacts DEF SmartlinkOver, StateRoom, InState
<1>3. HandlerStep => DriverEntry \/ ActorEntry \/ NoPost
  BY HandlerPosts
<1> QED
  BY <1>1, <1>2, <1>3 DEF Next, DeviceStep, DispatchLoop, WifiUp, WifiDown, SmartlinkLink,
     ClientFreed, vars
SameQueue(t) == used'[t] = used[t] /\ Waiting(t)' = Waiting(t) /\ Ahead(t)' = Ahead(t)

\* What the steps do to the two rings, in the order of AloneSteps.
LEMMA RoomQueues ==
  ASSUME RoomContext, [Next]_vars, console' = 0
  PROVE  /\ SystemInitDone => \A t \in Os!Tasks :
              used[t] = 0 /\ used'[t] = 1 /\ Ahead(t)' = {} /\ Waiting(t)' = {"STM_ENTRY_SIG"}
         /\ HandlerStep /\ (DriverEntry \/ ActorEntry) =>
              /\ used'[NETWORK_ID] = used[NETWORK_ID] + 1
              /\ Ahead(NETWORK_ID)' \subseteq Waiting(NETWORK_ID)
              /\ SameQueue(DRIVER_ID)
         /\ (HandlerStep /\ NoPost) \/ DispatchBegin \/ Os!DispatchSkip \/ Os!DispatchEnd
              \/ TickBegin \/ TickSlot \/ UNCHANGED osVars =>
              \A t \in Os!Tasks : SameQueue(t)
         /\ TickExpire => \E key \in Keys :
              /\ key = timer_pool[scan].key /\ used'[key[1]] = 1 /\ Ahead(key[1])' = {}
              /\ Waiting(key[1])' \subseteq {key[2]}
              /\ \A t \in Os!Tasks \ {key[1]} : SameQueue(t)
<1> USE ContextFacts
<1>1. ASSUME SystemInitDone, NEW t \in Os!Tasks
      PROVE  used[t] = 0 /\ used'[t] = 1 /\ Ahead(t)' = {} /\ Waiting(t)' = {"STM_ENTRY_SIG"}
  <2>1. ~dispatch_hook /\ Os!FsmInit
    BY <1>1 DEF SystemInitDone, FsmInit
  <2>2. \A u \in Os!Tasks : used[u] = 0
    BY <2>1
  <2> QED
    BY <2>1, <2>2, InitAdds
<1>2. ASSUME HandlerStep, DriverEntry \/ ActorEntry
      PROVE  /\ used'[NETWORK_ID] = used[NETWORK_ID] + 1
             /\ Ahead(NETWORK_ID)' \subseteq Waiting(NETWORK_ID)
             /\ SameQueue(DRIVER_ID)
  <2>1. PICK s \in Os!Signals : Post(NETWORK_ID, s)
    BY <1>2, SignalsAre DEF DriverEntry, ActorEntry, Signals, NetEvents
  <2>2. used[NETWORK_ID] < QUEUE_SIZE
    BY <1>2, PostingHandlers
  <2> QED
    BY <2>1, <2>2, PostAdds, Ids DEF SameQueue
<1>3. ASSUME (HandlerStep /\ NoPost) \/ DispatchBegin \/ Os!DispatchSkip \/ Os!DispatchEnd
               \/ TickBegin \/ TickSlot \/ UNCHANGED osVars,
             NEW t \in Os!Tasks
      PROVE  SameQueue(t)
  <2>1. UNCHANGED <<head, used, buf>>
    BY <1>3 DEF NoPost, DispatchBegin, Os!DispatchBegin, Os!DispatchSkip, Os!DispatchEnd,
       Os!queueVars, TickBegin, TickSlot, osVars
  <2> QED
    BY <2>1, QueuesSame DEF SameQueue
<1>4. ASSUME TickExpire
      PROVE  \E key \in Keys :
               /\ key = timer_pool[scan].key /\ used'[key[1]] = 1 /\ Ahead(key[1])' = {}
               /\ Waiting(key[1])' \subseteq {key[2]}
               /\ \A t \in Os!Tasks \ {key[1]} : SameQueue(t)
  <2>1. PICK key \in Keys : key = timer_pool[scan].key
    BY <1>4, ExpiryFindsRoom
  <2>2. key[1] \in Os!Tasks /\ key[2] \in Os!Signals /\ used[key[1]] = 0 /\ Post(key[1], key[2])
    BY <1>4, <2>1, ExpiryFindsRoom
  <2>3. used[key[1]] < QUEUE_SIZE /\ Waiting(key[1]) = {}
    BY <2>2, Counts
  <2>4. /\ used'[key[1]] = used[key[1]] + 1 /\ Ahead(key[1])' \subseteq Waiting(key[1])
        /\ \A t \in Os!Tasks \ {key[1]} : SameQueue(t)
    BY <2>2, <2>3, PostAdds DEF SameQueue
  <2>5. Waiting(key[1])' \subseteq Waiting(key[1]) \cup {key[2]}
    BY <2>2, PostQueues DEF Gains
  <2> QED
    BY <2>1, <2>2, <2>3, <2>4, <2>5
<1> QED
  BY <1>1, <1>2, <1>3, <1>4

LEMMA WakeStep ==
  ASSUME RoomContext, [Next]_vars, console' = 0
  PROVE  WakeRoom'
<1> USE ContextFacts
<1> SUFFICES /\ phase' # "sdk" => scan' = TIMER_CNT
             /\ dispatch_timer' <=> next_dispatch' = 1
  BY DEF WakeRoom
<1>1. CASE SystemInitDone
  <2>1. Os!FsmInit /\ scan' = scan /\ phase' = "sdk" /\ ~dispatch_hook
    BY <1>1 DEF SystemInitDone, FsmInit, Os!FsmInit, Os!loopVars
  <2>2. next_dispatch' = 1 /\ dispatch_timer' = (dispatch_timer \/ next_dispatch = 0)
    BY <2>1, InitAdds
  <2> QED
    BY <2>1, <2>2 DEF WakeRoom, RestTypes
<1>2. CASE HandlerStep
  <2>1. phase # "sdk" /\ scan' = scan
    BY <1>2, HandlerEnds DEF Os!HandlerPhases
  <2>2. CASE NoPost
    BY <2>1, <2>2 DEF NoPost, WakeRoom
  <2>3. CASE DriverEntry \/ ActorEntry
    <3>1. PICK s \in Os!Signals : Post(NETWORK_ID, s)
      BY <2>3, SignalsAre DEF DriverEntry, ActorEntry, Signals, NetEvents
    <3>2. used[NETWORK_ID] < QUEUE_SIZE
      BY <1>2, <2>3, PostingHandlers
    <3>3. next_dispatch' = 1
          /\ dispatch_timer' = (dispatch_timer \/ (next_dispatch = 0 /\ dispatch_hook))
      BY <3>1, <3>2, PostAdds
    <3> QED
      BY <2>1, <3>3 DEF WakeRoom, RestTypes
  <2> QED
    BY <1>2, <2>2, <2>3, HandlerPosts
<1>3. CASE DispatchBegin
  BY <1>3 DEF DispatchBegin, Idle, Os!DispatchBegin, timerVars
<1>4. CASE (Os!DispatchTake \/ Os!DispatchSkip \/ Os!DispatchEnd) /\ UNCHANGED <<timerVars, late>>
  BY <1>4 DEF Os!DispatchTake, Os!DispatchSkip, Os!DispatchEnd, Os!wakeVars, timerVars, WakeRoom
<1>5. CASE TickBegin \/ TickSlot
  BY <1>5, PoolFacts DEF TickBegin, Idle, TickSlot, Tm!NextSlot, osVars, WakeRoom
<1>6. CASE TickExpire
  <2> DEFINE key == timer_pool[scan].key
  <2>1. /\ key[1] \in Os!Tasks /\ key[2] \in Os!Signals /\ Post(key[1], key[2])
        /\ used[key[1]] = 0 /\ phase = "sdk" /\ dispatch_hook
    BY <1>6, ExpiryFindsRoom
  <2> HIDE DEF key
  <2>2. used[key[1]] < QUEUE_SIZE
    BY <2>1
  <2>3. next_dispatch' = 1
        /\ dispatch_timer' = (dispatch_timer \/ (next_dispatch = 0 /\ dispatch_hook))
    BY <2>1, <2>2, PostAdds
  <2>4. phase' = phase
    BY <1>6 DEF TickExpire
  <2> QED
    BY <2>1, <2>3, <2>4 DEF WakeRoom, RestTypes
<1>7. CASE UNCHANGED <<osVars, timerVars, late>>
  BY <1>7 DEF osVars, timerVars, WakeRoom
<1> QED
  BY <1>1, <1>2, <1>3, <1>4, <1>5, <1>6, <1>7, AloneSteps

LEMMA DriverStep ==
  ASSUME RoomContext, [Next]_vars, console' = 0
  PROVE  DriverRoom'
<1> USE ContextFacts
<1> SUFFICES /\ used'[DRIVER_ID] <= 1
             /\ phase' # "sdk" /\ ~(phase' = "loop" /\ i' = 0) => used'[DRIVER_ID] = 0
  BY DEF DriverRoom
<1>1. CASE SystemInitDone
  <2>1. phase' = "sdk"
    BY <1>1 DEF SystemInitDone, FsmInit, Os!FsmInit, Os!loopVars
  <2> QED
    BY <1>1, <2>1, RoomQueues
<1>2. CASE HandlerStep
  <2>1. phase # "sdk" /\ phase # "loop"
    BY <1>2, HandlerEnds DEF Os!HandlerPhases
  <2>2. SameQueue(DRIVER_ID)
    BY <1>2, RoomQueues, HandlerPosts
  <2> QED
    BY <2>1, <2>2 DEF SameQueue, DriverRoom
<1>3. CASE DispatchBegin
  <2>1. SameQueue(DRIVER_ID)
    BY <1>3, RoomQueues
  <2> QED
    BY <1>3, <2>1 DEF DispatchBegin, Os!DispatchBegin, SameQueue, DriverRoom
<1>4. CASE Os!DispatchTake
  <2>1. i \in Os!Tasks /\ phase = "loop"
    BY <1>4, Rings, Ids DEF Os!DispatchTake, LoopTypes
  <2>2. CASE i = DRIVER_ID
    <3>1. used[DRIVER_ID] > 0 /\ used'[DRIVER_ID] = used[DRIVER_ID] - 1
      BY <1>4, <2>2, TakeRemoves
    <3> QED
      BY <3>1 DEF DriverRoom
  <2>3. CASE i # DRIVER_ID
    <3>1. used'[DRIVER_ID] = used[DRIVER_ID]
      BY <1>4, <2>1, <2>3, TakeRemoves
    <3> QED
      BY <2>1, <2>3, <3>1, Ids DEF DriverRoom
  <2> QED
    BY <2>2, <2>3
<1>5. CASE Os!DispatchSkip
  <2>1. SameQueue(DRIVER_ID)
    BY <1>5, RoomQueues
  <2> QED
    BY <1>5, <2>1, Ids DEF Os!DispatchSkip, SameQueue, DriverRoom
<1>6. CASE Os!DispatchEnd
  <2>1. SameQueue(DRIVER_ID)
    BY <1>6, RoomQueues
  <2> QED
    BY <1>6, <2>1 DEF Os!DispatchEnd, SameQueue, DriverRoom
<1>7. CASE TickBegin \/ TickSlot \/ UNCHANGED osVars
  <2>1. SameQueue(DRIVER_ID)
    BY <1>7, RoomQueues
  <2> QED
    BY <1>7, <2>1 DEF TickBegin, TickSlot, osVars, SameQueue, DriverRoom
<1>8. CASE TickExpire
  <2>1. phase' = "sdk"
    BY <1>8, ExpiryFindsRoom DEF TickExpire
  <2>2. PICK key \in Keys : used'[key[1]] = 1 /\ \A t \in Os!Tasks \ {key[1]} : SameQueue(t)
    BY <1>8, RoomQueues
  <2> QED
    BY <2>1, <2>2 DEF SameQueue, DriverRoom
<1> QED
  BY <1>1, <1>2, <1>3, <1>4, <1>5, <1>6, <1>7, <1>8, AloneSteps

\* Where the steps leave the loop.
LEMMA Frames ==
  ASSUME TickBegin \/ TickSlot \/ TickExpire \/ UNCHANGED osVars
  PROVE  /\ phase' = phase /\ i' = i /\ sig' = sig /\ tasks_pool' = tasks_pool
         /\ stm_state_temp' = stm_state_temp
         /\ \A t, s : Called(t, s)' <=> Called(t, s)
         /\ \A h : InState(h)' <=> InState(h)
  BY DEF TickBegin, TickSlot, TickExpire, osVars, Called, InState

\* Fewer messages to come leave the count as it is.
LEMMA FewerToCome ==
  ASSUME NEW a, NEW b, a => b
  PROVE  One(a) <= One(b) /\ One(a) \in Nat /\ One(b) \in Nat
  BY DEF One

LEMMA ActorStep ==
  ASSUME RoomContext, [Next]_vars, console' = 0
  PROVE  ActorRoom'
<1> USE ContextFacts
<1> DEFINE Entry == "STM_ENTRY_SIG"
           TranIdle == "NW_TRAN_IDLE_EVT"
           Counted == used[NETWORK_ID] + One(Coming(DRIVER_ID, Entry)) + One(Called(NETWORK_ID, Entry))
<1> SUFFICES /\ Coming(DRIVER_ID, Entry)' => Entry \in Waiting(NETWORK_ID)'
             /\ InState("network_actor")' =>
                  used'[NETWORK_ID] + One(Coming(DRIVER_ID, Entry)') + One(Called(NETWORK_ID, Entry)') <= 2
             /\ TranIdle \notin Ahead(NETWORK_ID)'
             /\ Called(NETWORK_ID, TranIdle)' => used'[NETWORK_ID] = 0
  BY DEF ActorRoom, One
<1>0. /\ Coming(DRIVER_ID, Entry) => Entry \in Waiting(NETWORK_ID)
      /\ InState("network_actor") => Counted <= 2
      /\ TranIdle \notin Ahead(NETWORK_ID)
      /\ Called(NETWORK_ID, TranIdle) => used[NETWORK_ID] = 0
      /\ Entry \in Waiting(NETWORK_ID) \/ Called(NETWORK_ID, Entry)
           => /\ InState("network_actor")
              /\ TranIdle \notin Waiting(NETWORK_ID) /\ ~Called(NETWORK_ID, TranIdle)
      /\ Called(NETWORK_ID, Entry) => Entry \notin Waiting(NETWORK_ID)
      /\ Called(DRIVER_ID, Entry) => Entry \notin Waiting(DRIVER_ID)
  BY DEF ActorRoom, EntryFacts, Coming
<1>1. CASE SystemInitDone
  <2>1. phase' = "sdk"
    BY <1>1 DEF SystemInitDone, FsmInit, Os!FsmInit, Os!loopVars
  <2>2. \A t, s : ~Called(t, s)'
    BY <2>1 DEF Called
  <2>3. One(Called(NETWORK_ID, Entry)') = 0 /\ One(Coming(DRIVER_ID, Entry)') \in {0, 1}
    BY <2>2 DEF One
  <2>4. used'[NETWORK_ID] = 1 /\ Ahead(NETWORK_ID)' = {} /\ Waiting(NETWORK_ID)' = {Entry}
    BY <1>1, RoomQueues
  <2> QED
    BY <2>2, <2>3, <2>4
<1>2. CASE HandlerStep /\ DriverEntry
  <2>1. Called(DRIVER_ID, Entry) /\ Entry \in Waiting(NETWORK_ID) /\ InState("network_actor")
    BY <1>2, PostingHandlers
  <2>2. \A s : ~Called(DRIVER_ID, s)' /\ ~Called(NETWORK_ID, s)'
    BY <1>2, HandlerEnds
  <2>3. /\ used'[NETWORK_ID] = used[NETWORK_ID] + 1
        /\ Ahead(NETWORK_ID)' \subseteq Waiting(NETWORK_ID) /\ Waiting(DRIVER_ID)' = Waiting(DRIVER_ID)
    BY <1>2, RoomQueues DEF SameQueue
  <2>4. ~Coming(DRIVER_ID, Entry)' /\ Coming(DRIVER_ID, Entry)
    BY <1>0, <2>1, <2>2, <2>3 DEF Coming
  <2>5. /\ One(Coming(DRIVER_ID, Entry)) = 1 /\ One(Coming(DRIVER_ID, Entry)') = 0
        /\ One(Called(NETWORK_ID, Entry)) \in {0, 1} /\ One(Called(NETWORK_ID, Entry)') = 0
    BY <2>2, <2>4 DEF One
  <2>6. used'[NETWORK_ID] + One(Coming(DRIVER_ID, Entry)') + One(Called(NETWORK_ID, Entry)') <= 2
    BY <1>0, <2>1, <2>3, <2>5
  <2> QED
    BY <1>0, <2>1, <2>2, <2>3, <2>4, <2>6
<1>3. CASE HandlerStep /\ ActorEntry
  <2>1. Called(NETWORK_ID, Entry) /\ InState("network_actor")
    BY <1>3, PostingHandlers
  <2>2. \A s : ~Called(DRIVER_ID, s)' /\ ~Called(NETWORK_ID, s)'
    BY <1>3, HandlerEnds
  <2>3. /\ used'[NETWORK_ID] = used[NETWORK_ID] + 1
        /\ Ahead(NETWORK_ID)' \subseteq Waiting(NETWORK_ID) /\ Waiting(DRIVER_ID)' = Waiting(DRIVER_ID)
    BY <1>3, RoomQueues DEF SameQueue
  <2>4. ~Coming(DRIVER_ID, Entry)' /\ ~Coming(DRIVER_ID, Entry)
    BY <1>0, <2>1, <2>2, <2>3 DEF Coming
  <2>5. /\ One(Coming(DRIVER_ID, Entry)) = 0 /\ One(Coming(DRIVER_ID, Entry)') = 0
        /\ One(Called(NETWORK_ID, Entry)) = 1 /\ One(Called(NETWORK_ID, Entry)') = 0
    BY <2>1, <2>2, <2>4 DEF One
  <2>6. used'[NETWORK_ID] + One(Coming(DRIVER_ID, Entry)') + One(Called(NETWORK_ID, Entry)') <= 2
    BY <1>0, <2>1, <2>3, <2>5
  <2> QED
    BY <1>0, <2>1, <2>2, <2>3, <2>4, <2>6
\* Nothing is added: what is to come has been to come before.
<1>4. ASSUME SameQueue(DRIVER_ID), SameQueue(NETWORK_ID),
             Called(DRIVER_ID, Entry)' => Called(DRIVER_ID, Entry),
             Called(NETWORK_ID, Entry)' => Called(NETWORK_ID, Entry),
             Called(NETWORK_ID, TranIdle)' => Called(NETWORK_ID, TranIdle),
             InState("network_actor")' => InState("network_actor")
      PROVE  /\ Coming(DRIVER_ID, Entry)' => Entry \in Waiting(NETWORK_ID)'
             /\ InState("network_actor")' =>
                  used'[NETWORK_ID] + One(Coming(DRIVER_ID, Entry)') + One(Called(NETWORK_ID, Entry)') <= 2
             /\ TranIdle \notin Ahead(NETWORK_ID)'
             /\ Called(NETWORK_ID, TranIdle)' => used'[NETWORK_ID] = 0
  <2>1. Coming(DRIVER_ID, Entry)' => Coming(DRIVER_ID, Entry)
    BY <1>4 DEF Coming, SameQueue
  <2>2. /\ One(Coming(DRIVER_ID, Entry)') <= One(Coming(DRIVER_ID, Entry))
        /\ One(Coming(DRIVER_ID, Entry)') \in Nat /\ One(Coming(DRIVER_ID, Entry)) \in Nat
        /\ One(Called(NETWORK_ID, Entry)') <= One(Called(NETWORK_ID, Entry))
        /\ One(Called(NETWORK_ID, Entry)') \in Nat /\ One(Called(NETWORK_ID, Entry)) \in Nat
    BY <1>4, <2>1, FewerToCome
  <2>3. Counted <= 2 => used[NETWORK_ID] + One(Coming(DRIVER_ID, Entry)') + One(Called(NETWORK_ID, Entry)') <= 2
    BY <2>2
  <2> QED
    BY <1>0, <1>4, <2>1, <2>3 DEF SameQueue
<1>5. CASE HandlerStep /\ ~DriverEntry /\ ~ActorEntry /\ NoPost
  <2>1. \A s : ~Called(DRIVER_ID, s)' /\ ~Called(NETWORK_ID, s)'
    BY <1>5, HandlerEnds
  <2>2. InState("network_actor")' => InState("network_actor")
    <3>1. CASE phase = "entry"
      <4>1. Returns /\ i = NETWORK_ID /\ stm_state_temp # "network_actor"
        BY <1>5, <3>1, HandlerReturns DEF Moves, StateRoom
      <4> QED
        BY <3>1, <4>1 DEF Returns, Os!ReturnWith, InState
    <3>2. CASE phase # "entry"
      <4>1. tasks_pool' = tasks_pool
        BY <1>5, <3>2, HandlerReturns DEF Returns, Moves, Os!ReturnWith
      <4> QED
        BY <4>1 DEF InState
    <3> QED
      BY <3>1, <3>2
  <2>3. SameQueue(DRIVER_ID) /\ SameQueue(NETWORK_ID)
    BY <1>5, RoomQueues
  <2> QED
    BY <1>4, <2>1, <2>2, <2>3
<1>6. CASE DispatchBegin \/ Os!DispatchSkip \/ Os!DispatchEnd
  <2>1. phase' # "event" /\ tasks_pool' = tasks_pool
    BY <1>6 DEF DispatchBegin, Os!DispatchBegin, Os!DispatchSkip, Os!DispatchEnd
  <2>2. SameQueue(DRIVER_ID) /\ SameQueue(NETWORK_ID)
    BY <1>6, RoomQueues
  <2> QED
    BY <1>4, <2>1, <2>2 DEF Called, InState
<1>7. CASE Os!DispatchTake
  <2>1. /\ i \in Os!Tasks /\ phase = "loop" /\ phase' = "event" /\ i' = i
        /\ tasks_pool' = tasks_pool
    BY <1>7, Rings, Ids DEF Os!DispatchTake, LoopTypes
  <2>2. \A t, s : ~Called(t, s)
    BY <2>1 DEF Called
  <2>3. InState("network_actor")' => InState("network_actor")
    BY <2>1 DEF InState
  <2>4. One(Called(NETWORK_ID, Entry)) = 0 /\ One(Coming(DRIVER_ID, Entry)) \in {0, 1}
        /\ One(Called(NETWORK_ID, Entry)') \in {0, 1} /\ One(Coming(DRIVER_ID, Entry)') \in {0, 1}
    BY <2>2 DEF One
  <2>5. CASE i = DRIVER_ID
    <3>1. /\ sig' \in Waiting(DRIVER_ID) /\ Waiting(DRIVER_ID)' \subseteq Waiting(DRIVER_ID)
          /\ used'[NETWORK_ID] = used[NETWORK_ID]
          /\ Waiting(NETWORK_ID)' = Waiting(NETWORK_ID) /\ Ahead(NETWORK_ID)' = Ahead(NETWORK_ID)
      BY <1>7, <2>5, TakeQueues, TakeRemoves, Ids DEF Gains
    <3>2. \A s : ~Called(NETWORK_ID, s)'
      BY <2>1, <2>5, Ids DEF Called
    <3>3. Coming(DRIVER_ID, Entry)' => Coming(DRIVER_ID, Entry)
      BY <3>1 DEF Coming, Called
    <3>4. One(Called(NETWORK_ID, Entry)') = 0
          /\ One(Coming(DRIVER_ID, Entry)') <= One(Coming(DRIVER_ID, Entry))
      BY <3>2, <3>3, FewerToCome DEF One
    <3>5. Counted <= 2 =>
            used'[NETWORK_ID] + One(Coming(DRIVER_ID, Entry)') + One(Called(NETWORK_ID, Entry)') <= 2
      BY <2>4, <3>1, <3>4
    <3> QED
      BY <1>0, <2>3, <3>1, <3>2, <3>3, <3>5
  <2>6. CASE i = NETWORK_ID
    <3>1. /\ used[NETWORK_ID] > 0 /\ used'[NETWORK_ID] = used[NETWORK_ID] - 1
          /\ Ahead(NETWORK_ID)' \subseteq Ahead(NETWORK_ID)
          /\ used[NETWORK_ID] >= 2 => sig' \in Ahead(NETWORK_ID)
          /\ Waiting(DRIVER_ID)' = Waiting(DRIVER_ID)
      BY <1>7, <2>6, TakeRemoves, Ids
    <3>2. used[DRIVER_ID] = 0
      BY <2>1, <2>6, Ids DEF DriverRoom
    <3>3. Waiting(DRIVER_ID) = {}
      BY <3>2, Counts
    <3>4. ~Coming(DRIVER_ID, Entry)'
      BY <2>1, <2>6, <3>1, <3>3, Ids DEF Coming, Called
    <3>5. Called(NETWORK_ID, TranIdle)' => used'[NETWORK_ID] = 0
      BY <1>0, <3>1 DEF Called
    <3>6. One(Coming(DRIVER_ID, Entry)') = 0
      BY <3>4 DEF One
    <3>7. Counted <= 2 =>
            used'[NETWORK_ID] + One(Coming(DRIVER_ID, Entry)') + One(Called(NETWORK_ID, Entry)') <= 2
      BY <2>4, <3>1, <3>6
    <3> QED
      BY <1>0, <2>3, <3>1, <3>4, <3>5, <3>7
  <2> QED
    BY <2>1, <2>5, <2>6, Rings
<1>8. CASE TickBegin \/ TickSlot \/ UNCHANGED osVars
  <2>1. SameQueue(DRIVER_ID) /\ SameQueue(NETWORK_ID)
    BY <1>8, RoomQueues
  <2> QED
    BY <1>4, <1>8, <2>1, Frames
<1>9. CASE TickExpire
  <2>1. PICK key \in Keys :
          /\ key = timer_pool[scan].key /\ used'[key[1]] = 1 /\ Ahead(key[1])' = {}
          /\ Waiting(key[1])' \subseteq {key[2]}
          /\ \A t \in Os!Tasks \ {key[1]} : SameQueue(t)
    BY <1>9, RoomQueues
  <2>2. Tm!Running(key) /\ key[2] # Entry /\ phase = "sdk"
    BY <1>9, <2>1, ExpiryFindsRoom
  <2>3. phase' = "sdk" /\ (InState("network_actor")' => InState("network_actor"))
    BY <1>9, <2>2, Frames
  <2>4. \A t, s : ~Called(t, s)' /\ ~Called(t, s)
    BY <2>2, <2>3 DEF Called
  <2>5. CASE key = SYS_TICK
    <3>1. SameQueue(NETWORK_ID) /\ key[1] = DRIVER_ID
      BY <2>1, <2>5, Ids DEF SYS_TICK
    <3>2. ~Coming(DRIVER_ID, Entry)'
      BY <2>1, <2>2, <2>4, <3>1 DEF Coming
    <3>3. /\ One(Coming(DRIVER_ID, Entry)') = 0 /\ One(Coming(DRIVER_ID, Entry)) \in Nat
          /\ One(Called(NETWORK_ID, Entry)') = 0 /\ One(Called(NETWORK_ID, Entry)) = 0
      BY <2>4, <3>2 DEF One
    <3>4. Counted <= 2 =>
            used[NETWORK_ID] + One(Coming(DRIVER_ID, Entry)') + One(Called(NETWORK_ID, Entry)') <= 2
      BY <3>3
    <3> QED
      BY <1>0, <2>3, <2>4, <3>1, <3>2, <3>4 DEF SameQueue
  <2>6. CASE key \in {NW_TICK, NW_CHECK}
    <3>1. SameQueue(DRIVER_ID) /\ key[1] = NETWORK_ID
      BY <2>1, <2>6, Ids DEF NW_TICK, NW_CHECK
    <3>2. ~InState("network_actor")
      BY <2>2, <2>6
    <3>3. ~Coming(DRIVER_ID, Entry)'
      BY <1>0, <2>4, <3>1, <3>2 DEF Coming, SameQueue
    <3> QED
      BY <2>1, <2>3, <2>4, <3>1, <3>2, <3>3
  <2> QED
    BY <2>5, <2>6 DEF Keys
<1> HIDE DEF Counted
<1> QED
  BY <1>1, <1>2, <1>3, <1>5, <1>6, <1>7, <1>8, <1>9, AloneSteps

LEMMA StateStep ==
  ASSUME RoomContext, [Next]_vars, console' = 0
  PROVE  StateRoom'
<1> USE ContextFacts
<1> DEFINE Actor == tasks_pool'[NETWORK_ID] = "network_actor"
<1> SUFFICES
      /\ phase' \in {"exit", "entry"} =>
           used'[NETWORK_ID] = 0 /\ stm_state_temp' \in {"network_idle", "network_sta"}
      /\ ~Actor =>
           /\ tasks_pool'[NETWORK_ID] \in {"network_idle", "network_sta"}
           /\ used'[NETWORK_ID] <= 1
           /\ Waiting(NETWORK_ID)' \subseteq NwTicks
           /\ phase' = "event" /\ i' = NETWORK_ID => sig' \in NwTicks /\ used'[NETWORK_ID] = 0
           /\ phase' = "loop" /\ i' = 2 => used'[NETWORK_ID] = 0
  BY DEF StateRoom, InState
<1>0. /\ phase \in {"exit", "entry"} =>
           used[NETWORK_ID] = 0 /\ stm_state_temp \in {"network_idle", "network_sta"}
      /\ tasks_pool[NETWORK_ID] # "network_actor" =>
           /\ tasks_pool[NETWORK_ID] \in {"network_idle", "network_sta"}
           /\ used[NETWORK_ID] <= 1
           /\ Waiting(NETWORK_ID) \subseteq NwTicks
           /\ phase = "event" /\ i = NETWORK_ID => sig \in NwTicks /\ used[NETWORK_ID] = 0
           /\ phase = "loop" /\ i = 2 => used[NETWORK_ID] = 0
  BY DEF StateRoom, InState
<1>1. CASE SystemInitDone
  BY <1>1 DEF SystemInitDone, FsmInit, Os!FsmInit, Os!loopVars, InState
<1>2. CASE HandlerStep /\ (DriverEntry \/ ActorEntry)
  <2>1. InState("network_actor") /\ phase = "event" /\ Return
    BY <1>2, PostingHandlers DEF Called, DriverEntry, ActorEntry
  <2> QED
    BY <2>1 DEF Return, Os!ReturnWith, LoopTypes, InState
<1>3. CASE HandlerStep /\ NoPost
  <2>0. used'[NETWORK_ID] = used[NETWORK_ID] /\ Waiting(NETWORK_ID)' = Waiting(NETWORK_ID)
    BY <1>3, RoomQueues DEF SameQueue
  <2>1. CASE phase = "event" /\ Returns
    <3>1. tasks_pool' = tasks_pool /\ phase' = "loop" /\ i' = i + 1 /\ i \in Os!Tasks
      BY <1>3, <2>1, HandlerEnds DEF Returns, Os!ReturnWith
    <3>2. i' = 2 => i = NETWORK_ID
      BY <3>1, Rings, Ids
    <3> QED
      BY <1>0, <2>0, <2>1, <3>1, <3>2
  <2>2. ASSUME NEW h \in {"network_idle", "network_smart", "network_sta"}, Moves(h),
               i = NETWORK_ID, tasks_pool[NETWORK_ID] = "network_actor" => sig = "NW_TRAN_IDLE_EVT"
        PROVE  /\ phase' = "exit" /\ tasks_pool' = tasks_pool /\ used'[NETWORK_ID] = 0
               /\ stm_state_temp' \in {"network_idle", "network_sta"}
    <3>1. phase = "event" /\ phase' = "exit" /\ tasks_pool' = tasks_pool /\ stm_state_temp' = h
      BY <2>2 DEF Moves, Os!ReturnWith
    <3>2. used[NETWORK_ID] = 0
      BY <1>0, <2>2, <3>1 DEF ActorRoom, Called
    <3>3. h # "network_smart"
      <4> SUFFICES ASSUME h = "network_smart" PROVE FALSE
        OBVIOUS
      <4>1. sig = "NW_TRAN_SMART_EVT" /\ tasks_pool[NETWORK_ID] = "network_idle"
        BY <1>3, <2>2, HandlerMoves DEF InState
      <4> QED
        BY <1>0, <2>2, <3>1, <4>1 DEF NwTicks
    <3> QED
      BY <2>0, <3>1, <3>2, <3>3
  <2>3. CASE phase = "exit" /\ Returns
    <3>1. phase' = "entry" /\ tasks_pool' = tasks_pool /\ stm_state_temp' = stm_state_temp
      BY <2>3 DEF Returns, Os!ReturnWith
    <3> QED
      BY <1>0, <2>0, <2>3, <3>1
  <2>4. CASE phase = "entry" /\ Returns
    <3>1. phase' = "loop" /\ tasks_pool'[NETWORK_ID] = stm_state_temp
      BY <2>4 DEF Returns, Os!ReturnWith
    <3>2. used[NETWORK_ID] = 0 /\ Waiting(NETWORK_ID) = {}
      BY <1>0, <2>4, Counts
    <3> QED
      BY <1>0, <2>0, <2>4, <3>1, <3>2
  <2>5. phase \in {"event", "exit", "entry"}
    BY <1>3, HandlerEnds DEF Os!HandlerPhases
  <2>6. CASE Returns
    BY <2>1, <2>3, <2>4, <2>5, <2>6
  <2>7. CASE ~Returns
    <3>1. PICK h \in {"network_idle", "network_smart", "network_sta"} :
            /\ Moves(h) /\ i = NETWORK_ID
            /\ tasks_pool[NETWORK_ID] = "network_actor" => sig = "NW_TRAN_IDLE_EVT"
      BY <1>3, <2>7, HandlerReturns
    <3>2. /\ phase' = "exit" /\ tasks_pool' = tasks_pool /\ used'[NETWORK_ID] = 0
          /\ stm_state_temp' \in {"network_idle", "network_sta"}
      BY <2>2, <3>1
    <3> QED
      BY <1>0, <2>0, <3>2
  <2> QED
    BY <2>6, <2>7
<1>4. CASE DispatchBegin \/ Os!DispatchSkip \/ Os!DispatchEnd
  <2>1. used'[NETWORK_ID] = used[NETWORK_ID] /\ Waiting(NETWORK_ID)' = Waiting(NETWORK_ID)
    BY <1>4, RoomQueues DEF SameQueue
  <2>2. phase' \in {"sdk", "loop"} /\ tasks_pool' = tasks_pool
    BY <1>4 DEF DispatchBegin, Os!DispatchBegin, Os!DispatchSkip, Os!DispatchEnd
  <2>3. phase' = "loop" /\ i' = 2 => used[NETWORK_ID] = 0
    <3>1. i \in Nat
      BY DEF LoopTypes
    <3> QED
      BY <1>4, <3>1, Ids DEF DispatchBegin, Os!DispatchBegin, Os!DispatchSkip, Os!DispatchEnd
  <2> QED
    BY <1>0, <2>1, <2>2, <2>3
<1>5. CASE Os!DispatchTake
  <2>1. /\ i \in Os!Tasks /\ phase' = "event" /\ i' = i /\ tasks_pool' = tasks_pool
    BY <1>5, Rings, Ids DEF Os!DispatchTake, LoopTypes
  <2>2. CASE i = DRIVER_ID
    <3>1. used'[NETWORK_ID] = used[NETWORK_ID] /\ Waiting(NETWORK_ID)' = Waiting(NETWORK_ID)
      BY <1>5, <2>2, TakeRemoves, Ids
    <3> QED
      BY <1>0, <2>1, <2>2, <3>1, Ids
  <2>3. CASE i = NETWORK_ID
    <3>1. /\ used[NETWORK_ID] > 0 /\ used'[NETWORK_ID] = used[NETWORK_ID] - 1
          /\ sig' \in Waiting(NETWORK_ID) /\ Waiting(NETWORK_ID)' \subseteq Waiting(NETWORK_ID)
      BY <1>5, <2>3, TakeRemoves, TakeQueues DEF Gains
    <3> QED
      BY <1>0, <2>1, <3>1
  <2> QED
    BY <2>1, <2>2, <2>3, Rings
<1>6. CASE TickBegin \/ TickSlot \/ UNCHANGED osVars
  <2>1. used'[NETWORK_ID] = used[NETWORK_ID] /\ Waiting(NETWORK_ID)' = Waiting(NETWORK_ID)
    BY <1>6, RoomQueues DEF SameQueue
  <2> QED
    BY <1>0, <1>6, <2>1, Frames
<1>7. CASE TickExpire
  <2>1. PICK key \in Keys :
          /\ used'[key[1]] = 1 /\ Waiting(key[1])' \subseteq {key[2]}
          /\ \A t \in Os!Tasks \ {key[1]} : SameQueue(t)
    BY <1>7, RoomQueues
  <2>2. phase' = "sdk" /\ tasks_pool' = tasks_pool
    BY <1>7, ExpiryFindsRoom, Frames
  <2>3. CASE key[1] = NETWORK_ID
    <3>1. key[2] \in NwTicks
      BY <2>3, Ids DEF Keys, SYS_TICK, NW_TICK, NW_CHECK, NwTicks
    <3> QED
      BY <1>0, <2>1, <2>2, <2>3, <3>1
  <2>4. CASE key[1] # NETWORK_ID
    <3>1. used'[NETWORK_ID] = used[NETWORK_ID] /\ Waiting(NETWORK_ID)' = Waiting(NETWORK_ID)
      BY <2>1, <2>4 DEF SameQueue
    <3> QED
      BY <1>0, <2>2, <3>1
  <2> QED
    BY <2>3, <2>4
<1> QED
  BY <1>1, <1>2, <1>3, <1>4, <1>5, <1>6, <1>7, AloneSteps

\* A slot that a start or a stop leaves in use is the old one or has the new period.
LEMMA StartReload ==
  ASSUME TimerTypes, NEW k \in Keys, NEW p \in Nat, Tm!OsReloadTimerSet(k, p), NEW j \in Tm!TimerIds
  PROVE  timer_pool'[j] = timer_pool[j] \/ timer_pool'[j].reload = p
<1>1. CASE Tm!Candidates(k) = {}
  BY <1>1 DEF Tm!OsReloadTimerSet
<1>2. CASE Tm!Candidates(k) # {}
  <2> DEFINE c == Tm!First(Tm!Candidates(k))
             slot == IF timer_pool[c].key = k THEN [timer_pool[c] EXCEPT !.reload = p]
                     ELSE [key |-> k, timeout |-> p, reload |-> p, reloading |-> TRUE]
  <2>1. Tm!Candidates(k) \in SUBSET Tm!TimerIds
    BY DEF Tm!Candidates, Tm!Having
  <2>2. c \in Tm!TimerIds
    BY <1>2, <2>1, FirstSlot
  <2>3. timer_pool' = [timer_pool EXCEPT ![c] = slot] /\ timer_pool[c] \in Slot
    BY <1>2, <2>2 DEF Tm!OsReloadTimerSet, TimerTypes
  <2>4. slot.reload = p
    BY <2>3 DEF Slot
  <2> HIDE DEF slot, c
  <2> QED
    BY <2>2, <2>3, <2>4 DEF TimerTypes
<1> QED
  BY <1>1, <1>2

LEMMA StopReload ==
  ASSUME TimerTypes, NEW k \in Keys, Tm!OsTimerDel(k), NEW j \in Tm!TimerIds,
         timer_pool'[j].key # NoKey
  PROVE  timer_pool'[j] = timer_pool[j]
  BY StopSlot DEF TimerTypes, Tm!Having

\* The three ways in which the scan leaves a slot.
LEMMA ScanReload ==
  ASSUME TimerTypes, PoolInv, Tm!NextSlot, NEW j \in Tm!TimerIds, timer_pool'[j].key # NoKey
  PROVE  /\ Tm!SkipFree => timer_pool' = timer_pool /\ j # scan
         /\ Tm!CountDown =>
              timer_pool'[j] = IF j = scan THEN [timer_pool[j] EXCEPT !.timeout = timer_pool[j].timeout - 1]
                                           ELSE timer_pool[j]
         /\ Tm!Expire =>
              timer_pool'[j] = IF j = scan THEN [timer_pool[j] EXCEPT !.timeout = timer_pool[j].reload]
                                           ELSE timer_pool[j]
<1>1. scan \in Tm!TimerIds
  BY PoolFacts DEF Tm!NextSlot, TimerTypes
<1>2. Tm!SkipFree => timer_pool' = timer_pool /\ j # scan
  BY DEF Tm!SkipFree
<1>3. ASSUME Tm!CountDown
      PROVE  timer_pool'[j] = IF j = scan THEN [timer_pool[j] EXCEPT !.timeout = timer_pool[j].timeout - 1]
                                          ELSE timer_pool[j]
  BY <1>1, <1>3 DEF Tm!CountDown, TimerTypes
<1>4. ASSUME Tm!Expire
      PROVE  timer_pool'[j] = IF j = scan THEN [timer_pool[j] EXCEPT !.timeout = timer_pool[j].reload]
                                          ELSE timer_pool[j]
  <2>1. timer_pool[scan].reloading = TRUE
    BY <1>1, <1>4 DEF Tm!Expire, PoolInv, AllReload
  <2> QED
    BY <1>1, <1>4, <2>1 DEF Tm!Expire, TimerTypes
<1> QED
  BY <1>2, <1>3, <1>4

\* Two running timers of one task are one timer.
LEMMA OneTimerPerTask ==
  ASSUME RoomContext, NEW j \in Tm!TimerIds, NEW l \in Tm!TimerIds,
         timer_pool[j].key # NoKey, timer_pool[l].key # NoKey,
         timer_pool[j].key[1] = timer_pool[l].key[1]
  PROVE  j = l
<1>1. timer_pool[j].key \in Keys /\ timer_pool[l].key \in Keys
  BY ContextFacts DEF TimerTypes, Slot
<1>2. Tm!Running(timer_pool[j].key) /\ Tm!Running(timer_pool[l].key)
  BY RunningHas
<1>3. timer_pool[j].key = timer_pool[l].key
  BY <1>1, <1>2, ContextFacts, Ids DEF Keys, SYS_TICK, NW_TICK, NW_CHECK
<1> QED
  BY <1>3, ContextFacts DEF PoolInv, Tm!UniqueTimers

LEMMA VisitsAre ==
  ASSUME NEW l \in 0 .. LateTicks, NEW s \in Nat, NEW j \in Nat, LateTicks \in Nat
  PROVE  /\ (LateTicks - l) + One(s <= j) \in Nat
         /\ s > j => (LateTicks - l) + One(s <= j) = LateTicks - l
         /\ s <= j => (LateTicks - l) + One(s <= j) = LateTicks - l + 1
  BY DEF One

LEMMA TimeStep ==
  ASSUME RoomContext, [Next]_vars, console' = 0
  PROVE  TimeRoom'
<1> USE ContextFacts
<1> SUFFICES ASSUME NEW j \in Tm!TimerIds, timer_pool'[j].key # NoKey
             PROVE  /\ timer_pool'[j].reload >= LateTicks
                    /\ phase' = "sdk" /\ used'[timer_pool'[j].key[1]] > 0
                         => dispatch_timer' /\ timer_pool'[j].timeout >= Visits(j)'
  BY DEF TimeRoom, Tm!TimerIds
<1>0. /\ timer_pool[j] \in Slot /\ j \in Nat /\ scan \in Nat /\ j < TIMER_CNT /\ TIMER_CNT \in Nat
      /\ Visits(j) = (LateTicks - late) + One(scan <= j)
      /\ Visits(j)' = (LateTicks - late') + One(scan' <= j)
  BY PoolFacts DEF TimerTypes, Visits
<1>1. timer_pool[j].key # NoKey =>
        /\ timer_pool[j].reload >= LateTicks /\ timer_pool[j].key \in Keys
        /\ phase = "sdk" /\ used[timer_pool[j].key[1]] > 0
             => dispatch_timer /\ timer_pool[j].timeout >= Visits(j)
  BY <1>0 DEF TimeRoom, Slot
<1>2. CASE SystemInitDone
  <2>1. timer_pool' = [l \in Tm!TimerIds |-> [timer_pool[l] EXCEPT !.key = NoKey]]
    BY <1>2 DEF SystemInitDone, FsmInit, Tm!ClearPool
  <2>2. timer_pool'[j].key = NoKey
    BY <1>0, <2>1 DEF Slot
  <2> QED
    BY <2>2
<1>3. CASE HandlerStep
  <2>1. phase' # "sdk"
    BY <1>3, HandlerEnds
  <2>2. ASSUME NEW k \in Keys, NEW p \in Periods, StartTimer(k, p)
        PROVE  timer_pool'[j].reload >= LateTicks
    <3>1. p \in Nat /\ p >= LateTicks
      BY PoolFacts DEF RoomContext, RoomAssumption
    <3> QED
      BY <1>1, <2>2, <3>1, StartReload DEF StartTimer
  <2>3. ASSUME NEW k \in Keys, StopTimer(k)
        PROVE  timer_pool'[j].reload >= LateTicks
    BY <1>1, <2>3, StopReload DEF StopTimer
  <2>4. CASE NoTimer
    BY <1>1, <2>1, <2>4 DEF NoTimer, timerVars
  <2> QED
    BY <1>3, <2>1, <2>2, <2>3, <2>4, HandlerTimers, DistinctKeys DEF Periods
<1>4. CASE DispatchBegin \/ ((Os!DispatchTake \/ Os!DispatchSkip) /\ UNCHANGED <<timerVars, late>>)
  BY <1>1, <1>4 DEF DispatchBegin, Os!DispatchBegin, Os!DispatchTake, Os!DispatchSkip, timerVars
<1>5. CASE Os!DispatchEnd /\ UNCHANGED <<timerVars, late>>
  <2>1. /\ timer_pool' = timer_pool /\ used' = used /\ phase = "loop" /\ i = 2
    BY <1>5 DEF Os!DispatchEnd, Os!queueVars, timerVars
  <2>2. used[DRIVER_ID] = 0
    BY <2>1 DEF DriverRoom
  <2>3. timer_pool[j].key \in Keys /\ Tm!Running(timer_pool[j].key)
    BY <1>1, <2>1, RunningHas
  <2>4. used[timer_pool[j].key[1]] = 0
    BY <2>1, <2>2, <2>3 DEF StateRoom, Keys, SYS_TICK, NW_TICK, NW_CHECK
  <2> QED
    BY <1>1, <2>1, <2>4
<1>6. CASE TickBegin
  <2>1. /\ timer_pool' = timer_pool /\ scan = TIMER_CNT /\ scan' = 0 /\ phase = "sdk"
        /\ used' = used /\ dispatch_timer' = dispatch_timer
        /\ dispatch_timer => late < LateTicks /\ late' = late + 1
    BY <1>6 DEF TickBegin, Idle, Tm!ScanBegin, osVars
  <2>2. dispatch_timer => Visits(j)' = Visits(j)
    BY <1>0, <2>1, VisitsAre
  <2> QED
    BY <1>1, <2>1, <2>2
\* A slot that the scan leaves as it is.
<1>7. ASSUME timer_pool'[j] = timer_pool[j], scan < TIMER_CNT, scan' = scan + 1, late' = late,
             used'[timer_pool[j].key[1]] = used[timer_pool[j].key[1]],
             dispatch_timer => dispatch_timer'
      PROVE  /\ timer_pool'[j].reload >= LateTicks
             /\ phase' = "sdk" /\ used'[timer_pool'[j].key[1]] > 0
                  => dispatch_timer' /\ timer_pool'[j].timeout >= Visits(j)'
  <2>1. Visits(j)' <= Visits(j) /\ Visits(j) \in Nat /\ Visits(j)' \in Nat
    BY <1>0, <1>7, VisitsAre
  <2>2. phase = "sdk"
    BY <1>0, <1>7 DEF WakeRoom
  <2>3. timer_pool[j].timeout \in Nat
    BY <1>0 DEF Slot
  <2> QED
    BY <1>1, <1>7, <2>1, <2>2, <2>3
<1>8. CASE TickSlot
  <2>1. /\ scan < TIMER_CNT /\ scan' = scan + 1 /\ late' = late /\ used' = used
        /\ dispatch_timer' = dispatch_timer /\ phase' = phase
        /\ Tm!NextSlot /\ (Tm!SkipFree \/ Tm!CountDown)
    BY <1>8 DEF TickSlot, Tm!NextSlot, osVars
  <2>2. CASE timer_pool'[j] = timer_pool[j]
    BY <1>7, <2>1, <2>2
  <2>3. CASE timer_pool'[j] # timer_pool[j]
    <3>1. /\ Tm!CountDown /\ j = scan
          /\ timer_pool'[j] = [timer_pool[j] EXCEPT !.timeout = timer_pool[j].timeout - 1]
      BY <2>1, <2>3, ScanReload
    <3>2. /\ timer_pool'[j].key = timer_pool[j].key /\ timer_pool'[j].reload = timer_pool[j].reload
          /\ timer_pool'[j].timeout = timer_pool[j].timeout - 1
          /\ timer_pool[j].timeout \in Nat /\ timer_pool[j].timeout > 0
      BY <1>0, <3>1 DEF Slot, Tm!CountDown
    <3>3. Visits(j)' \in Nat /\ Visits(j) = Visits(j)' + 1
      BY <1>0, <2>1, <3>1, VisitsAre
    <3> QED
      BY <1>1, <2>1, <3>2, <3>3
  <2> QED
    BY <2>2, <2>3
<1>9. CASE TickExpire
  <2>1. PICK key \in Keys :
          /\ key = timer_pool[scan].key /\ used'[key[1]] = 1
          /\ \A t \in Os!Tasks \ {key[1]} : SameQueue(t)
    BY <1>9, RoomQueues
  <2>2. /\ phase = "sdk" /\ dispatch_hook /\ scan \in Tm!TimerIds
        /\ key[1] \in Os!Tasks /\ key[2] \in Os!Signals /\ used[key[1]] = 0 /\ Post(key[1], key[2])
    BY <1>9, <2>1, ExpiryFindsRoom
  <2>3. /\ scan < TIMER_CNT /\ scan' = scan + 1 /\ late' = late /\ Tm!NextSlot /\ Tm!Expire
    BY <1>9 DEF TickExpire, Tm!NextSlot
  <2>4. dispatch_timer'
    <3>1. used[key[1]] < QUEUE_SIZE
      BY <2>2
    <3>2. next_dispatch' = 1
      BY <2>2, <3>1, PostAdds
    <3> QED
      BY <3>2, WakeStep DEF WakeRoom
  <2>5. CASE j = scan
    <3>1. timer_pool'[j] = [timer_pool[j] EXCEPT !.timeout = timer_pool[j].reload]
      BY <2>3, <2>5, ScanReload
    <3>2. /\ timer_pool'[j].reload = timer_pool[j].reload /\ timer_pool[j].reload \in Nat
          /\ timer_pool'[j].timeout = timer_pool[j].reload
          /\ timer_pool[j].key # NoKey
      BY <1>0, <2>3, <2>5, <3>1 DEF Slot, Tm!Expire
    <3>3. Visits(j)' <= LateTicks /\ Visits(j)' \in Nat
      BY <1>0, <2>3, <2>5, VisitsAre
    <3> QED
      BY <1>1, <2>4, <3>2, <3>3
  <2>6. CASE j # scan
    <3>1. timer_pool'[j] = timer_pool[j]
      BY <2>3, <2>6, ScanReload
    <3>2. timer_pool[j].key \in Keys /\ timer_pool[j].key # NoKey /\ timer_pool[scan].key # NoKey
      BY <1>1, <2>1, <3>1, PoolFacts
    <3>3. timer_pool[j].key[1] # key[1]
      BY <2>1, <2>2, <2>6, <3>2, OneTimerPerTask
    <3>4. used'[timer_pool[j].key[1]] = used[timer_pool[j].key[1]]
      BY <2>1, <3>2, <3>3, KeyParts DEF SameQueue
    <3> QED
      BY <1>7, <2>3, <2>4, <3>1, <3>4
  <2> QED
    BY <2>5, <2>6
<1>10. CASE UNCHANGED <<osVars, timerVars, late>>
  <2>1. /\ timer_pool' = timer_pool /\ used' = used /\ phase' = phase /\ late' = late
        /\ dispatch_timer' = dispatch_timer /\ scan' = scan
    BY <1>10 DEF osVars, timerVars
  <2>2. Visits(j)' = Visits(j)
    BY <2>1 DEF Visits
  <2>3. timer_pool'[j] = timer_pool[j] /\ used'[timer_pool[j].key[1]] = used[timer_pool[j].key[1]]
    BY <2>1
  <2> QED
    BY <1>1, <2>1, <2>2, <2>3
<1> QED
  BY <1>2, <1>3, <1>4, <1>5, <1>6, <1>8, <1>9, <1>10, AloneSteps

LEMMA InitRoom == Init => RoomInv
<1> SUFFICES ASSUME Init PROVE RoomFacts
  BY DEF RoomInv
<1>1. \A t \in Os!Tasks : Waiting(t) = {} /\ Ahead(t) = {} /\ used[t] = 0
  BY DEF Init, Os!Init, Waiting, Ahead
<1>2. /\ InState("network_actor") /\ phase = "sdk" /\ ~dispatch_timer /\ next_dispatch = 0
      /\ DRIVER_ID \in Os!Tasks /\ NETWORK_ID \in Os!Tasks
  BY SignalsAre DEF Init, Os!Init, InState, DRIVER_ID, NETWORK_ID
<1>3. \A j \in Tm!TimerIds : timer_pool[j].key = NoKey
  BY DEF Init, Tm!Init, Tm!FreeSlot
<1>4. \A t, s : ~Called(t, s)
  BY <1>2 DEF Called
<1>5. ~Coming(DRIVER_ID, "STM_ENTRY_SIG")
  BY <1>1, <1>2, <1>4 DEF Coming
<1>6. ActorRoom
  BY <1>1, <1>2, <1>4, <1>5 DEF ActorRoom, One
<1> QED
  BY <1>1, <1>2, <1>3, <1>6 DEF RoomFacts, WakeRoom, DriverRoom, StateRoom, TimeRoom

LEMMA RoomStep == ASSUME RoomAssumption, AloneInv, RoomInv, [Next]_vars PROVE RoomInv'
<1> SUFFICES ASSUME console' = 0 PROVE RoomFacts'
  BY DEF RoomInv
<1>1. console = 0
  BY StillAlone DEF AloneInv, Base
<1>2. RoomContext
  BY <1>1 DEF RoomContext, RoomInv
<1> QED
  BY <1>2, WakeStep, DriverStep, ActorStep, StateStep, TimeStep DEF RoomFacts

\* No ring of a device left alone is ever full (fsm.c, driver_task.c, network_task.c): with three
\* slots or more, and with no period shorter than a dispatch pass can be late, two messages are
\* the most that ever wait, so the unread return codes of os_post_message hide no loss.
THEOREM QueuesNeverFull ==
  ASSUME RoomAssumption
  PROVE  Spec => [](console = 0 => QueuesHaveRoom)
<1>1. AloneInv /\ RoomInv => (console = 0 => QueuesHaveRoom)
  <2> SUFFICES ASSUME AloneInv, RoomFacts, console = 0, NEW t \in Os!Tasks PROVE used[t] < QUEUE_SIZE
    BY DEF RoomInv, QueuesHaveRoom
  <2>1. RoomContext
    BY DEF RoomContext
  <2>2. used[DRIVER_ID] <= 1 /\ used[DRIVER_ID] \in Nat
    BY <2>1, ContextFacts DEF DriverRoom
  <2>3. used[NETWORK_ID] <= 2 /\ used[NETWORK_ID] \in Nat
    <3>1. used[NETWORK_ID] \in Nat
      BY <2>1, ContextFacts
    <3>2. CASE InState("network_actor")
      <4>1. /\ One(Coming(DRIVER_ID, "STM_ENTRY_SIG")) \in Nat
            /\ One(Called(NETWORK_ID, "STM_ENTRY_SIG")) \in Nat
        BY DEF One
      <4> QED
        BY <2>1, <3>1, <3>2, <4>1, ContextFacts DEF ActorRoom
    <3>3. CASE ~InState("network_actor")
      BY <2>1, <3>1, <3>3, ContextFacts DEF StateRoom
    <3> QED
      BY <3>2, <3>3, <3>1
  <2> QED
    BY <2>1, <2>2, <2>3, ContextFacts, Rings
<1>2. Init => AloneInv /\ RoomInv
  BY InitAloneInv, InitRoom
<1>3. AloneInv /\ RoomInv /\ [Next]_vars => AloneInv' /\ RoomInv'
  BY AloneInvStep, RoomStep
<1> QED
  BY <1>1, <1>2, <1>3, PTL DEF Spec
=============================================================================
