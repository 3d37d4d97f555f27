--------------------------- MODULE EventLoopProofs ---------------------------
(***************************************************************************)
(* Proofs about EventLoop for any number of tasks, any ring size, any      *)
(* signals and any handlers.                                               *)
(***************************************************************************)
EXTENDS EventLoop, SequenceTheorems, TLAPS

\* The inductive invariant: the four state predicates need each other.
\* WakeupArmed relies on the hook being registered before the first post,
\* NoStrayTran on the phases, the ring equation on the types of its counters.
IInv == TypeOK /\ RingConsistent /\ WakeupArmed /\ NoStrayTran

-----------------------------------------------------------------------------
(* Going round the ring *)

LEMMA WrapInSlots == ASSUME NEW k \in Slots PROVE Wrap(k) \in Slots
  BY EventLoopAssumption DEF Wrap, Slots

LEMMA SlotAfterInSlots ==
  ASSUME NEW h \in Slots, NEW n \in 0 .. QUEUE_SIZE
  PROVE  SlotAfter(h, n) \in Slots
  BY EventLoopAssumption DEF SlotAfter, Slots

\* The slot after the newest signal, when one more is stored.
LEMMA SlotAfterGrow ==
  ASSUME NEW h \in Slots, NEW n \in 0 .. QUEUE_SIZE - 1
  PROVE  SlotAfter(h, n + 1) = Wrap(SlotAfter(h, n))
  BY EventLoopAssumption DEF SlotAfter, Slots, Wrap

\* The same slots, counted from the second oldest signal.
LEMMA SlotAfterShift ==
  ASSUME NEW h \in Slots, NEW n \in 0 .. QUEUE_SIZE - 1
  PROVE  SlotAfter(Wrap(h), n) = SlotAfter(h, n + 1)
  BY EventLoopAssumption DEF SlotAfter, Slots, Wrap

\* Different positions of a ring that is not full are different slots.
LEMMA SlotAfterInjective ==
  ASSUME NEW h \in Slots, NEW m \in 0 .. QUEUE_SIZE - 1, NEW n \in 0 .. QUEUE_SIZE - 1,
         m # n
  PROVE  SlotAfter(h, m) # SlotAfter(h, n)
  BY EventLoopAssumption DEF SlotAfter, Slots

-----------------------------------------------------------------------------
(* Storing a message *)

LEMMA EnqueueInv ==
  ASSUME TypeOK, RingConsistent, NEW t \in Tasks, NEW s \in Signals,
         used[t] < QUEUE_SIZE, Enqueue(t, s)
  PROVE  /\ head' \in [Tasks -> Slots]
         /\ tail' \in [Tasks -> Slots]
         /\ used' \in [Tasks -> 0 .. QUEUE_SIZE]
         /\ buf' \in [Tasks -> [Slots -> Signals]]
         /\ RingConsistent'
<1>1. head' = head /\ head \in [Tasks -> Slots]
  BY DEF Enqueue, TypeOK
<1>2. tail' \in [Tasks -> Slots]
  BY WrapInSlots DEF Enqueue, TypeOK
<1>3. used' \in [Tasks -> 0 .. QUEUE_SIZE]
  BY EventLoopAssumption DEF Enqueue, TypeOK
<1>4. buf' \in [Tasks -> [Slots -> Signals]]
  BY DEF Enqueue, TypeOK
<1>5. ASSUME NEW u \in Tasks
      PROVE  tail'[u] = SlotAfter(head'[u], used'[u])
  <2>1. CASE u = t
    <3>1. tail'[t] = Wrap(tail[t]) /\ used'[t] = used[t] + 1
      BY DEF Enqueue, TypeOK
    <3>2. head[t] \in Slots /\ used[t] \in 0 .. QUEUE_SIZE - 1
      BY EventLoopAssumption DEF TypeOK
    <3>3. tail[t] = SlotAfter(head[t], used[t])
      BY DEF RingConsistent
    <3> QED BY <1>1, <2>1, <3>1, <3>2, <3>3, SlotAfterGrow
  <2>2. CASE u # t
    BY <2>2 DEF Enqueue, TypeOK, RingConsistent
  <2> QED BY <2>1, <2>2
<1>6. RingConsistent'
  BY <1>5 DEF RingConsistent
<1> QED BY <1>1, <1>2, <1>3, <1>4, <1>6

-----------------------------------------------------------------------------
(* The invariant *)

LEMMA InitIInv == Init => IInv
<1> SUFFICES ASSUME Init PROVE IInv
  OBVIOUS
<1>1. TypeOK
  <2>1. 0 \in Slots /\ 0 \in 0 .. QUEUE_SIZE /\ 0 \in 0 .. TASKS_CNT
    BY EventLoopAssumption DEF Slots
  <2>2. STM_ENTRY_SIG \in Signals
    BY DEF Signals
  <2>3. /\ head \in [Tasks -> Slots]
        /\ tail \in [Tasks -> Slots]
        /\ used \in [Tasks -> 0 .. QUEUE_SIZE]
        /\ buf \in [Tasks -> [Slots -> Signals]]
    BY <2>1, <2>2 DEF Init
  <2>4. /\ tasks_pool \in [Tasks -> Handlers]
        /\ stm_ret_value \in BOOLEAN
        /\ stm_state_temp \in Handlers
        /\ sig \in Signals
    BY <2>2, EventLoopAssumption DEF Init
  <2>5. /\ dispatch_hook \in BOOLEAN
        /\ next_dispatch \in {0, 1}
        /\ dispatch_timer \in BOOLEAN
        /\ phase \in Phases
        /\ i \in 0 .. TASKS_CNT
        /\ phase \notin HandlerPhases
    BY <2>1 DEF Init, Phases, HandlerPhases
  <2> QED BY <2>3, <2>4, <2>5 DEF TypeOK
<1>2. RingConsistent
  BY EventLoopAssumption DEF Init, RingConsistent, SlotAfter
<1>3. WakeupArmed /\ NoStrayTran
  BY DEF Init, WakeupArmed, NoStrayTran
<1> QED BY <1>1, <1>2, <1>3 DEF IInv

LEMMA NextIInv == IInv /\ [Next]_vars => IInv'
<1> SUFFICES ASSUME IInv, [Next]_vars PROVE IInv'
  OBVIOUS
<1> USE DEF IInv
<1>1. CASE FsmInit
  <2>1. ASSUME NEW t \in Tasks
        PROVE  /\ tail'[t] \in Slots
               /\ used'[t] \in 0 .. QUEUE_SIZE
               /\ buf'[t] \in [Slots -> Signals]
               /\ tail'[t] = SlotAfter(head'[t], used'[t])
    <3>1. head[t] \in Slots /\ used[t] \in 0 .. QUEUE_SIZE /\ tail[t] \in Slots
          /\ buf[t] \in [Slots -> Signals] /\ tail[t] = SlotAfter(head[t], used[t])
      BY DEF TypeOK, RingConsistent
    <3>2. head'[t] = head[t]
      BY <1>1 DEF FsmInit
    <3>3. CASE HasRoom(t)
      <4>1. /\ tail'[t] = Wrap(tail[t])
            /\ used'[t] = used[t] + 1
            /\ buf'[t] = [buf[t] EXCEPT ![tail[t]] = STM_ENTRY_SIG]
        BY <1>1, <3>3 DEF FsmInit
      <4>2. used[t] \in 0 .. QUEUE_SIZE - 1
        BY <3>1, <3>3, EventLoopAssumption DEF HasRoom
      <4> QED BY <3>1, <3>2, <4>1, <4>2, WrapInSlots, SlotAfterGrow, EventLoopAssumption
              DEF Signals
    <3>4. CASE ~HasRoom(t)
      BY <1>1, <3>1, <3>2, <3>4 DEF FsmInit
    <3> QED BY <3>3, <3>4
  <2>2. /\ tail' = [t \in Tasks |-> tail'[t]]
        /\ used' = [t \in Tasks |-> used'[t]]
        /\ buf' = [t \in Tasks |-> buf'[t]]
    BY <1>1 DEF FsmInit
  <2>3. TypeOK'
    BY <1>1, <2>1, <2>2 DEF FsmInit, TypeOK, loopVars
  <2>4. RingConsistent'
    BY <2>1 DEF RingConsistent
  <2>5. WakeupArmed' /\ NoStrayTran'
    BY <1>1 DEF FsmInit, TypeOK, WakeupArmed, NoStrayTran, loopVars
  <2> QED BY <2>3, <2>4, <2>5
<1>2. CASE DispatchBegin
  <2>1. /\ 0 \in 0 .. TASKS_CNT
        /\ phase' \in Phases
        /\ phase' \notin HandlerPhases
    BY <1>2, EventLoopAssumption DEF DispatchBegin, Phases, HandlerPhases
  <2>2. TypeOK'
    BY <1>2, <2>1 DEF DispatchBegin, TypeOK, queueVars
  <2>3. RingConsistent'
    BY <1>2 DEF DispatchBegin, RingConsistent, queueVars
  <2>4. WakeupArmed' /\ NoStrayTran'
    BY <1>2 DEF DispatchBegin, WakeupArmed, NoStrayTran
  <2> QED BY <2>2, <2>3, <2>4
<1>3. CASE DispatchTake
  <2>1. i \in Tasks
    BY <1>3, EventLoopAssumption DEF DispatchTake, TypeOK, Tasks
  <2>2. /\ head[i] \in Slots /\ tail[i] \in Slots /\ used[i] \in 1 .. QUEUE_SIZE
        /\ buf[i][head[i]] \in Signals
    BY <1>3, <2>1 DEF DispatchTake, TypeOK
  <2>3. head' \in [Tasks -> Slots] /\ used' \in [Tasks -> 0 .. QUEUE_SIZE]
    BY <1>3, <2>1, <2>2, WrapInSlots, EventLoopAssumption DEF DispatchTake, TypeOK
  <2>4. TypeOK'
    BY <1>3, <2>1, <2>2, <2>3 DEF DispatchTake, TypeOK, wakeVars, Phases, HandlerPhases
  <2>5. ASSUME NEW t \in Tasks
        PROVE  tail'[t] = SlotAfter(head'[t], used'[t])
    <3>1. CASE t = i
      <4>1. head'[i] = Wrap(head[i]) /\ used'[i] = used[i] - 1 /\ tail'[i] = tail[i]
        BY <1>3, <2>1 DEF DispatchTake, TypeOK
      <4>2. used[i] - 1 \in 0 .. QUEUE_SIZE - 1 /\ (used[i] - 1) + 1 = used[i]
        BY <2>2, EventLoopAssumption
      <4>3. SlotAfter(Wrap(head[i]), used[i] - 1) = SlotAfter(head[i], (used[i] - 1) + 1)
        BY <2>2, <4>2, SlotAfterShift
      <4> QED BY <2>1, <3>1, <4>1, <4>2, <4>3 DEF RingConsistent
    <3>2. CASE t # i
      BY <1>3, <3>2 DEF DispatchTake, TypeOK, RingConsistent
    <3> QED BY <3>1, <3>2
  <2>6. RingConsistent'
    BY <2>5 DEF RingConsistent
  <2>7. WakeupArmed' /\ NoStrayTran'
    BY <1>3 DEF DispatchTake, WakeupArmed, NoStrayTran, wakeVars
  <2> QED BY <2>4, <2>6, <2>7
<1>4. CASE DispatchSkip
  <2>1. TypeOK'
    BY <1>4, EventLoopAssumption DEF DispatchSkip, TypeOK, queueVars, wakeVars, Phases, HandlerPhases
  <2>2. RingConsistent'
    BY <1>4 DEF DispatchSkip, RingConsistent, queueVars
  <2>3. WakeupArmed' /\ NoStrayTran'
    BY <1>4 DEF DispatchSkip, WakeupArmed, NoStrayTran, wakeVars
  <2> QED BY <2>1, <2>2, <2>3
<1>5. CASE DispatchEnd
  <2>1. TypeOK'
    BY <1>5 DEF DispatchEnd, TypeOK, queueVars, wakeVars, Phases, HandlerPhases
  <2>2. RingConsistent'
    BY <1>5 DEF DispatchEnd, RingConsistent, queueVars
  <2>3. WakeupArmed' /\ NoStrayTran'
    BY <1>5 DEF DispatchEnd, WakeupArmed, NoStrayTran, wakeVars
  <2> QED BY <2>1, <2>2, <2>3
<1>6. CASE HandlerReturn
  <2>1. i \in Tasks /\ i + 1 \in 0 .. TASKS_CNT
    BY <1>6, EventLoopAssumption DEF HandlerReturn, ReturnWith, TypeOK, Tasks
  <2>2. TypeOK'
    BY <1>6, <2>1 DEF HandlerReturn, ReturnWith, TypeOK, queueVars, wakeVars, Phases,
                      HandlerPhases, Signals
  <2>3. RingConsistent'
    BY <1>6 DEF HandlerReturn, RingConsistent, queueVars
  <2>4. WakeupArmed'
    BY <1>6 DEF HandlerReturn, WakeupArmed, wakeVars
  <2>5. NoStrayTran'
    BY <1>6 DEF HandlerReturn, ReturnWith, NoStrayTran, HandlerPhases
  <2> QED BY <2>2, <2>3, <2>4, <2>5
<1>7. CASE CallPost
  <2>1. PICK t \in Tasks, s \in Events : OsPostMessage(t, s)
    BY <1>7 DEF CallPost
  <2>2. CASE UNCHANGED <<queueVars, wakeVars>>
    BY <1>7, <2>2 DEF CallPost, TypeOK, RingConsistent, WakeupArmed, NoStrayTran, queueVars,
                      wakeVars, loopVars
  <2>3. CASE used[t] < QUEUE_SIZE /\ Enqueue(t, s) /\ CallHook
    <3>1. s \in Signals
      BY DEF Signals
    <3>2. RingConsistent' /\ TypeOK'
      BY <1>7, <2>3, <3>1, EnqueueInv DEF CallPost, CallHook, TypeOK, loopVars
    <3>3. WakeupArmed' /\ NoStrayTran'
      BY <1>7, <2>3 DEF CallPost, CallHook, TypeOK, WakeupArmed, NoStrayTran, loopVars
    <3> QED BY <3>2, <3>3
  <2> QED BY <2>1, <2>2, <2>3 DEF OsPostMessage
<1>8. CASE CallTran
  <2>1. TypeOK'
    BY <1>8 DEF CallTran, OsStmTran, TypeOK, queueVars, wakeVars
  <2>2. RingConsistent'
    BY <1>8 DEF CallTran, RingConsistent, queueVars
  <2>3. WakeupArmed' /\ NoStrayTran'
    BY <1>8 DEF CallTran, WakeupArmed, NoStrayTran, wakeVars
  <2> QED BY <2>1, <2>2, <2>3
<1>9. CASE UNCHANGED vars
  BY <1>9 DEF vars, queueVars, wakeVars, loopVars, TypeOK, RingConsistent, WakeupArmed, NoStrayTran
<1> QED BY <1>1, <1>2, <1>3, <1>4, <1>5, <1>6, <1>7, <1>8, <1>9 DEF Next

\* Every reachable state of the event loop satisfies the invariant.
LEMMA SpecIInv == Spec => []IInv
  BY InitIInv, NextIInv, PTL DEF Spec

-----------------------------------------------------------------------------
(* Theorems *)

\* The counters, slots and phases of os_dispatch and os_post_message stay in
\* range whatever the handlers do.
THEOREM TypeCorrect == Spec => []TypeOK
<1>1. IInv => TypeOK
  BY DEF IInv
<1> QED BY <1>1, SpecIInv, PTL

\* The head, tail and used counters of every ring agree, for any QUEUE_SIZE.
THEOREM RingsConsistent == Spec => []RingConsistent
<1>1. IInv => RingConsistent
  BY DEF IInv
<1> QED BY <1>1, SpecIInv, PTL

\* next_dispatch is set exactly while the 0 ms dispatch timer is armed.
THEOREM WakeupNeverLost == Spec => []WakeupArmed
<1>1. IInv => WakeupArmed
  BY DEF IInv
<1> QED BY <1>1, SpecIInv, PTL

\* A transition never leaks from one task's handler into another task.
THEOREM TransitionsStayHome == Spec => []NoStrayTran
<1>1. IInv => NoStrayTran
  BY DEF IInv
<1> QED BY <1>1, SpecIInv, PTL

\* Whoever posts, an accepted message leaves the dispatch timer armed.
THEOREM PostsWake == Spec => AcceptedPostWakes
<1>1. IInv /\ IInv' /\ [Next]_vars => [(\E t \in Tasks : used'[t] > used[t]) => dispatch_timer']_vars
  <2> SUFFICES ASSUME IInv, IInv', Next, NEW t \in Tasks, used'[t] > used[t]
               PROVE  dispatch_timer'
    OBVIOUS
  <2>1. used[t] \in Nat /\ ~(used[t] > used[t])
    BY DEF IInv, TypeOK
  <2>2. used' # used
    BY <2>1
  <2>3. CASE FsmInit
    <3>1. HasRoom(t)
      BY <2>1, <2>3 DEF FsmInit
    <3>2. next_dispatch' = 1
      BY <2>3, <3>1 DEF FsmInit
    <3> QED BY <3>2 DEF IInv, WakeupArmed
  <2>4. CASE DispatchTake
    <3>1. used'[t] = used[t] \/ used'[t] = used[t] - 1
      BY <2>4 DEF DispatchTake, IInv, TypeOK
    <3> QED BY <2>1, <3>1
  <2>5. CASE CallPost
    <3>1. PICK u \in Tasks, s \in Events : OsPostMessage(u, s)
      BY <2>5 DEF CallPost
    <3>2. next_dispatch' = 1
      BY <2>2, <3>1 DEF OsPostMessage, CallHook, queueVars
    <3> QED BY <3>2 DEF IInv, WakeupArmed
  <2>6. CASE DispatchBegin \/ DispatchSkip \/ DispatchEnd \/ HandlerReturn \/ CallTran
    BY <2>2, <2>6 DEF DispatchBegin, DispatchSkip, DispatchEnd, HandlerReturn, CallTran, queueVars
  <2> QED BY <2>3, <2>4, <2>5, <2>6 DEF Next
<1> QED BY <1>1, SpecIInv, PTL DEF Spec, AcceptedPostWakes

-----------------------------------------------------------------------------
(* The rings implement first-in first-out lists *)

\* A sequence is the function that maps its positions to its elements.
LEMMA SeqAsFunction ==
  ASSUME NEW S, NEW s \in Seq(S)
  PROVE  s = [k \in 1 .. Len(s) |-> s[k]]
  OBVIOUS

LEMMA PendingIsSeq ==
  ASSUME TypeOK, NEW t \in Tasks
  PROVE  /\ Pending(t) \in Seq(Signals)
         /\ Len(Pending(t)) = used[t]
         /\ \A k \in 1 .. used[t] : Pending(t)[k] = buf[t][SlotAfter(head[t], k - 1)]
<1>1. used[t] \in Nat /\ used[t] <= QUEUE_SIZE
  BY EventLoopAssumption DEF TypeOK
<1>2. ASSUME NEW k \in 1 .. used[t]
      PROVE  buf[t][SlotAfter(head[t], k - 1)] \in Signals
  <2>1. k - 1 \in 0 .. QUEUE_SIZE
    BY <1>1, EventLoopAssumption
  <2>2. SlotAfter(head[t], k - 1) \in Slots
    BY <2>1, SlotAfterInSlots DEF TypeOK
  <2> QED BY <2>2 DEF TypeOK
<1> QED BY <1>1, <1>2 DEF Pending

\* Storing a message appends it to the list.
LEMMA PendingStore ==
  ASSUME TypeOK, RingConsistent, NEW t \in Tasks, NEW s \in Signals, HasRoom(t),
         head'[t] = head[t], used'[t] = used[t] + 1,
         buf'[t] = [buf[t] EXCEPT ![tail[t]] = s]
  PROVE  Pending(t)' = Append(Pending(t), s)
<1> DEFINE n == used[t]
<1>1. n \in 0 .. QUEUE_SIZE - 1 /\ n + 1 \in Nat /\ head[t] \in Slots
  BY EventLoopAssumption DEF TypeOK, HasRoom
<1>2. tail[t] = SlotAfter(head[t], n)
  BY DEF RingConsistent
<1>3. Append(Pending(t), s)
        = [k \in 1 .. n + 1 |-> IF k = n + 1 THEN s ELSE Pending(t)[k]]
  <2> DEFINE a == Append(Pending(t), s)
  <2>1. Pending(t) \in Seq(Signals) /\ Len(Pending(t)) = n
    BY PendingIsSeq
  <2>2. /\ a \in Seq(Signals) /\ Len(a) = n + 1 /\ a[n + 1] = s
        /\ \A k \in 1 .. n : a[k] = Pending(t)[k]
    BY <2>1, AppendProperties
  <2>3. a = [k \in 1 .. n + 1 |-> a[k]]
    BY <2>2, SeqAsFunction
  <2> HIDE DEF a
  <2>4. \A k \in 1 .. n + 1 : a[k] = IF k = n + 1 THEN s ELSE Pending(t)[k]
    BY <1>1, <2>2
  <2> QED BY <2>3, <2>4 DEF a
<1>4. ASSUME NEW k \in 1 .. n + 1
      PROVE  buf'[t][SlotAfter(head'[t], k - 1)] = IF k = n + 1 THEN s ELSE Pending(t)[k]
  <2>1. k - 1 \in 0 .. QUEUE_SIZE - 1 /\ SlotAfter(head[t], k - 1) \in Slots
    BY <1>1, SlotAfterInSlots, EventLoopAssumption
  <2>2. buf[t] \in [Slots -> Signals]
    BY DEF TypeOK
  <2>3. CASE k = n + 1
    <3>1. k - 1 = n
      BY <1>1, <2>3
    <3> QED BY <1>2, <2>1, <2>2, <2>3, <3>1
  <2>4. CASE k # n + 1
    <3>1. k \in 1 .. n /\ k - 1 # n
      BY <1>1, <2>4
    <3>2. SlotAfter(head[t], k - 1) # tail[t]
      BY <1>1, <1>2, <2>1, <3>1, SlotAfterInjective
    <3>3. buf'[t][SlotAfter(head[t], k - 1)] = buf[t][SlotAfter(head[t], k - 1)]
      BY <2>1, <2>2, <3>2
    <3>4. Pending(t)[k] = buf[t][SlotAfter(head[t], k - 1)]
      BY <3>1, PendingIsSeq
    <3> QED BY <2>4, <3>3, <3>4
  <2> QED BY <2>3, <2>4
<1>5. Pending(t)' = [k \in 1 .. n + 1 |-> buf'[t][SlotAfter(head'[t], k - 1)]]
  BY DEF Pending, SlotAfter
<1> QED BY <1>3, <1>4, <1>5

\* Taking the oldest message leaves the tail of the list.
LEMMA PendingTake ==
  ASSUME TypeOK, NEW t \in Tasks, used[t] > 0,
         head'[t] = Wrap(head[t]), used'[t] = used[t] - 1, buf'[t] = buf[t]
  PROVE  /\ Pending(t) # <<>>
         /\ Head(Pending(t)) = buf[t][head[t]]
         /\ Pending(t)' = Tail(Pending(t))
<1> DEFINE n == used[t]
<1>1. n \in 1 .. QUEUE_SIZE /\ n - 1 \in Nat /\ head[t] \in Slots
  BY EventLoopAssumption DEF TypeOK
<1>2. Pending(t) \in Seq(Signals) /\ Len(Pending(t)) = n
  BY PendingIsSeq
<1>3. SlotAfter(head[t], 1 - 1) = head[t]
  BY <1>1, EventLoopAssumption DEF SlotAfter, Slots
<1>4. Pending(t)[1] = buf[t][head[t]]
  BY <1>1, <1>3, PendingIsSeq
<1>5. Pending(t) # <<>> /\ Head(Pending(t)) = buf[t][head[t]]
  BY <1>1, <1>2, <1>4
<1>6. Tail(Pending(t)) = [k \in 1 .. n - 1 |-> Pending(t)[k + 1]]
  <2> DEFINE r == Tail(Pending(t))
  <2>1. r \in Seq(Signals) /\ Len(r) = n - 1 /\ \A k \in 1 .. n - 1 : r[k] = Pending(t)[k + 1]
    BY <1>2, <1>5, HeadTailProperties
  <2>2. r = [k \in 1 .. n - 1 |-> r[k]]
    BY <2>1, SeqAsFunction
  <2> HIDE DEF r
  <2> QED BY <2>1, <2>2 DEF r
<1>7. ASSUME NEW k \in 1 .. n - 1
      PROVE  buf'[t][SlotAfter(head'[t], k - 1)] = Pending(t)[k + 1]
  <2>1. k - 1 \in 0 .. QUEUE_SIZE - 1 /\ k + 1 \in 1 .. n /\ (k - 1) + 1 = (k + 1) - 1
    BY <1>1, EventLoopAssumption
  <2>2. SlotAfter(Wrap(head[t]), k - 1) = SlotAfter(head[t], (k + 1) - 1)
    BY <1>1, <2>1, SlotAfterShift
  <2> QED BY <2>1, <2>2, PendingIsSeq
<1>8. Pending(t)' = [k \in 1 .. n - 1 |-> buf'[t][SlotAfter(head'[t], k - 1)]]
  BY DEF Pending, SlotAfter
<1> QED BY <1>5, <1>6, <1>7, <1>8

\* A step that leaves the rings alone leaves the lists alone.
LEMMA PendingSame ==
  ASSUME UNCHANGED queueVars
  PROVE  \A t \in Tasks : Pending(t)' = Pending(t)
  BY DEF queueVars, Pending, SlotAfter

LEMMA InitFifo == Init => Fifo!Init
<1> SUFFICES ASSUME Init PROVE Fifo!Init
  OBVIOUS
<1>1. ASSUME NEW t \in Tasks PROVE Pending(t) = <<>>
  <2>1. TypeOK
    BY InitIInv DEF IInv
  <2>2. Pending(t) \in Seq(Signals) /\ Len(Pending(t)) = 0
    BY <2>1, PendingIsSeq DEF Init
  <2> QED BY <2>2
<1>2. phase # "event"
  BY DEF Init
<1> QED BY <1>1, <1>2 DEF Fifo!Init

LEMMA NextFifo == IInv /\ [Next]_vars => [Fifo!Next]_(Fifo!vars)
<1> SUFFICES ASSUME IInv, [Next]_vars PROVE [Fifo!Next]_(Fifo!vars)
  OBVIOUS
<1> USE DEF IInv
<1> DEFINE pend == [t \in Tasks |-> Pending(t)]
           curr == IF phase = "event" THEN <<i, sig>> ELSE <<>>
<1>len. \A t \in Tasks : Fifo!Room(t) <=> HasRoom(t)
  BY PendingIsSeq DEF Fifo!Room, HasRoom
<1>1. CASE FsmInit
  <2>1. ASSUME NEW t \in Tasks
        PROVE  Pending(t)' = IF HasRoom(t) THEN Append(Pending(t), STM_ENTRY_SIG) ELSE Pending(t)
    <3>1. CASE HasRoom(t)
      <4>1. STM_ENTRY_SIG \in Signals
        BY DEF Signals
      <4>2. /\ head'[t] = head[t]
            /\ used'[t] = used[t] + 1
            /\ buf'[t] = [buf[t] EXCEPT ![tail[t]] = STM_ENTRY_SIG]
        BY <1>1, <3>1 DEF FsmInit
      <4> QED BY <3>1, <4>1, <4>2, PendingStore
    <3>2. CASE ~HasRoom(t)
      <4>1. head'[t] = head[t] /\ used'[t] = used[t] /\ buf'[t] = buf[t]
        BY <1>1, <3>2 DEF FsmInit
      <4> QED BY <3>2, <4>1 DEF Pending, SlotAfter
    <3> QED BY <3>1, <3>2
  <2>2. curr' = curr
    BY <1>1 DEF FsmInit, loopVars
  <2>3. pend' = [t \in Tasks |-> IF Fifo!Room(t) THEN Append(pend[t], STM_ENTRY_SIG) ELSE pend[t]]
    BY <1>len, <2>1
  <2>4. Fifo!AcceptAll
    BY <2>2, <2>3 DEF Fifo!AcceptAll
  <2> QED BY <2>4 DEF Fifo!Next
<1>2. CASE DispatchTake
  <2>1. i \in Tasks
    BY <1>2, EventLoopAssumption DEF DispatchTake, TypeOK, Tasks
  <2>2. used[i] > 0 /\ head'[i] = Wrap(head[i]) /\ used'[i] = used[i] - 1 /\ buf'[i] = buf[i]
    BY <1>2, <2>1 DEF DispatchTake, TypeOK
  <2>3. /\ Pending(i) # <<>>
        /\ Head(Pending(i)) = buf[i][head[i]]
        /\ [t \in Tasks |-> Pending(t)'][i] = Tail(Pending(i))
    <3>1. ASSUME NEW t \in Tasks, t = i
          PROVE  /\ Pending(t) # <<>>
                 /\ Head(Pending(t)) = buf[t][head[t]]
                 /\ Pending(t)' = Tail(Pending(t))
      BY <2>2, <3>1, PendingTake
    <3> QED BY <2>1, <3>1
  <2>4. ASSUME NEW t \in Tasks, t # i
        PROVE  Pending(t)' = Pending(t)
    <3>1. head'[t] = head[t] /\ used'[t] = used[t] /\ buf'[t] = buf[t]
      BY <1>2, <2>4 DEF DispatchTake, TypeOK
    <3> QED BY <3>1 DEF Pending, SlotAfter
  <2>5. pend' = [pend EXCEPT ![i] = Tail(pend[i])]
    BY <2>1, <2>3, <2>4
  <2>6. i' = i /\ curr = <<>> /\ curr' = <<i, Head(pend[i])>>
    BY <1>2, <2>1, <2>3 DEF DispatchTake
  <2>7. Fifo!Deliver(i)
    BY <2>1, <2>3, <2>5, <2>6 DEF Fifo!Deliver
  <2> QED BY <2>1, <2>7 DEF Fifo!Next
<1>3. CASE CallPost
  <2>1. PICK t \in Tasks, s \in Events : OsPostMessage(t, s)
    BY <1>3 DEF CallPost
  <2>2. curr' = curr
    BY <1>3 DEF CallPost, loopVars
  <2>3. CASE UNCHANGED queueVars
    <3>1. pend' = pend
      BY <2>3, PendingSame
    <3> QED BY <2>2, <3>1 DEF Fifo!vars
  <2>4. CASE used[t] < QUEUE_SIZE /\ Enqueue(t, s)
    <3>1. s \in Signals /\ HasRoom(t)
      BY <2>4 DEF Signals, HasRoom
    <3>2. /\ head'[t] = head[t] /\ used'[t] = used[t] + 1
          /\ buf'[t] = [buf[t] EXCEPT ![tail[t]] = s]
      BY <2>4 DEF Enqueue, TypeOK
    <3>3. Pending(t)' = Append(Pending(t), s)
      BY <3>1, <3>2, PendingStore
    <3>4. ASSUME NEW u \in Tasks, u # t
          PROVE  Pending(u)' = Pending(u)
      <4>1. head'[u] = head[u] /\ used'[u] = used[u] /\ buf'[u] = buf[u]
        BY <2>4, <3>4 DEF Enqueue, TypeOK
      <4> QED BY <4>1 DEF Pending, SlotAfter
    <3>5. pend' = [pend EXCEPT ![t] = Append(pend[t], s)]
      BY <3>3, <3>4
    <3>6. Fifo!Accept(t, s)
      BY <1>len, <2>2, <3>1, <3>5 DEF Fifo!Accept
    <3> QED BY <3>1, <3>6 DEF Fifo!Next
  <2> QED BY <2>1, <2>3, <2>4 DEF OsPostMessage
<1>4. CASE HandlerReturn
  <2>1. pend' = pend
    BY <1>4, PendingSame DEF HandlerReturn
  <2>2. phase' # "event"
    BY <1>4 DEF HandlerReturn, ReturnWith, HandlerPhases
  <2>3. CASE phase = "event"
    <3>1. curr # <<>> /\ curr' = <<>>
      BY <2>2, <2>3
    <3>2. Fifo!Finish
      BY <2>1, <3>1 DEF Fifo!Finish
    <3> QED BY <3>2 DEF Fifo!Next
  <2>4. CASE phase # "event"
    BY <2>1, <2>2, <2>4 DEF Fifo!vars
  <2> QED BY <2>3, <2>4
<1>5. CASE DispatchBegin \/ DispatchSkip \/ DispatchEnd
  <2>1. pend' = pend
    BY <1>5, PendingSame DEF DispatchBegin, DispatchSkip, DispatchEnd
  <2>2. curr' = curr
    BY <1>5 DEF DispatchBegin, DispatchSkip, DispatchEnd
  <2> QED BY <2>1, <2>2 DEF Fifo!vars
<1>6. CASE CallTran \/ UNCHANGED vars
  <2>1. pend' = pend
    BY <1>6, PendingSame DEF CallTran, vars
  <2>2. curr' = curr
    BY <1>6 DEF CallTran, vars, loopVars
  <2> QED BY <2>1, <2>2 DEF Fifo!vars
<1> QED BY <1>1, <1>2, <1>3, <1>4, <1>5, <1>6 DEF Next

\* os_post_message and os_dispatch implement, for any ring size and any number
\* of tasks, lists from which signals are delivered once each and in order.
THEOREM RingsImplementFifo == Spec => ImplementsFifo
  BY InitFifo, NextFifo, SpecIInv, PTL DEF Spec, ImplementsFifo, Fifo!Spec
=============================================================================
