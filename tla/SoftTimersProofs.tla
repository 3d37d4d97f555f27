-------------------------- MODULE SoftTimersProofs --------------------------
(***************************************************************************)
(* Proofs about SoftTimers for any pool, any keys and any timeouts, under  *)
(* the discipline of its callers: nobody starts a timer that is running.   *)
(***************************************************************************)
EXTENDS SoftTimers, WellFoundedInduction, TLAPS

-----------------------------------------------------------------------------
(* The first of a set of slots                                             *)

LEMMA LeastElement ==
  ASSUME NEW S \in SUBSET Nat, S # {}
  PROVE  \E m \in S : \A n \in S : m <= n
<1> DEFINE Less == OpToRel(<, Nat)
<1>1. \E m \in S : \A n \in S : ~(<<n, m>> \in Less)
  BY NatLessThanWellFounded, WFMin, Zenon
<1>2. Less = {p \in Nat \X Nat : p[1] < p[2]}
  BY Zenon DEF OpToRel
<1> HIDE DEF Less
<1>3. PICK m \in S : \A n \in S : ~(<<n, m>> \in Less)
  BY <1>1
<1>4. \A n \in S : ~(n < m)
  BY <1>2, <1>3
<1>5. \A n \in S : m <= n
  BY <1>4
<1> QED
  BY <1>5

LEMMA FirstInSet ==
  ASSUME NEW S \in SUBSET TimerIds, S # {}
  PROVE  First(S) \in S
<1>1. S \in SUBSET Nat
  BY SoftTimersAssumption DEF TimerIds
<1>2. \E m \in S : \A n \in S : m <= n
  BY <1>1, LeastElement
<1> QED
  BY <1>2 DEF First

-----------------------------------------------------------------------------
(* The pool read as a map                                                  *)

Slots == [key : Keys \cup {NoKey}, reloading : BOOLEAN, timeout : Nat, reload : Nat]

SlotTimer(s) ==
  [left |-> s.timeout, period |-> IF s.reloading THEN s.reload ELSE NoKey]

\* A key that a slot holds is the timer of that slot, every other key is none.
ReadsAsMap ==
  \A k \in Keys :
    /\ \A j \in TimerIds : timer_pool[j].key = k => TimerOf(k) = SlotTimer(timer_pool[j])
    /\ (\A j \in TimerIds : timer_pool[j].key # k) => TimerOf(k) = NoKey

LEMMA PoolReadsAsMap == TypeOK /\ UniqueTimers => ReadsAsMap
<1>1. SUFFICES ASSUME TypeOK, UniqueTimers, NEW k \in Keys
               PROVE  /\ \A j \in TimerIds : timer_pool[j].key = k =>
                           TimerOf(k) = SlotTimer(timer_pool[j])
                      /\ (\A j \in TimerIds : timer_pool[j].key # k) => TimerOf(k) = NoKey
  BY DEF ReadsAsMap
<1>2. ASSUME NEW j \in TimerIds, timer_pool[j].key = k
      PROVE  TimerOf(k) = SlotTimer(timer_pool[j])
  <2>1. k # NoKey
    BY SoftTimersAssumption
  <2>2. Having(k) = {j}
    BY <1>1, <1>2, <2>1 DEF Having, UniqueTimers
  <2>3. First(Having(k)) = j
    BY <2>2, FirstInSet
  <2> QED
    BY <2>2, <2>3 DEF TimerOf, Running, SlotTimer
<1>3. ASSUME \A j \in TimerIds : timer_pool[j].key # k
      PROVE  TimerOf(k) = NoKey
  BY <1>3 DEF TimerOf, Running, Having
<1> QED
  BY <1>2, <1>3

-----------------------------------------------------------------------------
(* Every step keeps the types and the keys apart                           *)

IInv == TypeOK /\ UniqueTimers

LEMMA InitInv == Init => IInv
  BY SoftTimersAssumption DEF Init, IInv, TypeOK, UniqueTimers, FreeSlot, TimerIds

\* The slot a new timer takes is a free one.
LEMMA NewSlotFree ==
  ASSUME TypeOK, NEW k \in Keys, ~Running(k), Candidates(k) # {}
  PROVE  /\ First(Candidates(k)) \in TimerIds
         /\ timer_pool[First(Candidates(k))].key = NoKey
         /\ \A j \in TimerIds : timer_pool[j].key # k
<1>1. Candidates(k) \in SUBSET TimerIds
  BY DEF Candidates, Having
<1>2. First(Candidates(k)) \in Candidates(k)
  BY <1>1, FirstInSet
<1> QED
  BY <1>1, <1>2 DEF Candidates, Running, Having

\* One free slot is given to a key that had none.
LEMMA GiveSlot ==
  ASSUME IInv, NEW k \in Keys, NEW j \in TimerIds, NEW s \in Slots,
         timer_pool[j].key = NoKey, \A l \in TimerIds : timer_pool[l].key # k,
         s.key = k, timer_pool' = [timer_pool EXCEPT ![j] = s],
         UNCHANGED <<scan, fired>>
  PROVE  IInv'
<1>1. timer_pool \in [TimerIds -> Slots]
  BY DEF IInv, TypeOK, Slots
<1>2. timer_pool' \in [TimerIds -> Slots]
  BY <1>1
<1>3. TypeOK'
  BY <1>2 DEF IInv, TypeOK, Slots
<1>4. UniqueTimers'
  BY <1>1 DEF IInv, UniqueTimers
<1> QED
  BY <1>3, <1>4 DEF IInv

\* What a call that starts a timer does to the pool: nothing, or it gives a free
\* slot to the key.
StartsAt(j, k, s) ==
  /\ timer_pool[j].key = NoKey
  /\ \A l \in TimerIds : timer_pool[l].key # k
  /\ s.key = k
  /\ timer_pool' = [timer_pool EXCEPT ![j] = s]

LEMMA TimerSetStarts ==
  ASSUME TypeOK, NEW k \in Keys, NEW t \in Timeouts, ~Running(k), OsTimerSet(k, t)
  PROVE  \/ UNCHANGED timer_pool
         \/ \E j \in TimerIds, s \in Slots :
              StartsAt(j, k, s) /\ SlotTimer(s) = [left |-> t, period |-> NoKey]
<1>1. CASE Candidates(k) = {}
  BY <1>1 DEF OsTimerSet
<1>2. CASE Candidates(k) # {}
  <2> DEFINE j == First(Candidates(k))
             s == [timer_pool[j] EXCEPT !.key = k, !.timeout = t, !.reloading = FALSE]
  <2>1. /\ j \in TimerIds /\ timer_pool[j].key = NoKey
        /\ \A l \in TimerIds : timer_pool[l].key # k
    BY <1>2, NewSlotFree
  <2>2. k # NoKey /\ t \in Nat
    BY SoftTimersAssumption
  <2>3. timer_pool \in [TimerIds -> Slots]
    BY DEF TypeOK, Slots
  <2>4. s \in Slots /\ s.key = k /\ SlotTimer(s) = [left |-> t, period |-> NoKey]
    BY <2>1, <2>2, <2>3 DEF Slots, SlotTimer
  <2>5. timer_pool' = [timer_pool EXCEPT ![j] = s]
    BY <1>2, <2>1, <2>2 DEF OsTimerSet
  <2> QED
    BY <2>1, <2>4, <2>5 DEF StartsAt
<1> QED
  BY <1>1, <1>2

LEMMA ReloadTimerSetStarts ==
  ASSUME TypeOK, NEW k \in Keys, NEW t \in Timeouts, ~Running(k), OsReloadTimerSet(k, t)
  PROVE  \/ UNCHANGED timer_pool
         \/ \E j \in TimerIds, s \in Slots :
              StartsAt(j, k, s) /\ SlotTimer(s) = [left |-> t, period |-> t]
<1>1. CASE Candidates(k) = {}
  BY <1>1 DEF OsReloadTimerSet
<1>2. CASE Candidates(k) # {}
  <2> DEFINE j == First(Candidates(k))
             s == [key |-> k, timeout |-> t, reload |-> t, reloading |-> TRUE]
  <2>1. /\ j \in TimerIds /\ timer_pool[j].key = NoKey
        /\ \A l \in TimerIds : timer_pool[l].key # k
    BY <1>2, NewSlotFree
  <2>2. k # NoKey /\ t \in Nat
    BY SoftTimersAssumption
  <2>3. s \in Slots /\ s.key = k /\ SlotTimer(s) = [left |-> t, period |-> t]
    BY <2>2 DEF Slots, SlotTimer
  <2>4. timer_pool' = [timer_pool EXCEPT ![j] = s]
    BY <1>2, <2>1, <2>2 DEF OsReloadTimerSet
  <2> QED
    BY <2>1, <2>3, <2>4 DEF StartsAt
<1> QED
  BY <1>1, <1>2

\* Changing one slot without giving it another key, except none.
LEMMA KeepSlot ==
  ASSUME IInv, NEW j \in TimerIds, NEW s \in Slots,
         s.key \in {timer_pool[j].key, NoKey},
         timer_pool' = [timer_pool EXCEPT ![j] = s]
  PROVE  timer_pool' \in [TimerIds -> Slots] /\ UniqueTimers'
<1>1. timer_pool \in [TimerIds -> Slots]
  BY DEF IInv, TypeOK, Slots
<1>2. timer_pool' \in [TimerIds -> Slots]
  BY <1>1
<1>3. UniqueTimers'
  BY <1>1 DEF IInv, UniqueTimers
<1> QED
  BY <1>2, <1>3

LEMMA DelKeeps ==
  ASSUME IInv, NEW k \in Keys, OsTimerDel(k)
  PROVE  timer_pool' \in [TimerIds -> Slots] /\ UniqueTimers'
<1>1. timer_pool \in [TimerIds -> Slots]
  BY DEF IInv, TypeOK, Slots
<1>2. CASE ~Running(k)
  BY <1>1, <1>2 DEF OsTimerDel, IInv, UniqueTimers
<1>3. CASE Running(k)
  <2> DEFINE j == First(Having(k))
             s == [timer_pool[j] EXCEPT !.key = NoKey, !.reloading = FALSE]
  <2>1. j \in TimerIds
    BY <1>3, FirstInSet DEF Running, Having
  <2>2. s \in Slots /\ s.key = NoKey
    BY <1>1, <2>1 DEF Slots
  <2>3. timer_pool' = [timer_pool EXCEPT ![j] = s]
    BY <1>3 DEF OsTimerDel
  <2> HIDE DEF s, j
  <2> QED
    BY <2>1, <2>2, <2>3, KeepSlot
<1> QED
  BY <1>2, <1>3

\* Clearing the pool.
LEMMA ClearKeeps ==
  ASSUME IInv, ClearPool
  PROVE  timer_pool' \in [TimerIds -> Slots] /\ UniqueTimers'
<1>1. timer_pool \in [TimerIds -> Slots]
  BY DEF IInv, TypeOK, Slots
<1>2. \A j \in TimerIds : timer_pool'[j] \in Slots /\ timer_pool'[j].key = NoKey
  BY <1>1 DEF ClearPool, Slots
<1>3. timer_pool' \in [TimerIds -> Slots]
  BY <1>2 DEF ClearPool
<1> QED
  BY <1>2, <1>3 DEF UniqueTimers

\* What the scan does to the slot it has reached.
LEMMA ScanKeeps ==
  ASSUME IInv, scan \in TimerIds, SkipFree \/ CountDown \/ Expire
  PROVE  timer_pool' \in [TimerIds -> Slots] /\ UniqueTimers'
<1>1. timer_pool \in [TimerIds -> Slots]
  BY DEF IInv, TypeOK, Slots
<1>2. CASE SkipFree
  BY <1>1, <1>2 DEF SkipFree, IInv, UniqueTimers
<1>3. CASE CountDown
  <2> DEFINE s == [timer_pool[scan] EXCEPT !.timeout = @ - 1]
  <2>1. s \in Slots /\ s.key = timer_pool[scan].key
    BY <1>1, <1>3 DEF Slots, CountDown
  <2>2. timer_pool' = [timer_pool EXCEPT ![scan] = s]
    BY <1>1, <1>3 DEF CountDown
  <2> HIDE DEF s
  <2> QED
    BY <2>1, <2>2, KeepSlot
<1>4. CASE Expire
  <2> DEFINE s == IF timer_pool[scan].reloading
                    THEN [timer_pool[scan] EXCEPT !.timeout = timer_pool[scan].reload]
                    ELSE [timer_pool[scan] EXCEPT !.key = NoKey]
  <2>1. s \in Slots /\ s.key \in {timer_pool[scan].key, NoKey}
    BY <1>1 DEF Slots
  <2>2. timer_pool' = [timer_pool EXCEPT ![scan] = s]
    BY <1>4 DEF Expire
  <2> HIDE DEF s
  <2> QED
    BY <2>1, <2>2, KeepSlot
<1> QED
  BY <1>2, <1>3, <1>4

LEMMA CallInv == ASSUME IInv, ~ReArm, Call PROVE IInv'
<1>a. TypeOK /\ scan' = scan /\ fired' = fired
  BY DEF IInv, Call, CallTimerSet, CallReloadTimerSet, CallTimerDel, CallClear
<1>1. ASSUME NEW k \in Keys, NEW t \in Timeouts, CallTimerSet(k, t) \/ CallReloadTimerSet(k, t)
      PROVE  IInv'
  <2>1. ~Running(k)
    BY <1>1 DEF CallTimerSet, CallReloadTimerSet, MayStart
  <2>2. \/ UNCHANGED timer_pool
        \/ \E j \in TimerIds, s \in Slots : StartsAt(j, k, s)
    BY <1>1, <1>a, <2>1, TimerSetStarts, ReloadTimerSetStarts
    DEF CallTimerSet, CallReloadTimerSet
  <2>3. CASE UNCHANGED timer_pool
    BY <1>a, <2>3 DEF IInv, TypeOK, UniqueTimers
  <2>4. ASSUME NEW j \in TimerIds, NEW s \in Slots, StartsAt(j, k, s) PROVE IInv'
    BY <1>a, <2>4, GiveSlot DEF StartsAt
  <2> QED
    BY <2>2, <2>3, <2>4
<1>2. ASSUME timer_pool' \in [TimerIds -> Slots], UniqueTimers' PROVE IInv'
  BY <1>a, <1>2 DEF IInv, TypeOK, Slots
<1>3. ASSUME NEW k \in Keys, CallTimerDel(k) PROVE IInv'
  BY <1>2, <1>3, DelKeeps DEF CallTimerDel
<1>4. CASE CallClear
  BY <1>2, <1>4, ClearKeeps DEF CallClear
<1> QED
  BY <1>1, <1>3, <1>4 DEF Call

LEMMA UpdateInv == ASSUME IInv, UpdateBegin \/ UpdateSlot PROVE IInv'
<1>1. CASE UpdateBegin
  BY <1>1, SoftTimersAssumption DEF IInv, TypeOK, UniqueTimers, UpdateBegin, ScanBegin
<1>2. CASE UpdateSlot
  <2>1. scan \in TimerIds /\ scan' \in 0 .. TIMER_CNT
    BY <1>2, SoftTimersAssumption DEF UpdateSlot, NextSlot, IInv, TypeOK, TimerIds
  <2>2. timer_pool' \in [TimerIds -> Slots] /\ UniqueTimers'
    BY <1>2, <2>1, ScanKeeps DEF UpdateSlot
  <2>3. fired' \subseteq Keys
    BY <1>2, <2>1 DEF UpdateSlot, Expire, IInv, TypeOK
  <2> QED
    BY <2>1, <2>2, <2>3 DEF IInv, TypeOK, Slots
<1> QED
  BY <1>1, <1>2

-----------------------------------------------------------------------------
(* Theorems                                                                *)

\* Types and unique keys together are inductive.
LEMMA Invariant == ASSUME ~ReArm PROVE Spec => []IInv
<1>1. Init => IInv
  BY InitInv
<1>2. IInv /\ [Next]_timerVars => IInv'
  <2>1. ASSUME IInv, UNCHANGED timerVars PROVE IInv'
    BY <2>1 DEF IInv, TypeOK, UniqueTimers, timerVars
  <2> QED
    BY <2>1, CallInv, UpdateInv DEF Next
<1> QED
  BY <1>1, <1>2, PTL DEF Spec

\* The slots keep their types: a timeout never counts below 0 (fsm.c:207-209).
THEOREM TimersTypeCorrect == ASSUME ~ReArm PROVE Spec => []TypeOK
<1>1. IInv => TypeOK
  BY DEF IInv
<1> QED
  BY <1>1, Invariant, PTL

\* If nobody starts a running timer, no key ever has two slots, so os_timer_del,
\* which clears one slot, stops the timer (fsm.c:227-305).
THEOREM KeysUnique == ASSUME ~ReArm PROVE Spec => []UniqueTimers
<1>1. IInv => UniqueTimers
  BY DEF IInv
<1> QED
  BY <1>1, Invariant, PTL

-----------------------------------------------------------------------------
(* The pool implements the timer map                                       *)

Timer == [k \in Keys |-> TimerOf(k)]
Unseen == {k \in Keys : \E j \in Having(k) : j >= scan}

LEMMA BothReadAsMap == ASSUME IInv, IInv' PROVE ReadsAsMap /\ ReadsAsMap'
<1>1. (TypeOK /\ UniqueTimers => ReadsAsMap)'
  BY PoolReadsAsMap, PTL
<1> QED
  BY <1>1, PoolReadsAsMap DEF IInv

\* A step that changes slot j alone concerns only the keys in it.
LEMMA OthersKeep ==
  ASSUME ReadsAsMap, ReadsAsMap', NEW j \in TimerIds,
         \A l \in TimerIds \ {j} : timer_pool'[l] = timer_pool[l],
         NEW k \in Keys, timer_pool[j].key # k, timer_pool'[j].key # k
  PROVE  TimerOf(k)' = TimerOf(k)
<1>1. CASE \E l \in TimerIds : timer_pool[l].key = k
  <2>1. PICK l \in TimerIds : timer_pool[l].key = k
    BY <1>1
  <2>2. timer_pool'[l] = timer_pool[l]
    BY <2>1
  <2> QED
    BY <2>1, <2>2 DEF ReadsAsMap, SlotTimer
<1>2. CASE \A l \in TimerIds : timer_pool[l].key # k
  <2>1. \A l \in TimerIds : timer_pool'[l].key # k
    BY <1>2
  <2> QED
    BY <1>2, <2>1 DEF ReadsAsMap
<1> QED
  BY <1>1, <1>2

\* A call that gives a slot to a key starts the timer of the key.
LEMMA StartMaps ==
  ASSUME IInv, IInv', NEW k \in Keys, NEW j \in TimerIds, NEW s \in Slots, StartsAt(j, k, s)
  PROVE  /\ Timer[k] = NoKey
         /\ Timer' = [Timer EXCEPT ![k] = SlotTimer(s)]
<1>1. ReadsAsMap /\ ReadsAsMap'
  BY BothReadAsMap
<1>2. timer_pool \in [TimerIds -> Slots] /\ NoKey \notin Keys
  BY SoftTimersAssumption DEF IInv, TypeOK, Slots
<1>3. timer_pool'[j] = s /\ \A l \in TimerIds \ {j} : timer_pool'[l] = timer_pool[l]
  BY <1>2 DEF StartsAt
<1>4. TimerOf(k) = NoKey
  BY <1>1 DEF ReadsAsMap, StartsAt
<1>5. TimerOf(k)' = SlotTimer(s)
  BY <1>1, <1>3 DEF ReadsAsMap, StartsAt, SlotTimer
<1>6. ASSUME NEW m \in Keys \ {k} PROVE TimerOf(m)' = TimerOf(m)
  BY <1>1, <1>2, <1>3, OthersKeep DEF StartsAt
<1> QED
  BY <1>4, <1>5, <1>6 DEF Timer

\* os_timer_del leaves the key without a timer.
LEMMA DelMaps ==
  ASSUME IInv, IInv', NEW k \in Keys, OsTimerDel(k)
  PROVE  Timer' = [Timer EXCEPT ![k] = NoKey]
<1>1. ReadsAsMap /\ ReadsAsMap'
  BY BothReadAsMap
<1>2. timer_pool \in [TimerIds -> Slots] /\ NoKey \notin Keys
  BY SoftTimersAssumption DEF IInv, TypeOK, Slots
<1>3. CASE ~Running(k)
  <2>1. timer_pool' = timer_pool /\ \A j \in TimerIds : timer_pool[j].key # k
    BY <1>3 DEF OsTimerDel, Running, Having
  <2>2. TimerOf(k) = NoKey
    BY <1>1, <2>1 DEF ReadsAsMap
  <2>3. \A m \in Keys : TimerOf(m)' = TimerOf(m)
    BY <2>1 DEF TimerOf, Running, Having
  <2> QED
    BY <2>2, <2>3 DEF Timer
<1>4. CASE Running(k)
  <2>1. PICK j \in TimerIds : j = First(Having(k)) /\ j \in Having(k)
    BY <1>4, FirstInSet DEF Running, Having
  <2>2. /\ timer_pool[j].key = k /\ timer_pool'[j].key = NoKey
        /\ \A l \in TimerIds \ {j} : timer_pool'[l] = timer_pool[l]
    BY <1>2, <1>4, <2>1 DEF OsTimerDel, Having, Slots
  <2>3. \A l \in TimerIds : timer_pool'[l].key # k
    BY <1>2, <2>2 DEF IInv, UniqueTimers
  <2>4. TimerOf(k)' = NoKey
    BY <1>1, <2>3 DEF ReadsAsMap
  <2>5. ASSUME NEW m \in Keys \ {k} PROVE TimerOf(m)' = TimerOf(m)
    BY <1>1, <1>2, <2>2, OthersKeep
  <2> QED
    BY <2>4, <2>5 DEF Timer
<1> QED
  BY <1>3, <1>4

LEMMA ClearMaps ==
  ASSUME IInv, IInv', ClearPool
  PROVE  Timer' = [k \in Keys |-> NoKey]
<1>1. ReadsAsMap'
  BY BothReadAsMap
<1>2. timer_pool \in [TimerIds -> Slots] /\ NoKey \notin Keys
  BY SoftTimersAssumption DEF IInv, TypeOK, Slots
<1>3. \A j \in TimerIds : timer_pool'[j].key = NoKey
  BY <1>2 DEF ClearPool, Slots
<1>4. \A k \in Keys : TimerOf(k)' = NoKey
  BY <1>1, <1>2, <1>3 DEF ReadsAsMap
<1> QED
  BY <1>4 DEF Timer

\* The scan looks at the key of the slot it has reached, and at no other.
LEMMA ScanLooks ==
  ASSUME IInv, scan \in TimerIds, scan' = scan + 1,
         timer_pool' \in [TimerIds -> Slots],
         \A l \in TimerIds \ {scan} : timer_pool'[l] = timer_pool[l]
  PROVE  Unseen' = Unseen \ {timer_pool[scan].key}
<1>1. scan \in Nat /\ \A j \in TimerIds : j \in Nat
  BY SoftTimersAssumption DEF TimerIds
<1>2. ASSUME NEW k \in Keys PROVE k \in Unseen' <=> k \in Unseen \ {timer_pool[scan].key}
  <2>1. k \in Unseen' <=> \E j \in TimerIds : timer_pool'[j].key = k /\ j >= scan + 1
    BY DEF Unseen, Having
  <2>2. k \in Unseen <=> \E j \in TimerIds : timer_pool[j].key = k /\ j >= scan
    BY DEF Unseen, Having
  <2>3. ASSUME k \in Unseen' PROVE k \in Unseen /\ k # timer_pool[scan].key
    <3>1. PICK j \in TimerIds : timer_pool'[j].key = k /\ j >= scan + 1
      BY <2>1, <2>3
    <3>2. j # scan /\ j >= scan /\ timer_pool[j].key = k
      BY <1>1, <3>1
    <3> QED
      BY <2>2, <3>2, SoftTimersAssumption DEF IInv, UniqueTimers
  <2>4. ASSUME k \in Unseen, k # timer_pool[scan].key PROVE k \in Unseen'
    <3>1. PICK j \in TimerIds : timer_pool[j].key = k /\ j >= scan
      BY <2>2, <2>4
    <3>2. j # scan /\ j >= scan + 1
      BY <1>1, <2>4, <3>1
    <3> QED
      BY <2>1, <3>1, <3>2
  <2> QED
    BY <2>3, <2>4
<1>3. Unseen' \subseteq Keys /\ Unseen \subseteq Keys
  BY DEF Unseen
<1> QED
  BY <1>2, <1>3

\* Outside the scan no key is waiting to be looked at, ...
LEMMA IdleUnseen == ASSUME IInv, scan = TIMER_CNT PROVE Unseen = {}
  BY SoftTimersAssumption DEF Unseen, Having, TimerIds

\* ... and when it begins all that have a timer are.
LEMMA BeginUnseen ==
  ASSUME IInv, scan' = 0, timer_pool' = timer_pool
  PROVE  Unseen' = {k \in Keys : Timer[k] # NoKey} /\ Timer' = Timer
<1>1. ReadsAsMap
  BY PoolReadsAsMap DEF IInv
<1>2. ASSUME NEW k \in Keys PROVE k \in Unseen' <=> Timer[k] # NoKey
  <2>1. k \in Unseen' <=> \E j \in TimerIds : timer_pool[j].key = k
    BY SoftTimersAssumption DEF Unseen, Having, TimerIds
  <2>2. ASSUME NEW j \in TimerIds, timer_pool[j].key = k PROVE Timer[k] # NoKey
    <3>1. SlotTimer(timer_pool[j]) \in [left : Nat, period : Nat \cup {NoKey}]
      BY DEF IInv, TypeOK, SlotTimer
    <3> QED
      BY <1>1, <2>2, <3>1, SoftTimersAssumption DEF ReadsAsMap, Timer
  <2>3. ASSUME \A j \in TimerIds : timer_pool[j].key # k PROVE Timer[k] = NoKey
    BY <1>1, <2>3 DEF ReadsAsMap, Timer
  <2> QED
    BY <2>1, <2>2, <2>3
<1>3. Unseen' \subseteq Keys
  BY DEF Unseen
<1>4. Timer' = Timer
  BY DEF Timer, TimerOf, Running, Having
<1> QED
  BY <1>2, <1>3, <1>4

\* Counting a slot down counts the timer of its key down.
LEMMA CountDownMaps ==
  ASSUME IInv, IInv', scan \in TimerIds, NEW k \in Keys, timer_pool[scan].key = k, CountDown
  PROVE  /\ Timer[k].left > 0
         /\ Timer' = [Timer EXCEPT ![k].left = @ - 1]
<1>1. ReadsAsMap /\ ReadsAsMap'
  BY BothReadAsMap
<1>2. timer_pool \in [TimerIds -> Slots] /\ NoKey \notin Keys
  BY SoftTimersAssumption DEF IInv, TypeOK, Slots
<1>3. /\ timer_pool'[scan] = [timer_pool[scan] EXCEPT !.timeout = @ - 1]
      /\ timer_pool[scan].timeout > 0
      /\ \A l \in TimerIds \ {scan} : timer_pool'[l] = timer_pool[l]
  BY <1>2 DEF CountDown
<1>4. timer_pool[scan] \in Slots
  BY <1>2
<1>5. /\ timer_pool'[scan].key = k
      /\ SlotTimer(timer_pool'[scan]) = [SlotTimer(timer_pool[scan]) EXCEPT !.left = @ - 1]
      /\ SlotTimer(timer_pool[scan]).left > 0
  BY <1>3, <1>4 DEF Slots, SlotTimer
<1>6. TimerOf(k) = SlotTimer(timer_pool[scan])
  BY <1>1 DEF ReadsAsMap
<1>7. TimerOf(k)' = SlotTimer(timer_pool'[scan])
  BY <1>1, <1>5 DEF ReadsAsMap, SlotTimer
<1>8. ASSUME NEW m \in Keys \ {k} PROVE TimerOf(m)' = TimerOf(m)
  BY <1>1, <1>3, <1>5, OthersKeep
<1> QED
  BY <1>5, <1>6, <1>7, <1>8 DEF Timer

\* A slot that expires fires its key, and starts again or is free.
LEMMA ExpireMaps ==
  ASSUME IInv, IInv', scan \in TimerIds, NEW k \in Keys, timer_pool[scan].key = k, Expire
  PROVE  /\ Timer[k].left = 0
         /\ Timer' = [Timer EXCEPT ![k] =
              IF @.period = NoKey THEN NoKey ELSE [left |-> @.period, period |-> @.period]]
<1>1. ReadsAsMap /\ ReadsAsMap'
  BY BothReadAsMap
<1>2. timer_pool \in [TimerIds -> Slots] /\ NoKey \notin Keys /\ NoKey \notin Nat
  BY SoftTimersAssumption DEF IInv, TypeOK, Slots
<1>3. /\ timer_pool[scan].timeout = 0
      /\ timer_pool'[scan] = IF timer_pool[scan].reloading
                               THEN [timer_pool[scan] EXCEPT !.timeout = timer_pool[scan].reload]
                               ELSE [timer_pool[scan] EXCEPT !.key = NoKey]
      /\ \A l \in TimerIds \ {scan} : timer_pool'[l] = timer_pool[l]
  BY <1>2 DEF Expire
<1>4. timer_pool[scan] \in Slots
  BY <1>2
<1>5. TimerOf(k) = SlotTimer(timer_pool[scan])
  BY <1>1 DEF ReadsAsMap
<1>6. timer_pool'[scan].key \in {k, NoKey}
  BY <1>3, <1>4 DEF Slots
<1>7. ASSUME NEW m \in Keys \ {k} PROVE TimerOf(m)' = TimerOf(m)
  BY <1>1, <1>2, <1>3, <1>6, OthersKeep
<1>8. Timer[k] = SlotTimer(timer_pool[scan]) /\ Timer[k].left = 0
  BY <1>3, <1>5 DEF Timer, SlotTimer
<1>9. ASSUME NEW v, TimerOf(k)' = v PROVE Timer' = [Timer EXCEPT ![k] = v]
  BY <1>7, <1>9 DEF Timer
<1>10. CASE timer_pool[scan].reloading
  <2>1. /\ timer_pool'[scan].key = k
        /\ SlotTimer(timer_pool'[scan]) = [left |-> timer_pool[scan].reload,
                                           period |-> timer_pool[scan].reload]
        /\ SlotTimer(timer_pool[scan]).period = timer_pool[scan].reload
        /\ timer_pool[scan].reload # NoKey
    BY <1>2, <1>3, <1>4, <1>10 DEF Slots, SlotTimer
  <2>2. TimerOf(k)' = SlotTimer(timer_pool'[scan])
    BY <1>1, <2>1 DEF ReadsAsMap, SlotTimer
  <2>3. Timer[k].period # NoKey
    BY <1>8, <2>1
  <2>4. TimerOf(k)' = [left |-> Timer[k].period, period |-> Timer[k].period]
    BY <1>8, <2>1, <2>2
  <2> QED
    BY <1>8, <1>9, <2>3, <2>4
<1>11. CASE ~timer_pool[scan].reloading
  <2>1. timer_pool'[scan].key = NoKey
    BY <1>3, <1>4, <1>11 DEF Slots
  <2>2. \A l \in TimerIds : timer_pool'[l].key # k
    BY <1>2, <1>3, <2>1 DEF IInv, UniqueTimers
  <2>3. TimerOf(k)' = NoKey
    BY <1>1, <2>2 DEF ReadsAsMap
  <2>4. Timer[k].period = NoKey
    BY <1>8, <1>11 DEF SlotTimer
  <2> QED
    BY <1>8, <1>9, <2>3, <2>4
<1> QED
  BY <1>10, <1>11

\* The refinement mapping is the one of ImplementsTimerMap.
LEMMA InitTimerMap == Init => Abstract!Init
<1> SUFFICES ASSUME Init PROVE Abstract!Init
  OBVIOUS
<1>1. ReadsAsMap /\ IInv
  BY InitInv, PoolReadsAsMap DEF IInv
<1>2. \A k \in Keys : TimerOf(k) = NoKey
  BY <1>1, SoftTimersAssumption DEF Init, FreeSlot, ReadsAsMap
<1>3. Unseen = {}
  BY <1>1, IdleUnseen DEF Init
<1> QED
  BY <1>2, <1>3 DEF Abstract!Init, Unseen, Init

\* A timer that is started by a call is started in the map.
LEMMA StartAbstract ==
  ASSUME IInv, IInv', NEW k \in Keys, NEW t, NEW p, UNCHANGED <<scan, fired>>,
         scan = TIMER_CNT,
         NEW j \in TimerIds, NEW s \in Slots, StartsAt(j, k, s),
         SlotTimer(s) = [left |-> t, period |-> p]
  PROVE  Abstract!Start(k, t, p)
<1>1. Timer[k] = NoKey /\ Timer' = [Timer EXCEPT ![k] = [left |-> t, period |-> p]]
  BY StartMaps
<1> QED
  BY <1>1 DEF Abstract!Start, Timer

\* Between scans the calls are the operations of the map.
LEMMA CallMaps ==
  ASSUME IInv, IInv', ~ReArm, Call
  PROVE  Abstract!Next \/ UNCHANGED <<Timer, Unseen, fired>>
<1>1. scan = TIMER_CNT /\ scan' = scan /\ fired' = fired
  BY DEF Call, CallTimerSet, CallReloadTimerSet, CallTimerDel, CallClear
<1>2. Unseen = {}
  BY <1>1, IdleUnseen
<1>3. Unseen' = {}
  BY <1>1, SoftTimersAssumption DEF Unseen, Having, TimerIds
<1>4. CASE UNCHANGED timer_pool
  BY <1>1, <1>4 DEF Timer, Unseen, TimerOf, Running, Having
<1>5. ASSUME NEW k \in Keys, NEW t \in Timeouts, CallTimerSet(k, t)
      PROVE  Abstract!Next \/ UNCHANGED <<Timer, Unseen, fired>>
  <2>1. \/ UNCHANGED timer_pool
        \/ \E j \in TimerIds, s \in Slots :
             StartsAt(j, k, s) /\ SlotTimer(s) = [left |-> t, period |-> NoKey]
    BY <1>5, TimerSetStarts DEF CallTimerSet, MayStart, IInv
  <2>2. ASSUME NEW j \in TimerIds, NEW s \in Slots,
               StartsAt(j, k, s), SlotTimer(s) = [left |-> t, period |-> NoKey]
        PROVE  Abstract!Start(k, t, NoKey)
    BY <1>1, <2>2, StartAbstract
  <2>3. ASSUME Abstract!Start(k, t, NoKey) PROVE Abstract!OneShot(k, t)
    BY <1>1, <1>2, <1>3, <2>3 DEF Abstract!OneShot, Unseen
  <2> QED
    BY <1>2, <1>4, <2>1, <2>2, <2>3 DEF Abstract!Next, Unseen
<1>6. ASSUME NEW k \in Keys, NEW t \in Timeouts, CallReloadTimerSet(k, t)
      PROVE  Abstract!Next \/ UNCHANGED <<Timer, Unseen, fired>>
  <2>1. \/ UNCHANGED timer_pool
        \/ \E j \in TimerIds, s \in Slots :
             StartsAt(j, k, s) /\ SlotTimer(s) = [left |-> t, period |-> t]
    BY <1>6, ReloadTimerSetStarts DEF CallReloadTimerSet, MayStart, IInv
  <2>2. ASSUME NEW j \in TimerIds, NEW s \in Slots,
               StartsAt(j, k, s), SlotTimer(s) = [left |-> t, period |-> t]
        PROVE  Abstract!Start(k, t, t)
    BY <1>1, <2>2, StartAbstract
  <2>3. ASSUME Abstract!Start(k, t, t) PROVE Abstract!Periodic(k, t)
    BY <1>1, <1>2, <1>3, <2>3 DEF Abstract!Periodic, Unseen
  <2> QED
    BY <1>2, <1>4, <2>1, <2>2, <2>3 DEF Abstract!Next, Unseen
<1>7. ASSUME NEW k \in Keys, CallTimerDel(k) PROVE Abstract!Next
  <2>1. Timer' = [Timer EXCEPT ![k] = NoKey]
    BY <1>7, DelMaps DEF CallTimerDel
  <2>2. Abstract!Delete(k)
    BY <1>1, <1>2, <1>3, <2>1 DEF Abstract!Delete, Timer, Unseen
  <2> QED
    BY <1>2, <2>2 DEF Abstract!Next, Unseen
<1>8. ASSUME CallClear PROVE Abstract!Next
  <2>1. Timer' = [k \in Keys |-> NoKey]
    BY <1>8, ClearMaps DEF CallClear
  <2>2. Abstract!Clear
    BY <1>1, <1>2, <1>3, <2>1 DEF Abstract!Clear, Timer, Unseen
  <2> QED
    BY <1>2, <2>2 DEF Abstract!Next, Unseen
<1> QED
  BY <1>5, <1>6, <1>7, <1>8 DEF Call

\* The scan is the tick of the map, one key at a time.
LEMMA UpdateMaps ==
  ASSUME IInv, IInv', UpdateBegin \/ UpdateSlot
  PROVE  Abstract!Next \/ UNCHANGED <<Timer, Unseen, fired>>
<1>1. CASE UpdateBegin
  <2>1. Unseen = {}
    BY <1>1, IdleUnseen DEF UpdateBegin, ScanBegin
  <2>2. Unseen' = {k \in Keys : Timer[k] # NoKey} /\ Timer' = Timer
    BY <1>1, BeginUnseen DEF UpdateBegin, ScanBegin
  <2>3. Abstract!TickBegin
    BY <1>1, <2>1, <2>2 DEF UpdateBegin, Abstract!TickBegin, Abstract!ActiveKeys, Timer, Unseen
  <2> QED
    BY <2>3 DEF Abstract!Next
<1>2. CASE UpdateSlot
  <2>1. scan \in TimerIds /\ scan' = scan + 1
    BY <1>2, SoftTimersAssumption DEF UpdateSlot, NextSlot, IInv, TypeOK, TimerIds
  <2>2. timer_pool' \in [TimerIds -> Slots] /\ timer_pool \in [TimerIds -> Slots]
    BY DEF IInv, TypeOK, Slots
  <2>3. \A l \in TimerIds \ {scan} : timer_pool'[l] = timer_pool[l]
    BY <1>2, <2>1, <2>2 DEF UpdateSlot, SkipFree, CountDown, Expire
  <2>4. Unseen' = Unseen \ {timer_pool[scan].key}
    BY <2>1, <2>2, <2>3, ScanLooks
  <2>5. CASE timer_pool[scan].key = NoKey
    <3>1. UNCHANGED <<timer_pool, fired>>
      BY <1>2, <2>5 DEF UpdateSlot, SkipFree, CountDown, Expire
    <3>2. Unseen' = Unseen
      BY <2>4, <2>5, SoftTimersAssumption DEF Unseen
    <3>3. Timer' = Timer
      BY <3>1 DEF Timer, TimerOf, Running, Having
    <3> QED
      BY <3>1, <3>2, <3>3
  <2>6. CASE timer_pool[scan].key # NoKey
    <3>1. PICK k \in Keys : k = timer_pool[scan].key
      BY <2>1, <2>2, <2>6 DEF Slots
    <3>2. k \in Unseen
      BY <2>1, <3>1, SoftTimersAssumption DEF Unseen, Having, TimerIds
    <3>3. CASE CountDown /\ UNCHANGED fired
      <4>1. Timer[k].left > 0 /\ Timer' = [Timer EXCEPT ![k].left = @ - 1]
        BY <2>1, <3>1, <3>3, CountDownMaps
      <4>2. Abstract!CountDown(k)
        BY <3>3, <4>1 DEF Abstract!CountDown, Timer
      <4> QED
        BY <2>4, <3>1, <3>2, <4>2 DEF Abstract!Next, Abstract!Look, Unseen
    <3>4. CASE Expire /\ fired' = fired \cup {timer_pool[scan].key}
      <4>1. /\ Timer[k].left = 0
            /\ Timer' = [Timer EXCEPT ![k] =
                 IF @.period = NoKey THEN NoKey ELSE [left |-> @.period, period |-> @.period]]
        BY <2>1, <3>1, <3>4, ExpireMaps
      <4>2. Abstract!Fire(k)
        BY <3>1, <3>4, <4>1 DEF Abstract!Fire, Timer
      <4> QED
        BY <2>4, <3>1, <3>2, <4>2 DEF Abstract!Next, Abstract!Look, Unseen
    <3> QED
      BY <1>2, <2>6, <3>3, <3>4 DEF UpdateSlot, SkipFree
  <2> QED
    BY <2>5, <2>6
<1> QED
  BY <1>1, <1>2

LEMMA NextTimerMap ==
  ASSUME IInv, IInv', ~ReArm, [Next]_timerVars
  PROVE  [Abstract!Next]_Abstract!vars
<1>1. ASSUME UNCHANGED timerVars PROVE UNCHANGED <<Timer, Unseen, fired>>
  BY <1>1 DEF timerVars, Timer, Unseen, TimerOf, Running, Having
<1>2. Abstract!Next \/ UNCHANGED <<Timer, Unseen, fired>>
  BY <1>1, CallMaps, UpdateMaps DEF Next
<1> QED
  BY <1>2 DEF Abstract!vars, Timer, Unseen

\* If nobody starts a running timer, the pool of slots implements one timer per
\* key, for any number of slots and keys (fsm.c:190-305).
THEOREM PoolImplementsTimerMap == ASSUME ~ReArm PROVE Spec => ImplementsTimerMap
<1>1. IInv /\ IInv' /\ [Next]_timerVars => [Abstract!Next]_Abstract!vars
  BY NextTimerMap
<1> QED
  BY <1>1, InitTimerMap, Invariant, PTL DEF Spec, ImplementsTimerMap, Abstract!Spec
=============================================================================
