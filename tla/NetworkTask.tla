----------------------------- MODULE NetworkTask -----------------------------
(***************************************************************************)
(* The two state machines of the firmware, app/task/driver_task.c and      *)
(* app/task/network_task.c with app/smartlink/smartlink.c, running on the  *)
(* event loop (EventLoop.tla) and the software timers (SoftTimers.tla).    *)
(*                                                                         *)
(* driver_actor has one state.  network_actor starts the other machine,    *)
(* which then moves between network_idle, network_smart and network_sta.   *)
(* A handler is one step: all that it calls, and its return to os_dispatch.*)
(*                                                                         *)
(* The Wi-Fi station and the smartconfig engine belong to the SDK and are  *)
(* modelled by what the handlers see of them.  A user at the serial        *)
(* console may call every function of fcmd_cfg.h that changes something of *)
(* this: fsm_init, os_post_message with any signal to either machine,      *)
(* smartlink_start, smartlink_stop and wifi_set_opmode.                    *)
(***************************************************************************)
EXTENDS Naturals, Sequences

CONSTANTS
  QUEUE_SIZE, TIMER_CNT,
  SysTickPeriod,   \* 1000 in the code; this and the next two are scaled down
  NwTickPeriod,    \* 100
  RegisterPeriod,  \* 1000
  LateTicks,       \* how many 1 ms ticks can overtake a due dispatch timer
  MaxConsole,      \* bound on the user's commands, 0 for a device left alone
  NoKey

VARIABLES
  head, tail, used, buf, tasks_pool, stm_ret_value, stm_state_temp,
  dispatch_hook, next_dispatch, dispatch_timer, phase, i, sig,  \* EventLoop
  timer_pool, scan,                                             \* SoftTimers
  late,            \* ticks run since the dispatch timer was armed
  opmode,          \* wifi_get_opmode
  wifi,            \* "got_ip" when the station is connected and has an address
  smartconfig,     \* the SDK's smartconfig: "off", "searching", "linked"
  by_hand,         \* TRUE if it was last started at the console, outside network_smart
  client,          \* the EDP client, see ClientLifecycle.tla
  s_update_system, \* TRUE once an upgrade has been started
  console          \* how many commands the user has given

DRIVER_ID == 0
NETWORK_ID == 1
NetEvents == {"SYS_TICK_EVT", "NW_TICK_EVT", "NW_SMART_OK_EVT", "NW_SMART_TIMEOUT_EVT",
              "NW_UPGRADE_EVT", "NW_TRAN_AP_EVT", "NW_TRAN_SMART_EVT", "NW_TRAN_IDLE_EVT",
              "NW_CHECK_REGISTER_EVT"}
SYS_TICK == <<DRIVER_ID, "SYS_TICK_EVT">>
NW_TICK == <<NETWORK_ID, "NW_TICK_EVT">>
NW_CHECK == <<NETWORK_ID, "NW_CHECK_REGISTER_EVT">>

Os == INSTANCE EventLoop WITH
  TASKS_CNT <- 2,
  Events <- NetEvents,
  Handlers <- {"driver_actor", "network_actor", "network_idle", "network_smart", "network_sta"},
  InitHandler <- [t \in {DRIVER_ID, NETWORK_ID} |->
                    IF t = DRIVER_ID THEN "driver_actor" ELSE "network_actor"]

Tm == INSTANCE SoftTimers WITH
  Keys <- {SYS_TICK, NW_TICK, NW_CHECK},
  Timeouts <- {SysTickPeriod, NwTickPeriod, RegisterPeriod},
  ReArm <- TRUE,
  fired <- {}

\* The timer pool has a slot for each of the three timers (32 in fsm.h).
ASSUME NetworkTaskAssumption ==
  /\ QUEUE_SIZE \in Nat \ {0}
  /\ TIMER_CNT \in Nat /\ TIMER_CNT >= 3
  /\ {SysTickPeriod, NwTickPeriod, RegisterPeriod} \subseteq Nat
  /\ NoKey \notin {SYS_TICK, NW_TICK, NW_CHECK} \cup Nat
  /\ NoKey \notin [left : Nat, period : Nat \cup {NoKey}]
  /\ LateTicks \in Nat
  /\ MaxConsole \in Nat

osVars == <<head, tail, used, buf, tasks_pool, stm_ret_value, stm_state_temp,
            dispatch_hook, next_dispatch, dispatch_timer, phase, i, sig>>
timerVars == <<timer_pool, scan>>
sdkVars == <<opmode, wifi, smartconfig, by_hand>>
appVars == <<client, s_update_system>>
vars == <<osVars, timerVars, late, sdkVars, appVars, console>>

Init ==
  /\ Os!Init
  /\ stm_state_temp = "driver_actor"
  /\ Tm!Init
  /\ late = 0
  /\ opmode = "STATION_MODE"      \* user_init
  /\ wifi = "down"
  /\ smartconfig = "off"
  /\ by_hand = FALSE
  /\ client = "none"
  /\ s_update_system = FALSE
  /\ console = 0

\* No handler, dispatch pass or timer scan is running.
Idle == phase = "sdk" /\ scan = TIMER_CNT

-----------------------------------------------------------------------------
(* What a handler does before it returns *)

Return == Os!ReturnWith(stm_ret_value, stm_state_temp)
ReturnTran(h) == Os!ReturnWith(TRUE, h)

Post(t, s) == Os!OsPostMessage(t, s)
NoPost == UNCHANGED <<head, tail, used, buf, dispatch_hook, next_dispatch, dispatch_timer>>

StartTimer(key, period) == Tm!OsReloadTimerSet(key, period) /\ UNCHANGED <<scan, late>>
StopTimer(key) == Tm!OsTimerDel(key) /\ UNCHANGED <<scan, late>>
NoTimer == UNCHANGED <<timerVars, late>>

StationModes == {"STATION_MODE", "STATIONAP_MODE"}
Opmodes == StationModes \cup {"NULL_MODE", "SOFTAP_MODE"}

\* wifi_set_opmode; without a station there is no connection.
SetOpmode(m) ==
  /\ opmode' = m
  /\ wifi' = IF m \in StationModes THEN wifi ELSE "down"

InState(h) == tasks_pool[NETWORK_ID] = h
DriverRuns(s) == Os!Running(DRIVER_ID, "driver_actor", s)
NetworkRuns(h, s) == Os!Running(NETWORK_ID, h, s)

-----------------------------------------------------------------------------
(* driver_actor *)

\* Mutant: the tick is not started.
DriverEntryNoTick ==
  /\ DriverRuns("STM_ENTRY_SIG")
  /\ Post(NETWORK_ID, "NW_TRAN_SMART_EVT")
  /\ Return
  /\ NoTimer
  /\ UNCHANGED <<sdkVars, appVars>>

DriverEntry ==
  /\ DriverRuns("STM_ENTRY_SIG")
  /\ StartTimer(SYS_TICK, SysTickPeriod)
  /\ Post(NETWORK_ID, "NW_TRAN_SMART_EVT")
  /\ Return
  /\ UNCHANGED <<sdkVars, appVars>>

\* SYS_TICK_EVT, STM_EXIT_SIG and every signal without a case.
DriverIgnores ==
  /\ \E s \in Os!Signals \ {"STM_ENTRY_SIG"} : DriverRuns(s)
  /\ Return
  /\ NoPost /\ NoTimer
  /\ UNCHANGED <<sdkVars, appVars>>

-----------------------------------------------------------------------------
(* network_actor, the start state *)

ActorEntry ==
  /\ NetworkRuns("network_actor", "STM_ENTRY_SIG")
  /\ Post(NETWORK_ID, "NW_TRAN_IDLE_EVT")
  /\ Return
  /\ NoTimer
  /\ UNCHANGED <<sdkVars, appVars>>

ActorTranIdle ==
  /\ NetworkRuns("network_actor", "NW_TRAN_IDLE_EVT")
  /\ ReturnTran("network_idle")
  /\ NoPost /\ NoTimer
  /\ UNCHANGED <<sdkVars, appVars>>

ActorTranAp ==
  /\ NetworkRuns("network_actor", "NW_TRAN_AP_EVT")
  /\ SetOpmode("SOFTAP_MODE")
  /\ Return
  /\ NoPost /\ NoTimer
  /\ UNCHANGED <<smartconfig, by_hand, appVars>>

-----------------------------------------------------------------------------
(* network_idle *)

IdleEntry ==
  /\ NetworkRuns("network_idle", "STM_ENTRY_SIG")
  /\ StartTimer(NW_TICK, NwTickPeriod)
  /\ Return
  /\ NoPost
  /\ UNCHANGED <<sdkVars, appVars>>

\* Mutant: the timer is left running.
IdleExitKeepsTimer ==
  /\ NetworkRuns("network_idle", "STM_EXIT_SIG")
  /\ NoTimer
  /\ Return
  /\ NoPost
  /\ UNCHANGED <<sdkVars, appVars>>

IdleExit ==
  /\ NetworkRuns("network_idle", "STM_EXIT_SIG")
  /\ StopTimer(NW_TICK)
  /\ Return
  /\ NoPost
  /\ UNCHANGED <<sdkVars, appVars>>

IdleTranSmart ==
  /\ NetworkRuns("network_idle", "NW_TRAN_SMART_EVT")
  /\ ReturnTran("network_smart")
  /\ NoPost /\ NoTimer
  /\ UNCHANGED <<sdkVars, appVars>>

\* Mutant: the station mode is confused with the mixed mode.
OnlineMixed == wifi = "got_ip" /\ opmode = "STATIONAP_MODE"

Online == wifi = "got_ip" /\ opmode = "STATION_MODE"

IdleTickOnline ==
  /\ NetworkRuns("network_idle", "NW_TICK_EVT")
  /\ Online
  /\ ReturnTran("network_sta")
  /\ NoPost /\ NoTimer
  /\ UNCHANGED <<sdkVars, appVars>>

\* No address yet (s_disconnect_tick is counted, and read nowhere), or an
\* address in a mode for which the code has no transition.
IdleTickOffline ==
  /\ NetworkRuns("network_idle", "NW_TICK_EVT")
  /\ ~Online
  /\ Return
  /\ NoPost /\ NoTimer
  /\ UNCHANGED <<sdkVars, appVars>>

-----------------------------------------------------------------------------
(* network_smart and smartlink.c *)

\* The 1000 s timeout that would follow is commented out.
SmartlinkStart == SetOpmode("STATION_MODE") /\ smartconfig' = "searching"
SmartlinkStop == smartconfig' = "off" /\ UNCHANGED <<opmode, wifi>>

SmartEntry ==
  /\ NetworkRuns("network_smart", "STM_ENTRY_SIG")
  /\ SmartlinkStart
  /\ by_hand' = FALSE
  /\ Return
  /\ NoPost /\ NoTimer
  /\ UNCHANGED appVars

\* Mutant: smartlink_stop is not called.
SmartExitKeepsRunning ==
  /\ NetworkRuns("network_smart", "STM_EXIT_SIG")
  /\ Return
  /\ NoPost /\ NoTimer
  /\ UNCHANGED <<sdkVars, appVars>>

SmartExit ==
  /\ NetworkRuns("network_smart", "STM_EXIT_SIG")
  /\ SmartlinkStop
  /\ Return
  /\ NoPost /\ NoTimer
  /\ UNCHANGED <<by_hand, appVars>>

SmartOk ==
  /\ NetworkRuns("network_smart", "NW_SMART_OK_EVT")
  /\ ReturnTran("network_sta")
  /\ NoPost /\ NoTimer
  /\ UNCHANGED <<sdkVars, appVars>>

SmartTimeout ==
  /\ NetworkRuns("network_smart", "NW_SMART_TIMEOUT_EVT")
  /\ SetOpmode("STATIONAP_MODE")
  /\ ReturnTran("network_idle")
  /\ NoPost /\ NoTimer
  /\ UNCHANGED <<smartconfig, by_hand, appVars>>

\* smartlink_done(SC_STATUS_LINK): the credentials are set and the station
\* reconnects.
SmartlinkLink ==
  /\ Idle
  /\ smartconfig = "searching"
  /\ smartconfig' = "linked"
  /\ wifi' = "down"
  /\ UNCHANGED <<osVars, timerVars, late, opmode, by_hand, appVars>>

\* smartlink_done(SC_STATUS_LINK_OVER): the success callback posts
\* NW_SMART_OK_EVT, then smartconfig is stopped.
SmartlinkOver ==
  /\ Idle
  /\ smartconfig = "linked"
  /\ wifi = "got_ip"
  /\ smartconfig' = "off"
  /\ Post(NETWORK_ID, "NW_SMART_OK_EVT")
  /\ UNCHANGED <<tasks_pool, stm_ret_value, stm_state_temp, phase, i, sig>>
  /\ UNCHANGED <<timerVars, late, opmode, wifi, by_hand, appVars>>

-----------------------------------------------------------------------------
(* network_sta *)

Client == INSTANCE ClientLifecycle

\* Mutant: the client is not created.
StaEntryNoClient ==
  /\ NetworkRuns("network_sta", "STM_ENTRY_SIG")
  /\ StartTimer(NW_CHECK, RegisterPeriod)
  /\ Return
  /\ NoPost
  /\ UNCHANGED <<client, sdkVars, s_update_system>>

StaEntry ==
  /\ NetworkRuns("network_sta", "STM_ENTRY_SIG")
  /\ Client!Create
  /\ StartTimer(NW_CHECK, RegisterPeriod)
  /\ Return
  /\ NoPost
  /\ UNCHANGED <<sdkVars, s_update_system>>

StaExit ==
  /\ NetworkRuns("network_sta", "STM_EXIT_SIG")
  /\ StopTimer(NW_CHECK)
  /\ Client!Delete
  /\ Return
  /\ NoPost
  /\ UNCHANGED <<sdkVars, s_update_system>>

\* disconnect_check, 10 ms after onenet_tcpclient_delete
ClientFreed ==
  /\ Idle
  /\ Client!Freed
  /\ UNCHANGED <<osVars, timerVars, late, sdkVars, s_update_system>>

StaUpgrade ==
  /\ NetworkRuns("network_sta", "NW_UPGRADE_EVT")
  /\ s_update_system' = TRUE     \* update_system() is called the first time only
  /\ Return
  /\ NoPost /\ NoTimer
  /\ UNCHANGED <<sdkVars, client>>

-----------------------------------------------------------------------------

\* The signals for which a state of the network machine has a case with an effect.
Handled(h) ==
  CASE h = "network_actor" -> {"STM_ENTRY_SIG", "NW_TRAN_AP_EVT", "NW_TRAN_IDLE_EVT"}
    [] h = "network_idle" -> {"STM_ENTRY_SIG", "STM_EXIT_SIG", "NW_TRAN_SMART_EVT", "NW_TICK_EVT"}
    [] h = "network_smart" -> {"STM_ENTRY_SIG", "STM_EXIT_SIG", "NW_SMART_OK_EVT",
                               "NW_SMART_TIMEOUT_EVT"}
    [] h = "network_sta" -> {"STM_ENTRY_SIG", "STM_EXIT_SIG", "NW_UPGRADE_EVT"}

NetworkStates == {"network_actor", "network_idle", "network_smart", "network_sta"}

NetworkIgnores ==
  /\ \E h \in NetworkStates : \E s \in Os!Signals \ Handled(h) : NetworkRuns(h, s)
  /\ Return
  /\ NoPost /\ NoTimer
  /\ UNCHANGED <<sdkVars, appVars>>

HandlerStep ==
  \/ DriverEntry \/ DriverIgnores
  \/ ActorEntry \/ ActorTranIdle \/ ActorTranAp
  \/ IdleEntry \/ IdleExit \/ IdleTranSmart \/ IdleTickOnline \/ IdleTickOffline
  \/ SmartEntry \/ SmartExit \/ SmartOk \/ SmartTimeout
  \/ StaEntry \/ StaExit \/ StaUpgrade
  \/ NetworkIgnores

-----------------------------------------------------------------------------
(* The loop, the timers and the outside world *)

\* fsm_init: system_init_done runs it, and the console command of that name.
FsmInit ==
  /\ Idle
  /\ Os!FsmInit
  /\ Tm!ClearPool
  /\ UNCHANGED <<scan, late, sdkVars, appVars>>

SystemInitDone == ~dispatch_hook /\ FsmInit /\ UNCHANGED console

UserCommand ==
  /\ dispatch_hook
  /\ console < MaxConsole
  /\ console' = console + 1

ConsoleInit == UserCommand /\ FsmInit

\* Numbers that are no signal of these machines find no case, as SYS_TICK_EVT does in
\* every state; task_id must be one of the two, os_post_message does not look.
ConsolePost ==
  /\ Idle
  /\ UserCommand
  /\ \E t \in Os!Tasks, s \in Os!Signals : Post(t, s)
  /\ UNCHANGED <<tasks_pool, stm_ret_value, stm_state_temp, phase, i, sig>>
  /\ UNCHANGED <<timerVars, late, sdkVars, appVars>>

ConsoleSdk ==
  /\ Idle
  /\ UserCommand
  /\ \/ SmartlinkStart /\ by_hand' = ~InState("network_smart")
     \/ SmartlinkStop /\ UNCHANGED by_hand
     \/ (\E m \in Opmodes : SetOpmode(m)) /\ UNCHANGED <<smartconfig, by_hand>>
  /\ UNCHANGED <<osVars, timerVars, late, appVars>>

DispatchBegin ==
  /\ Idle
  /\ Os!DispatchBegin
  /\ late' = 0
  /\ UNCHANGED <<timerVars, sdkVars, appVars>>

DispatchLoop ==
  /\ Os!DispatchTake \/ Os!DispatchSkip \/ Os!DispatchEnd
  /\ UNCHANGED <<timerVars, late, sdkVars, appVars>>

\* fsm_tick_func.  The SDK fires its timers in the order in which they are due,
\* so at most LateTicks ticks come before a dispatch timer that is armed.
TickBegin ==
  /\ Idle
  /\ dispatch_hook
  /\ dispatch_timer => late < LateTicks
  /\ late' = IF dispatch_timer THEN late + 1 ELSE 0
  /\ Tm!ScanBegin
  /\ UNCHANGED <<osVars, sdkVars, appVars>>

TickSlot ==
  /\ Tm!NextSlot
  /\ Tm!SkipFree \/ Tm!CountDown
  /\ UNCHANGED <<osVars, late, sdkVars, appVars>>

TickExpire ==
  /\ Tm!NextSlot
  /\ Tm!Expire
  /\ LET key == timer_pool[scan].key IN Post(key[1], key[2])
  /\ UNCHANGED <<tasks_pool, stm_ret_value, stm_state_temp, phase, i, sig>>
  /\ UNCHANGED <<late, sdkVars, appVars>>

WifiUp ==
  /\ Idle
  /\ wifi = "down"
  /\ opmode \in StationModes
  /\ wifi' = "got_ip"
  /\ UNCHANGED <<osVars, timerVars, late, opmode, smartconfig, by_hand, appVars>>

WifiDown ==
  /\ Idle
  /\ wifi = "got_ip"
  /\ wifi' = "down"
  /\ UNCHANGED <<osVars, timerVars, late, opmode, smartconfig, by_hand, appVars>>

DeviceStep ==
  \/ DispatchBegin \/ DispatchLoop \/ HandlerStep
  \/ TickBegin \/ TickSlot \/ TickExpire
  \/ WifiUp \/ WifiDown
  \/ SmartlinkLink \/ SmartlinkOver
  \/ ClientFreed

Next ==
  \/ SystemInitDone
  \/ ConsoleInit
  \/ ConsolePost
  \/ ConsoleSdk
  \/ DeviceStep /\ UNCHANGED console

Spec == Init /\ [][Next]_vars

(***************************************************************************)
(* The CPU runs on and the SDK fires armed timers.  Neither the router nor *)
(* the user is obliged to do anything.                                     *)
(***************************************************************************)
Fairness ==
  /\ WF_vars(SystemInitDone)
  /\ WF_vars(DispatchBegin /\ UNCHANGED console)
  /\ WF_vars(DispatchLoop /\ UNCHANGED console)
  /\ WF_vars(HandlerStep /\ UNCHANGED console)
  /\ WF_vars(TickBegin /\ UNCHANGED console)
  /\ WF_vars((TickSlot \/ TickExpire) /\ UNCHANGED console)

FairSpec == Spec /\ Fairness
-----------------------------------------------------------------------------
(* Properties *)

TypeOK ==
  /\ Os!TypeOK
  /\ Tm!TypeOK
  /\ late \in 0 .. LateTicks
  /\ opmode \in Opmodes
  /\ wifi \in {"down", "got_ip"}
  /\ smartconfig \in {"off", "searching", "linked"}
  /\ by_hand \in BOOLEAN
  /\ client \in {"none", "open", "closing"}
  /\ s_update_system \in BOOLEAN
  /\ console \in 0 .. MaxConsole

Settled == phase \in {"sdk", "loop"}

(***************************************************************************)
(* No queue of a device left alone is ever full, so none of the messages   *)
(* whose return code is ignored (ticks, NW_SMART_OK_EVT, NW_TRAN_IDLE_EVT) *)
(* is lost, even when ticks run ahead of the dispatch pass.                *)
(***************************************************************************)
QueuesHaveRoom == \A t \in Os!Tasks : used[t] < QUEUE_SIZE

(***************************************************************************)
(* Each state of the network machine runs with its own timer and no other: *)
(* NW_TICK in network_idle, NW_CHECK_REGISTER in network_sta.              *)
(***************************************************************************)
TimersFollowState ==
  Settled => /\ Tm!Running(NW_TICK) <=> InState("network_idle")
             /\ Tm!Running(NW_CHECK) <=> InState("network_sta")

(***************************************************************************)
(* The EDP client exists exactly while the machine is in network_sta.      *)
(***************************************************************************)
ClientFollowsState == Settled => (client = "open" <=> InState("network_sta"))

(***************************************************************************)
(* Smartconfig, which takes the radio away from the station, runs only in  *)
(* network_smart, unless the user has started it elsewhere with            *)
(* smartlink_start.  Whatever else is typed, to either machine and in      *)
(* whichever order, the state's exit stops it and nothing else starts it;  *)
(* and once network_smart has been entered it ends with that state, also   *)
(* if it was first started by hand.                                        *)
(***************************************************************************)
SmartconfigOnlyInSmart ==
  Settled /\ smartconfig # "off" => InState("network_smart") \/ by_hand

(***************************************************************************)
(* Every message is delivered, although os_dispatch leaves messages behind *)
(* without asking for another pass: at start-up the SYS_TICK timer, later  *)
(* the timers of the network states ask for one in time.                   *)
(***************************************************************************)
EveryMessageTaken == \A t \in Os!Tasks : used[t] > 0 ~> Os!TakenFrom(t)

(***************************************************************************)
(* A device whose router stays reachable starts its EDP client.            *)
(***************************************************************************)
OnlineStartsClient == <>[](wifi = "got_ip") => <>[](client = "open")

(***************************************************************************)
(* The comment above network_idle: "this state has 15 s to connect to the  *)
(* router; after 15 s smartlink is started".                               *)
(***************************************************************************)
SmartlinkAfterTimeout == <>(wifi = "got_ip") \/ <>InState("network_smart")
=============================================================================
