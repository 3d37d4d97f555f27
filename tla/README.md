# A verification of the desktop-light firmware

The repository is the firmware of a Wi-Fi desktop light: an ESP8266 program on
Espressif's non-OS SDK that connects to a router, opens an EDP session (the
protocol of the OneNET cloud) and is controlled through it.  These TLA+ modules
model its control logic.  TLC checks them on small instances; TLAPS proves some
of the results for every value of the constants.

The source files are encoded in GBK; their comments are quoted in translation.

## 1. The system

Everything below runs in the single context in which the SDK calls back tasks,
software timers and network callbacks, one after the other, none preempted by
another.  The only interrupt handlers are those of the UART and of the PWM
timer.  The difficulty is therefore hardly in data races: it is in the *order*
in which queued messages, timers, network callbacks and console commands take
their turns, in flags that say that something is "already under way", and in
return codes that nobody looks at.

| Part | State | Operations | Interacts with |
|---|---|---|---|
| Event loop, `fsm/fsm.c`, glue in `fcmd/cmd_esp8266.c` | a ring of signals per task, the current state of each task, `next_dispatch`, `stm_ret_value` | `os_post_message`, `os_dispatch`, `os_stm_tran`, `os_init_tasks` | a 0 ms SDK timer runs the pass; a 1 ms one ticks the software timers |
| Software timers, `fsm/fsm.c` | a pool of 32 slots | `os_timer_set`, `os_reload_timer_set`, `os_timer_del`, `os_timer_update` | an expired slot posts to the event loop |
| State machines, `task/driver_task.c`, `task/network_task.c`, `smartlink/smartlink.c` | states of two tasks, Wi-Fi mode, smartconfig | the handlers; the callbacks of smartconfig | event loop, timers, SDK Wi-Fi, the EDP client |
| EDP session, `onenet/onenet_tcp.c` | session state, two miss counters, three SDK timers, phase of a reconnection | create, delete, timer callbacks, connect/disconnect/receive callbacks | created and deleted by `network_sta`; espconn |
| Serial console, `driver/uart.c`, `fcmd/*` | hardware FIFO, line buffer, `uart_state`, a task queue | interrupt handler, `uart_recvTask`, `uart_char_cb` | runs any function of the table in `fcmd_cfg.h`, among them `fsm_init` and `os_post_message` |
| Registration, `onenet/onenet_http.c` | a request/response state machine, stored parameters | register, query, delete, save, load | the cloud over HTTP, flash; its calls are commented out in `network_task.c` |
| EDP codec, `onenet/EdpKit.c`, receive path and `edp_*` of `onenet_tcp.c` | packet buffers | pack, unpack, completeness, reassembly | between espconn and the application |
| Application, `main/onenet_app.c` | sensor values | callbacks that take and answer packets | the EDP session |
| Command parser, `fcmd/fcmd.c` | the table of prototypes | `fcmd_exec` | the serial console |
| Soft PWM, `softpwm/softpwm.c` | two edge tables, `pwm_toggle` | `pwm_start` against the timer interrupt | linked, not called |
| Upgrade, `upgrade/update.c` | one download, two slots | start, finish, timeout | `NW_UPGRADE_EVT` |
| Flash, `flashapi/`, `fcmd/cmd_mem.c` | sectors, header, cached sizes | read, erase and write back | console |
| Drivers and helpers: I2C, GPIO16, CRC, `fastpwm/` (not built) | registers | - | - |

What makes the parts correct:

- *Event loop*: an accepted message is delivered once and in order; whoever posts
  and whenever, a pass is due afterwards; a transition of one task never leaks into
  another; messages are not left behind for ever.
- *Timers*: one timer per key, which fires in time and not after it was deleted,
  whatever slot it is in and whatever that slot held before.
- *State machines*: no message is lost or stranded; each state runs with its own
  timer, client and radio mode; an address leads to a session.
- *EDP session*: a lost connection is always noticed and re-established; the
  heartbeat goes on while there is a session; the client object has a simple life.
- *Console*: it never goes deaf; a command is never mixed of two lines; a call is made
  as it was written.
- *Registration*: the device counts as registered only with an id and a key; it gives
  neither up unless the cloud has lost it; a session ends registered.
- *Codec*: every packet arrives once, unchanged and in order.
- *PWM*: each channel is high for its share of every period, also while a new table is
  being built.
- *Flash*: a failure or a loss of power costs one sector at most.
- *Upgrade*: there is always a whole image to boot.

`PROJECT.json` lists the hazards found while reading, each at its line, with the
properties that cover it or the reason why none does.

## 2. The modules

| Module | Models | |
|---|---|---|
| `EventFifo` | - | what the event loop promises: one bounded FIFO list of signals per task |
| `EventLoop` | `fsm.c`, `cmd_esp8266.c` | rings, posting, the pass as one step per iteration and handler call, arbitrary handlers |
| `EventLoopProofs` | | theorems about `EventLoop` |
| `TimerMap` | - | what the timers promise: at most one timer per key |
| `SoftTimers` | `fsm.c` | the pool, the calls, the scan as one step per slot |
| `SoftTimersProofs` | | theorems about `SoftTimers` |
| `NetworkTask` | `driver_task.c`, `network_task.c`, `smartlink.c`, `main.c`, `fcmd_cfg.h` | the firmware's own handlers; instantiates `EventLoop`, `SoftTimers` and `ClientLifecycle` |
| `NetworkTaskProofs` | | theorems about `NetworkTask` |
| `ClientLifecycle` | - | the client as the network task sees it: none, open, closing |
| `EdpClient` | `onenet_tcp.c` | the session against a faulty network; implements `ClientLifecycle` |
| `EdpClientProofs` | | theorems about `EdpClient` |
| `UartConsole` | `uart.c` | from the hardware FIFO to `fcmd_exec` |
| `UartConsoleProofs` | | theorems about `UartConsole` |
| `HttpRegistration` | `onenet_http.c`, `onenet_config.h` | registration and its check, the stored parameters over restarts, a cloud that serves and forgets |
| `HttpRegistrationProofs` | | theorems about `HttpRegistration` |
| `EdpCodec` | `EdpKit.c` | buffers and their growth, readers, remaining length, the `Packet*` and `Unpack*` functions but `PacketSavedataJson`, as operators |
| `EdpStream` | `onenet_tcp.c`, `onenet_app.c`, `EdpKit.c` | packets over TCP in both directions; `tcpclient_recv`, `GetEdpPacket`, `edp_*` |
| `EdpStreamProofs` | | theorems about `EdpStream` and the operators of `EdpCodec` |
| `PacketChannel` | - | what codec and receive path promise: a list of messages received in order |
| `SoftPwm` | `softpwm.c` | the table, `pwm_start` in four steps against the interrupt |
| `FlashStore` | `flash_api.c`, `cmd_mem.c` | functions as sequences of flash operations, each of which may fail or lose power |
| `Upgrade` | `update.c`, `network_task.c` | two slots, a download, restarts |
| `DeviceProofs` | | theorems about `SoftPwm`, `FlashStore` and `Upgrade` |
| `Fcmd` | `fcmd.c`, `fcmd_cfg.h` | `fcmd_exec`: a line, taken apart, to a call |
| `MC*` | | instances for TLC |

How they fit together: `NetworkTask` takes the actions of `EventLoop`
(`Os!DispatchTake`, `Os!ReturnWith`, `Os!OsPostMessage`) and of `SoftTimers`
(`Tm!OsReloadTimerSet`, `Tm!Expire`) and conjoins them, so the loop that the
theorems are about is the loop the firmware's handlers run on.  It uses the EDP
client only through `ClientLifecycle`; that `EdpClient` behaves like that is
checked separately (`ImplementsLifecycle`), so the two big state spaces are never
multiplied.  In the same way `EdpClient` knows packets by their type alone, and
`EdpStream` shows what becomes of their bytes.  A behaviour of `EdpClient` is in one
*world*, which says what may go wrong in it; `MCEdpClient` names three: in the *wild*
one everything may happen, in the *early* and the *calm* one no attempt fails, no login
is refused and nothing is deleted, and in the calm one no disconnection is reported
before a 10 ms timer is due.  `MCDevices` runs four modules that share no state, one of
them in each behaviour; `FlashStore` and `Upgrade` it extends, so that what it checks of
them is what the theorems state.

### Correspondence with the code

Variables have the names of the C variables wherever there is one.  `map` in
`PROJECT.json` gives the lines of every definition.  Some choices:

- **Granularity.**  A callback that calls nothing with a visible intermediate state
  is one step (a handler of `network_task.c`, a callback of `onenet_tcp.c`, all it
  calls included).  `os_dispatch` and `os_timer_update` call out from inside a loop;
  they take one step per iteration, and the variables `phase`, `i` and `scan` say
  where they are.  Nothing else runs meanwhile, as in the SDK.  The UART interrupt
  may come between any two bytes that `uart_recvTask` reads.
- **Return to `os_dispatch`.**  `ReturnWith(ret, temp)` is lines 83-93 of `fsm.c`:
  what a handler leaves in `stm_ret_value` and `stm_state_temp` decides whether
  EXIT and ENTRY calls follow.
- **The hook.**  `CallHook` is `next_dispatch = 1` and, if it was 0, the hook, which
  arms the 0 ms timer (`dispatch_timer`).
- **SDK timers.**  An armed timer may fire at any time, except where the order
  matters: timers armed for a shorter time are not overtaken by longer ones armed
  later (`overtakes` in `EdpClient`, `late` in `NetworkTask`).
- **The `para` of a message** is 0 in every call and left out.
- **espconn** is modelled by what the callbacks see: `conn` and the requests not yet
  answered.  `CloseTime` says when the disconnect callback comes relative to the
  10 ms timers: before, after, or either.  The reconnect callback, through which
  espconn reports errors, is registered only in the DNS branch, which this build
  leaves out: a reset is not reported.
- **The UART.**  The idle-timeout interrupt is assumed to be raised again while
  bytes remain in the FIFO.  If a chip raised it once only, a byte that arrives
  between lines 360 and 372 of `uart.c` would wait for the next one, and
  `WaitedLinesRun` would fail for it.
- **Registration.**  The static variables of `onenet_http.c` are the fields of one record
  `dev`; a callback maps it to a new one, and what it saves and sends on the way is
  collected in two of its fields until the callback ends.
- **Bytes.**  `EdpCodec` computes with bytes of a smaller base (`Radix` values without the
  bit that continues a length), so that two-digit lengths need only a few bytes.  The
  cloud's side is written from the layout of the packets, independently of the
  operators that model `EdpKit.c`.
- **Flash.**  Writing only clears bits; a byte written over another one is `Garbled`.
  A step of a command is one operation of the SPI driver.  The cloud, the chip, the
  SDK's upgrade task and the power supply are marked external in `map`.
- **Types.**  Every module states its `TypeOK`.  Where no run lists it (the network task,
  the EDP client, registration and the four parts in `MCDevices`), it is there to say
  what values the variables take.
- **Power saving** does nothing in this build (no board header defines the sleep).

## 3. The runs

All finish within a minute.  States are distinct states.

| Run | Instance | Checks | States |
|---|---|---|---|
| `event_loop` | 2 tasks, rings of 2, one event besides ENTRY/EXIT, two handlers that post and transit as they like | `TypeOK`, `RingConsistent`, `WakeupArmed`, `NoStrayTran`, `AcceptedPostWakes`, `ImplementsFifo`, `DeliveredWithTraffic` | 49,228 |
| `soft_timers` | 2 slots, 3 keys, timeouts 0 and 1 | `TypeOK`, `UniqueTimers`, `ImplementsTimerMap`, `ReloadingFires` | 4,596 |
| `network` | a device left alone, a router that comes and goes | `QueuesHaveRoom`, `TimersFollowState`, `ClientFollowsState`, `EveryMessageTaken`, `OnlineStartsClient` | 8,613 |
| `network_console` | two console commands at any time: `fsm_init`, any signal to either machine, `smartlink_start` and `smartlink_stop`, any Wi-Fi mode | `SmartconfigOnlyInSmart` | 1,314,570 |
| `edp` | wild: every fault, deletion at any time; early and calm: closed, reset, half-open connections and CONNCLOSE | `ImplementsLifecycle`, and by the faults of the world `HeartbeatKept`, `LossNoticed`, `RecoversWhenWell` | 19,684 |
| `uart_console` | a line buffer and a FIFO of 3, 6 bytes typed | `TypeOK`, `EventsServed`, `NoMixedCommands`, `ExecutedInOrder`, `WaitedLinesWhole`, `WaitedLinesRun` | 75,211 |
| `http_registration` | three sessions, two restarts at any time, the cloud forgets once; no fault, or one kind of it | `FlagMeansComplete`, `CheckEndsBeforeClient`, `GivenUpOnlyIfGone`, `EndsRegistered` | 133,932 |
| `edp_stream` | two packets of any type, cut anywhere by TCP where a buffer reassembles them | `TypeOK`, `NothingLost`, `ImplementsChannel` | 25,291 |
| `devices` | flash: two commands and one fault; PWM: 2 channels, 7 calls; upgrade: 4 attempts; parser: 23,442 typed calls and 2,804 other lines | `OneSectorInDoubt`, `ReadBack`, `PlaysAsAsked`, `LastDutyShown`, `BootsWholeImage`, `MadeAsWritten` | 336,067 |
| three more | see "Findings" | one property each, violated | |

What they show that a test would not:

- `AcceptedPostWakes` and `WakeupArmed` together are why `os_dispatch` may clear
  `next_dispatch` *before* it looks at the queues (`fsm.c:63`).
- `os_dispatch` takes one message per task and pass and asks for no other pass.
  `DeliveredWithTraffic`: it suffices that passes keep being asked for.
  `EveryMessageTaken`: in this firmware they are, by `SYS_TICK` alone - a mutant
  without that tick strands `NW_TRAN_IDLE_EVT` at start-up.
- `QueuesHaveRoom`: nobody looks at what `os_post_message` returns, and nobody has
  to as long as the device is left alone.
- `ImplementsTimerMap`: neither the first-fit search nor the flag that
  `os_init_tasks` does not clear shows.
- `RecoversWhenWell`: whatever the faults, once the network is well the client ends up
  logged in and stays so - provided espconn reports a disconnection after the 10 ms
  timer (see the finding on CONNCLOSE for the other order), and that no connection
  attempt fails and no login is refused.
- `EndsRegistered`: wherever a restart cut an earlier attempt off and whatever the cloud
  has forgotten since, the next session on a good connection ends with a device and a
  key that the cloud knows.  Three cases are excepted by name, since the code does not
  handle them: only a finished registration is ever checked (`OrphanedAttempt`), a key left
  over from a device that was given up is taken for the next one's (`LeftoverKey`), and the
  check asks for any key of the device and does not compare it (`OtherKey`).
- `GivenUpOnlyIfGone`: the two-step check, which takes silence for "unknown", never costs
  a valid registration while answers come in time; with `slow`, `lost` or `hasty` it may.
  The third session and second restart matter: they reach a key that belongs to another
  device than the one it is saved with, and giving that one up is right.
- `ImplementsChannel`: `GetEdpPacket`, which the firmware does not call, would deliver
  every packet whatever TCP does; and the lengths that each `Packet*` function computes
  beforehand are those of what it then writes, which the independent reader confirms.
- `PlaysAsAsked`: the interrupt never plays a half-built table, as long as the callers let
  a table be adopted before they build the next one.
- `OneSectorInDoubt`: also for a write across sectors and for the functions that ignore
  results.
- `MadeAsWritten`: for which strings (`Takeable`) the search for the closing quote, which
  works on an array of separators, finds the right one.
- `EventsServed`: the receive interrupts are off exactly while their event is queued
  or handled, and input is ignored exactly while a line is queued, so ignoring the
  result of `system_os_post` (`uart.c:69`, `300`, `307`) is sound for a queue of 2
  or more.

Every property of a passing run has a mutant in `PROJECT.json`, a plausible bug
that makes TLC report that property violated.

### Bounds, and why they are enough

- `QUEUE_SIZE` 2 or 3 for 8, `TIMER_CNT` 2 or 3 for 32: rings fill and wrap, and the
  pool can be full or have a free slot below a used one.  For the properties of the
  rings and the pool the theorems remove the bound.
- Periods of 1 and 3 ticks for 100 and 1000 in `network`, all 1 in `network_console`:
  what matters is which timers expire in the same tick, and both coincidence and
  the lack of it occur.
- `LateTicks` 1 in `network`: a 1 ms tick may run before a 0 ms timer that is due;
  0 in `network_console`, where `MaxConsole` is 2: one command brings the machine into
  `network_smart`, `network_idle` leads to `network_sta` by itself, and the other is any wrong
  signal there, a repeated `fsm_init` or a call that starts or stops smartconfig.  For more
  commands there is the theorem.  Numbers that are no signal of the two machines behave as
  `SYS_TICK_EVT` does in the network machine, and a `task_id` that is no task, which
  `os_post_message` does not check, is left out.
- `SendBuffer` 2: a repeated login and a heartbeat can be on their way together.
- `UART_BUF_LENGTH` 3, `FIFO_LENGTH` 3, `FULL_THRHD` 2 and `MaxTyped` 6: lines that
  fit and that wrap, both interrupts, an overrun, and two to three lines.
  Deadlock is not checked there, since the typist may stop.
- Registration: four ids and keys, so that the cloud never runs out of new ones; `Patience` 2
  for 10, since a longer one only adds ticks in which nothing changes; `SendBuffer` 3,
  so that no request of the check is refused.  Deadlock is not checked: once the
  sessions are used up nothing has to happen.
- Codec: `Radix` 8 and strings of 1 and 3 bytes give lengths of one and two digits, and
  `BUFFER_SIZE` 6 makes buffers grow once and more; two packets are enough for a cut
  inside the first, between them and inside the second.  `Word` 256 keeps the widths of
  the C integers out of reach there.  Deadlock is not checked: both sides may stop.
- Flash: 8 sectors of 3 bytes, twice the smallest chip; texts of no byte, of one byte, and
  of several sectors, with an erased byte among them; addresses at the beginning of a word,
  which are not those of a sector, and one that is not of a word.  One fault is enough to show what
  is in doubt then; the second command starts from what it left.
- PWM: equal duties, a duty of 0, of a part and of the whole period on two channels, and
  a change of frequency; seven calls are needed for two channels, their duties and two
  starts.
- Parser: strings of up to five of the characters the parser tells apart, as each of the
  arguments, with and without blanks; every line of up to four tokens, most of which are
  no calls.  Deadlock is not checked in `devices`: all counts end.
- Signals, handlers and keys are few, since nothing compares them but for equality.

### Fairness

- The SDK fires a timer that is armed, and the CPU runs on: weak fairness of the
  dispatch pass, of the timer scan, of the handlers' return.
- `EdpClient`: timers fire, a connection attempt or a disconnection ends, a server
  that is there answers, the network task creates its client.  `good` says that the
  network is well from now on; nothing obliges it to become so, and the properties
  are conditional on it (`<>good => ...`).
- `UartConsole`: interrupts are taken and the task runs.
- `HttpRegistration`: an attempt to connect or disconnect ends, armed timers fire, the
  cloud serves requests and its answers are delivered.  Nobody is obliged to start or
  end a session.
- `SoftPwm`: a running hardware timer interrupts, and `pwm_start` returns.
- Nobody is obliged to post, to type, to give a command, or to switch the router on.

### Findings

Each is a run that TLC must report as violated, with the quotation in
`PROJECT.json`.

1. `network_smartlink` - `network_idle` never starts smartlink by itself, although the
   comment above it promises this after 15 s: the counter is read nowhere, and the
   signal that `driver_actor` posts at start-up arrives in a state that ignores it.
2. `edp_connclose` - after CONNCLOSE both the disconnect callback and the 10 ms timer
   advance the same two-phase reconnection.  If the callback comes first, the timer
   is left armed, disconnects the new connection, and so on for ever.
3. `edp_stream_cut` - `IsPkgComplete` returns 0 for "continue to receive"
   (`EdpKit.h:105`, `EdpKit.c:511`), but `tcpclient_recv` (`onenet_tcp.c:150`) drops what
   it has then, and whatever follows the first packet of a segment: what one callback
   delivers is taken for one packet (138-142).

Noticed, and but for failed allocations and the leaks also modelled, with no run of
their own:

- *Event loop.*  A message queued behind another one waits until something else posts
  (`fsm.c:66`); a post before `fsm_init` would set `next_dispatch` with no timer armed
  (146).
- *Timers.*  The search for a running timer stops at the first free slot (`fsm.c:243`), so
  that setting it again may give it a second one, although the comment there (237) says that
  the existing one is changed.  `ReArm` lets callers do so; on a device left alone none does
  (theorem `OneSlotPerTimer`).  `os_reload_timer_set` on a key that runs once changes a period that nobody
  reads (266).
- *State machines.*  After a smartlink timeout the mode is STATIONAP, for which
  `network_idle` has no transition.  `smartlink_start` typed in another state runs smartconfig
  there, until it is done, `smartlink_stop` is typed or `network_smart` is left.
- *EDP client.*  A refusal that answers a repeated login stops the heartbeat
  (`onenet_tcp.c:184`); a failed connection attempt is not retried (552), so `HeartbeatKept`
  and `LossNoticed` speak of the worlds without them; a create within 10 ms of a delete fails silently.
- *Console.*  A line longer than the buffer wraps, so that its tail is executed; what is
  typed while a line waits is dropped, and the rest of the line is then a command of
  its own; CR LF executes an empty command.
- *Registration.*  Slow answers, another request meanwhile, or a connection lost during
  the check can wipe a valid registration, since one variable holds what was asked
  last; a restart between giving up a device and the answer to `apikey_delete` leaves its
  key to be saved with the next device, and the check (580), which does not compare keys,
  may never notice; a connection that closes by itself leaves the client as it is; deleting the own
  device goes on to create a new one without `auth_info`; the case of a created device
  falls through (518); failed allocations leave a dangling client (748-760).
- *Codec.*  `PacketSavedataBin` counts `4 + bin_len` bytes that it never writes
  (`EdpKit.c:442`); nothing in the firmware sends any.
- *PWM.*  Two calls of `pwm_start` within a period write into the buffer in use
  (`softpwm.c:114`) and can leave the timer down with the wrong table (169-187): the
  behaviours that are not `patient`.
- *Flash.*  `sfmd` shows the last one to three bytes as 0 unless the count is a multiple of
  four (`cmd_mem.c:182`); the functions that set the header return true whatever happens
  (`flash_api.c:156`, `305`); the size in the header, once read, is cached until the next
  start.
- *Upgrade.*  A failed one leaks its connection (`update.c:61-69`); since no version is
  compared, an upgraded device upgrades again when asked.
- *Parser.*  Parentheses between inner quotes, or text behind a closing quote, make
  `get_args` leave its array (`fcmd.c:351`, `378`); some lines make it loop for ever, such
  as `f((1),"a")` (296-327); a prefix of a system command is enough, and the empty line
  is one of `ls`.

## 4. The proofs

| Theorem | States, for every value of the constants |
|---|---|
| `EventLoopProofs!TypeCorrect`, `RingsConsistent`, `WakeupNeverLost`, `TransitionsStayHome` | the invariants of the `event_loop` run |
| `EventLoopProofs!PostsWake` | `AcceptedPostWakes` |
| `EventLoopProofs!RingsImplementFifo` | the rings implement `EventFifo` |
| `SoftTimersProofs!TimersTypeCorrect`, `KeysUnique` | the invariants of the `soft_timers` run, unless callers restart running timers |
| `SoftTimersProofs!PoolImplementsTimerMap` | the pool implements `TimerMap`, under the same condition |
| `NetworkTaskProofs!TypeCorrect` | the types of rings, loop, pool, connection and client, whatever the console posts |
| `NetworkTaskProofs!SmartconfigStaysHome` | `SmartconfigOnlyInSmart`, whatever signals the console posts to either machine and however often `fsm_init`, `smartlink_start`, `smartlink_stop` and `wifi_set_opmode` are called: smartconfig runs outside `network_smart` only where `smartlink_start` was typed there |
| `NetworkTaskProofs!ClientBelongsToSta`, `TimersBelongToStates` | `ClientFollowsState` and `TimersFollowState`, as long as nobody was at the console |
| `NetworkTaskProofs!OneSlotPerTimer` | under the same condition no timer has two slots: what the theorems on the pool assume of its callers |
| `NetworkTaskProofs!QueuesNeverFull` | `QueuesHaveRoom`, under the same condition, for rings of three slots or more and periods of at least `LateTicks` |
| `EdpClientProofs!TypeCorrect` | the types of the session, in every world; an established one has at most three missed heartbeats |
| `EdpClientProofs!LifecycleImplemented` | the session implements `ClientLifecycle`, in every world |
| `EdpClientProofs!HeartbeatAlways`, `LossAlwaysNoticed` | `HeartbeatKept` and `LossNoticed` |
| `UartConsoleProofs!ConsoleTypeCorrect`, `ConsoleServed`, `CommandsNotMixed`, `CommandsInOrder`, `WaitedLinesAreWhole` | the five invariants of the `uart_console` run |
| `HttpRegistrationProofs!RegisteredMeansComplete` | `FlagMeansComplete`, with all the faults together |
| `HttpRegistrationProofs!CheckOverBeforeDelete` | `CheckEndsBeforeClient` |
| `HttpRegistrationProofs!GoodRegistrationKept` | `GivenUpOnlyIfGone`, for any number of restarts, sessions and losses in the cloud |
| `EdpStreamProofs!BuffersHold` | `TypeOK` of the `edp_stream` run: no buffer is written past its end, for strings of any number of bytes whose lengths have one or two digits |
| `EdpStreamProofs!EverythingArrives` | `NothingLost`, unless `tcpclient_recv` reads whatever TCP delivers (`"stream" \notin Scenarios`), for the same strings and any number of packets |
| `EdpStreamProofs!ChannelImplemented` | codec and receive path implement `PacketChannel`, under the same condition |
| `DeviceProofs!FailuresSpareOtherSectors` | `OneSectorInDoubt`, for any chip, any text shorter than it, any number of faults |
| `DeviceProofs!SfmwThatSucceedsHasWritten` | an `sfmw` that reports success has written its text and nothing else, whatever failed before: for this command more than `ReadBack`, which speaks of no faults |
| `DeviceProofs!WrittenReadsBack` | `ReadBack`, for any chip, any text shorter than it, any number of commands before |
| `DeviceProofs!WholeImageBoots` | `BootsWholeImage` of the `devices` run |
| `DeviceProofs!PlaysWhatWasAsked` | `PlaysAsAsked`, for any number of channels, any duties and frequencies |
| `DeviceProofs!PwmTypeCorrect` | the types of `SoftPwm`, also when callers do not wait: the interrupt stays inside its table |

Assumptions: the named `ASSUME`s of the modules.  They say that sizes are positive
numbers, that `NoKey`, `None` and the like are none of the values they stand beside, that
the pool has a slot for each of the three timers, that a PWM frequency gives a period of at
least a microsecond, that a sector has at least two
bytes, that a word has 1, 2 or 4 and that a text is a sector shorter than the chip; and of the codec
that what is sent in a behaviour fits half the address space, as it does on a device with
some 50 kB of memory (beyond it the doubling in `CheckCapacity` can wrap before it is
enough), and that a packet's length has at most two digits, which is what the cloud's side of the
model writes.  `Word` is 2^32 or less (`Word \div 65536 <= 65536`, written so that TLC can
evaluate it), so that a length of four bytes can say every length that occurs.  The firmware's values (8
signals, 2 tasks, 32 timers, 128 bytes, 10 events, sectors of 4096 bytes) satisfy them.

**Event loop.**  The inductive invariant is `TypeOK /\ RingConsistent /\ WakeupArmed
/\ NoStrayTran`.  Each conjunct but the first is a property of its own; `RingConsistent` is needed
for the refinement: the abstract list of a task is `Pending(t)`, the signals from
`head` on for `used` places; a post appends to it only because `tail` is the place
just behind (lemma `PendingStore`), and taking one gives its tail (`PendingTake`).
The lemmas on `SlotAfter` do the arithmetic round the ring once and for all.

**Timers.**  The invariant is `TypeOK /\ UniqueTimers`.  With at most one slot per key
the pool *reads as a map* (`PoolReadsAsMap`): the first slot that has a key is the only
one.  A call then changes the map at its key and nowhere else (`StartMaps`, `DelMaps`),
and the scan, which visits slots in order, visits each key at most once
(`ScanLooks`).  Without `~ReArm` the invariant is false: a running timer that is
set again can take a second slot.

**State machines.**  The theorems on the event loop are about any handlers; here they are
the firmware's, so the types are proved anew for this composition, on lemmas about what
waits in a ring (`Stored`, `TakeQueues`) and in the pool (`StartSlot`, `ScanSlot`).
`SmartInv` allows smartconfig between the entry and the exit of `network_smart` only, and
says that it is off while another state is being entered, unless it was started by hand
(`by_hand`, which takes a console command).  The other two invariants need
that nobody was at the console, for `os_post_message` typed there brings any signal at
any time (with it `ClientFollowsState` is false).  Then nobody posts `STM_EXIT_SIG`
(`ExitInv`), so `network_sta` is never left and its client neither deleted nor created
twice (`ClientInv`).  For the timers, `EntryInv` shows that each task gets the
`STM_ENTRY_SIG` of `fsm_init` once, before everything else, and that the network machine
is still in its first state then; `TimerInv` ties each timer to its state, which is what
makes every start find its timer stopped (`PoolInv`).

`QueuesHaveRoom` is the one theorem with an assumption of its own (`RoomAssumption`): a ring
has three slots or more (8 in the code), and no timer's period is shorter than the number of
ticks that may overtake a dispatch pass that is due (the shortest is 100 ms, and the pass is a
0 ms timer).  Its invariant (`RoomFacts`) counts twice.  At the start, what waits for the
network machine and the `STM_ENTRY_SIG`s whose handlers will add to it are together at most
two, and `NW_TRAN_IDLE_EVT`, which ends that state, is the last (`ActorRoom`); so when the
machine moves for the first time its ring is empty.  From then on only its timer feeds the
ring, and `TimeRoom` says that the timer cannot expire while its last message still waits: as
long as one waits a pass is due, and the timer has more left than the visits that the scan can
still pay to its slot before that pass (`Visits`).  A message that waits while no pass is due
would break this; that there is none is `WakeRoom`, with what each part of a pass leaves empty
(`DriverRoom`, `StateRoom`).  With two slots the first pass already loses a message.

**EDP session.**  `HeartbeatKept` is not inductive: the answer to a heartbeat makes a
session established again, even one given up since.  `HeartbeatInv` adds that a timer
is armed whenever a heartbeat is on its way (`PingsTimed`).  `LossInv` follows the timers
from the moment a connection is up: one stays armed for as long as it is, so one is armed
however it ends.  The refinement uses the types only: each callback is a step of
`ClientLifecycle` or changes nothing it sees.

**Console.**  `NoMixedCommands` says something of the lines executed; they come from
the buffer, whose contents come from the FIFO.  The invariant therefore follows the
bytes: the FIFO holds the last bytes typed (`FifoIsSuffix`), the buffer below the index
holds the bytes taken last, none of which ends a line (`CollectingRun`), and a line
that waits is the end of a typed line, closed by a NUL (`LineReady`).  That it is not
overwritten while it waits is `EventsServed`: `uart_state` is 1 exactly while the line's
event is queued.  For `ExecutedInOrder` the bytes are known by when they were typed: what
is done, what waits and what is in the FIFO come in that order (`OrderInv`), whether or not
bytes in between were dropped.  `WaitedLinesWhole` follows the one line that a patient typist
has under way, from its first byte on (`WaitInv`).

**Registration.**  `register_flag` is set where id and key are known to be there, but the
answer to `apikey_delete` takes the key away later and nothing clears the flag then.  So
`Good` says of such a request, as long as it is not answered, that neither memory nor flash
holds a registration: the device was given up before.  The proof goes through the
callbacks as functions of `dev`, one lemma each.  `CheckInv` is about behaviours without
faults: the timer of the check runs only on a connection that is up, and deleting waits
until the check has a result.  For `GivenUpOnlyIfGone` the invariant (`Trusting`) says where
question and answer are: on a connection that is up at most one message is under way, it
belongs to what `request_state` and the place in the check say, an answer is still true of
the cloud (`TrueAnswer`), and what the check has noted so far is, too.  That a silence is
never an answer under way is the guard of `QueryTimer` without `slow`.

**Codec.**  What `TypeOK` says of a buffer is that it holds no more bytes than it was allocated
for (`Sound`).  `StreamInv` adds what that needs: whatever is on the wire or in the receive buffer was
sent by the cloud, so all of it fits half of `Word` (`LongestWith` bounds one packet); then the
first doubling that seems enough to `CheckCapacity` has not wrapped and is enough
(`DoublingsGrow`, `CheckCapacityMakesRoom`).  `WriteRemainlen` checks capacity for
fewer bytes than it may write; `HeaderSound` shows that its digits and the type byte fit even so,
because every packet begins in a buffer of at least six.  The operators are built from folds,
flattened sequences and recursive functions; that these exist and what bytes they give is shown by
induction over a number, as the absence of a least exception.

`NothingLost` and `ImplementsChannel` are about what the bytes mean, and `TypeOK` knows nothing of
that.  Their invariant (`LinkInv`) says where the messages are: what waits to be read, the bytes
in the receive buffer followed by those on the wire (`Pending`), is cut into packets
(`Cuts`), one for each message sent and not yet received, in order, and each packet `Carries` its
message; and what has been received are the first of the messages sent.  To carry a message means one of
two things.  On the way down (`Arrives`), that `tcpclient_recv` makes just that message of the packet:
`CloudPacketArrives` goes through the cloud's seven types, the remaining length and the strings
of each.  On the way up (`Understood`), that the cloud's reader, which is written
from the layout of the protocol and not from `EdpKit.c`, makes it of any bytes that begin with the packet;
there is one such lemma for each `Packet*` function the firmware calls
(`Connect1Understood` to `PingUnderstood`).  A step then adds a packet at the end (`OneMore`) or takes the
first one away (`OneLess`).  That `GetEdpPacket` takes just this one, wherever TCP has cut, is
`NotBefore`: of a beginning of a packet `IsPkgComplete` never says that it is complete, and
of the packet with anything behind it, it says that packet's length.  From a stream that
has come to rest nothing more can be read, so nothing of it is left (`QuietMeansAll`).

The condition on `Scenarios` is not for the proof's sake.  `tcpclient_recv` as it is, on whatever
TCP delivers, drops half packets and what is behind the first packet; `edp_stream_cut` shows
`NothingLost` violated there.  Of packets with binary data (`bin`) both properties say nothing,
since the call that would write the data is commented out (see "Findings"); `BuffersHold` covers
both.

**Flash.**  An interrupted function is judged by what it has done so far, so the invariant
says what that is (`Busy`): functions that work on one sector have left the others alone
(`OneSector`); one that only erases has changed only what it is to erase (`Erasing`); and
`sfmw` has written its first `k` sectors, has the next one in `pmen` or erased, and has
not touched the others (`Rewriting`).  Each sector it goes through is another one because
they are at most as many as the chip has, also where addresses wrap (`ReachedDiffer`).  That
what is written is what is meant rests on two lemmas that meet at one formula: what
part `k` puts at an offset (`PartReplaced`), and what the text as a whole wants there
(`GoalAt`).  Below them is arithmetic with a sector size that is not fixed, stated
separately since the SMT solver does not multiply variables on its own.

`ReadBack` has an invariant of its own (`ReadInv`), about commands that met no fault: what
such a command was asked for and is to leave (`Meant`), and how many of its operations are
over (`HeaderRuns`, `DefaultRuns`, `BlankRuns`; of `sfmw` `StoreInv` says it).  Without a fault
an operation fails only where there is no sector, and then the function has failed.  What the
reading functions return rests on three inductions: that the sizes of chips all differ
(`SizesDiffer`), so that a type read from the header is the one written; that `md` shows every
byte once, however many lines it takes (`MdShowsAll`, on `PiecesJoin`: a sequence cut into
pieces is what they make when joined); and the arithmetic of whole words and elements
(`WholeElements`), false for words of other lengths.  `SfmdShowsText` combines them with `GoalAt`.

**Upgrade.**  `BootsWholeImage` alone is not inductive: `update_rsp` changes the boot flag
and relies on what the task left.  The invariant adds that (`TaskInv`): while there is a
task its file is for the slot that does not boot, and its success means that this slot
holds the whole file.

**Software PWM.**  The proof has two halves.  What a finished table *means* (`Meaning`) is a
strictly rising function `at` from its entries to the ticks at which they are played: 0 before
the first, the period at the last, and every channel goes low at its share or, with a share of
0, never goes high.  `ShapedMeans` shows that the six steps of `pwm_start` build such a table
from every request, and `MeaningPlays` that the time each channel is high is then its share: it is
high exactly in the intervals up to its own entry, and their lengths add up.  A sum over a set
and a sorted sequence are library or `CHOOSE` constructions, so that they exist and what they
are is shown by induction over the number of elements, as the absence of a least exception
(`AllNumbers`).  The other half is control (`PwmInv`): which of the two buffers is finished
where in `pwm_start`, and, if the callers wait, that the interrupt plays the one that is not
being built (`Patience`).  Without that wait `PwmInv` still keeps the index inside the table.

**Only model-checked**, and why:

- All liveness (`DeliveredWithTraffic`, `ReloadingFires`, `EveryMessageTaken`,
  `OnlineStartsClient`, `RecoversWhenWell`, `WaitedLinesRun`, `EndsRegistered`,
  `LastDutyShown`): out of reach of the prover.
- `MadeAsWritten`: `Fcmd` uses recursive operators, which the prover does not take.

## 5. Not modelled

| Part | Why |
|---|---|
| `update.c`, lines 71-277 | unreachable: nothing registers the first callback of this older way to find the server |
| `onenet_app.c` beyond its callbacks | they print what they are handed; the timer that `network_sta` starts here does nothing when it fires |
| `i2c_master.c`, `gpio16.c`, `pin_map.c`, `crc16.c`, `change_ssid.c` | no control to speak of: registers and tables |
| the sending side of `uart.c` | busy waiting on a register |
| `edp_openssl.c`, `fastpwm/` | not in this build |
| the other console commands | they show something or call the SDK; connecting and disconnecting the station is `WifiUp` and `WifiDown`, and `system_restart` begins a new behaviour |
| `PacketSavedataJson` in `EdpKit.c` | nothing calls it, and it writes through a pointer it never sets (359-393) |
| the libraries of the SDK | binary; modelled as far as their callbacks are seen |

## 6. Plan

Done, in this order: `EventLoop` with its abstraction and proofs, `SoftTimers`
likewise, `NetworkTask` on top of both, `EdpClient` and `ClientLifecycle`, `UartConsole`
with its proofs, `HttpRegistration`, `EdpCodec` with `EdpStream` and `PacketChannel`,
`SoftPwm`, `FlashStore`, `Upgrade`, `Fcmd`.

Proved: all safety properties of `EventLoop`, `SoftTimers`, `NetworkTask`, `EdpClient`,
`UartConsole`, `HttpRegistration`, `EdpStream`, `SoftPwm`, `FlashStore` and `Upgrade`, and the four
refinements (`EventFifo`, `TimerMap`, `ClientLifecycle`, `PacketChannel`).  What only the runs show
is liveness and the parser.
