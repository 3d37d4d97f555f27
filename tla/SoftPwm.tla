------------------------------ MODULE SoftPwm ------------------------------
(***************************************************************************)
(* Software PWM, app/softpwm/softpwm.c.  A period is played from a table   *)
(* of pin changes and of the times between them, by the interrupt of the   *)
(* hardware timer.  pwm_start builds the table for the duties that are set *)
(* in the buffer pwm_toggle does not name and then flips pwm_toggle; at    *)
(* the end of a period the interrupt adopts the buffer pwm_toggle names.   *)
(*                                                                         *)
(* The interrupt may come between any two steps of pwm_start, which it     *)
(* does not lock out: LOCK_PWM is only taken by the task, and so never     *)
(* waits.  The other functions are single steps.                           *)
(***************************************************************************)
EXTENDS Integers, Sequences, FiniteSets, FiniteSetsExt, SequencesExt

CONSTANTS
  PWM_CHANNEL,   \* how many pins may have a duty
  PWM_DEPTH,     \* the duty that is always on
  PWM_1S,        \* microseconds in a second
  PWM_FREQ_MAX,
  InitFreq,      \* the frequency pwm_init sets, 500
  Pins,          \* pins the callers use
  Duties, Freqs, \* arguments of pwm_set_duty and pwm_set_freq
  MaxCalls,      \* bound on the calls of these functions
  Callers        \* {TRUE}: callers let a table be adopted before the next pwm_start

ASSUME PwmAssumption ==
  /\ PWM_CHANNEL \in Nat \ {0} /\ PWM_DEPTH \in Nat \ {0}
  /\ PWM_FREQ_MAX \in Nat \ {0} /\ PWM_1S \in Nat /\ PWM_1S >= PWM_FREQ_MAX
  /\ InitFreq \in 1..PWM_FREQ_MAX
  /\ MaxCalls \in Nat /\ Duties \subseteq Nat /\ Freqs \subseteq Nat
  /\ Callers \subseteq BOOLEAN

VARIABLES
  pwm_out_io_num,  \* the pins with a duty, without the -1 of free places
  duty, period,    \* of struct pwm_param
  table,           \* pwm_single_toggle with as many entries as pwm_channel_toggle says
  asked,           \* what pwm_start was asked for when it built each table
  wanted,          \* what it was asked for last
  pwm_toggle,
  playing,         \* the buffer that pwm_single and pwm_channel point into
  pwm_current_channel,
  pwm_timer_down,
  high,            \* the pins that are high
  pc,              \* where pwm_start is
  calls,           \* calls so far
  patient          \* never changes: the callers wait, see Callers

pwmVars == <<pwm_out_io_num, duty, period, table, asked, wanted, pwm_toggle, playing,
          pwm_current_channel, pwm_timer_down, high, pc, calls, patient>>
settings == <<pwm_out_io_num, duty, period>>

(***************************************************************************)
(* The table.                                                              *)
(***************************************************************************)
\* Timer ticks of some microseconds.  US_TO_RTC_TIMER_TICKS computes this in two
\* ways, for short times and for times whose product would not fit into 32 bits.
Ticks(us) == 5 * us

Entry(set, clear, h) == [gpio_set |-> set, gpio_clear |-> clear, h_time |-> h]

\* Step 1: every channel goes low after its share of the period, and at the end of
\* the period all go high.
Filled(request) ==
  Append([i \in 1..Len(request.pins) |->
            Entry({}, {request.pins[i]}, Ticks((request.period * request.duty[i]) \div PWM_DEPTH))],
         Entry(ToSet(request.pins), {}, Ticks(request.period)))

\* Step 2, pwm_insert_sort: the times that occur, in order.
Sorted(S) ==
  CHOOSE q \in [1..Cardinality(S) -> S] : ToSet(q) = S /\ \A k, l \in DOMAIN q : k < l => q[k] < q[l]

\* Step 3: one entry for each time.
Combined(s) ==
  LET times == Sorted({s[i].h_time : i \in DOMAIN s})
      at(h) == {i \in DOMAIN s : s[i].h_time = h}
  IN [k \in DOMAIN times |->
        Entry(UNION {s[i].gpio_set : i \in at(times[k])},
              UNION {s[i].gpio_clear : i \in at(times[k])}, times[k])]

\* Step 4: times since the entry before.
Deltas(s) == [k \in DOMAIN s |-> [s[k] EXCEPT !.h_time = IF k = 1 THEN @ ELSE @ - s[k - 1].h_time]]

\* Mutant: the last entry keeps what step 3 gave it.
StillCleared(s) == s

\* Step 5: a channel that is on for the whole period is not cleared at its end.
StaysOn(s) == [s EXCEPT ![Len(s)].gpio_clear = {}]

\* Step 6: one that is off for the whole period is not set at all.
StaysOff(s) ==
  LET off == s[1].gpio_clear
      end == Last(s)
  IN IF s[1].h_time > 0 THEN s
     ELSE Append(Front(Tail(s)), Entry(end.gpio_set \ off, end.gpio_clear \cup off, end.h_time))

Shaped(s) == StaysOff(StaysOn(Deltas(Combined(s))))

(***************************************************************************)
(* The task.                                                               *)
(***************************************************************************)
OtherBuffer(b) == 1 - b
GpioOutputSet(entry) == high' = (high \cup entry.gpio_set) \ entry.gpio_clear

\* pwm_set_freq, and what pwm_init leaves behind: no channel, a table of one entry.
PeriodOf(freq) == PWM_1S \div (IF freq > PWM_FREQ_MAX THEN PWM_FREQ_MAX ELSE IF freq < 1 THEN 1 ELSE freq)
NoChannels == [pins |-> <<>>, duty |-> <<>>, period |-> PeriodOf(InitFreq)]

PwmInit ==
  /\ pwm_out_io_num = <<>> /\ duty = <<>> /\ period = PeriodOf(InitFreq)
  /\ asked = [b \in 0..1 |-> NoChannels] /\ wanted = NoChannels
  /\ table = [b \in 0..1 |-> IF b = 0 THEN Shaped(Filled(NoChannels)) ELSE <<>>]
  /\ pwm_toggle = 0 /\ playing = 0 /\ pwm_current_channel = 0 /\ pwm_timer_down = TRUE
  /\ high = {} /\ pc = "idle" /\ calls = 0
  /\ patient \in Callers

TableUnchanged ==
  UNCHANGED <<table, asked, wanted, pwm_toggle, playing, pwm_current_channel, pwm_timer_down, high, pc, patient>>

Called == calls < MaxCalls /\ calls' = calls + 1

PwmAdd(pin) ==
  /\ pc = "idle" /\ pin \notin ToSet(pwm_out_io_num) /\ Len(pwm_out_io_num) < PWM_CHANNEL
  /\ pwm_out_io_num' = Append(pwm_out_io_num, pin) /\ duty' = Append(duty, 0)
  /\ UNCHANGED period /\ Called /\ TableUnchanged

PwmDelete(pin) ==
  /\ pc = "idle"
  /\ \E i \in DOMAIN pwm_out_io_num :
       /\ pwm_out_io_num[i] = pin
       /\ pwm_out_io_num' = RemoveAt(pwm_out_io_num, i) /\ duty' = RemoveAt(duty, i)
  /\ UNCHANGED period /\ Called /\ TableUnchanged

PwmSetDuty(d, pin) ==
  /\ pc = "idle"
  /\ \E i \in DOMAIN pwm_out_io_num :
       /\ pwm_out_io_num[i] = pin
       /\ duty' = [duty EXCEPT ![i] = IF d >= PWM_DEPTH THEN PWM_DEPTH ELSE d]
  /\ UNCHANGED <<pwm_out_io_num, period>> /\ Called /\ TableUnchanged

PwmSetFreq(freq) ==
  /\ pc = "idle"
  /\ period' = PeriodOf(freq)
  /\ UNCHANGED <<pwm_out_io_num, duty>> /\ Called /\ TableUnchanged

\* A buffer that is neither played nor adopted next, nor being built, is not read
\* again before pwm_start fills it: what is in it is forgotten.
ForgetIf(unused, b) ==
  /\ table' = [table EXCEPT ![b] = IF unused THEN <<>> ELSE @]
  /\ asked' = [asked EXCEPT ![b] = IF unused THEN NoChannels ELSE @]

Adopted == playing = pwm_toggle \/ pwm_timer_down

\* pwm_start, in four steps: the entries of the table,
Fill ==
  /\ pc = "idle" /\ (patient => Adopted) /\ Called
  /\ LET b == OtherBuffer(pwm_toggle)
         request == [pins |-> pwm_out_io_num, duty |-> duty, period |-> period]
     IN /\ asked' = [asked EXCEPT ![b] = request] /\ wanted' = request
        /\ table' = [table EXCEPT ![b] = Filled(request)]
  /\ pc' = "shape"
  /\ UNCHANGED <<settings, pwm_toggle, playing, pwm_current_channel, pwm_timer_down, high, patient>>

\* their final form,
Shape ==
  /\ pc = "shape" /\ pc' = "begin"
  /\ table' = [table EXCEPT ![OtherBuffer(pwm_toggle)] = Shaped(@)]
  /\ UNCHANGED <<settings, asked, pwm_toggle, playing, pwm_current_channel, pwm_timer_down, high, wanted, calls, patient>>

\* the start of the timer if it is down,
StartTimer ==
  /\ pc = "begin" /\ pc' = "flip"
  /\ LET b == OtherBuffer(pwm_toggle)
     IN IF ~pwm_timer_down THEN UNCHANGED <<playing, high, pwm_timer_down>>
        ELSE /\ playing' = b
             /\ GpioOutputSet(table[b][1])
             /\ pwm_timer_down' = (Len(table[b]) = 1)
  /\ UNCHANGED <<settings, table, asked, pwm_toggle, pwm_current_channel, wanted, calls, patient>>

\* Mutant: without the flip.
FlipForgotten ==
  /\ pc = "flip" /\ pc' = "idle"
  /\ UNCHANGED <<settings, table, asked, wanted, pwm_toggle, playing, pwm_current_channel, pwm_timer_down, high, calls, patient>>

\* and the flip.
Flip ==
  /\ pc = "flip" /\ pc' = "idle"
  /\ pwm_toggle' = OtherBuffer(pwm_toggle)
  /\ ForgetIf(playing # pwm_toggle, pwm_toggle)
  /\ UNCHANGED <<settings, playing, pwm_current_channel, pwm_timer_down, high, wanted, calls, patient>>

(***************************************************************************)
(* pwm_tim1_intr_handler.  The last entry ends the period.                 *)
(***************************************************************************)
AtLast == pwm_current_channel >= Len(table[playing]) - 1

Edge ==
  /\ ~pwm_timer_down /\ ~AtLast
  /\ GpioOutputSet(table[playing][pwm_current_channel + 1])
  /\ pwm_current_channel' = pwm_current_channel + 1
  /\ UNCHANGED <<settings, table, asked, pwm_toggle, playing, pwm_timer_down, pc, wanted, calls, patient>>

\* A period is longer than what is left of pwm_start after it has
\* started the timer: that period ends when pwm_toggle has been flipped.
PeriodEnd ==
  /\ ~pwm_timer_down /\ AtLast
  /\ ~(patient /\ pc = "flip" /\ playing # pwm_toggle)
  /\ playing' = pwm_toggle
  /\ GpioOutputSet(Last(table[pwm_toggle]))
  /\ pwm_current_channel' = 0
  /\ pwm_timer_down' = (Len(table[pwm_toggle]) = 1)
  /\ ForgetIf(pc = "idle", OtherBuffer(pwm_toggle))
  /\ UNCHANGED <<settings, pwm_toggle, pc, wanted, calls, patient>>

PwmNext ==
  \/ \E p \in Pins : PwmAdd(p) \/ PwmDelete(p) \/ \E d \in Duties : PwmSetDuty(d, p)
  \/ \E f \in Freqs : PwmSetFreq(f)
  \/ Fill \/ Shape \/ StartTimer \/ Flip
  \/ Edge \/ PeriodEnd

\* A running timer fires, and pwm_start returns.
PwmFairness == WF_pwmVars(Edge \/ PeriodEnd) /\ WF_pwmVars(Shape \/ StartTimer \/ Flip)

PwmSpec == PwmInit /\ [][PwmNext]_pwmVars
FairPwmSpec == PwmSpec /\ PwmFairness

(***************************************************************************)
(* Properties.                                                             *)
(***************************************************************************)
\* The index of the interrupt stays inside the tables, whoever calls pwm_start when.
PwmTypeOK ==
  /\ ToSet(pwm_out_io_num) \subseteq Pins /\ Len(pwm_out_io_num) = Cardinality(ToSet(pwm_out_io_num))
  /\ Len(duty) = Len(pwm_out_io_num) /\ ToSet(duty) \subseteq 0..PWM_DEPTH
  /\ pwm_toggle \in 0..1 /\ playing \in 0..1
  /\ pwm_current_channel \in 0..PWM_CHANNEL /\ Len(table[playing]) \in 1..PWM_CHANNEL + 1
  /\ high \subseteq Pins

\* How long pin p is high in a period played from s.
Levels(s, p, i) ==
  LET changes == {k \in 1..i - 1 : p \in s[k].gpio_set \cup s[k].gpio_clear}
      latest == IF changes = {} THEN Len(s) ELSE Max(changes)
  IN p \in s[latest].gpio_set \ s[latest].gpio_clear
Sum(s, intervals) == MapThenSumSet(LAMBDA i : s[i].h_time, intervals)
HighTime(s, p) == Sum(s, {i \in DOMAIN s : Levels(s, p, i)})

\* As long as callers let the interrupt adopt a table before they build the next one,
\* the interrupt only ever plays tables that give every channel its share of the
\* period, also when pwm_start is at work on the other one; and when the timer is
\* down, the pins are where these tables want them.
PlaysAsAsked ==
  patient =>
    LET request == asked[playing]  s == table[playing]
    IN /\ Sum(s, DOMAIN s) = Ticks(request.period)
       /\ \A i \in DOMAIN request.pins :
            /\ HighTime(s, request.pins[i]) = Ticks((request.period * request.duty[i]) \div PWM_DEPTH)
            /\ pwm_timer_down => (request.pins[i] \in high <=> request.duty[i] = PWM_DEPTH)

\* And what pwm_start was asked for last is played in the end, and for ever.
LastDutyShown == patient => <>[](asked[playing] = wanted)
=============================================================================
