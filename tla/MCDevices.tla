----------------------------- MODULE MCDevices -----------------------------
(***************************************************************************)
(* Four parts of the device that share no state: the flash, the software   *)
(* PWM, the firmware upgrade and the parser of console commands.  In each  *)
(* behaviour one of them runs.                                             *)
(***************************************************************************)
EXTENDS FlashStore, Upgrade, SoftPwm

\* What sfmw writes: nothing, a byte, a word, and three words and a byte in several sectors.
MCTexts == {<<>>, <<11>>, <<11, 12, 11, 12>>, <<11, 12, 12, 11, 255, 12, 12, 11, 11, 12, 11, 12, 12>>}

\* Fcmd
VARIABLES line, meant, outcome

VARIABLE device \* the part that runs; never changes

-----------------------------------------------------------------------------
\* The prototypes are of the forms that fcmd_cfg.h has.
Prototypes ==
  {<<"void", " ", "md", "(", "int", " ", "addr", ",", " ", "int", " ", "cnt", ",", "int", " ", "size", ")">>,
   <<"int", " ", "*", "disp", " ", "(", "char", "*", "s", ",", " ", "int", ")">>,
   <<"void", " ", "restart", "(", "void", ")">>,
   <<"void", " ", "free", "(", "void", " ", "*", "p", ")">>,
   <<"bool", " ", "mode", "(", "uint8", " ", "m", ")">>,
   <<"int", " ", "printf", "(", "char", "*", "f", ",", "...", ")">>}

LineChars == {"a", ",", "(", "\"", " "}
Strings == UNION {[1..n -> LineChars] : n \in 0..5}

Int1 == [int |-> "1"]
Str(s) == [str |-> s]
Calls ==
  {[name |-> "disp", args |-> <<Str(s), Int1>>] : s \in Strings}
  \cup {[name |-> "mode", args |-> <<Str(s)>>] : s \in Strings}
  \cup {[name |-> "printf", args |-> <<Int1, Str(<<"a">>), Str(s), Int1>>] : s \in Strings}
  \cup {[name |-> "md", args |-> <<Int1, [int |-> "2"], Int1>>], [name |-> "restart", args |-> <<>>],
        [name |-> "free", args |-> <<Int1>>]}

RawLines == UNION {[1..n -> {"(", ",", ")", "\"", " ", "1", "mode"}] : n \in 0..4}
  \cup {<<"l">>, <<"h", "e", "l", "p">>, <<"addr">>}

Console == INSTANCE Fcmd WITH
  PARAMS_NUM <- 6, Numbers <- {"1", "2"}, CmdTbl <- Prototypes, TypedCalls <- Calls, OtherLines <- RawLines

-----------------------------------------------------------------------------
consoleVars == <<line, meant, outcome>>
AllVars == <<vars, pwmVars, upgradeVars, consoleVars, device>>

DevicesInit ==
  /\ device \in {"flash", "pwm", "upgrade", "console"}
  /\ Init /\ (device # "flash" => mirrored)
  /\ PwmInit /\ (device # "pwm" => patient)
  /\ UpgradeInit
  /\ device # "upgrade" => boot = NoSlots /\ \A s \in Slots : slots[s] = [file |-> s, whole |-> TRUE]
  /\ Console!Init

DevicesNext ==
  \/ device = "flash" /\ Next /\ UNCHANGED <<pwmVars, upgradeVars, consoleVars, device>>
  \/ device = "pwm" /\ PwmNext /\ UNCHANGED <<vars, upgradeVars, consoleVars, device>>
  \/ device = "upgrade" /\ UpgradeNext /\ UNCHANGED <<vars, pwmVars, consoleVars, device>>
  \/ device = "console" /\ Console!Next /\ UNCHANGED <<vars, pwmVars, upgradeVars, device>>

\* The fairness of SoftPwm.
PwmStep(A) == device = "pwm" /\ A /\ UNCHANGED <<vars, upgradeVars, consoleVars, device>>

DevicesSpec ==
  /\ DevicesInit /\ [][DevicesNext]_AllVars
  /\ WF_AllVars(PwmStep(Edge \/ PeriodEnd))
  /\ WF_AllVars(PwmStep(Shape \/ StartTimer \/ Flip))

-----------------------------------------------------------------------------
\* fcmd.c: a call typed with numbers and strings is made exactly as it was written.
MadeAsWritten == Console!MadeAsWritten
=============================================================================
