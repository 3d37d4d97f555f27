-------------------------------- MODULE Fcmd --------------------------------
(***************************************************************************)
(* The command parser of the console, app/fcmd/fcmd.c: a line such as      *)
(* md(1, 2, "a") is taken apart and the C function of that name is called. *)
(*                                                                         *)
(* A line is a sequence of characters; a run of characters that the parser *)
(* does not tell apart, a number or a name, is one "character" of the      *)
(* model.  Positions in a line are the pointers of the code.               *)
(***************************************************************************)
EXTENDS Naturals, Sequences, FiniteSets, FiniteSetsExt, SequencesExt

CONSTANTS
  PARAMS_NUM, \* arguments a call can have, 10 in the source
  Numbers,    \* characters that strtol takes for a number
  CmdTbl,     \* the prototypes of the functions that can be called
  TypedCalls,    \* calls as somebody means them: [name, args]
  OtherLines       \* other lines

VARIABLES
  line,    \* the line given to fcmd_exec
  meant,   \* the call it was written for, or None
  outcome  \* what fcmd_exec did with it

vars == <<line, meant, outcome>>

None == [name |-> "none", args |-> <<>>]
Key == {"(", ",", ")", "\""}
Blanks == {" "}

\* Characters between two positions.
Between(s, a, b) == SubSeq(s, a + 1, b - 1)
AllBlank(s) == \A k \in DOMAIN s : s[k] \in Blanks
SkipBlanks(s) == SubSeq(s, Min({k \in 1..Len(s) + 1 : AllBlank(SubSeq(s, 1, k - 1)) /\ (k > Len(s) \/ s[k] \notin Blanks)}), Len(s))
Trimmed(s) == SubSeq(s, 1, Max({0} \cup {k \in DOMAIN s : s[k] \notin Blanks}))

\* strpbrk, again and again: the positions of the separators.
Breaks(s, key) == SelectSeq([k \in DOMAIN s |-> k], LAMBDA k : s[k] \in key)

\* An argument: a number, or a pointer to the characters of a string.
Num(n) == [int |-> n]
Str(chars) == [str |-> chars]

\* strtol: what is no number counts as 0.
Strtol(s) == LET t == SkipBlanks(s) IN IF t # <<>> /\ t[1] \in Numbers THEN Num(t[1]) ELSE Num("0")

(***************************************************************************)
(* get_args.  Its result: "sys" for a line without separators, "err" for a *)
(* wrong format, "undefined" where it leaves its arrays, "hang" where its  *)
(* loop makes no progress, or "args" with the arguments.                   *)
(***************************************************************************)
Parsed(how, args) == [how |-> how, args |-> args]

RECURSIVE Quote(_, _, _), StringEnd(_, _, _), Scan(_, _, _, _)

\* The next quote from separator i on; behind the last one the array is not set.
Quote(s, pbrk, i) == IF i > Len(pbrk) \/ s[pbrk[i]] = "\"" THEN i ELSE Quote(s, pbrk, i + 1)

\* Mutant: the text between quote and comma is not looked at.
FirstComma(s, pbrk, i) ==
  LET close == Quote(s, pbrk, i + 1)
      i2 == close + 1
  IN IF close > Len(pbrk) THEN 0
     ELSE IF i2 >= Len(pbrk) \/ s[pbrk[i2]] = "," THEN close
     ELSE StringEnd(s, pbrk, i2)

\* The separator that ends the string: the quote in front of a comma, with nothing but
\* blanks between them, or in front of the last separator.  Other quotes belong to the
\* string.  0 if there is none.
StringEnd(s, pbrk, i) ==
  LET close == Quote(s, pbrk, i + 1)
      i2 == close + 1
  IN IF close > Len(pbrk) THEN 0
     ELSE IF i2 >= Len(pbrk) THEN close
     ELSE IF s[pbrk[i2]] # "," THEN StringEnd(s, pbrk, i2)
     ELSE IF AllBlank(Between(s, pbrk[close], pbrk[i2])) THEN close
     ELSE LET again == Quote(s, pbrk, i2 + 1)
          IN IF again > Len(pbrk) THEN 0 ELSE StringEnd(s, pbrk, again)

\* The loop over the separators: i is the one in front of the next argument.
Scan(s, pbrk, i, args) ==
  IF i >= Len(pbrk) THEN Parsed("args", args)
  ELSE IF Len(args) = PARAMS_NUM THEN Parsed("undefined", <<>>)
  ELSE LET next == s[pbrk[i + 1]]
           ready == i = 1 \/ s[pbrk[i]] = ","
           end == StringEnd(s, pbrk, i + 1)
       IN CASE ready /\ next = "\"" /\ end = 0 -> Parsed("undefined", <<>>)
            [] ready /\ next = "\"" /\ end # 0 ->
                 Scan(s, pbrk, end + 1, Append(args, Str(Between(s, pbrk[i + 1], pbrk[end]))))
            [] ready /\ (next = "," \/ (next = ")" /\ i > 1)) ->
                 Scan(s, pbrk, i + 1, Append(args, Strtol(SubSeq(s, pbrk[i] + 1, Len(s)))))
            [] OTHER -> Parsed("hang", <<>>)

GetArgs(s) ==
  LET all == Breaks(s, Key)
      pbrk == SubSeq(all, 1, Min({Len(all), PARAMS_NUM * 3}))
      brk_cnt == Len(pbrk)
      quotation_cnt == Cardinality({i \in 2..brk_cnt : s[pbrk[i]] = "\""})
      number(i) == Strtol(SubSeq(s, pbrk[i] + 1, Len(s)))
  IN CASE brk_cnt = 0 -> Parsed("sys", <<>>)
       [] brk_cnt = 1 -> Parsed("err", <<>>)
       [] brk_cnt > 1 /\ (s[pbrk[1]] # "(" \/ s[pbrk[brk_cnt]] # ")") -> Parsed("err", <<>>)
       [] brk_cnt = 2 /\ s[pbrk[1]] = "(" /\ s[pbrk[2]] = ")" ->
            Parsed("args", IF AllBlank(Between(s, pbrk[1], pbrk[2])) THEN <<>> ELSE <<number(1)>>)
       [] OTHER ->
            IF quotation_cnt % 2 # 0 THEN Parsed("err", <<>>)
            ELSE IF quotation_cnt > 0 THEN Scan(s, pbrk, 1, <<>>)
            \* The end of the array is one short of the arguments.
            ELSE IF brk_cnt > PARAMS_NUM THEN Parsed("undefined", <<>>)
            ELSE Parsed("args", [i \in 1..brk_cnt - 1 |-> number(i)])

(***************************************************************************)
(* The table: what a prototype says of a function.                         *)
(***************************************************************************)
SYSTEM_CMD == <<<<"l", "s">>, <<"a", "d", "d", "r">>, <<"h", "e", "l", "p">>>>

\* get_fname
GetFname(proto) == Trimmed(SubSeq(proto, 1, Min({k \in DOMAIN proto : proto[k] = "("}) - 1))
FunctionName(proto) == Last(GetFname(proto))

VARIADIC == 99

\* get_args_num
GetArgsNum(proto) ==
  LET pbrk == Breaks(proto, {"(", ",", ")"})
      rest == Range(SubSeq(proto, pbrk[1] + 1, Len(proto)))
  IN CASE Len(pbrk) = 2 ->
            IF "void" \in rest THEN IF "*" \in rest THEN 1 ELSE 0
            ELSE IF AllBlank(Between(proto, pbrk[1], pbrk[2])) THEN 0 ELSE 1
       [] Len(pbrk) = 3 /\ "..." \in rest -> VARIADIC
       [] OTHER -> Len(pbrk) - 1

(***************************************************************************)
(* fcmd_exec.                                                              *)
(***************************************************************************)
\* system_cmd_exe: ls and addr list the table, help shows how to call.
SystemCmdExe(n) == [do |-> "system", n |-> n, shows |-> IF n = 3 THEN {} ELSE {FunctionName(p) : p \in CmdTbl}]

Message(text) == [do |-> "err", text |-> text]

FcmdExec(cmd) ==
  LET pcmd == SkipBlanks(cmd)
      parsed == GetArgs(pcmd)
      \* An empty line is the beginning of every name.
      system == {n \in DOMAIN SYSTEM_CMD : IsPrefix(pcmd, SYSTEM_CMD[n])}
      name == Trimmed(SubSeq(pcmd, 1, Breaks(pcmd, Key)[1] - 1))
      protos == {p \in CmdTbl : name = <<FunctionName(p)>>}
      params == GetArgsNum(CHOOSE p \in protos : TRUE)
      cnt == Len(parsed.args)
  IN CASE parsed.how = "err" -> Message("fmt err")
       [] parsed.how \in {"hang", "undefined"} -> [do |-> parsed.how]
       [] parsed.how = "sys" ->
            IF system = {} THEN Message("system cmd err") ELSE SystemCmdExe(Min(system))
       [] parsed.how = "args" ->
            IF protos = {} THEN Message("not you wanted cmd")
            ELSE IF params \notin {VARIADIC, cnt} THEN Message("param err")
            ELSE IF cnt > PARAMS_NUM THEN Message("params num err")
            ELSE [do |-> "call", name |-> name[1], args |-> parsed.args]

(***************************************************************************)
(* The lines somebody may type for a call: a string argument in quotes, a  *)
(* number as it is, and blanks where C allows them.                        *)
(***************************************************************************)
Shown(arg) == IF "str" \in DOMAIN arg THEN <<"\"">> \o arg.str \o <<"\"">> ELSE <<arg.int>>
Typed(call, blank) ==
  blank \o <<call.name>> \o blank \o <<"(">> \o blank
    \o FlattenSeq([k \in DOMAIN call.args |->
         (IF k = 1 THEN <<>> ELSE blank \o <<",">> \o blank) \o Shown(call.args[k])])
    \o blank \o <<")">> \o blank

Init == line = <<>> /\ meant = None /\ outcome = [do |-> "nothing"]

\* uart.c hands over a line that was typed for a call, or any other.
Exec ==
  \/ \E call \in TypedCalls, blank \in {<<>>, <<" ">>} :
       meant' = call /\ line' = Typed(call, blank) /\ outcome' = FcmdExec(line')
  \/ \E l \in OtherLines : meant' = None /\ line' = l /\ outcome' = FcmdExec(line')

Next == outcome.do = "nothing" /\ Exec

Spec == Init /\ [][Next]_vars

(***************************************************************************)
(* Properties.                                                             *)
(***************************************************************************)
Outcomes == {"nothing", "err", "hang", "undefined", "system", "call"}

\* Whatever the line, a function is called with a number of arguments that its
\* prototype has.
TypeOK ==
  /\ outcome.do \in Outcomes
  /\ outcome.do = "call" =>
       \E p \in CmdTbl : FunctionName(p) = outcome.name /\ GetArgsNum(p) \in {VARIADIC, Len(outcome.args)}

\* The strings that need no more than the paired quotes the comment on get_args asks
\* for: no quote is followed by a comma, which ends the string, and no parenthesis is
\* quoted inside it, which makes the search for the end run over the last separator.
Takeable(str) ==
  LET quotes == {k \in DOMAIN str : str[k] = "\""}
      before(k) == Cardinality({q \in quotes : q < k})
  IN /\ Cardinality(quotes) % 2 = 0
     /\ \A q \in quotes, k \in DOMAIN str : q < k /\ str[k] = "," => ~AllBlank(Between(str, q, k))
     /\ \A k \in DOMAIN str : str[k] \in {"(", ")"} => before(k) % 2 = 0

\* What that comment promises: a call written with numbers and strings, with separators
\* and paired quotes inside the strings, and with blanks around each part, is made
\* exactly as it was written.
MadeAsWritten ==
  meant # None /\ (\A k \in DOMAIN meant.args : "str" \in DOMAIN meant.args[k] => Takeable(meant.args[k].str)) =>
    outcome = [do |-> "call", name |-> meant.name, args |-> meant.args]
=============================================================================
