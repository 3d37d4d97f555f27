-------------------------- MODULE UartConsoleProofs --------------------------
(***************************************************************************)
(* Proofs about UartConsole for any buffer, queue and FIFO size and any    *)
(* amount of input.                                                        *)
(***************************************************************************)
EXTENDS UartConsole, SequenceTheorems, TLAPS

-----------------------------------------------------------------------------
(* What the line buffer holds.                                             *)

Taken == Len(input) - Len(fifo)

\* Until a byte is lost the FIFO holds the last bytes typed.
FifoIsSuffix == ~overrun => \A i \in 1..Len(fifo) : fifo[i] = Taken + i

\* While a line is collected, the buffer below the index holds typed bytes ...
Collecting ==
  state = 0 => \A j \in 0..index - 1 : buf[j] \in 1..Len(input)

\* ... namely the last ones read from the FIFO, none of which ends a line.
CollectingRun ==
  (state = 0 /\ ~overrun) =>
    \A j \in 0..index - 1 : /\ buf[j] = Taken - index + 1 + j
                            /\ input[buf[j]] = "char"

\* The buffer holds a string of length k ...
StringOf(k) ==
  /\ buf[k] = 0
  /\ \A j \in 0..k - 1 : buf[j] \in 1..Len(input)

\* ... that is the end of a typed line.
RunOf(k) ==
  (~overrun /\ k > 0) =>
    /\ \A j \in 0..k - 1 : buf[j] = buf[0] + j /\ input[buf[j]] = "char"
    /\ IsEnd(buf[0] + k)

\* A line that waits for uart_recvTask is such a string.
LineReady ==
  state = 1 => /\ index = 0
               /\ \E k \in 0..UART_BUF_LENGTH - 1 : StringOf(k) /\ RunOf(k)

\* The inductive invariant: what is executed is known from the buffer, the
\* buffer from the FIFO, and that the buffer waits from the events.
IInv ==
  /\ TypeOK
  /\ EventsServed
  /\ FifoIsSuffix
  /\ Collecting
  /\ CollectingRun
  /\ LineReady
  /\ NoMixedCommands

-----------------------------------------------------------------------------
(* Events                                                                  *)

\* With at most one event of each kind a post is never refused.
LEMMA PostAccepted ==
  ASSUME TypeOK, AtMostOneEach, NEW e \in Events, ~Queued(e), Post(e)
  PROVE  queue' = Append(queue, e)
<1>1. queue \in Seq(Events) /\ Len(queue) \in Nat
  BY DEF TypeOK
<1>2. \A i \in 1..Len(queue) : queue[i] \in Events \ {e}
  BY <1>1 DEF Queued
<1>3. Len(queue) < 2
  <2>1. SUFFICES ASSUME Len(queue) >= 2 PROVE FALSE
    BY <1>1
  <2>2. queue[1] = queue[2]
    BY <1>1, <1>2, <2>1 DEF Events
  <2> QED
    BY <1>1, <2>1, <2>2 DEF AtMostOneEach
<1> QED
  BY <1>1, <1>3, ConsoleAssumption DEF Post

\* Appending an event that is not there keeps one of each.
LEMMA AppendEvent ==
  ASSUME TypeOK, AtMostOneEach, NEW e \in Events, ~Queued(e), queue' = Append(queue, e)
  PROVE  /\ queue' \in Seq(Events)
         /\ AtMostOneEach'
         /\ \A d : Queued(d)' <=> (Queued(d) \/ d = e)
<1>1. queue \in Seq(Events) /\ Len(queue) \in Nat
  BY DEF TypeOK
<1>2. /\ queue' \in Seq(Events)
      /\ Len(queue') = Len(queue) + 1
      /\ \A i \in 1..Len(queue) : queue'[i] = queue[i]
      /\ queue'[Len(queue) + 1] = e
  BY <1>1
<1> QED
  BY <1>1, <1>2 DEF AtMostOneEach, Queued

\* Taking the oldest event removes the only one of its kind.
LEMMA TakeEvent ==
  ASSUME TypeOK, AtMostOneEach, queue # <<>>, queue' = Tail(queue)
  PROVE  /\ queue' \in Seq(Events)
         /\ Head(queue) \in Events
         /\ AtMostOneEach'
         /\ Queued(Head(queue))
         /\ \A d : Queued(d)' <=> (Queued(d) /\ d # Head(queue))
<1>1. queue \in Seq(Events) /\ Len(queue) \in Nat \ {0}
  BY EmptySeq DEF TypeOK
<1>2. /\ queue' \in Seq(Events)
      /\ Len(queue') = Len(queue) - 1
      /\ \A i \in 1..Len(queue) - 1 : queue'[i] = queue[i + 1]
      /\ Head(queue) = queue[1]
  BY <1>1
<1>3. AtMostOneEach'
  BY <1>1, <1>2 DEF AtMostOneEach
<1>4. Queued(Head(queue)) /\ Head(queue) \in Events
  BY <1>1, <1>2 DEF Queued
<1>5. ASSUME NEW d PROVE Queued(d)' <=> (Queued(d) /\ d # Head(queue))
  <2>1. ASSUME Queued(d)' PROVE Queued(d) /\ d # Head(queue)
    BY <1>1, <1>2, <2>1 DEF Queued, AtMostOneEach
  <2>2. ASSUME Queued(d), d # Head(queue) PROVE Queued(d)'
    <3>1. PICK i \in 1..Len(queue) : queue[i] = d
      BY <2>2 DEF Queued
    <3>2. i - 1 \in 1..Len(queue') /\ queue'[i - 1] = d
      BY <1>1, <1>2, <2>2, <3>1
    <3> QED
      BY <3>2 DEF Queued
  <2> QED
    BY <2>1, <2>2
<1> QED
  BY <1>2, <1>3, <1>4, <1>5

-----------------------------------------------------------------------------
(* The initial state                                                       *)

LEMMA InitInv == ASSUME Init PROVE IInv
<1>1. TypeOK
  BY ConsoleAssumption, EmptySeq DEF Init, TypeOK
<1>2. EventsServed
  BY DEF Init, EventsServed, AtMostOneEach, NeverDeaf, NeverLocked, Queued
<1>3. FifoIsSuffix /\ Collecting /\ CollectingRun /\ LineReady
  BY DEF Init, FifoIsSuffix, Collecting, CollectingRun, LineReady
<1>4. NoMixedCommands
  BY DEF Init, NoMixedCommands
<1> QED
  BY <1>1, <1>2, <1>3, <1>4 DEF IInv

-----------------------------------------------------------------------------
(* Steps that leave the buffer alone                                       *)

\* Typing only extends the input, so what was a piece of a line stays one.
LEMMA InputGrows ==
  ASSUME TypeOK, NEW kind \in {"char", "eol"}, input' = Append(input, kind)
  PROVE  /\ input' \in Seq({"char", "eol"})
         /\ Len(input) \in Nat
         /\ Len(input') = Len(input) + 1
         /\ \A i \in 1..Len(input) : input'[i] = input[i]
         /\ \A e : IsEnd(e) => IsEnd(e)'
<1>1. input \in Seq({"char", "eol"}) /\ Len(input) \in Nat
  BY DEF TypeOK
<1>2. /\ input' \in Seq({"char", "eol"})
      /\ Len(input') = Len(input) + 1
      /\ \A i \in 1..Len(input) : input'[i] = input[i]
      /\ DOMAIN input = 1..Len(input)
      /\ DOMAIN input' = 1..Len(input) + 1
  BY <1>1
<1> QED
  BY <1>1, <1>2 DEF IsEnd

\* A piece of a line that has been typed.
LEMMA TailOfLineStays ==
  ASSUME TypeOK, NEW kind \in {"char", "eol"}, input' = Append(input, kind),
         NEW line \in Seq(Bytes), IsTailOfLine(line)
  PROVE  IsTailOfLine(line)'
<1>1. CASE line = <<>>
  BY <1>1 DEF IsTailOfLine
<1>2. CASE line # <<>>
  <2>1. Len(line) \in Nat \ {0} /\ \A i \in 1..Len(line) : line[i] \in Nat \ {0}
    <3>1. Len(line) \in Nat /\ Len(line) # 0
      BY <1>2, EmptySeq
    <3>2. \A i \in 1..Len(line) : line[i] \in Bytes
      BY <3>1
    <3> QED
      BY <3>1, <3>2, ConsoleAssumption DEF Bytes
  <2>2. /\ \A i \in 1..Len(line) : line[i] = line[1] + i - 1
        /\ \A i \in 1..Len(line) : input[line[i]] = "char"
        /\ IsEnd(line[Len(line)] + 1)
    BY <1>2 DEF IsTailOfLine
  <2>3. line[Len(line)] + 1 \in 1..Len(input)
    BY <2>2, InputGrows DEF IsEnd, TypeOK
  <2>4. \A i \in 1..Len(line) : line[i] \in 1..Len(input)
    <3>1. SUFFICES ASSUME NEW i \in 1..Len(line) PROVE line[i] \in 1..Len(input)
      OBVIOUS
    <3>2. line[i] = line[1] + i - 1 /\ line[Len(line)] = line[1] + Len(line) - 1
      BY <2>1, <2>2
    <3> QED
      BY <2>1, <2>3, <3>2, InputGrows
  <2>5. \A i \in 1..Len(line) : input'[line[i]] = "char"
    BY <2>2, <2>4, InputGrows
  <2>6. IsEnd(line[Len(line)] + 1)'
    BY <2>2, InputGrows
  <2> QED
    BY <2>2, <2>5, <2>6 DEF IsTailOfLine
<1> QED
  BY <1>1, <1>2

LEMMA TypeInv ==
  ASSUME IInv, NEW kind \in {"char", "eol"}, Type(kind)
  PROVE  IInv'
<1>h. TypeOK /\ input' = Append(input, kind)
  BY DEF IInv, Type
<1>a. /\ TypeOK /\ input' = Append(input, kind) /\ Len(input) < MaxTyped
      /\ input' \in Seq({"char", "eol"})
      /\ Len(input) \in Nat
      /\ Len(input') = Len(input) + 1
      /\ \A i \in 1..Len(input) : input'[i] = input[i]
      /\ \A e : IsEnd(e) => IsEnd(e)'
  BY <1>h, InputGrows DEF Type
<1>b. /\ UNCHANGED <<paced, rxEnabled, queue, handling, toRead, buf, index, state, executed>>
      /\ overrun => overrun'
  BY DEF Type, taskVars, lineVars
<1>c. /\ fifo \in Seq(1..Len(input)) /\ Len(fifo) \in Nat /\ Len(fifo) <= FIFO_LENGTH
      /\ FIFO_LENGTH \in Nat /\ MaxTyped \in Nat /\ Len(input) \in Nat
  BY <1>a, ConsoleAssumption DEF TypeOK
<1>d. \/ /\ Len(fifo) < FIFO_LENGTH
         /\ fifo' = Append(fifo, Len(input) + 1)
         /\ overrun' = overrun
      \/ overrun' = TRUE /\ fifo' = fifo
  BY DEF Type
<1>e. pending' \subseteq {"full", "tout"}
  BY <1>a DEF Type, TypeOK
<1>f. /\ fifo' \in Seq(1..Len(input) + 1)
      /\ Len(fifo') \in Nat /\ Len(fifo') <= FIFO_LENGTH /\ Len(fifo') >= Len(fifo)
      /\ ~overrun' => /\ Len(fifo') = Len(fifo) + 1
                      /\ \A i \in 1..Len(fifo) : fifo'[i] = fifo[i]
                      /\ fifo'[Len(fifo) + 1] = Len(input) + 1
  <2>1. fifo \in Seq(1..Len(input) + 1)
    <3>1. 1..Len(input) \subseteq 1..Len(input) + 1
      BY <1>c
    <3> QED
      BY <1>c, <3>1
  <2>2. CASE overrun' = TRUE /\ fifo' = fifo
    BY <1>c, <2>1, <2>2
  <2>3. CASE Len(fifo) < FIFO_LENGTH /\ fifo' = Append(fifo, Len(input) + 1)
    BY <1>c, <2>1, <2>3
  <2> QED
    BY <1>d, <2>2, <2>3
<1>k. ASSUME ~overrun'
      PROVE  /\ ~overrun
             /\ Len(fifo') = Len(fifo) + 1
             /\ \A i \in 1..Len(fifo) : fifo'[i] = fifo[i]
             /\ fifo'[Len(fifo) + 1] = Len(input) + 1
             /\ Taken' = Taken
  <2>1. ~overrun
    BY <1>b, <1>k, Zenon
  <2>2. /\ Len(fifo') = Len(fifo) + 1
        /\ \A i \in 1..Len(fifo) : fifo'[i] = fifo[i]
        /\ fifo'[Len(fifo) + 1] = Len(input) + 1
    BY <1>f, <1>k, Zenon
  <2>3. Taken' = Taken
    BY <1>a, <1>c, <2>2 DEF Taken
  <2> QED
    BY <2>1, <2>2, <2>3
<1>1. TypeOK'
  <2>1. overrun' \in BOOLEAN
    BY <1>a, <1>d DEF TypeOK
  <2>2. toRead' \in Nat /\ toRead' <= Len(fifo')
    BY <1>a, <1>b, <1>c, <1>f DEF TypeOK
  <2>3. input' \in Seq({"char", "eol"}) /\ Len(input') <= MaxTyped /\ fifo' \in Seq(1..Len(input'))
    BY <1>a, <1>c, <1>f
  <2> QED
    BY <1>a, <1>b, <1>e, <1>f, <2>1, <2>2, <2>3 DEF TypeOK
<1>2. EventsServed'
  BY <1>b DEF IInv, EventsServed, AtMostOneEach, NeverDeaf, NeverLocked, Queued
<1>3. FifoIsSuffix'
  <2>1. SUFFICES ASSUME ~overrun', NEW i \in 1..Len(fifo') PROVE fifo'[i] = Taken' + i
    BY DEF FifoIsSuffix
  <2>2. ~overrun /\ \A k \in 1..Len(fifo) : fifo[k] = Taken + k
    BY <1>b, <2>1 DEF IInv, FifoIsSuffix
  <2>3. CASE i \in 1..Len(fifo)
    BY <1>k, <2>1, <2>2, <2>3
  <2>4. CASE i = Len(fifo) + 1
    <3>1. fifo'[i] = Taken + i
      BY <1>c, <1>k, <2>1, <2>4 DEF Taken
    <3> QED
      BY <1>k, <2>1, <3>1
  <2> QED
    BY <1>c, <1>k, <2>1, <2>3, <2>4
<1>4. Collecting'
  BY <1>a, <1>b, <1>c DEF IInv, Collecting
<1>5. CollectingRun'
  <2>1. SUFFICES ASSUME state = 0, ~overrun', NEW j \in 0..index - 1
                 PROVE  buf[j] = Taken' - index + 1 + j /\ input'[buf[j]] = "char"
    BY <1>b DEF CollectingRun
  <2>2. ~overrun /\ Taken' = Taken
    BY <1>k, <2>1
  <2>3. buf[j] \in 1..Len(input) /\ buf[j] = Taken - index + 1 + j /\ input[buf[j]] = "char"
    BY <2>1, <2>2 DEF IInv, Collecting, CollectingRun
  <2> QED
    BY <1>a, <2>2, <2>3
<1>6. LineReady'
  <2>1. SUFFICES ASSUME state = 1
                 PROVE  /\ index = 0
                        /\ \E k \in 0..UART_BUF_LENGTH - 1 : (StringOf(k) /\ RunOf(k))'
    BY <1>b DEF LineReady
  <2>2. index = 0
    BY <2>1 DEF IInv, LineReady
  <2>3. PICK k \in 0..UART_BUF_LENGTH - 1 : StringOf(k) /\ RunOf(k)
    BY <2>1 DEF IInv, LineReady
  <2>4. StringOf(k)'
    BY <1>a, <1>b, <1>c, <2>3 DEF StringOf
  <2>5. RunOf(k)'
    <3>1. SUFFICES ASSUME ~overrun', k > 0
                   PROVE  /\ \A j \in 0..k - 1 : buf[j] = buf[0] + j /\ input'[buf[j]] = "char"
                          /\ IsEnd(buf[0] + k)'
      BY <1>b DEF RunOf
    <3>2. /\ \A j \in 0..k - 1 : buf[j] = buf[0] + j /\ input[buf[j]] = "char"
          /\ IsEnd(buf[0] + k)
      BY <1>b, <2>3, <3>1 DEF RunOf
    <3>3. \A j \in 0..k - 1 : buf[j] \in 1..Len(input)
      BY <2>3 DEF StringOf
    <3>4. IsEnd(buf[0] + k)'
      BY <1>a, <1>b, <3>2
    <3> QED
      BY <1>a, <3>2, <3>3, <3>4
  <2> QED
    BY <2>2, <2>4, <2>5
<1>7. NoMixedCommands'
  <2>1. SUFFICES ASSUME ~overrun', NEW i \in DOMAIN executed PROVE IsTailOfLine(executed[i])'
    BY <1>b DEF NoMixedCommands
  <2>2. IsTailOfLine(executed[i])
    BY <1>b, <2>1 DEF IInv, NoMixedCommands
  <2>3. executed[i] \in Seq(Bytes)
    BY <1>a, <2>1 DEF TypeOK
  <2>4. ASSUME NEW line \in Seq(Bytes), IsTailOfLine(line) PROVE IsTailOfLine(line)'
    BY <1>a, <2>4, TailOfLineStays
  <2> QED
    BY <1>b, <2>2, <2>3, <2>4 DEF IsTailOfLine
<1> QED
  BY <1>1, <1>2, <1>3, <1>4, <1>5, <1>6, <1>7 DEF IInv

\* A step that changes neither the input, the FIFO nor the buffer keeps
\* everything that is said about them.
LEMMA LinesUnchanged ==
  ASSUME IInv, UNCHANGED <<input, fifo, overrun, buf, index, state, executed>>
  PROVE  FifoIsSuffix' /\ Collecting' /\ CollectingRun' /\ LineReady' /\ NoMixedCommands'
<1>1. FifoIsSuffix'
  BY DEF IInv, FifoIsSuffix, Taken
<1>2. Collecting' /\ CollectingRun'
  BY DEF IInv, Collecting, CollectingRun, Taken
<1>3. LineReady'
  BY DEF IInv, LineReady, StringOf, RunOf, IsEnd
<1>4. NoMixedCommands'
  BY DEF IInv, NoMixedCommands, IsTailOfLine, IsEnd
<1> QED
  BY <1>1, <1>2, <1>3, <1>4

LEMMA TimeoutInv == ASSUME IInv, Timeout PROVE IInv'
<1>1. TypeOK'
  BY DEF IInv, TypeOK, Timeout, taskVars, lineVars
<1>2. EventsServed'
  BY DEF IInv, Timeout, taskVars, lineVars, EventsServed, AtMostOneEach, NeverDeaf,
         NeverLocked, Queued
<1>3. UNCHANGED <<input, fifo, overrun, buf, index, state, executed>>
  BY DEF Timeout, lineVars
<1> QED
  BY <1>1, <1>2, <1>3, LinesUnchanged DEF IInv

\* The interrupt: its event was not queued, because the interrupts were on.
LEMMA RxInterruptInv == ASSUME IInv, RxInterrupt PROVE IInv'
<1>a. TypeOK /\ EventsServed
  BY DEF IInv
<1>b. ~Queued("rx") /\ ~handling /\ "rx" \in Events /\ "line" # "rx"
  BY <1>a DEF RxInterrupt, EventsServed, NeverDeaf, Events
<1>c. queue' = Append(queue, "rx")
  BY <1>a, <1>b, PostAccepted DEF RxInterrupt, EventsServed
<1>d. /\ queue' \in Seq(Events)
      /\ AtMostOneEach'
      /\ \A d : Queued(d)' <=> (Queued(d) \/ d = "rx")
  BY <1>a, <1>b, <1>c, AppendEvent DEF EventsServed
<1>e. UNCHANGED <<paced, input, fifo, overrun, handling, toRead, buf, index, state, executed>>
  BY DEF RxInterrupt, lineVars
<1>1. TypeOK'
  BY <1>a, <1>d, <1>e DEF TypeOK, RxInterrupt
<1>2. EventsServed'
  <2>1. NeverDeaf'
    BY <1>d DEF RxInterrupt, NeverDeaf
  <2>2. NeverLocked'
    BY <1>a, <1>b, <1>d, <1>e DEF EventsServed, NeverLocked
  <2> QED
    BY <1>b, <1>d, <1>e, <2>1, <2>2 DEF EventsServed
<1> QED
  BY <1>1, <1>2, <1>e, LinesUnchanged DEF IInv

LEMMA TaskRxInv == ASSUME IInv, TaskRx PROVE IInv'
<1>a. TypeOK /\ EventsServed
  BY DEF IInv
<1>b. /\ queue' \in Seq(Events)
      /\ AtMostOneEach'
      /\ Queued("rx")
      /\ \A d : Queued(d)' <=> (Queued(d) /\ d # "rx")
  BY <1>a, TakeEvent DEF TaskRx, EventsServed
<1>e. UNCHANGED <<paced, input, fifo, overrun, pending, rxEnabled, buf, index, state, executed>>
  BY DEF TaskRx, hwVars, lineVars
<1>1. TypeOK'
  <2>1. toRead' \in Nat /\ toRead' <= Len(fifo') /\ handling' \in BOOLEAN
    BY <1>a, <1>e DEF TaskRx, TypeOK
  <2> QED
    BY <1>a, <1>b, <1>e, <2>1 DEF TypeOK
<1>2. EventsServed'
  <2>1. NeverDeaf'
    BY <1>a, <1>b, <1>e DEF TaskRx, NeverDeaf, EventsServed
  <2>2. NeverLocked'
    BY <1>a, <1>b, <1>e DEF EventsServed, NeverLocked
  <2> QED
    BY <1>b, <2>1, <2>2 DEF EventsServed
<1> QED
  BY <1>1, <1>2, <1>e, LinesUnchanged DEF IInv

LEMMA FinishRxInv == ASSUME IInv, FinishRx PROVE IInv'
<1>a. TypeOK /\ EventsServed
  BY DEF IInv
<1>e. UNCHANGED <<paced, input, fifo, overrun, queue, toRead, buf, index, state, executed>>
  BY DEF FinishRx, lineVars
<1>1. TypeOK'
  BY <1>a, <1>e DEF FinishRx, TypeOK
<1>2. EventsServed'
  <2>1. AtMostOneEach' /\ (\A d : Queued(d)' <=> Queued(d))
    BY <1>a, <1>e DEF EventsServed, AtMostOneEach, Queued
  <2>2. NeverDeaf'
    BY <1>a, <2>1 DEF FinishRx, NeverDeaf, EventsServed
  <2>3. NeverLocked'
    BY <1>a, <1>e, <2>1 DEF EventsServed, NeverLocked
  <2> QED
    BY <2>1, <2>2, <2>3 DEF EventsServed, FinishRx
<1> QED
  BY <1>1, <1>2, <1>e, LinesUnchanged DEF IInv

-----------------------------------------------------------------------------
(* Reading a byte                                                          *)

\* The oldest byte leaves the FIFO.
LEMMA FifoTail ==
  ASSUME TypeOK, toRead > 0, fifo' = Tail(fifo), UNCHANGED <<input, overrun>>
  PROVE  /\ Head(fifo) \in 1..Len(input)
         /\ fifo' \in Seq(1..Len(input))
         /\ Len(fifo) \in Nat /\ Len(fifo') = Len(fifo) - 1
         /\ Len(input) \in Nat
         /\ Taken' = Taken + 1
         /\ FifoIsSuffix => FifoIsSuffix' /\ (~overrun => Head(fifo) = Taken + 1)
<1>1. /\ fifo \in Seq(1..Len(input)) /\ Len(fifo) \in Nat \ {0} /\ Len(input) \in Nat
      /\ toRead <= Len(fifo)
  BY DEF TypeOK
<1>2. /\ fifo' \in Seq(1..Len(input))
      /\ Len(fifo') = Len(fifo) - 1
      /\ \A i \in 1..Len(fifo) - 1 : fifo'[i] = fifo[i + 1]
      /\ Head(fifo) = fifo[1]
  BY <1>1
<1>3. Taken' = Taken + 1
  BY <1>1, <1>2 DEF Taken
<1>4. ASSUME FifoIsSuffix, ~overrun PROVE Head(fifo) = Taken + 1
  BY <1>1, <1>2, <1>4 DEF FifoIsSuffix
<1>5. ASSUME FifoIsSuffix PROVE FifoIsSuffix'
  <2>1. SUFFICES ASSUME ~overrun, NEW i \in 1..Len(fifo) - 1 PROVE fifo'[i] = Taken' + i
    BY <1>2 DEF FifoIsSuffix
  <2>2. fifo[i + 1] = Taken + (i + 1)
    BY <1>1, <1>5, <2>1 DEF FifoIsSuffix
  <2>3. Taken \in Int
    BY <1>1 DEF Taken
  <2> QED
    BY <1>2, <1>3, <2>1, <2>2, <2>3
<1> QED
  BY <1>1, <1>2, <1>3, <1>4, <1>5

\* What every case of reading a byte has in common.
LEMMA ReadByteFrame ==
  ASSUME IInv, ReadByte
  PROVE  /\ TypeOK /\ EventsServed
         /\ UNCHANGED <<paced, input, overrun, pending, rxEnabled, handling, executed>>
         /\ handling /\ ~Queued("rx")
         /\ Head(fifo) \in 1..Len(input)
         /\ fifo' \in Seq(1..Len(input))
         /\ Len(fifo) \in Nat /\ Len(fifo') = Len(fifo) - 1 /\ Len(input) \in Nat
         /\ Len(fifo') <= FIFO_LENGTH
         /\ toRead' \in Nat /\ toRead' <= Len(fifo')
         /\ Taken \in Int /\ Taken' = Taken + 1
         /\ FifoIsSuffix'
         /\ ~overrun => Head(fifo) = Taken + 1
         /\ NoMixedCommands'
<1>1. /\ TypeOK /\ EventsServed
      /\ UNCHANGED <<paced, input, overrun, pending, rxEnabled, handling, executed>>
      /\ handling /\ ~Queued("rx")
      /\ toRead > 0 /\ fifo' = Tail(fifo) /\ toRead' = toRead - 1
      /\ FifoIsSuffix
  BY DEF IInv, ReadByte, EventsServed
<1>2. /\ Head(fifo) \in 1..Len(input)
      /\ fifo' \in Seq(1..Len(input))
      /\ Len(fifo) \in Nat /\ Len(fifo') = Len(fifo) - 1 /\ Len(input) \in Nat
      /\ Taken' = Taken + 1
      /\ FifoIsSuffix' /\ (~overrun => Head(fifo) = Taken + 1)
  BY <1>1, FifoTail
<1>3. toRead' \in Nat /\ toRead' <= Len(fifo') /\ Len(fifo') <= FIFO_LENGTH
  BY <1>1, <1>2, ConsoleAssumption DEF TypeOK
<1>4. Taken \in Int
  BY <1>2 DEF Taken
<1>5. NoMixedCommands'
  BY <1>1 DEF IInv, NoMixedCommands, IsTailOfLine, IsEnd
<1> QED
  BY <1>1, <1>2, <1>3, <1>4, <1>5

\* A terminator completes the line in the buffer.
LEMMA EndLineInv ==
  ASSUME IInv, ReadByte, state = 0, input[Head(fifo)] = "eol", EndLine
  PROVE  IInv'
<1>a. /\ TypeOK /\ EventsServed
      /\ UNCHANGED <<paced, input, overrun, pending, rxEnabled, handling, executed>>
      /\ handling /\ ~Queued("rx")
      /\ Head(fifo) \in 1..Len(input)
      /\ fifo' \in Seq(1..Len(input)) /\ Len(fifo') <= FIFO_LENGTH
      /\ Len(input) \in Nat
      /\ toRead' \in Nat /\ toRead' <= Len(fifo')
      /\ Taken \in Int /\ FifoIsSuffix' /\ NoMixedCommands'
      /\ ~overrun => Head(fifo) = Taken + 1
  BY ReadByteFrame
<1>b. ~Queued("line") /\ "line" \in Events /\ "line" # "rx"
  BY <1>a DEF EventsServed, NeverLocked, Events
<1>c. queue' = Append(queue, "line")
  BY <1>a, <1>b, PostAccepted DEF EndLine, EventsServed
<1>d. /\ queue' \in Seq(Events)
      /\ AtMostOneEach'
      /\ \A d : Queued(d)' <=> (Queued(d) \/ d = "line")
  BY <1>a, <1>b, <1>c, AppendEvent DEF EventsServed
<1>e. /\ index \in 0..UART_BUF_LENGTH - 1
      /\ buf \in [0..UART_BUF_LENGTH - 1 -> Nat]
      /\ buf' = [buf EXCEPT ![index] = 0] /\ state' = 1 /\ index' = 0
      /\ UART_BUF_LENGTH \in Nat \ {0}
  BY <1>a, ConsoleAssumption DEF TypeOK, EndLine
<1>f. buf'[index] = 0 /\ \A j \in 0..index - 1 : buf'[j] = buf[j]
  BY <1>e
<1>1. TypeOK'
  <2>1. buf' \in [0..UART_BUF_LENGTH - 1 -> Nat] /\ index' \in 0..UART_BUF_LENGTH - 1
        /\ state' \in {0, 1}
    BY <1>e
  <2> QED
    BY <1>a, <1>d, <2>1 DEF TypeOK
<1>2. EventsServed'
  <2>1. NeverDeaf'
    BY <1>a, <1>b, <1>d DEF EventsServed, NeverDeaf
  <2>2. NeverLocked'
    BY <1>d, <1>e DEF NeverLocked
  <2> QED
    BY <1>a, <1>b, <1>d, <2>1, <2>2 DEF EventsServed
<1>3. Collecting' /\ CollectingRun'
  BY <1>e DEF Collecting, CollectingRun
<1>4. LineReady'
  <2>1. PICK k \in 0..UART_BUF_LENGTH - 1 : k = index
    BY <1>e
  <2>2. StringOf(k)'
    <3>1. \A j \in 0..k - 1 : buf[j] \in 1..Len(input)
      BY <2>1 DEF IInv, Collecting
    <3> QED
      BY <1>a, <1>f, <2>1, <3>1 DEF StringOf
  <2>3. RunOf(k)'
    <3>1. SUFFICES ASSUME ~overrun, k > 0
                   PROVE  /\ \A j \in 0..k - 1 : /\ buf'[j] = buf'[0] + j
                                                 /\ input[buf'[j]] = "char"
                          /\ IsEnd(buf'[0] + k)
      BY <1>a DEF RunOf, IsEnd
    <3>2. \A j \in 0..k - 1 : /\ buf'[j] = Taken - k + 1 + j
                              /\ input[buf'[j]] = "char"
      BY <1>f, <2>1, <3>1 DEF IInv, CollectingRun
    <3>3. buf'[0] = Taken - k + 1
      BY <1>a, <3>1, <3>2
    <3>4. buf'[0] + k = Head(fifo)
      BY <1>a, <3>1, <3>3
    <3>5. IsEnd(Head(fifo))
      BY <1>a DEF IsEnd, TypeOK
    <3> QED
      BY <1>a, <3>2, <3>3, <3>4, <3>5
  <2> QED
    BY <1>e, <2>2, <2>3 DEF LineReady
<1> QED
  BY <1>1, <1>2, <1>3, <1>4, <1>a DEF IInv

\* The index goes round the buffer.
LEMMA NextIndex ==
  ASSUME NEW n \in Nat \ {0}, NEW i \in 0..n - 1
  PROVE  /\ (i + 1) % n \in 0..n - 1
         /\ (i + 1) % n = 0 \/ (i + 1) % n = i + 1
<1>1. ASSUME NEW k \in 0..n - 1 PROVE k % n = k
  OBVIOUS
<1>2. n % n = 0
  OBVIOUS
<1>3. i + 1 = n \/ i + 1 \in 0..n - 1
  OBVIOUS
<1> QED
  BY <1>1, <1>2, <1>3

\* Any other byte goes into the buffer behind the ones before it, or into an
\* empty one.
LEMMA PutCharInv ==
  ASSUME IInv, ReadByte, state = 0, input[Head(fifo)] = "char", PutChar(Head(fifo))
  PROVE  IInv'
<1>a. /\ TypeOK /\ EventsServed
      /\ UNCHANGED <<paced, input, overrun, pending, rxEnabled, handling, executed>>
      /\ Head(fifo) \in 1..Len(input)
      /\ fifo' \in Seq(1..Len(input)) /\ Len(fifo') <= FIFO_LENGTH
      /\ Len(input) \in Nat
      /\ toRead' \in Nat /\ toRead' <= Len(fifo')
      /\ Taken \in Int /\ Taken' = Taken + 1 /\ FifoIsSuffix' /\ NoMixedCommands'
      /\ ~overrun => Head(fifo) = Taken + 1
  BY ReadByteFrame
<1>e. /\ index \in 0..UART_BUF_LENGTH - 1
      /\ buf \in [0..UART_BUF_LENGTH - 1 -> Nat]
      /\ buf' = [buf EXCEPT ![index] = Head(fifo)]
      /\ state' = 0 /\ queue' = queue
      /\ index' = (index + 1) % UART_BUF_LENGTH
      /\ UART_BUF_LENGTH \in Nat \ {0}
  BY <1>a, ConsoleAssumption DEF TypeOK, PutChar
<1>f. buf'[index] = Head(fifo) /\ \A j \in 0..index - 1 : buf'[j] = buf[j]
  BY <1>e
<1>g. index' \in 0..UART_BUF_LENGTH - 1 /\ (index' = 0 \/ index' = index + 1)
  BY <1>e, NextIndex
<1>1. TypeOK'
  <2>1. buf' \in [0..UART_BUF_LENGTH - 1 -> Nat]
    BY <1>a, <1>e
  <2> QED
    BY <1>a, <1>e, <1>g, <2>1 DEF TypeOK
<1>2. EventsServed'
  BY <1>a, <1>e DEF IInv, EventsServed, AtMostOneEach, NeverDeaf, NeverLocked, Queued
<1>3. Collecting'
  <2>1. SUFFICES ASSUME NEW j \in 0..index' - 1 PROVE buf'[j] \in 1..Len(input)
    BY <1>a DEF Collecting
  <2>2. CASE j = index
    BY <1>a, <1>f, <2>2
  <2>3. CASE j \in 0..index - 1
    BY <1>f, <2>3 DEF IInv, Collecting
  <2> QED
    BY <1>e, <1>g, <2>1, <2>2, <2>3
<1>4. CollectingRun'
  <2>1. SUFFICES ASSUME ~overrun, NEW j \in 0..index' - 1
                 PROVE  buf'[j] = Taken' - index' + 1 + j /\ input[buf'[j]] = "char"
    BY <1>a DEF CollectingRun
  <2>2. index \in Nat /\ index' = index + 1 /\ j \in 0..index
    BY <1>e, <1>g, <2>1
  <2>3. CASE j = index
    <3>1. buf'[j] = Head(fifo) /\ Head(fifo) = Taken + 1
      BY <1>a, <1>f, <2>1, <2>3
    <3>2. Taken' - index' + 1 + j = Taken + 1
      BY <1>a, <2>2, <2>3
    <3> QED
      BY <3>1, <3>2
  <2>4. CASE j \in 0..index - 1
    <3>1. buf[j] = Taken - index + 1 + j /\ input[buf[j]] = "char"
      BY <2>1, <2>4 DEF IInv, CollectingRun
    <3>2. Taken' - index' + 1 + j = Taken - index + 1 + j
      BY <1>a, <2>2
    <3> QED
      BY <1>f, <2>4, <3>1, <3>2
  <2> QED
    BY <1>e, <2>2, <2>3, <2>4
<1>5. LineReady'
  BY <1>e DEF LineReady
<1> QED
  BY <1>1, <1>2, <1>3, <1>4, <1>5, <1>a DEF IInv

\* While a line waits the byte is dropped.
LEMMA DroppedInv ==
  ASSUME IInv, ReadByte, state # 0, UNCHANGED <<buf, index, state, queue>>
  PROVE  IInv'
<1>a. /\ TypeOK /\ EventsServed
      /\ UNCHANGED <<paced, input, overrun, pending, rxEnabled, handling, executed>>
      /\ fifo' \in Seq(1..Len(input)) /\ Len(fifo') <= FIFO_LENGTH
      /\ toRead' \in Nat /\ toRead' <= Len(fifo')
      /\ FifoIsSuffix' /\ NoMixedCommands'
  BY ReadByteFrame
<1>1. TypeOK'
  BY <1>a DEF TypeOK
<1>2. EventsServed'
  BY <1>a DEF EventsServed, AtMostOneEach, NeverDeaf, NeverLocked, Queued
<1>3. Collecting' /\ CollectingRun'
  BY DEF Collecting, CollectingRun
<1>4. LineReady'
  BY <1>a DEF IInv, LineReady, StringOf, RunOf, IsEnd
<1> QED
  BY <1>1, <1>2, <1>3, <1>4, <1>a DEF IInv

LEMMA ReadByteInv == ASSUME IInv, ReadByte PROVE IInv'
<1>1. CharCb(Head(fifo))
  BY DEF ReadByte
<1> QED
  BY <1>1, EndLineInv, PutCharInv, DroppedInv DEF CharCb

-----------------------------------------------------------------------------
(* Executing a line                                                        *)

\* There is only one way to read a string from the buffer.
LEMMA LineIs ==
  ASSUME TypeOK, NEW k \in 0..UART_BUF_LENGTH - 1, StringOf(k)
  PROVE  Line = [i \in 1..k |-> buf[i - 1]]
<1> DEFINE P(n) == buf[n] = 0 /\ \A j \in 0..n - 1 : buf[j] # 0
           end == CHOOSE n \in 0..UART_BUF_LENGTH - 1 : P(n)
<1>1. P(k)
  BY DEF StringOf, TypeOK
<1>2. end \in 0..UART_BUF_LENGTH - 1 /\ P(end)
  BY <1>1
<1>3. end = k
  <2> HIDE DEF end
  <2>1. end \in Nat /\ k \in Nat
    BY <1>2, ConsoleAssumption
  <2>2. CASE end < k
    BY <1>1, <1>2, <2>1, <2>2
  <2>3. CASE k < end
    BY <1>1, <1>2, <2>1, <2>3
  <2> QED
    BY <2>1, <2>2, <2>3
<1> QED
  BY <1>3 DEF Line

LEMMA TaskLineInv == ASSUME IInv, TaskLine PROVE IInv'
<1>a. TypeOK /\ EventsServed
  BY DEF IInv
<1>b. /\ queue' \in Seq(Events)
      /\ AtMostOneEach'
      /\ Queued("line")
      /\ \A d : Queued(d)' <=> (Queued(d) /\ d # "line")
  BY <1>a, TakeEvent DEF TaskLine, EventsServed
<1>c. state = 1 /\ index = 0
  BY <1>a, <1>b DEF IInv, EventsServed, NeverLocked, LineReady
<1>d. PICK k \in 0..UART_BUF_LENGTH - 1 : StringOf(k) /\ RunOf(k)
  BY <1>c DEF IInv, LineReady
<1>e. Line = [i \in 1..k |-> buf[i - 1]]
  BY <1>a, <1>d, LineIs
<1>f. /\ UNCHANGED <<paced, input, fifo, overrun, pending, rxEnabled, handling, toRead, buf, index>>
      /\ state' = 0 /\ executed' = Append(executed, Line)
  BY DEF TaskLine, hwVars
<1>g. Line \in Seq(Bytes) /\ Len(Line) = k
  <2>1. 1..Len(input) \subseteq Bytes
    BY <1>a, ConsoleAssumption DEF TypeOK, Bytes
  <2>2. \A i \in 1..k : buf[i - 1] \in Bytes
    BY <1>d, <2>1 DEF StringOf
  <2> QED
    BY <1>e, <2>2, ConsoleAssumption
<1>1. TypeOK'
  <2>1. executed' \in Seq(Seq(Bytes)) /\ state' \in {0, 1}
    BY <1>a, <1>f, <1>g DEF TypeOK
  <2> QED
    BY <1>a, <1>b, <1>f, <2>1 DEF TypeOK
<1>2. EventsServed'
  <2>1. NeverDeaf'
    BY <1>a, <1>b, <1>f DEF EventsServed, NeverDeaf
  <2>2. NeverLocked'
    BY <1>b, <1>f DEF NeverLocked
  <2> QED
    BY <1>a, <1>b, <1>f, <2>1, <2>2 DEF EventsServed
<1>3. FifoIsSuffix'
  BY <1>f DEF IInv, FifoIsSuffix, Taken
<1>4. Collecting' /\ CollectingRun' /\ LineReady'
  BY <1>c, <1>f DEF Collecting, CollectingRun, LineReady
<1>5. NoMixedCommands'
  <2>1. SUFFICES ASSUME ~overrun, NEW n \in DOMAIN executed' PROVE IsTailOfLine(executed'[n])
    BY <1>f DEF NoMixedCommands, IsTailOfLine, IsEnd
  <2>2. ASSUME k > 0 PROVE IsTailOfLine(Line)
    <3>1. /\ \A j \in 0..k - 1 : buf[j] = buf[0] + j /\ input[buf[j]] = "char"
          /\ IsEnd(buf[0] + k)
      BY <1>d, <2>1, <2>2 DEF RunOf
    <3>2. \A i \in 1..k : i - 1 \in 0..k - 1 /\ Line[i] = buf[i - 1]
      BY <1>e
    <3>3. buf[0] \in Nat
      BY <1>a, ConsoleAssumption DEF TypeOK
    <3>4. \A i \in 1..k : Line[i] = buf[0] + (i - 1) /\ input[Line[i]] = "char"
      BY <3>1, <3>2
    <3>5. Line[1] = buf[0] /\ Line[k] + 1 = buf[0] + k
      BY <2>2, <3>3, <3>4
    <3>6. \A i \in 1..k : Line[i] = Line[1] + i - 1
      BY <3>3, <3>4, <3>5
    <3> QED
      BY <1>g, <3>1, <3>4, <3>5, <3>6 DEF IsTailOfLine
  <2>3. ASSUME k = 0 PROVE IsTailOfLine(Line)
    BY <1>g, <2>3, EmptySeq DEF IsTailOfLine
  <2>4. executed \in Seq(Seq(Bytes)) /\ DOMAIN executed = 1..Len(executed) /\ Len(executed) \in Nat
    BY <1>a DEF TypeOK
  <2>5. /\ DOMAIN executed' = 1..Len(executed) + 1
        /\ \A i \in 1..Len(executed) : executed'[i] = executed[i]
        /\ executed'[Len(executed) + 1] = Line
    BY <1>f, <1>g, <2>4
  <2>6. CASE n = Len(executed) + 1
    BY <2>2, <2>3, <2>5, <2>6
  <2>7. CASE n \in 1..Len(executed)
    BY <2>1, <2>4, <2>5, <2>7 DEF IInv, NoMixedCommands
  <2> QED
    BY <2>1, <2>4, <2>5, <2>6, <2>7
<1> QED
  BY <1>1, <1>2, <1>3, <1>4, <1>5 DEF IInv

-----------------------------------------------------------------------------
(* Commands in the order typed.  Every byte goes from the FIFO through the *)
(* buffer to an executed line or is dropped on the way; none overtakes     *)
(* another, even when the hardware loses bytes.                            *)

Done(b) == \E n \in DOMAIN executed : \E m \in DOMAIN executed[n] : executed[n][m] = b

\* The buffer holds a string of length k.
Ends(k) == buf[k] = 0 /\ \A j \in 0..k - 1 : buf[j] # 0

\* A byte of the line being collected, or of the line that waits.
Waiting(b) ==
  \/ state = 0 /\ \E j \in 0..index - 1 : buf[j] = b
  \/ state = 1 /\ \E k \in 0..UART_BUF_LENGTH - 1 :
                    Ends(k) /\ \E j \in 0..k - 1 : buf[j] = b

InFifo(b) == \E i \in DOMAIN fifo : fifo[i] = b

FifoRises == \A i, j \in DOMAIN fifo : i < j => fifo[i] < fifo[j]

NoneOvertakes ==
  \A b, c \in Bytes :
    /\ Done(b) => b <= Len(input)
    /\ Done(b) /\ (Waiting(c) \/ InFifo(c)) => b < c
    /\ Waiting(b) /\ InFifo(c) => b < c

OrderInv ==
  /\ FifoRises
  /\ NoneOvertakes
  /\ ExecutedInOrder

\* The step facts that OrderInv rests on: no byte appears where it was not.
LEMMA OrderKept ==
  ASSUME OrderInv, FifoRises', executed' = executed,
         Len(input) \in Nat, Len(input') \in Nat, Len(input) <= Len(input'),
         \A b : Waiting(b)' => Waiting(b),
         \A b : InFifo(b)' => InFifo(b)
  PROVE  OrderInv'
<1>1. \A b : Done(b)' <=> Done(b)
  BY DEF Done
<1>2. ExecutedInOrder'
  BY DEF OrderInv, ExecutedInOrder
<1>3. NoneOvertakes'
  <2>1. SUFFICES ASSUME NEW b \in Bytes, NEW c \in Bytes
                 PROVE  /\ Done(b)' => b <= Len(input')
                        /\ Done(b)' /\ (Waiting(c)' \/ InFifo(c)') => b < c
                        /\ Waiting(b)' /\ InFifo(c)' => b < c
    BY DEF NoneOvertakes
  <2>2. /\ Done(b) => b <= Len(input)
        /\ Done(b) /\ (Waiting(c) \/ InFifo(c)) => b < c
        /\ Waiting(b) /\ InFifo(c) => b < c
    BY DEF OrderInv, NoneOvertakes
  <2>3. Done(b)' => b <= Len(input')
    <3>1. Done(b) => b <= Len(input')
      BY <2>2 DEF Bytes
    <3> QED
      BY <1>1, <3>1, Zenon
  <2> QED
    BY <1>1, <2>2, <2>3, Zenon
<1> QED
  BY <1>2, <1>3 DEF OrderInv

\* Reading a byte takes the smallest position out of the FIFO.
LEMMA FifoTaken ==
  ASSUME TypeOK, OrderInv, fifo # <<>>, fifo' = Tail(fifo)
  PROVE  /\ FifoRises'
         /\ InFifo(Head(fifo))
         /\ \A b : InFifo(b)' => InFifo(b) /\ Head(fifo) < b
<1>1. fifo \in Seq(1..Len(input)) /\ Len(fifo) \in Nat \ {0}
  BY EmptySeq DEF TypeOK
<1>2. /\ Head(fifo) = fifo[1]
      /\ DOMAIN fifo = 1..Len(fifo)
      /\ DOMAIN fifo' = 1..Len(fifo) - 1
      /\ \A i \in 1..Len(fifo) - 1 : fifo'[i] = fifo[i + 1]
  BY <1>1
<1>3. FifoRises
  BY DEF OrderInv
<1>4. FifoRises'
  BY <1>1, <1>2, <1>3 DEF FifoRises
<1>5. InFifo(Head(fifo))
  BY <1>1, <1>2 DEF InFifo
<1>6. ASSUME NEW b, InFifo(b)' PROVE InFifo(b) /\ Head(fifo) < b
  <2>1. PICK i \in 1..Len(fifo) - 1 : fifo'[i] = b
    BY <1>2, <1>6 DEF InFifo
  <2>2. i + 1 \in 1..Len(fifo) /\ fifo[i + 1] = b /\ 1 < i + 1
    BY <1>1, <1>2, <2>1
  <2>3. fifo[1] < fifo[i + 1]
    BY <1>1, <1>2, <1>3, <2>2 DEF FifoRises
  <2> QED
    BY <1>2, <2>2, <2>3 DEF InFifo
<1> QED
  BY <1>4, <1>5, <1>6

\* What is collected or waits has been typed.
LEMMA WaitingTyped ==
  ASSUME IInv, NEW b, Waiting(b)
  PROVE  b \in 1..Len(input)
<1>1. CASE state = 0 /\ \E j \in 0..index - 1 : buf[j] = b
  BY <1>1 DEF IInv, Collecting
<1>2. CASE state = 1 /\ \E k \in 0..UART_BUF_LENGTH - 1 :
                          Ends(k) /\ \E j \in 0..k - 1 : buf[j] = b
  <2>1. PICK k \in 0..UART_BUF_LENGTH - 1 : Ends(k) /\ \E j \in 0..k - 1 : buf[j] = b
    BY <1>2
  <2>2. PICK n \in 0..UART_BUF_LENGTH - 1 : StringOf(n)
    BY <1>2 DEF IInv, LineReady
  <2>3. ~(n < k)
    BY <2>1, <2>2, ConsoleAssumption DEF Ends, StringOf
  <2>4. \A j \in 0..k - 1 : j \in 0..n - 1
    BY <2>3, ConsoleAssumption
  <2> QED
    BY <2>1, <2>2, <2>4 DEF StringOf
<1> QED
  BY <1>1, <1>2 DEF Waiting

\* A byte typed goes behind all others.
LEMMA TypeOrder ==
  ASSUME IInv, OrderInv, NEW kind \in {"char", "eol"}, Type(kind)
  PROVE  OrderInv'
<1>a. /\ TypeOK /\ input' = Append(input, kind) /\ Len(input) < MaxTyped
      /\ UNCHANGED <<buf, index, state, executed>>
  BY DEF IInv, Type, lineVars
<1>b. Len(input) \in Nat /\ Len(input') = Len(input) + 1
  BY <1>a DEF TypeOK
<1>c. /\ fifo \in Seq(1..Len(input)) /\ Len(fifo) \in Nat
      /\ DOMAIN fifo = 1..Len(fifo) /\ \A i \in DOMAIN fifo : fifo[i] \in 1..Len(input)
  BY <1>a DEF TypeOK
<1>d. fifo' = fifo \/ fifo' = Append(fifo, Len(input) + 1)
  BY DEF Type
<1>e. \A b : (Waiting(b)' <=> Waiting(b)) /\ (Done(b)' <=> Done(b))
  BY <1>a DEF Waiting, Ends, Done
<1>1. CASE fifo' = fifo
  <2>1. FifoRises' /\ \A b : InFifo(b)' => InFifo(b)
    BY <1>1 DEF OrderInv, FifoRises, InFifo
  <2> QED
    BY <1>a, <1>b, <1>e, <2>1, OrderKept
<1>2. CASE fifo' = Append(fifo, Len(input) + 1)
  <2>1. /\ DOMAIN fifo' = 1..Len(fifo) + 1
        /\ \A i \in 1..Len(fifo) : fifo'[i] = fifo[i]
        /\ fifo'[Len(fifo) + 1] = Len(input) + 1
    BY <1>2, <1>c
  <2>2. \A b : InFifo(b)' => InFifo(b) \/ b = Len(input) + 1
    BY <1>c, <2>1 DEF InFifo
  <2>3. FifoRises'
    <3>1. SUFFICES ASSUME NEW i \in 1..Len(fifo) + 1, NEW j \in 1..Len(fifo) + 1, i < j
                   PROVE  fifo'[i] < fifo'[j]
      BY <2>1 DEF FifoRises
    <3>2. i \in 1..Len(fifo) /\ fifo'[i] = fifo[i] /\ fifo[i] \in 1..Len(input)
      BY <1>c, <2>1, <3>1
    <3>3. CASE j = Len(fifo) + 1
      BY <1>b, <2>1, <3>2, <3>3
    <3>4. CASE j \in 1..Len(fifo)
      BY <1>c, <2>1, <3>1, <3>2, <3>4 DEF OrderInv, FifoRises
    <3> QED
      BY <1>c, <3>1, <3>3, <3>4
  <2>4. NoneOvertakes'
    <3>1. SUFFICES ASSUME NEW b \in Bytes, NEW c \in Bytes
                   PROVE  /\ Done(b)' => b <= Len(input')
                          /\ Done(b)' /\ (Waiting(c)' \/ InFifo(c)') => b < c
                          /\ Waiting(b)' /\ InFifo(c)' => b < c
      BY DEF NoneOvertakes
    <3>2. /\ Done(b) => b <= Len(input)
          /\ Done(b) /\ (Waiting(c) \/ InFifo(c)) => b < c
          /\ Waiting(b) /\ InFifo(c) => b < c
      BY DEF OrderInv, NoneOvertakes
    <3>3. Waiting(b) => b <= Len(input)
      BY <1>b, WaitingTyped
    <3>4. (Done(b) \/ Waiting(b)) /\ c = Len(input) + 1 => b < c
      BY <1>b, <3>2, <3>3 DEF Bytes
    <3>5. Done(b)' => b <= Len(input')
      <4>1. Done(b) => b <= Len(input')
        BY <1>b, <3>2 DEF Bytes
      <4> QED
        BY <1>e, <4>1, Zenon
    <3>6. InFifo(c)' => InFifo(c) \/ c = Len(input) + 1
      BY <2>2
    <3> QED
      BY <1>e, <3>2, <3>4, <3>5, <3>6, Zenon
  <2>5. ExecutedInOrder'
    BY <1>a DEF OrderInv, ExecutedInOrder
  <2> QED
    BY <2>3, <2>4, <2>5 DEF OrderInv
<1> QED
  BY <1>1, <1>2, <1>d

\* What is read from the FIFO is collected, completes the line or is dropped.
LEMMA ReadByteOrder == ASSUME IInv, OrderInv, ReadByte PROVE OrderInv'
<1>a. /\ TypeOK /\ input' = input /\ executed' = executed
      /\ Head(fifo) \in 1..Len(input) /\ Len(input) \in Nat
      /\ Len(fifo) \in Nat /\ Len(fifo) > 0
  BY ReadByteFrame DEF ReadByte, TypeOK
<1>b. fifo # <<>> /\ fifo' = Tail(fifo)
  BY <1>a DEF ReadByte
<1>c. /\ FifoRises'
      /\ InFifo(Head(fifo))
      /\ \A b : InFifo(b)' => InFifo(b) /\ Head(fifo) < b
  BY <1>a, <1>b, FifoTaken
<1>d. /\ index \in 0..UART_BUF_LENGTH - 1
      /\ buf \in [0..UART_BUF_LENGTH - 1 -> Nat]
      /\ UART_BUF_LENGTH \in Nat \ {0}
  BY <1>a, ConsoleAssumption DEF TypeOK
<1>1. CASE state = 0 /\ EndLine
  <2>1. /\ state' = 1 /\ buf'[index] = 0
        /\ \A j \in 0..index - 1 : buf'[j] = buf[j]
        /\ \A j \in 0..index - 1 : buf[j] # 0
    BY <1>1, <1>d DEF EndLine, IInv, Collecting
  <2>2. ASSUME NEW b, Waiting(b)' PROVE Waiting(b)
    <3>1. PICK k \in 0..UART_BUF_LENGTH - 1 : Ends(k)' /\ \E j \in 0..k - 1 : buf'[j] = b
      BY <2>1, <2>2 DEF Waiting
    <3>2. ~(index < k)
      BY <1>d, <2>1, <3>1 DEF Ends
    <3>3. \A j \in 0..k - 1 : j \in 0..index - 1
      BY <1>d, <3>2
    <3> QED
      BY <1>1, <2>1, <3>1, <3>3 DEF Waiting
  <2> QED
    BY <1>a, <1>c, <2>2, OrderKept
<1>2. CASE state = 0 /\ PutChar(Head(fifo))
  <2>1. /\ state' = 0 /\ buf'[index] = Head(fifo)
        /\ \A j \in 0..index - 1 : buf'[j] = buf[j]
        /\ index' = 0 \/ index' = index + 1
    <3>1. (index + 1) % UART_BUF_LENGTH = 0 \/ (index + 1) % UART_BUF_LENGTH = index + 1
      BY <1>d, NextIndex
    <3> QED
      BY <1>2, <1>d, <3>1 DEF PutChar
  <2>2. ASSUME NEW b, Waiting(b)' PROVE Waiting(b) \/ b = Head(fifo)
    <3>1. PICK j \in 0..index' - 1 : buf'[j] = b
      BY <2>1, <2>2 DEF Waiting
    <3>2. j = index \/ j \in 0..index - 1
      BY <1>d, <2>1, <3>1
    <3> QED
      BY <1>2, <2>1, <3>1, <3>2 DEF Waiting
  <2>3. \A b : Done(b)' <=> Done(b)
    BY <1>a DEF Done
  <2>4. NoneOvertakes'
    <3>1. SUFFICES ASSUME NEW b \in Bytes, NEW c \in Bytes
                   PROVE  /\ Done(b)' => b <= Len(input')
                          /\ Done(b)' /\ (Waiting(c)' \/ InFifo(c)') => b < c
                          /\ Waiting(b)' /\ InFifo(c)' => b < c
      BY DEF NoneOvertakes
    <3>2. /\ Done(b) => b <= Len(input)
          /\ Done(b) /\ (Waiting(c) \/ InFifo(c)) => b < c
          /\ Waiting(b) /\ InFifo(c) => b < c
      BY DEF OrderInv, NoneOvertakes
    <3>3. /\ Waiting(b)' => Waiting(b) \/ b = Head(fifo)
          /\ Waiting(c)' => Waiting(c) \/ c = Head(fifo)
          /\ InFifo(c)' => InFifo(c) /\ Head(fifo) < c
      BY <1>c, <2>2
    <3> QED
      BY <1>a, <1>c, <2>3, <3>2, <3>3, Zenon
  <2>5. ExecutedInOrder'
    BY <1>a DEF OrderInv, ExecutedInOrder
  <2> QED
    BY <1>c, <2>4, <2>5 DEF OrderInv
<1>3. CASE state # 0 /\ UNCHANGED <<buf, index, state, queue>>
  <2>1. \A b : Waiting(b)' => Waiting(b)
    BY <1>3 DEF Waiting, Ends
  <2> QED
    BY <1>a, <1>c, <2>1, OrderKept
<1> QED
  BY <1>1, <1>2, <1>3 DEF ReadByte, CharCb

\* The line executed is the one that waited.
LEMMA TaskLineOrder == ASSUME IInv, OrderInv, TaskLine PROVE OrderInv'
<1>a. TypeOK /\ EventsServed
  BY DEF IInv
<1>b. Queued("line")
  BY <1>a, TakeEvent DEF TaskLine, EventsServed
<1>c. state = 1 /\ index = 0
  BY <1>a, <1>b DEF IInv, EventsServed, NeverLocked, LineReady
<1>d. PICK k \in 0..UART_BUF_LENGTH - 1 : StringOf(k)
  BY <1>c DEF IInv, LineReady
<1>e. Line = [i \in 1..k |-> buf[i - 1]]
  BY <1>a, <1>d, LineIs
<1>f. /\ UNCHANGED <<input, fifo, buf, index>>
      /\ state' = 0 /\ executed' = Append(executed, Line)
  BY DEF TaskLine, hwVars
<1>g. /\ Line \in Seq(Nat) /\ Len(Line) = k
      /\ \A i \in 1..k : Line[i] \in 1..Len(input) /\ Line[i] \in Bytes
  <2>1. 1..Len(input) \subseteq Bytes
    BY <1>a, ConsoleAssumption DEF TypeOK, Bytes
  <2>2. \A i \in 1..k : buf[i - 1] \in 1..Len(input) /\ buf[i - 1] \in Nat
    BY <1>d DEF StringOf
  <2> QED
    BY <1>e, <2>1, <2>2, ConsoleAssumption
<1>h. \A i \in 1..k : Waiting(Line[i])
  <2>1. Ends(k)
    BY <1>d DEF StringOf, Ends
  <2> QED
    BY <1>c, <1>e, <2>1 DEF Waiting
<1>i. /\ executed \in Seq(Seq(Bytes)) /\ Len(executed) \in Nat
      /\ DOMAIN executed = 1..Len(executed)
      /\ DOMAIN executed' = 1..Len(executed) + 1
      /\ \A i \in 1..Len(executed) : executed'[i] = executed[i]
      /\ executed'[Len(executed) + 1] = Line
  BY <1>a, <1>f, <1>g DEF TypeOK
<1>1. FifoRises'
  BY <1>f DEF OrderInv, FifoRises
<1>2. ASSUME NEW b, Done(b)' PROVE Done(b) \/ (Waiting(b) /\ b \in 1..Len(input))
  <2>1. PICK n \in DOMAIN executed' : \E m \in DOMAIN executed'[n] : executed'[n][m] = b
    BY <1>2 DEF Done
  <2>2. CASE n \in 1..Len(executed)
    BY <1>i, <2>1, <2>2 DEF Done
  <2>3. CASE n = Len(executed) + 1
    <3>1. PICK m \in DOMAIN Line : Line[m] = b
      BY <1>i, <2>1, <2>3
    <3>2. m \in 1..k
      BY <1>e
    <3> QED
      BY <1>g, <1>h, <3>1, <3>2
  <2> QED
    BY <1>i, <2>1, <2>2, <2>3
<1>3. NoneOvertakes'
  <2>1. SUFFICES ASSUME NEW b \in Bytes, NEW c \in Bytes
                 PROVE  /\ Done(b)' => b <= Len(input')
                        /\ Done(b)' /\ (Waiting(c)' \/ InFifo(c)') => b < c
                        /\ Waiting(b)' /\ InFifo(c)' => b < c
    BY DEF NoneOvertakes
  <2>2. /\ Done(b) => b <= Len(input)
        /\ Done(b) /\ (Waiting(c) \/ InFifo(c)) => b < c
        /\ Waiting(b) /\ InFifo(c) => b < c
    BY DEF OrderInv, NoneOvertakes
  <2>3. ~Waiting(b)' /\ ~Waiting(c)'
    BY <1>c, <1>f DEF Waiting
  <2>4. InFifo(c)' => InFifo(c)
    BY <1>f DEF InFifo
  <2>5. Done(b)' => b <= Len(input')
    BY <1>2, <1>f, <2>2
  <2> QED
    BY <1>2, <2>2, <2>3, <2>4, <2>5, Zenon
<1>4. ExecutedInOrder'
  <2>1. SUFFICES ASSUME NEW i \in DOMAIN executed', NEW j \in DOMAIN executed',
                        i < j, executed'[i] # <<>>, executed'[j] # <<>>
                 PROVE  executed'[i][Len(executed'[i])] < executed'[j][1]
    BY DEF ExecutedInOrder
  <2>2. i \in 1..Len(executed) /\ executed'[i] = executed[i] /\ executed[i] \in Seq(Bytes)
    BY <1>i, <2>1
  <2>3. CASE j \in 1..Len(executed)
    BY <1>i, <2>1, <2>2, <2>3 DEF OrderInv, ExecutedInOrder
  <2>4. CASE j = Len(executed) + 1
    <3>1. k \in Nat /\ k > 0
      BY <1>g, <1>i, <2>1, <2>4, EmptySeq, ConsoleAssumption
    <3>2. Line[1] \in Bytes /\ Waiting(Line[1])
      BY <1>g, <1>h, <3>1
    <3>3. Len(executed[i]) \in 1..Len(executed[i]) /\ DOMAIN executed[i] = 1..Len(executed[i])
      BY <2>1, <2>2, EmptySeq
    <3>4. executed[i][Len(executed[i])] \in Bytes /\ Done(executed[i][Len(executed[i])])
      BY <1>i, <2>2, <3>3 DEF Done
    <3> QED
      BY <1>i, <2>2, <2>4, <3>2, <3>4 DEF OrderInv, NoneOvertakes
  <2> QED
    BY <1>i, <2>1, <2>3, <2>4
<1> QED
  BY <1>1, <1>3, <1>4 DEF OrderInv

LEMMA NextOrder == ASSUME IInv, OrderInv, [Next]_vars PROVE OrderInv'
<1>1. ASSUME UNCHANGED <<input, fifo, buf, index, state, executed>> PROVE OrderInv'
  <2>1. FifoRises' /\ (\A b : InFifo(b)' => InFifo(b)) /\ (\A b : Waiting(b)' => Waiting(b))
    BY <1>1 DEF OrderInv, FifoRises, InFifo, Waiting, Ends
  <2>2. Len(input) \in Nat
    BY DEF IInv, TypeOK
  <2> QED
    BY <1>1, <2>1, <2>2, OrderKept
<1>2. CASE Timeout
  BY <1>1, <1>2 DEF Timeout, lineVars
<1>3. CASE RxInterrupt
  BY <1>1, <1>3 DEF RxInterrupt, lineVars
<1>4. CASE TaskRx
  BY <1>1, <1>4 DEF TaskRx, hwVars, lineVars
<1>5. CASE FinishRx
  BY <1>1, <1>5 DEF FinishRx, lineVars
<1>6. CASE UNCHANGED vars
  BY <1>1, <1>6 DEF vars, hwVars, lineVars
<1> QED
  BY <1>2, <1>3, <1>4, <1>5, <1>6, TypeOrder, ReadByteOrder, TaskLineOrder DEF Next

-----------------------------------------------------------------------------
(* A typist who waits.                                                     *)

\* e is the last terminator typed, or 0 before the first.
LastEnd(e) ==
  /\ e = 0 \/ input[e] = "eol"
  /\ \A k \in e + 1..Len(input) : input[k] = "char"

\* A line may begin after the byte at p.
StartsAfter(p) == p = 0 \/ IsEnd(p)

\* Every line typed fits in the buffer with its NUL.
ShortLines ==
  \A p \in 0..Len(input) :
    p + UART_BUF_LENGTH <= Len(input)
      => \E k \in p + 1..p + UART_BUF_LENGTH : input[k] = "eol"

\* Behind a terminator in the FIFO there are only terminators.
OneLineComing ==
  \A i, j \in DOMAIN fifo : (i < j /\ input[fifo[i]] = "eol") => input[fifo[j]] = "eol"

\* What is collected began with its line; while a line waits it is whole, and
\* there is nothing behind it to be dropped but terminators.
LineFromStart ==
  /\ state = 0 => StartsAfter(Taken - index)
  /\ state = 1 => /\ StartsAfter(Taken)
                  /\ \A i \in DOMAIN fifo : input[fifo[i]] = "eol"
                  /\ \A k \in 1..UART_BUF_LENGTH - 1 : Ends(k) => StartsAfter(buf[0] - 1)

WaitInv ==
  /\ \E e \in 0..Len(input) : LastEnd(e)
  /\ paced => /\ ~overrun
              /\ ShortLines
              /\ OneLineComing
              /\ LineFromStart
  /\ WaitedLinesWhole

\* The end that LineSoFar counts from is the only one.
LEMMA LineSoFarIs ==
  ASSUME TypeOK, NEW e \in 0..Len(input), LastEnd(e)
  PROVE  LineSoFar = Len(input) - e
<1> DEFINE P(n) == /\ n = 0 \/ input[n] = "eol"
                   /\ \A k \in n + 1..Len(input) : input[k] = "char"
           last == CHOOSE n \in 0..Len(input) : P(n)
<1>1. Len(input) \in Nat
  BY DEF TypeOK
<1>2. P(e)
  BY DEF LastEnd
<1>3. last \in 0..Len(input) /\ P(last)
  BY <1>2
<1>4. last = e
  <2> HIDE DEF last
  <2>1. CASE last < e
    <3>1. e # 0 /\ input[e] = "eol"
      BY <1>1, <1>2, <1>3, <2>1
    <3>2. e \in last + 1..Len(input)
      BY <1>1, <1>3, <2>1
    <3> QED
      BY <1>3, <3>1, <3>2
  <2>2. CASE e < last
    <3>1. last # 0 /\ input[last] = "eol"
      BY <1>1, <1>3, <2>2
    <3>2. last \in e + 1..Len(input)
      BY <1>1, <1>3, <2>2
    <3> QED
      BY <1>2, <3>1, <3>2
  <2> QED
    BY <1>1, <1>3, <2>1, <2>2
<1> QED
  BY <1>4 DEF LineSoFar

\* The FIFO of a typist who waits.
LEMMA PacedFifo ==
  ASSUME IInv, ~overrun
  PROVE  /\ Len(input) \in Nat /\ Len(fifo) \in Nat /\ DOMAIN fifo = 1..Len(fifo)
         /\ Taken \in 0..Len(input)
         /\ \A i \in 1..Len(fifo) : fifo[i] = Taken + i /\ fifo[i] \in 1..Len(input)
<1>1. /\ Len(input) \in Nat /\ Len(fifo) \in Nat /\ DOMAIN fifo = 1..Len(fifo)
      /\ \A i \in 1..Len(fifo) : fifo[i] \in 1..Len(input)
  BY DEF IInv, TypeOK
<1>2. \A i \in 1..Len(fifo) : fifo[i] = Taken + i
  BY DEF IInv, FifoIsSuffix
<1>3. Taken \in Int /\ Taken <= Len(input)
  BY <1>1 DEF Taken
<1>4. Taken >= 0
  <2>1. CASE Len(fifo) = 0
    BY <1>1, <2>1 DEF Taken
  <2>2. CASE Len(fifo) > 0
    BY <1>1, <1>2, <1>3, <2>2
  <2> QED
    BY <1>1, <2>1, <2>2
<1> QED
  BY <1>1, <1>2, <1>3, <1>4

\* What a waiting typist may type: after a line is begun it is not interrupted,
\* and a new one is begun only when nothing is on its way.
LEMMA MayTypeChar ==
  ASSUME IInv, paced, MayType("char"), NEW e \in 0..Len(input), LastEnd(e)
  PROVE  /\ Len(input) - e + 1 < UART_BUF_LENGTH
         /\ \/ e < Len(input) /\ input[Len(input)] = "char"
            \/ Quiet
<1>1. LineSoFar = Len(input) - e /\ Len(input) \in Nat
  BY LineSoFarIs DEF IInv, TypeOK
<1>2. LineSoFar + 1 < UART_BUF_LENGTH /\ (LineSoFar = 0 => Quiet)
  BY DEF MayType
<1>3. CASE e = Len(input)
  BY <1>1, <1>2, <1>3
<1>4. CASE e < Len(input)
  <2>1. Len(input) \in e + 1..Len(input)
    BY <1>1, <1>4
  <2> QED
    BY <1>1, <1>2, <1>4, <2>1 DEF LastEnd
<1> QED
  BY <1>1, <1>3, <1>4

LEMMA LastEndStays ==
  ASSUME TypeOK, NEW kind \in {"char", "eol"}, input' = Append(input, kind),
         \E e \in 0..Len(input) : LastEnd(e)
  PROVE  \E e \in 0..Len(input') : LastEnd(e)'
<1>1. /\ Len(input) \in Nat /\ Len(input') = Len(input) + 1
      /\ \A i \in 1..Len(input) : input'[i] = input[i]
      /\ input'[Len(input) + 1] = kind
  BY DEF TypeOK
<1>2. CASE kind = "eol"
  <2>1. PICK e \in 0..Len(input') : e = Len(input) + 1
    BY <1>1
  <2>2. LastEnd(e)'
    BY <1>1, <1>2, <2>1 DEF LastEnd
  <2> QED
    BY <2>2
<1>3. CASE kind = "char"
  <2>1. PICK e \in 0..Len(input) : LastEnd(e)
    OBVIOUS
  <2>2. e = 0 \/ input'[e] = "eol"
    BY <1>1, <2>1 DEF LastEnd
  <2>3. \A k \in e + 1..Len(input) + 1 : input'[k] = "char"
    BY <1>1, <1>3, <2>1 DEF LastEnd
  <2> QED
    BY <1>1, <2>2, <2>3 DEF LastEnd
<1> QED
  BY <1>2, <1>3

LEMMA TypeWait ==
  ASSUME IInv, WaitInv, NEW kind \in {"char", "eol"}, Type(kind)
  PROVE  WaitInv'
<1>a. /\ TypeOK /\ input' = Append(input, kind) /\ MayType(kind)
      /\ UNCHANGED <<paced, buf, index, state, queue, executed>>
      /\ UART_BUF_LENGTH \in Nat \ {0}
  BY ConsoleAssumption DEF IInv, Type, taskVars, lineVars
<1>b. /\ Len(input) \in Nat /\ Len(input') = Len(input) + 1
      /\ \A i \in 1..Len(input) : input'[i] = input[i]
      /\ input'[Len(input) + 1] = kind
      /\ \A e : IsEnd(e) => IsEnd(e)'
  BY <1>a, InputGrows DEF TypeOK
<1>c. \A p : StartsAfter(p) => StartsAfter(p)'
  BY <1>b DEF StartsAfter
<1>1. \E e \in 0..Len(input') : LastEnd(e)'
  BY <1>a, LastEndStays DEF WaitInv
<1>2. CASE ~paced
  BY <1>1, <1>2, <1>a DEF WaitInv, WaitedLinesWhole
<1>3. CASE paced
  <2>1. /\ ~overrun /\ ShortLines /\ OneLineComing /\ LineFromStart /\ WaitedLinesWhole
        /\ Len(fifo) < FIFO_LENGTH
    BY <1>3, <1>a DEF WaitInv, MayType
  <2>2. /\ Len(fifo) \in Nat /\ DOMAIN fifo = 1..Len(fifo)
        /\ Taken \in 0..Len(input)
        /\ \A i \in 1..Len(fifo) : fifo[i] = Taken + i /\ fifo[i] \in 1..Len(input)
        /\ Len(input) - Len(fifo) = Taken
    BY <2>1, PacedFifo DEF Taken
  <2>3. ~overrun' /\ fifo' = Append(fifo, Len(input) + 1)
    BY <2>1 DEF Type
  <2>4. /\ DOMAIN fifo' = 1..Len(fifo) + 1 /\ Len(fifo') = Len(fifo) + 1
        /\ \A i \in 1..Len(fifo) : fifo'[i] = fifo[i] /\ input'[fifo'[i]] = input[fifo[i]]
        /\ fifo'[Len(fifo) + 1] = Len(input) + 1
        /\ input'[fifo'[Len(fifo) + 1]] = kind
        /\ Taken' = Taken
    <3>1. /\ DOMAIN fifo' = 1..Len(fifo) + 1 /\ Len(fifo') = Len(fifo) + 1
          /\ \A i \in 1..Len(fifo) : fifo'[i] = fifo[i]
          /\ fifo'[Len(fifo) + 1] = Len(input) + 1
      BY <1>a, <2>2, <2>3 DEF TypeOK
    <3>2. Taken' = Taken
      BY <1>b, <2>2, <3>1 DEF Taken
    <3> QED
      BY <1>b, <2>2, <3>1, <3>2
  <2>5. PICK e \in 0..Len(input) : LastEnd(e)
    BY DEF WaitInv
  <2>6. ASSUME kind = "char"
        PROVE  /\ Len(input) - e + 1 < UART_BUF_LENGTH
               /\ \/ e < Len(input) /\ input[Len(input)] = "char"
                  \/ Quiet
    BY <1>3, <1>a, <2>5, <2>6, MayTypeChar
  <2>7. ASSUME kind = "char", Len(fifo) > 0 PROVE input[fifo[Len(fifo)]] = "char"
    <3>1. fifo[Len(fifo)] = Len(input) /\ fifo # <<>>
      BY <1>b, <2>2, <2>7, EmptySeq
    <3> QED
      BY <2>6, <2>7, <3>1 DEF Quiet
  <2>8. ShortLines'
    <3>1. SUFFICES ASSUME NEW p \in 0..Len(input) + 1, p + UART_BUF_LENGTH <= Len(input) + 1
                   PROVE  \E k \in p + 1..p + UART_BUF_LENGTH : input'[k] = "eol"
      BY <1>b DEF ShortLines
    <3>2. CASE p + UART_BUF_LENGTH <= Len(input)
      <4>1. p \in 0..Len(input)
        BY <1>a, <1>b, <3>2
      <4>2. PICK k \in p + 1..p + UART_BUF_LENGTH : input[k] = "eol"
        BY <2>1, <3>2, <4>1 DEF ShortLines
      <4>3. k \in 1..Len(input)
        BY <1>a, <1>b, <3>2, <4>1, <4>2
      <4> QED
        BY <1>b, <4>2, <4>3
    <3>3. CASE p + UART_BUF_LENGTH = Len(input) + 1
      <4>1. CASE kind = "eol"
        <5>1. Len(input) + 1 \in p + 1..p + UART_BUF_LENGTH
          BY <1>a, <1>b, <3>3
        <5> QED
          BY <1>b, <4>1, <5>1
      <4>2. CASE kind = "char"
        <5>1. e > p /\ e \in p + 1..p + UART_BUF_LENGTH /\ e \in 1..Len(input)
          BY <1>a, <1>b, <2>5, <2>6, <3>3, <4>2
        <5>2. input[e] = "eol"
          BY <2>5, <5>1 DEF LastEnd
        <5> QED
          BY <1>b, <5>1, <5>2
      <4> QED
        BY <4>1, <4>2
    <3> QED
      BY <1>a, <1>b, <3>1, <3>2, <3>3
  <2>9. OneLineComing'
    <3>1. SUFFICES ASSUME NEW i \in 1..Len(fifo) + 1, NEW j \in 1..Len(fifo) + 1,
                          i < j, input'[fifo'[i]] = "eol"
                   PROVE  input'[fifo'[j]] = "eol"
      BY <2>4 DEF OneLineComing
    <3>2. i \in 1..Len(fifo) /\ input[fifo[i]] = "eol"
      BY <2>2, <2>4, <3>1
    <3>3. CASE j \in 1..Len(fifo)
      BY <2>1, <2>2, <2>4, <3>1, <3>2, <3>3 DEF OneLineComing
    <3>4. CASE j = Len(fifo) + 1
      <4>1. SUFFICES ASSUME kind = "char" PROVE FALSE
        BY <2>4, <3>4
      <4>2. Len(fifo) \in 1..Len(fifo) /\ Len(fifo) > 0
        BY <2>2, <3>2
      <4>3. input[fifo[Len(fifo)]] = "eol"
        BY <2>1, <2>2, <3>2, <4>2 DEF OneLineComing
      <4> QED
        BY <2>7, <4>1, <4>2, <4>3
    <3> QED
      BY <2>2, <3>3, <3>4
  <2>10. LineFromStart'
    <3>1. state = 0 => StartsAfter(Taken - index)'
      BY <1>a, <1>c, <2>1, <2>4 DEF LineFromStart, StartsAfter
    <3>2. ASSUME state = 1
          PROVE  /\ StartsAfter(Taken)'
                 /\ \A i \in DOMAIN fifo' : input'[fifo'[i]] = "eol"
                 /\ \A k \in 1..UART_BUF_LENGTH - 1 : Ends(k)' => StartsAfter(buf[0] - 1)'
      <4>1. /\ StartsAfter(Taken)
            /\ \A i \in DOMAIN fifo : input[fifo[i]] = "eol"
            /\ \A k \in 1..UART_BUF_LENGTH - 1 : Ends(k) => StartsAfter(buf[0] - 1)
        BY <2>1, <3>2 DEF LineFromStart
      <4>2. kind = "eol"
        <5>1. SUFFICES ASSUME kind = "char" PROVE FALSE
          OBVIOUS
        <5>2. ~Quiet
          BY <3>2, <1>a DEF IInv, EventsServed, NeverLocked, Queued, Quiet
        <5>3. e < Len(input) /\ input[Len(input)] = "char"
          BY <2>6, <5>1, <5>2
        <5>4. CASE Len(fifo) > 0
          BY <2>2, <2>7, <4>1, <5>1, <5>4
        <5>5. CASE Len(fifo) = 0
          <6>1. Taken = Len(input) /\ Taken # 0
            BY <1>b, <2>2, <2>5, <5>3, <5>5
          <6> QED
            BY <4>1, <5>3, <6>1 DEF StartsAfter, IsEnd
        <5> QED
          BY <2>2, <5>4, <5>5
      <4>3. StartsAfter(Taken)'
        BY <1>c, <2>4, <4>1 DEF StartsAfter
      <4>4. \A i \in DOMAIN fifo' : input'[fifo'[i]] = "eol"
        BY <2>2, <2>4, <4>1, <4>2
      <4>5. \A k \in 1..UART_BUF_LENGTH - 1 : Ends(k)' => StartsAfter(buf[0] - 1)'
        BY <1>a, <1>c, <4>1 DEF Ends, StartsAfter
      <4> QED
        BY <4>3, <4>4, <4>5
    <3> QED
      BY <1>a, <3>1, <3>2 DEF LineFromStart
  <2>11. WaitedLinesWhole'
    <3>1. SUFFICES ASSUME NEW i \in DOMAIN executed PROVE IsWhole(executed[i])'
      BY <1>a DEF WaitedLinesWhole
    <3>2. executed[i] \in Seq(Bytes) /\ IsWhole(executed[i])
      BY <1>3, <1>a, <2>1 DEF TypeOK, WaitedLinesWhole
    <3>3. ASSUME NEW line \in Seq(Bytes), IsWhole(line) PROVE IsWhole(line)'
      BY <1>a, <1>b, <3>3, TailOfLineStays DEF IsWhole
    <3> QED
      BY <1>a, <3>2, <3>3 DEF IsWhole
  <2> QED
    BY <1>1, <2>3, <2>8, <2>9, <2>10, <2>11 DEF WaitInv
<1> QED
  BY <1>2, <1>3

\* Reading a byte: what a waiting typist has on the way.
LEMMA ReadByteWait == ASSUME IInv, WaitInv, ReadByte PROVE WaitInv'
<1>a. /\ TypeOK /\ fifo' = Tail(fifo)
      /\ UNCHANGED <<paced, input, overrun, executed>>
      /\ Head(fifo) \in 1..Len(input)
      /\ Len(input) \in Nat /\ Len(fifo) \in Nat /\ Len(fifo) > 0
      /\ Taken' = Taken + 1
      /\ ~overrun => Head(fifo) = Taken + 1
  BY ReadByteFrame DEF ReadByte, TypeOK
<1>b. /\ index \in 0..UART_BUF_LENGTH - 1
      /\ buf \in [0..UART_BUF_LENGTH - 1 -> Nat]
      /\ UART_BUF_LENGTH \in Nat \ {0}
      /\ input \in Seq({"char", "eol"}) /\ DOMAIN input = 1..Len(input)
  BY <1>a, ConsoleAssumption DEF TypeOK
<1>c. /\ \E e \in 0..Len(input') : LastEnd(e)'
      /\ WaitedLinesWhole'
  BY <1>a DEF WaitInv, LastEnd, WaitedLinesWhole, IsWhole, IsTailOfLine, IsEnd
<1>1. SUFFICES ASSUME paced PROVE (~overrun /\ ShortLines /\ OneLineComing /\ LineFromStart)'
  BY <1>a, <1>c DEF WaitInv
<1>2. ~overrun /\ ShortLines /\ OneLineComing /\ LineFromStart
  BY <1>1 DEF WaitInv
<1>3. /\ ~overrun' /\ ShortLines'
  BY <1>2, <1>a DEF ShortLines
<1>4. /\ Taken \in 0..Len(input)
      /\ DOMAIN fifo = 1..Len(fifo) /\ DOMAIN fifo' = 1..Len(fifo) - 1
      /\ \A i \in 1..Len(fifo) - 1 : fifo'[i] = fifo[i + 1]
      /\ fifo[1] = Taken + 1 /\ Head(fifo) = Taken + 1
  BY <1>2, <1>a, PacedFifo DEF TypeOK
<1>5. OneLineComing'
  BY <1>2, <1>4, <1>a DEF OneLineComing
<1>6. input[Taken + 1] = "eol" => StartsAfter(Taken)'
  BY <1>a, <1>b, <1>4 DEF StartsAfter, IsEnd
<1>7. CASE state = 0 /\ input[Head(fifo)] = "eol" /\ EndLine
  <2>1. /\ state' = 1 /\ buf'[index] = 0
        /\ \A j \in 0..index - 1 : buf'[j] = buf[j]
    BY <1>7, <1>b DEF EndLine
  <2>2. \A i \in DOMAIN fifo' : input'[fifo'[i]] = "eol"
    <3>1. SUFFICES ASSUME NEW i \in 1..Len(fifo) - 1 PROVE input[fifo[i + 1]] = "eol"
      BY <1>a, <1>4
    <3>2. 1 \in DOMAIN fifo /\ i + 1 \in DOMAIN fifo /\ 1 < i + 1
      BY <1>a, <1>4
    <3> QED
      BY <1>2, <1>4, <1>7, <3>2 DEF OneLineComing
  <2>3. ASSUME NEW k \in 1..UART_BUF_LENGTH - 1, Ends(k)' PROVE StartsAfter(buf'[0] - 1)
    <3>1. ~(index < k)
      BY <1>b, <2>1, <2>3 DEF Ends
    <3>2. 0 \in 0..index - 1
      BY <1>b, <3>1
    <3>3. buf'[0] = Taken - index + 1
      BY <1>2, <1>7, <1>4, <1>b, <2>1, <3>2 DEF IInv, CollectingRun
    <3>4. buf'[0] - 1 = Taken - index
      BY <1>4, <1>b, <3>3
    <3> QED
      BY <1>2, <1>7, <3>4 DEF LineFromStart
  <2>4. StartsAfter(Taken)'
    BY <1>4, <1>6, <1>7
  <2>5. LineFromStart'
    BY <1>a, <2>1, <2>2, <2>3, <2>4 DEF LineFromStart, StartsAfter, IsEnd
  <2> QED
    BY <1>3, <1>5, <2>5
<1>8. CASE state = 0 /\ input[Head(fifo)] = "char" /\ PutChar(Head(fifo))
  <2> DEFINE p == Taken - index
  <2>1. \A j \in 0..index - 1 : /\ buf[j] = p + 1 + j
                                /\ buf[j] \in 1..Len(input)
                                /\ input[buf[j]] = "char"
    BY <1>2, <1>8 DEF IInv, CollectingRun, Collecting
  <2>2. p \in 0..Len(input)
    <3>1. CASE index = 0
      BY <1>4, <3>1
    <3>2. CASE index > 0
      <4>1. 0 \in 0..index - 1
        BY <1>b, <3>2
      <4>2. buf[0] = p + 1 + 0 /\ buf[0] \in 1..Len(input)
        BY <2>1, <4>1
      <4> QED
        BY <1>4, <1>a, <1>b, <4>2
    <3> QED
      BY <1>b, <3>1, <3>2
  <2>3. index + 1 < UART_BUF_LENGTH
    <3>1. SUFFICES ASSUME index + 1 = UART_BUF_LENGTH PROVE FALSE
      BY <1>b
    <3>2. p + UART_BUF_LENGTH = Taken + 1 /\ Taken + 1 <= Len(input)
      BY <1>a, <1>b, <1>4, <3>1
    <3>3. PICK k \in p + 1..Taken + 1 : input[k] = "eol"
      BY <1>2, <2>2, <3>2 DEF ShortLines
    <3>4. k # Taken + 1
      BY <1>4, <1>8, <3>3
    <3>5. k - p - 1 \in 0..index - 1 /\ p + 1 + (k - p - 1) = k
      BY <1>4, <1>b, <2>2, <3>3, <3>4
    <3>6. input[k] = "char"
      BY <2>1, <3>5
    <3> QED
      BY <3>3, <3>6
  <2>4. state' = 0 /\ index' = index + 1
    <3>1. \A n \in 0..UART_BUF_LENGTH - 1 : n % UART_BUF_LENGTH = n
      BY <1>b
    <3>2. (index + 1) % UART_BUF_LENGTH = index + 1
      BY <1>b, <2>3, <3>1
    <3> QED
      BY <1>8, <3>2 DEF PutChar
  <2>5. Taken' - index' = Taken - index
    BY <1>a, <1>b, <1>4, <2>4
  <2>6. StartsAfter(Taken - index)'
    BY <1>2, <1>8, <1>a, <2>5 DEF LineFromStart, StartsAfter, IsEnd
  <2>7. LineFromStart'
    BY <2>4, <2>6 DEF LineFromStart
  <2> QED
    BY <1>3, <1>5, <2>7
<1>9. CASE state # 0 /\ UNCHANGED <<buf, index, state, queue>>
  <2>1. state = 1
    BY <1>9, <1>a DEF TypeOK
  <2>2. \A i \in DOMAIN fifo : input[fifo[i]] = "eol"
    BY <1>2, <2>1 DEF LineFromStart
  <2>3. input[Taken + 1] = "eol" /\ \A i \in DOMAIN fifo' : input'[fifo'[i]] = "eol"
    BY <1>4, <1>a, <2>2
  <2>4. \A k \in 1..UART_BUF_LENGTH - 1 : Ends(k)' => StartsAfter(buf[0] - 1)'
    BY <1>2, <1>9, <1>a, <2>1 DEF LineFromStart, Ends, StartsAfter, IsEnd
  <2>5. LineFromStart'
    BY <1>6, <1>9, <2>1, <2>3, <2>4 DEF LineFromStart
  <2> QED
    BY <1>3, <1>5, <2>5
<1> QED
  BY <1>7, <1>8, <1>9 DEF ReadByte, CharCb

\* The waiting line is whole when it is executed.
LEMMA TaskLineWait == ASSUME IInv, WaitInv, TaskLine PROVE WaitInv'
<1>a. TypeOK /\ EventsServed
  BY DEF IInv
<1>b. Queued("line")
  BY <1>a, TakeEvent DEF TaskLine, EventsServed
<1>c. state = 1 /\ index = 0
  BY <1>a, <1>b DEF IInv, EventsServed, NeverLocked, LineReady
<1>d. PICK k \in 0..UART_BUF_LENGTH - 1 : StringOf(k)
  BY <1>c DEF IInv, LineReady
<1>e. Line = [i \in 1..k |-> buf[i - 1]] /\ Line \in Seq(Nat) /\ Len(Line) = k
  <2>1. \A i \in 1..k : buf[i - 1] \in Nat
    BY <1>d DEF StringOf
  <2>2. Line = [i \in 1..k |-> buf[i - 1]]
    BY <1>a, <1>d, LineIs
  <2> QED
    BY <2>1, <2>2, ConsoleAssumption
<1>f. /\ UNCHANGED <<paced, input, fifo, overrun, buf, index>>
      /\ state' = 0 /\ executed' = Append(executed, Line)
  BY DEF TaskLine, hwVars
<1>g. /\ executed \in Seq(Seq(Bytes)) /\ Len(executed) \in Nat
      /\ DOMAIN executed = 1..Len(executed)
      /\ DOMAIN executed' = 1..Len(executed) + 1
      /\ \A i \in 1..Len(executed) : executed'[i] = executed[i]
      /\ executed'[Len(executed) + 1] = Line
  BY <1>a, <1>e, <1>f DEF TypeOK
<1>h. \E e \in 0..Len(input') : LastEnd(e)'
  BY <1>f DEF WaitInv, LastEnd
<1>1. SUFFICES ASSUME paced
               PROVE  (~overrun /\ ShortLines /\ OneLineComing /\ LineFromStart /\ WaitedLinesWhole)'
  BY <1>f, <1>h DEF WaitInv, WaitedLinesWhole
<1>2. ~overrun /\ ShortLines /\ OneLineComing /\ LineFromStart /\ WaitedLinesWhole
  BY <1>1 DEF WaitInv
<1>3. ~overrun' /\ ShortLines' /\ OneLineComing'
  BY <1>2, <1>f DEF ShortLines, OneLineComing
<1>4. LineFromStart'
  <2>1. Taken' - index' = Taken
    BY <1>2, <1>c, <1>f, PacedFifo DEF Taken
  <2>2. StartsAfter(Taken)
    BY <1>2, <1>c DEF LineFromStart
  <2> QED
    BY <1>f, <2>1, <2>2 DEF LineFromStart, StartsAfter, IsEnd
<1>5. WaitedLinesWhole'
  <2>1. SUFFICES ASSUME NEW i \in DOMAIN executed' PROVE IsWhole(executed'[i])
    BY <1>f DEF WaitedLinesWhole, IsWhole, IsTailOfLine, IsEnd
  <2>2. CASE i \in 1..Len(executed)
    BY <1>1, <1>2, <1>g, <2>2 DEF WaitedLinesWhole
  <2>3. CASE i = Len(executed) + 1
    <3>1. SUFFICES ASSUME Line # <<>>
                   PROVE  IsTailOfLine(Line) /\ (Line[1] = 1 \/ IsEnd(Line[1] - 1))
      BY <1>g, <2>3 DEF IsWhole
    <3>2. IsTailOfLine(Line)
      <4>1. NoMixedCommands'
        BY TaskLineInv DEF IInv
      <4>2. IsTailOfLine(executed[i])'
        BY <1>3, <2>1, <4>1 DEF NoMixedCommands
      <4> QED
        BY <1>f, <1>g, <2>3, <4>2 DEF IsTailOfLine, IsEnd
    <3>3. k \in 1..UART_BUF_LENGTH - 1 /\ Line[1] = buf[0] /\ Ends(k) /\ buf[0] \in Nat \ {0}
      <4>1. k \in 1..UART_BUF_LENGTH - 1
        BY <1>e, <3>1, EmptySeq, ConsoleAssumption
      <4>2. 0 \in 0..k - 1 /\ 1 \in 1..k
        BY <4>1, ConsoleAssumption
      <4>3. Line[1] = buf[0]
        BY <1>e, <4>2
      <4> QED
        BY <1>d, <4>1, <4>2, <4>3 DEF StringOf, Ends
    <3>4. StartsAfter(buf[0] - 1)
      BY <1>2, <1>c, <3>3 DEF LineFromStart
    <3> QED
      BY <3>2, <3>3, <3>4 DEF StartsAfter
  <2> QED
    BY <1>g, <2>1, <2>2, <2>3
<1> QED
  BY <1>3, <1>4, <1>5

LEMMA NextWait == ASSUME IInv, WaitInv, [Next]_vars PROVE WaitInv'
<1>1. ASSUME UNCHANGED <<paced, input, fifo, overrun, buf, index, state, executed>>
      PROVE  WaitInv'
  <2>1. (\E e \in 0..Len(input') : LastEnd(e)') /\ WaitedLinesWhole'
    BY <1>1 DEF WaitInv, LastEnd, WaitedLinesWhole, IsWhole, IsTailOfLine, IsEnd
  <2>2. ASSUME paced PROVE (~overrun /\ ShortLines /\ OneLineComing /\ LineFromStart)'
    BY <1>1, <2>2
    DEF WaitInv, ShortLines, OneLineComing, LineFromStart, StartsAfter, IsEnd, Ends, Taken
  <2> QED
    BY <1>1, <2>1, <2>2 DEF WaitInv
<1>2. CASE Timeout
  BY <1>1, <1>2 DEF Timeout, lineVars
<1>3. CASE RxInterrupt
  BY <1>1, <1>3 DEF RxInterrupt, lineVars
<1>4. CASE TaskRx
  BY <1>1, <1>4 DEF TaskRx, hwVars, lineVars
<1>5. CASE FinishRx
  BY <1>1, <1>5 DEF FinishRx, lineVars
<1>6. CASE UNCHANGED vars
  BY <1>1, <1>6 DEF vars, hwVars, lineVars
<1> QED
  BY <1>2, <1>3, <1>4, <1>5, <1>6, TypeWait, ReadByteWait, TaskLineWait DEF Next

-----------------------------------------------------------------------------
(* Theorems                                                                *)

LEMMA NextInv == ASSUME IInv, Next PROVE IInv'
  BY TypeInv, TimeoutInv, RxInterruptInv, TaskRxInv, ReadByteInv, FinishRxInv, TaskLineInv
  DEF Next

LEMMA StutterInv == ASSUME IInv, UNCHANGED vars PROVE IInv'
<1>a. UNCHANGED <<paced, input, fifo, overrun, pending, rxEnabled, queue, handling, toRead,
                  buf, index, state, executed>>
  BY DEF vars, hwVars, taskVars, lineVars
<1>1. TypeOK'
  BY <1>a DEF IInv, TypeOK
<1>2. EventsServed'
  BY <1>a DEF IInv, EventsServed, AtMostOneEach, NeverDeaf, NeverLocked, Queued
<1> QED
  BY <1>a, <1>1, <1>2, LinesUnchanged DEF IInv

\* The inductive invariant holds in every state of every behaviour.
THEOREM Invariant == Spec => []IInv
<1>1. Init => IInv
  BY InitInv
<1>2. IInv /\ [Next]_vars => IInv'
  BY NextInv, StutterInv
<1> QED
  BY <1>1, <1>2, PTL DEF Spec

\* uart.c keeps every index and count in range: the index stays in uart_buf and
\* the reading loop never takes a byte the FIFO does not hold.
THEOREM ConsoleTypeCorrect == Spec => []TypeOK
<1>1. IInv => TypeOK
  BY DEF IInv
<1> QED
  BY <1>1, Invariant, PTL

\* system_os_post is never refused, the receive interrupts are off only while
\* their event is on its way (uart.c:298-300, 373), and input is dropped only
\* while a line is (uart.c:67-69, 379): the console goes neither deaf nor locked.
THEOREM ConsoleServed == Spec => []EventsServed
<1>1. IInv => EventsServed
  BY DEF IInv
<1> QED
  BY <1>1, Invariant, PTL

\* Whatever the sizes and the timing, and however long the lines, a command that
\* uart_recvTask executes is the end of one typed line, unless the hardware has
\* lost a byte (uart.c:60-77).
THEOREM CommandsNotMixed == Spec => []NoMixedCommands
<1>1. IInv => NoMixedCommands
  BY DEF IInv
<1> QED
  BY <1>1, Invariant, PTL

\* Commands are executed in the order typed and none twice, also when the FIFO
\* has overflowed or the line buffer has wrapped (uart.c:60-77, 376-384).
THEOREM CommandsInOrder == Spec => []ExecutedInOrder
<1>1. Init => OrderInv
  BY DEF Init, OrderInv, FifoRises, NoneOvertakes, Done, InFifo, Waiting, ExecutedInOrder
<1>2. IInv /\ OrderInv /\ [Next]_vars => OrderInv'
  BY NextOrder
<1>3. OrderInv => ExecutedInOrder
  BY DEF OrderInv
<1> QED
  BY <1>1, <1>2, <1>3, Invariant, PTL DEF Spec

\* To a typist who waits for each line to be done, and whose lines fit in
\* uart_buf, the console executes nothing but whole lines: no byte is dropped
\* while a line waits and the index never wraps (uart.c:60-77, 376-384).
THEOREM WaitedLinesAreWhole == Spec => []WaitedLinesWhole
<1>1. Init => WaitInv
  <2>1. SUFFICES ASSUME Init PROVE WaitInv
    OBVIOUS
  <2>2. 0 \in 0..Len(input) /\ LastEnd(0) /\ Taken - index = 0
    BY <2>1 DEF Init, LastEnd, Taken
  <2>3. ShortLines
    BY <2>1, ConsoleAssumption DEF Init, ShortLines
  <2>4. OneLineComing /\ LineFromStart /\ WaitedLinesWhole
    BY <2>1, <2>2 DEF Init, OneLineComing, LineFromStart, StartsAfter, WaitedLinesWhole
  <2> QED
    BY <2>1, <2>2, <2>3, <2>4 DEF Init, WaitInv
<1>2. IInv /\ WaitInv /\ [Next]_vars => WaitInv'
  BY NextWait
<1>3. WaitInv => WaitedLinesWhole
  BY DEF WaitInv
<1> QED
  BY <1>1, <1>2, <1>3, Invariant, PTL DEF Spec
=============================================================================
