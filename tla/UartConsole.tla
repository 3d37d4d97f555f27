---------------------------- MODULE UartConsole ----------------------------
(***************************************************************************)
(* The input side of the serial console, app/driver/uart.c.  Bytes arrive  *)
(* in the receive FIFO of the UART.  The interrupt handler does no more    *)
(* than disable the receive interrupts and post an event; the task         *)
(* uart_recvTask empties the FIFO byte by byte into a line buffer and      *)
(* enables the interrupts again; the end of a line posts a second event,   *)
(* on which the same task executes the line (fcmd_exec).                   *)
(*                                                                         *)
(* A byte is known by its position in the input, its kind is looked up     *)
(* there: "eol" for CR and LF, "char" for the rest.                        *)
(***************************************************************************)
EXTENDS Naturals, Sequences

CONSTANTS
  UART_BUF_LENGTH,  \* size of the line buffer (128)
  QUEUE_LEN,        \* uart_recvTaskQueueLen (10)
  FIFO_LENGTH,      \* bytes the hardware FIFO holds (128)
  FULL_THRHD,       \* FIFO length that raises RXFIFO_FULL (100)
  MaxTyped          \* bound: bytes typed in a behaviour

ASSUME ConsoleAssumption ==
  /\ UART_BUF_LENGTH \in Nat \ {0}
  /\ QUEUE_LEN \in Nat /\ QUEUE_LEN >= 2
  /\ FIFO_LENGTH \in Nat /\ FULL_THRHD \in 1..FIFO_LENGTH
  /\ MaxTyped \in Nat

VARIABLES
  paced,       \* whether the typist waits for a line to be executed
  input,       \* kinds of the bytes typed so far
  fifo,        \* hardware: positions of the bytes received and not read
  overrun,     \* hardware: whether the full FIFO has dropped a byte
  pending,     \* hardware: UART_INT_ST, the receive interrupts raised
  rxEnabled,   \* UART_INT_ENA of RXFIFO_FULL and RXFIFO_TOUT
  queue,       \* uart_recvTaskQueue: "rx" is signal 0, "line" UART_RECEIVE_EVT
  handling,    \* whether uart_recvTask is inside its signal 0 branch
  toRead,      \* fifo_len - idx of that branch
  buf,         \* uart_buf, 0 is the terminating NUL
  index,       \* uart_buf_index
  state,       \* uart_state, 1: a line is waiting to be executed
  executed     \* lines passed to fcmd_exec, oldest first

hwVars == <<fifo, overrun, pending>>
taskVars == <<queue, handling, toRead>>
lineVars == <<buf, index, state, executed>>
vars == <<paced, input, hwVars, rxEnabled, taskVars, lineVars>>

Bytes == 1..MaxTyped
Events == {"rx", "line"}

Init ==
  /\ paced \in BOOLEAN
  /\ input = <<>>
  /\ fifo = <<>> /\ overrun = FALSE /\ pending = {}
  /\ rxEnabled = TRUE
  /\ queue = <<>> /\ handling = FALSE /\ toRead = 0
  /\ buf = [i \in 0..UART_BUF_LENGTH - 1 |-> 0]
  /\ index = 0 /\ state = 0
  /\ executed = <<>>

-----------------------------------------------------------------------------
(* The typist and the hardware.                                            *)

\* Length of the line being typed.
LineSoFar ==
  Len(input) - (CHOOSE e \in 0..Len(input) :
                  /\ e = 0 \/ input[e] = "eol"
                  /\ \A k \in e + 1..Len(input) : input[k] = "char")

\* Nothing the typist has sent is still on its way.
Quiet == fifo = <<>> /\ queue = <<>> /\ ~handling

\* A typist who waits sends lines that fit in the buffer, and begins one only
\* when the last one is done; an "eol" after an "eol" is the LF of CR LF.
MayType(kind) ==
  paced => /\ Len(fifo) < FIFO_LENGTH
           /\ kind = "char" => /\ LineSoFar + 1 < UART_BUF_LENGTH
                               /\ LineSoFar = 0 => Quiet

Type(kind) ==
  /\ Len(input) < MaxTyped
  /\ MayType(kind)
  /\ input' = Append(input, kind)
  /\ IF Len(fifo) < FIFO_LENGTH
       THEN /\ fifo' = Append(fifo, Len(input) + 1)
            /\ pending' = IF Len(fifo) + 1 >= FULL_THRHD
                            THEN pending \union {"full"} ELSE pending
            /\ UNCHANGED overrun
       ELSE overrun' = TRUE /\ UNCHANGED <<fifo, pending>>
  /\ UNCHANGED <<paced, rxEnabled, taskVars, lineVars>>

\* The line has been idle while the FIFO holds bytes.
Timeout ==
  /\ fifo # <<>> /\ "tout" \notin pending
  /\ pending' = pending \union {"tout"}
  /\ UNCHANGED <<paced, input, fifo, overrun, rxEnabled, taskVars, lineVars>>

-----------------------------------------------------------------------------
(* The driver.                                                             *)

\* system_os_post: a full queue refuses the event, and no caller looks.
Post(e) == queue' = IF Len(queue) < QUEUE_LEN THEN Append(queue, e) ELSE queue

\* uart0_rx_intr_handler: RXFIFO_FULL goes before RXFIFO_TOUT, and only the one
\* handled is cleared.
RxInterrupt ==
  /\ rxEnabled /\ pending # {}
  /\ rxEnabled' = FALSE
  /\ pending' = pending \ {IF "full" \in pending THEN "full" ELSE "tout"}
  /\ Post("rx")
  /\ UNCHANGED <<paced, input, fifo, overrun, handling, toRead, lineVars>>

\* uart_recvTask, signal 0: the FIFO length is read once.
TaskRx ==
  /\ ~handling /\ queue # <<>> /\ Head(queue) = "rx"
  /\ queue' = Tail(queue)
  /\ handling' = TRUE
  /\ toRead' = Len(fifo)
  /\ UNCHANGED <<paced, input, hwVars, rxEnabled, lineVars>>

\* Mutant of EndLine: the index is not set back to 0.
EndLineKeepsIndex ==
  /\ buf' = [buf EXCEPT ![index] = 0]
  /\ state' = 1
  /\ Post("line")
  /\ UNCHANGED index

\* Mutant of EndLine: the terminating NUL is not stored.
EndLineNoNul ==
  /\ state' = 1
  /\ index' = 0
  /\ Post("line")
  /\ UNCHANGED buf

\* uart_char_cb, the first terminator of a line: the line is complete.
EndLine ==
  /\ buf' = [buf EXCEPT ![index] = 0]
  /\ state' = 1
  /\ index' = 0
  /\ Post("line")

\* Mutant of PutChar: the index does not wrap.
PutCharNoWrap(b) ==
  /\ buf' = [buf EXCEPT ![index] = b]
  /\ index' = index + 1
  /\ UNCHANGED <<state, queue>>

\* uart_char_cb, any other byte.
PutChar(b) ==
  /\ buf' = [buf EXCEPT ![index] = b]
  /\ index' = (index + 1) % UART_BUF_LENGTH
  /\ UNCHANGED <<state, queue>>

\* Mutant of CharCb: uart_state is not tested.
CharCbAlways(b) ==
  \/ input[b] = "eol" /\ EndLine
  \/ input[b] = "char" /\ PutChar(b)

\* uart_char_cb: what comes while a line waits is dropped.
CharCb(b) ==
  \/ state = 0 /\ input[b] = "eol" /\ EndLine
  \/ state = 0 /\ input[b] = "char" /\ PutChar(b)
  \/ state # 0 /\ UNCHANGED <<buf, index, state, queue>>

\* One turn of the reading loop.
ReadByte ==
  /\ handling /\ toRead > 0
  /\ fifo' = Tail(fifo)
  /\ toRead' = toRead - 1
  /\ CharCb(Head(fifo))
  /\ UNCHANGED <<paced, input, overrun, pending, rxEnabled, handling, executed>>

\* Mutant of FinishRx: the receive interrupts stay off.
FinishRxStaysOff ==
  /\ handling /\ toRead = 0
  /\ pending' = {}
  /\ handling' = FALSE
  /\ UNCHANGED <<paced, input, fifo, overrun, rxEnabled, queue, toRead, lineVars>>

\* The end of the branch clears whatever was raised in the meantime.
FinishRx ==
  /\ handling /\ toRead = 0
  /\ pending' = {}
  /\ rxEnabled' = TRUE
  /\ handling' = FALSE
  /\ UNCHANGED <<paced, input, fifo, overrun, queue, toRead, lineVars>>

\* The string in uart_buf, which ends at the first NUL.
Line ==
  LET end == CHOOSE k \in 0..UART_BUF_LENGTH - 1 :
               buf[k] = 0 /\ \A j \in 0..k - 1 : buf[j] # 0
  IN  [i \in 1..end |-> buf[i - 1]]

\* uart_recvTask, UART_RECEIVE_EVT.
TaskLine ==
  /\ ~handling /\ queue # <<>> /\ Head(queue) = "line"
  /\ queue' = Tail(queue)
  /\ executed' = Append(executed, Line)
  /\ state' = 0
  /\ UNCHANGED <<paced, input, hwVars, rxEnabled, handling, toRead, buf, index>>

Next ==
  \/ \E kind \in {"char", "eol"} : Type(kind)
  \/ Timeout
  \/ RxInterrupt
  \/ TaskRx
  \/ ReadByte
  \/ FinishRx
  \/ TaskLine

Spec == Init /\ [][Next]_vars

\* Interrupts are taken, the task runs, and the idle timeout is raised as long
\* as bytes remain; nobody is obliged to type.
Fairness ==
  /\ WF_vars(Timeout) /\ WF_vars(RxInterrupt)
  /\ WF_vars(TaskRx) /\ WF_vars(ReadByte) /\ WF_vars(FinishRx) /\ WF_vars(TaskLine)

FairSpec == Spec /\ Fairness

-----------------------------------------------------------------------------
(* Properties.                                                             *)

\* The variables keep their types: in particular the index stays in uart_buf
\* and the task never counts on more bytes than the FIFO holds.
TypeOK ==
  /\ paced \in BOOLEAN /\ overrun \in BOOLEAN
  /\ input \in Seq({"char", "eol"}) /\ Len(input) <= MaxTyped
  /\ fifo \in Seq(1..Len(input)) /\ Len(fifo) <= FIFO_LENGTH
  /\ pending \subseteq {"full", "tout"}
  /\ rxEnabled \in BOOLEAN /\ handling \in BOOLEAN
  /\ queue \in Seq(Events)
  /\ toRead \in Nat /\ toRead <= Len(fifo)
  /\ buf \in [0..UART_BUF_LENGTH - 1 -> Nat]
  /\ index \in 0..UART_BUF_LENGTH - 1
  /\ state \in {0, 1}
  /\ executed \in Seq(Seq(Bytes))

Queued(e) == \E i \in 1..Len(queue) : queue[i] = e

\* The driver ignores what system_os_post answers.  It may: there is at most
\* one event of each kind, so a queue of two is never full (uart.c has 10).
AtMostOneEach ==
  \A i, j \in 1..Len(queue) : queue[i] = queue[j] => i = j

\* The receive interrupts are off exactly while their event is queued or being
\* handled, so the console cannot go deaf: uart.c:298, 305 against 373.
NeverDeaf == ~rxEnabled <=> (Queued("rx") \/ handling)

\* Input is dropped (uart_state) exactly while a line is queued, so the console
\* cannot stop taking lines: uart.c:67-69 against 379.
NeverLocked == state = 1 <=> Queued("line")

EventsServed ==
  /\ AtMostOneEach
  /\ NeverDeaf
  /\ NeverLocked
  /\ handling => ~Queued("rx")

IsEnd(e) == e \in DOMAIN input /\ input[e] = "eol"

\* A sequence of positions that is the tail end of one typed line.
IsTailOfLine(line) ==
  \/ line = <<>>
  \/ /\ \A i \in 1..Len(line) : line[i] = line[1] + i - 1
     /\ \A i \in 1..Len(line) : input[line[i]] = "char"
     /\ IsEnd(line[Len(line)] + 1)

\* Whatever the timing, unless the hardware has lost a byte, an executed
\* command is empty or the end of one typed line: no bytes of two lines, none
\* left over from the line before.
NoMixedCommands == ~overrun => \A i \in DOMAIN executed : IsTailOfLine(executed[i])

\* Commands are executed in the order typed, none twice.
ExecutedInOrder ==
  \A i, j \in DOMAIN executed :
    (i < j /\ executed[i] # <<>> /\ executed[j] # <<>>)
      => executed[i][Len(executed[i])] < executed[j][1]

IsWhole(line) ==
  line # <<>> => IsTailOfLine(line) /\ (line[1] = 1 \/ IsEnd(line[1] - 1))

\* To a typist who waits the console executes nothing but whole lines.
WaitedLinesWhole == paced => \A i \in DOMAIN executed : IsWhole(executed[i])

\* The line that ends at e has been executed.
Ran(e) == \E i \in DOMAIN executed :
            executed[i] # <<>> /\ executed[i][Len(executed[i])] = e - 1

\* ... and every line is executed in the end.
WaitedLinesRun ==
  \A e \in Bytes : (paced /\ IsEnd(e) /\ e > 1 /\ input[e - 1] = "char") ~> Ran(e)
=============================================================================
