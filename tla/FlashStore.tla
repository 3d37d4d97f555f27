----------------------------- MODULE FlashStore -----------------------------
(***************************************************************************)
(* The SPI flash and what rewrites it: app/flashapi/flash_api.c and the    *)
(* console commands sfmw, sfmd, md and cmp of app/fcmd/cmd_mem.c.          *)
(*                                                                         *)
(* Flash is erased by sectors; writing only clears bits.  A function is a  *)
(* sequence of flash operations.  An operation may fail, a write after any *)
(* part of it, and power may be lost in it.                                *)
(*                                                                         *)
(* Bytes are numbers: what matters is whether one is erased, FF, and that  *)
(* writing over one that is not leaves something else, Garbled.            *)
(***************************************************************************)
EXTENDS Integers, Sequences, FiniteSets, FiniteSetsExt, SequencesExt

CONSTANTS
  SectorSize,  \* bytes of a sector, 4096
  Word,        \* bytes of a word, 4
  LineBytes,   \* bytes that md and sfmd show in a line, 16
  DetectBytes, \* bytes that tell the beginning of the chip from other places, 32
  Unit,        \* sectors of 256 KB, the smallest chip
  Chip,        \* sectors of this chip
  SizeTypes,   \* how often the smallest size can be doubled, 6 in the source
  Addresses, Texts, \* where sfmw writes, and what: a line of 128 bytes is far less than a chip
  MaxCommands, \* bound on the commands
  MaxFaults    \* bound on the failures and power losses

\* The sizes there are, in sectors.
ChipSize[k \in 0..SizeTypes] == IF k = 0 THEN Unit ELSE 2 * ChipSize[k - 1]

ASSUME FlashAssumption ==
  /\ SectorSize \in Nat /\ SectorSize >= 2 /\ Word \in {1, 2, 4}
  /\ Unit \in Nat /\ Unit >= 4
  /\ SizeTypes \in Nat /\ Chip \in {ChipSize[k] : k \in 0..SizeTypes} /\ Chip \in Nat \ {0}
  /\ Addresses \subseteq 0..Chip * SectorSize - 1
  /\ \A t \in Texts : t \in Seq(Nat) /\ Len(t) <= (Chip - 1) * SectorSize
  /\ LineBytes \in {4 * n : n \in 1..4}
  /\ DetectBytes \in 1..SectorSize

VARIABLES
  flash,      \* the bytes of every sector
  mirrored,   \* addresses behind the chip reach it again; never changes
  pmen,       \* RAM copy of a sector
  todo,       \* what the running function has still to do
  cmd,        \* the last command and its arguments
  status,     \* how it ended: "busy", "ok", "failed", "lost" or, before the first, "none"
  before, goal, \* the flash when it began and what it is meant to be in the end
  rom_size, safe_size, \* sectors of the chip, by header and by detection; 0: not known yet
  commands, faults

vars == <<flash, mirrored, pmen, todo, cmd, status, before, goal, rom_size, safe_size, commands, faults>>

Sectors == 0..Chip - 1
FF == 255
Garbled == 254
Code == 100  \* any byte of the program
Over(old, new) == IF new = FF \/ old = new THEN old ELSE IF old = FF THEN new ELSE Garbled
Blank == [i \in 1..SectorSize |-> FF]
MaxSectors == ChipSize[SizeTypes]

\* The sector an address reaches, if there is one.
Reaches(sec) == sec < MaxSectors /\ (sec < Chip \/ mirrored)
Reached(sec) == sec % Chip

(***************************************************************************)
(* SPIFlashInfo, the header in sector 0: two bytes of it matter here.      *)
(***************************************************************************)
SIZE == 1
SPEED == 2

\* Type 1 is the smallest chip, 0 the next one, and from 2 on types go by size.
TypeOfSize(sectors) ==
  LET k == CHOOSE k \in 0..SizeTypes : sectors = ChipSize[k]
  IN IF k = 0 THEN 1 ELSE IF k = 1 THEN 0 ELSE k
\* An unknown type counts as type 0.
SizeOfType(type) ==
  IF type = 1 THEN Unit ELSE IF type \in 2..SizeTypes THEN ChipSize[type] ELSE 2 * Unit
HeaderSize == SizeOfType(flash[0][SIZE])

\* In MHz, with the 26.7 of the source as 27.
SPEED_40MHZ == 0  SPEED_26MHZ == 1  SPEED_20MHZ == 2  SPEED_80MHZ == 15
TypeOfSpeed(speed) ==
  CASE speed < 27 -> SPEED_20MHZ [] speed >= 27 /\ speed < 40 -> SPEED_26MHZ
    [] speed >= 40 /\ speed < 80 -> SPEED_40MHZ [] speed >= 80 -> SPEED_80MHZ
RomGetSpeed ==
  CASE flash[0][SPEED] = SPEED_40MHZ -> 40 [] flash[0][SPEED] = SPEED_26MHZ -> 27
    [] flash[0][SPEED] = SPEED_20MHZ -> 20 [] flash[0][SPEED] = SPEED_80MHZ -> 80
    [] OTHER -> 0

(***************************************************************************)
(* The size of the chip.  flash_detect_size_byte doubles until it cannot   *)
(* read or sees the first bytes of the chip again.                         *)
(***************************************************************************)
DetectSize ==
  LET first(sec) == SubSeq(flash[Reached(sec)], 1, DetectBytes)
      stops(k) == k = SizeTypes \/ ~Reaches(ChipSize[k]) \/ first(ChipSize[k]) = first(0)
  IN ChipSize[Min({k \in 0..SizeTypes : stops(k)})]

\* Both sizes are kept once they are known.  A read that fails now and then ends the
\* doubling at once.
SafeSizeKnown ==
  \/ safe_size' = DetectSize /\ UNCHANGED faults
  \/ /\ faults < MaxFaults /\ faults' = faults + 1
     /\ safe_size' \in {ChipSize[k] : k \in 0..SizeTypes} /\ safe_size' <= DetectSize

\* The header is read without looking at the result: after a failed read the size is
\* what was on the stack.
RomSizeKnown ==
  \/ rom_size' = IF rom_size = 0 THEN HeaderSize ELSE rom_size
  \/ /\ rom_size = 0 /\ faults < MaxFaults
     /\ rom_size' \in {SizeOfType(t) : t \in 0..SizeTypes}

(***************************************************************************)
(* Functions as sequences of operations.  An operation that fails ends the *)
(* function, unless its result is ignored.                                 *)
(***************************************************************************)
Read(sec) == [do |-> "read", sec |-> sec]
Erase(sec, ignored) == [do |-> "erase", sec |-> sec, ignored |-> ignored]
\* Write the copy of the sector, with some bytes changed, or write bytes only.
Rewrite(sec, off, bytes, ignored) ==
  [do |-> "rewrite", sec |-> sec, off |-> off, bytes |-> bytes, ignored |-> ignored]
Write(sec, bytes) == [do |-> "write", sec |-> sec, off |-> 0, bytes |-> bytes, ignored |-> FALSE]

Replaced(old, off, bytes) ==
  [i \in 1..SectorSize |-> IF i - off \in DOMAIN bytes THEN bytes[i - off] ELSE old[i]]

\* Mutant: the sector is erased before it is read.
ErasedFirst(sec, off, bytes) == <<Erase(sec, FALSE), Read(sec), Rewrite(sec, off, bytes, FALSE)>>

SectorSteps(sec, off, bytes) == <<Read(sec), Erase(sec, FALSE), Rewrite(sec, off, bytes, FALSE)>>

\* Mutant: the second sector is written at the offset of the first.
SameOffset(secoff, k) == secoff

\* The offset in the k-th sector after the first, and how many bytes go before it.
OffsetIn(secoff, k) == IF k = 0 THEN secoff ELSE 0
BytesBefore(secoff, k) == IF k = 0 THEN 0 ELSE k * SectorSize - secoff

Part(secoff, bytes, k) ==
  LET written == BytesBefore(secoff, k)
      secremain == Min({Len(bytes) - written, SectorSize - OffsetIn(secoff, k)})
  IN SubSeq(bytes, written + 1, written + secremain)

SectorCount(secoff, bytes) ==
  IF bytes = <<>> THEN 1 ELSE (secoff + Len(bytes) - 1) \div SectorSize + 1

\* sfmw: read, erase and rewrite one sector after the other, even for no bytes.
SfmwSteps(secpos, secoff, bytes) ==
  [n \in 1..3 * SectorCount(secoff, bytes) |->
     LET k == (n - 1) \div 3
     IN SectorSteps(secpos + k, OffsetIn(secoff, k), Part(secoff, bytes, k))[n - 3 * k]]

Begin(command, steps, wanted) ==
  /\ status # "busy" /\ commands < MaxCommands
  /\ commands' = commands + 1
  /\ cmd' = command /\ todo' = steps /\ status' = "busy"
  /\ before' = flash /\ goal' = wanted
  /\ UNCHANGED <<flash, mirrored, pmen, faults>>

\* What the flash is to be after a write, whatever the order of the operations.
Changed(old, addr, bytes) ==
  LET hit(s, i) == {k \in DOMAIN bytes : LET a == addr + k - 1
                                         IN Reached(a \div SectorSize) = s /\ a % SectorSize = i - 1}
  IN [s \in Sectors |-> [i \in 1..SectorSize |->
        IF hit(s, i) = {} THEN old[s][i] ELSE bytes[Max(hit(s, i))]]]

Sfmw(addr, bytes) ==
  /\ Begin([do |-> "sfmw", addr |-> addr, bytes |-> bytes],
           SfmwSteps(addr \div SectorSize, addr % SectorSize, bytes), Changed(flash, addr, bytes))
  /\ UNCHANGED <<rom_size, safe_size>>

\* The header functions go on whether or not the sector could be erased, and return
\* true in any case.
HeaderSteps(field, type) == <<Read(0), Erase(0, TRUE), Rewrite(0, field - 1, <<type>>, TRUE)>>

RomSetSizeByte(sectors) ==
  /\ Begin([do |-> "size", arg |-> sectors], HeaderSteps(SIZE, TypeOfSize(sectors)),
           [flash EXCEPT ![0][SIZE] = TypeOfSize(sectors)])
  /\ UNCHANGED <<rom_size, safe_size>>

RomSetSpeed(speed) ==
  /\ Begin([do |-> "speed", arg |-> speed], HeaderSteps(SPEED, TypeOfSpeed(speed)),
           [flash EXCEPT ![0][SPEED] = TypeOfSpeed(speed)])
  /\ UNCHANGED <<rom_size, safe_size>>

\* The system's parameters are in the last four sectors of the chip the header
\* describes.
InitData == <<5>>

InitDataDefault ==
  /\ RomSizeKnown
  /\ Begin([do |-> "default"], <<Erase(rom_size' - 4, FALSE), Write(rom_size' - 4, InitData)>>,
           IF Reaches(rom_size' - 4) THEN [flash EXCEPT ![Reached(rom_size' - 4)] = Replaced(Blank, 0, InitData)]
           ELSE flash)
  /\ UNCHANGED safe_size

InitDataBlank ==
  /\ RomSizeKnown
  /\ Begin([do |-> "blank"], <<Erase(rom_size' - 2, FALSE), Erase(rom_size' - 1, FALSE)>>,
           [s \in Sectors |-> IF \E n \in 1..2 : Reaches(rom_size' - n) /\ s = Reached(rom_size' - n)
                              THEN Blank ELSE flash[s]])
  /\ UNCHANGED safe_size

InitDataWritten(size) == ~Reaches(size - 4) \/ \E i \in 1..SectorSize : flash[Reached(size - 4)][i] # FF

\* flash_self_destruct, by one operation of the ROM
SelfDestruct ==
  /\ status # "busy" /\ commands < MaxCommands /\ commands' = commands + 1
  /\ flash' = [s \in Sectors |-> Blank]
  /\ cmd' = [do |-> "destruct"] /\ status' = "ok" /\ before' = flash /\ goal' = flash'
  /\ UNCHANGED <<mirrored, pmen, todo, rom_size, safe_size, faults>>

\* Detection reads with flash_safe_read, which takes the size from the header when it
\* is done.
SafeGetSize ==
  /\ status # "busy" /\ safe_size = 0 /\ SafeSizeKnown /\ RomSizeKnown
  /\ UNCHANGED <<flash, mirrored, pmen, todo, cmd, status, before, goal, commands>>

(***************************************************************************)
(* What the console shows.  md and sfmd show elements of 1, 2 or 4 bytes,  *)
(* some in a line.                                                         *)
(***************************************************************************)
ElemSizes == {1, 2, 4}

\* Where each line begins and how many elements it shows.
Lines(elem_cnt, elem_size) ==
  LET line_elem == LineBytes \div elem_size
      line_count == (elem_cnt + line_elem - 1) \div line_elem
      line_remain == elem_cnt % line_elem
  IN [j \in 1..line_count |->
        [first |-> (j - 1) * line_elem * elem_size,
         elems |-> IF j = line_count /\ line_remain # 0 THEN line_remain ELSE line_elem]]

Md(bytes, elem_cnt, elem_size) ==
  IF elem_size \notin ElemSizes THEN <<>>
  ELSE LET lines == Lines(elem_cnt, elem_size)
       IN FlattenSeq([j \in DOMAIN lines |->
            SubSeq(bytes, lines[j].first + 1, lines[j].first + lines[j].elems * elem_size)])

\* sfmd reads whole words only: up to Word - 1 bytes at the end are shown as 0.  Its
\* address is one of a word (cmd_mem.c:173).
Sfmd(addr, elem_cnt, elem_size) ==
  LET n == elem_cnt * elem_size
  IN Md([i \in 1..n |-> IF i > n - (n % Word) THEN 0
                        ELSE flash[Reached((addr + i - 1) \div SectorSize)][1 + ((addr + i - 1) % SectorSize)]],
        elem_cnt, elem_size)

\* cmp counts the equal elements in front of the first that differs; elements of other
\* sizes are not looked at.
Cmp(mem1, mem2, elem_cnt, elem_size) ==
  LET elem(mem, k) == SubSeq(mem, (k - 1) * elem_size + 1, k * elem_size)
      differ == {k \in 1..elem_cnt : elem_size \in ElemSizes /\ elem(mem1, k) # elem(mem2, k)}
  IN [rcode |-> IF differ = {} THEN 0 ELSE 1,
      ngood |-> IF differ = {} THEN elem_cnt ELSE Min(differ) - 1]

(***************************************************************************)
(* The operations.                                                         *)
(***************************************************************************)
Step == Head(todo)
Content == IF Step.do = "rewrite" THEN Replaced(pmen, Step.off, Step.bytes) ELSE Step.bytes

\* The flash with the first n bytes of a write done.
Written(n) ==
  [flash EXCEPT ![Reached(Step.sec)] =
     [i \in 1..SectorSize |-> IF i <= n THEN Over(@[i], Content[i]) ELSE @[i]]]

\* sfmw uses the functions that let the whole 16 MB be addressed; they take the size
\* from the header when they are done.
SafeModeLeft == IF cmd.do = "sfmw" THEN RomSizeKnown ELSE UNCHANGED rom_size

StepDone ==
  /\ status = "busy" /\ todo # <<>> /\ Reaches(Step.sec)
  /\ pmen' = IF Step.do = "read" THEN flash[Reached(Step.sec)] ELSE pmen
  /\ flash' = CASE Step.do = "read" -> flash
                [] Step.do = "erase" -> [flash EXCEPT ![Reached(Step.sec)] = Blank]
                [] OTHER -> Written(Len(Content))
  /\ todo' = Tail(todo)
  /\ status' = IF todo' = <<>> THEN "ok" ELSE "busy"
  /\ SafeModeLeft
  /\ UNCHANGED <<mirrored, cmd, before, goal, safe_size, commands, faults>>

\* An operation fails: outside the chip always, elsewhere now and then.
StepFails ==
  /\ status = "busy" /\ todo # <<>>
  /\ IF Reaches(Step.sec) THEN faults < MaxFaults /\ faults' = faults + 1 ELSE UNCHANGED faults
  /\ IF Step.do \in {"rewrite", "write"} /\ Reaches(Step.sec)
     THEN \E n \in 0..Len(Content) - 1 : flash' = Written(n)
     ELSE UNCHANGED flash
  /\ IF Step.do # "read" /\ Step.ignored
     THEN todo' = Tail(todo) /\ status' = IF todo' = <<>> THEN "ok" ELSE "busy"
     ELSE todo' = <<>> /\ status' = "failed"
  /\ SafeModeLeft
  /\ UNCHANGED <<mirrored, pmen, cmd, before, goal, safe_size, commands>>

\* Power is lost in an operation: it is done, in part or not at all.
PowerLoss ==
  /\ status = "busy" /\ faults < MaxFaults /\ faults' = faults + 1
  /\ \/ UNCHANGED flash
     \/ /\ Reaches(Step.sec) /\ Step.do = "erase"
        /\ flash' = [flash EXCEPT ![Reached(Step.sec)] = Blank]
     \/ /\ Reaches(Step.sec) /\ Step.do \in {"rewrite", "write"}
        /\ \E n \in 1..Len(Content) : flash' = Written(n)
  /\ todo' = <<>> /\ status' = "lost" /\ pmen' = Blank
  /\ rom_size' = 0 /\ safe_size' = 0
  /\ UNCHANGED <<mirrored, cmd, before, goal, commands>>

Init ==
  /\ LET code == [i \in 1..SectorSize |-> Code]
     IN flash = [s \in Sectors |-> IF s = 0 THEN Replaced(code, 0, <<TypeOfSize(Chip), SPEED_40MHZ>>) ELSE code]
  /\ mirrored \in BOOLEAN
  /\ pmen = Blank /\ todo = <<>> /\ cmd = [do |-> "none"] /\ status = "none"
  /\ before = flash /\ goal = flash
  /\ rom_size = 0 /\ safe_size = 0 /\ commands = 0 /\ faults = 0

Next ==
  \/ \E a \in Addresses, t \in Texts : Sfmw(a, t)
  \/ \E k \in 0..SizeTypes : RomSetSizeByte(ChipSize[k])
  \/ \E speed \in {20, 27, 40, 80} : RomSetSpeed(speed)
  \/ InitDataDefault \/ InitDataBlank \/ SelfDestruct \/ SafeGetSize
  \/ StepDone \/ StepFails \/ PowerLoss

Spec == Init /\ [][Next]_vars

(***************************************************************************)
(* Properties.                                                             *)
(***************************************************************************)
\* A size that was detected is never more than the chip has.
TypeOK ==
  /\ DOMAIN flash = Sectors /\ \A s \in Sectors : Len(flash[s]) = SectorSize
  /\ status \in {"none", "busy", "ok", "failed", "lost"} /\ (todo = <<>> <=> status # "busy")
  /\ safe_size \in 0..Chip /\ rom_size \in 0..MaxSectors
  /\ commands \in 0..MaxCommands /\ faults \in 0..MaxFaults

\* Whatever fails, and whenever power is lost, at most one sector is in doubt: each of
\* the others is as it was before the command or as the command is to leave it.
\* (That one sector, with all it held for others, is at risk from the moment it is
\* erased until it is written again.)
OneSectorInDoubt ==
  \E doubtful \in Sectors : \A s \in Sectors \ {doubtful} : flash[s] \in {before[s], goal[s]}

\* Without a fault, a command that succeeds has written what it should, and the
\* functions that read agree: the settings of the header read as they were set, and
\* sfmd shows, in elements of any size, what sfmw wrote at the address of a word.
ReadBack ==
  status = "ok" /\ faults = 0 =>
    /\ flash = goal
    /\ cmd.do = "size" => HeaderSize = cmd.arg
    /\ cmd.do = "speed" => RomGetSpeed = cmd.arg
    /\ cmd.do = "default" => InitDataWritten(rom_size)
    /\ cmd.do = "sfmw" /\ cmd.addr % Word = 0 =>
         \A elem_size \in ElemSizes :
           LET words == Len(cmd.bytes) - (Len(cmd.bytes) % Word)
               elem_cnt == words \div elem_size
           IN Cmp(Sfmd(cmd.addr, elem_cnt, elem_size), cmd.bytes, elem_cnt, elem_size)
                = [rcode |-> 0, ngood |-> elem_cnt]
=============================================================================
