----------------------------- MODULE DeviceProofs -----------------------------
(***************************************************************************)
(* Three parts of the device that share no state.                          *)
(*                                                                         *)
(* The flash: for any chip, any text and any number of commands and        *)
(* faults, failures and losses of power put one sector in doubt at most    *)
(* (StoreInv), and what was written without a fault reads back (ReadInv).  *)
(*                                                                         *)
(* The upgrade: a whole image boots, for any number of upgrades and        *)
(* restarts (UpgradeInv).                                                  *)
(*                                                                         *)
(* The software PWM: its interrupt stays inside its table and plays every  *)
(* channel its share of the period, for any number of channels, any        *)
(* duties, frequencies and number of calls.  What pwm_start builds from a  *)
(* request means what was asked for (ShapedMeans, MeaningPlays), and only  *)
(* tables that it has finished are played (PwmInv).                        *)
(***************************************************************************)
EXTENDS FlashStore, Upgrade, SoftPwm, FiniteSetTheorems, SequenceTheorems, WellFoundedInduction,
        NaturalsInduction, TLAPS

-----------------------------------------------------------------------------
(* Induction over numbers, as the absence of a least exception.             *)

LEMMA LeastNumber ==
  ASSUME NEW S \in SUBSET Nat, S # {}
  PROVE  \E m \in S : \A n \in S : m <= n
<1> DEFINE Less == OpToRel(<, Nat)
<1>1. PICK m \in S : \A n \in S : <<n, m>> \notin Less
  BY NatLessThanWellFounded, WFMin, Zenon
<1>2. Less = {p \in Nat \X Nat : p[1] < p[2]}
  BY Zenon DEF OpToRel
<1> HIDE DEF Less
<1>3. \A n \in S : ~(n < m)
  BY <1>1, <1>2
<1> QED
  BY <1>3

\* A set of numbers that has 0, and n + 1 whenever it has n, has all.
LEMMA AllNumbers ==
  ASSUME NEW S \in SUBSET Nat, 0 \in S, \A n \in S : n + 1 \in S
  PROVE  S = Nat
<1> SUFFICES ASSUME Nat \ S # {} PROVE FALSE
  OBVIOUS
<1>1. PICK m \in Nat \ S : \A n \in Nat \ S : m <= n
  BY LeastNumber
<1>2. m # 0 /\ m - 1 \in Nat /\ m - 1 \in S
  BY <1>1
<1> QED
  BY <1>1, <1>2

-----------------------------------------------------------------------------
(* The first inductive invariant.  A command is in one of three situations. *)

\* It erases sectors that are to be erased.
Erasing ==
  /\ \A s \in Sectors : flash[s] \in {before[s], goal[s]}
  /\ \A i \in DOMAIN todo :
       /\ todo[i].do = "erase"
       /\ Reaches(todo[i].sec) /\ Reached(todo[i].sec) \in Sectors => goal[Reached(todo[i].sec)] = Blank

\* Only one sector is worked on.
OneSector ==
  \E d \in Sectors :
    /\ \A s \in Sectors \ {d} : flash[s] = before[s]
    /\ \A i \in DOMAIN todo : Reached(todo[i].sec) \in Sectors => Reached(todo[i].sec) = d

Secpos == cmd.addr \div SectorSize
Secoff == cmd.addr % SectorSize
Count == SectorCount(Secoff, cmd.bytes)
At(k) == Reached(Secpos + k)

\* It is sfmw: k sectors are written, the others as they were before, except for the
\* one that has been erased and whose content is in pmen.  r of its three operations
\* are over.
Rewriting(k, r) ==
  /\ todo = [i \in 1..3 * Count - (3 * k + r) |-> SfmwSteps(Secpos, Secoff, cmd.bytes)[3 * k + r + i]]
  /\ \A j \in 0..k - 1 : flash[At(j)] = goal[At(j)]
  /\ \A s \in Sectors : (\A j \in 0..k - 1 : s # At(j)) /\ (r = 2 => s # At(k)) => flash[s] = before[s]
  /\ r >= 1 => pmen = before[At(k)]
  /\ r = 2 => flash[At(k)] = Blank

SfmwRuns ==
  /\ cmd.addr \in Addresses /\ cmd.bytes \in Texts
  /\ goal = Changed(before, cmd.addr, cmd.bytes)
  /\ \E k \in 0..Count - 1, r \in 0..2 : Rewriting(k, r)

\* What an sfmw that returns SPI_FLASH_RESULT_OK was to write is written, whatever failed
\* in other commands.
SfmwOkWritten == status = "ok" /\ cmd.do = "sfmw" => flash = goal

Busy ==
  /\ todo # <<>> /\ todo \in Seq({todo[i] : i \in DOMAIN todo})
  /\ IF cmd.do = "sfmw" THEN SfmwRuns ELSE Erasing \/ OneSector

\* Sectors hold SectorSize bytes each.
SectorsShaped(store) ==
  /\ store = [s \in Sectors |-> store[s]]
  /\ \A s \in Sectors : store[s] = [i \in 1..SectorSize |-> store[s][i]]

StoreInv ==
  /\ SectorsShaped(flash) /\ SectorsShaped(before)
  /\ OneSectorInDoubt
  /\ SfmwOkWritten
  /\ status = "busy" => Busy

-----------------------------------------------------------------------------
(* Arithmetic: quotients, and products with a sector size b.               *)

LEMMA DivMod ==
  ASSUME NEW a \in Nat, NEW b \in Nat \ {0}
  PROVE  a = b * (a \div b) + (a % b) /\ a % b \in 0..b - 1 /\ a \div b \in Nat
  OBVIOUS

LEMMA DivModOf ==
  ASSUME NEW b \in Nat \ {0}, NEW q \in Nat, NEW r \in 0..b - 1
  PROVE  (b * q + r) \div b = q /\ (b * q + r) % b = r
  OBVIOUS

LEMMA Product ==
  ASSUME NEW b \in Nat, NEW x \in Nat, NEW y \in Nat
  PROVE  /\ b * x \in Nat /\ x * b = b * x /\ b * 0 = 0
         /\ b * (x + y) = b * x + b * y
         /\ b * (x + 1) = b * x + b
         /\ x <= y => b * x <= b * y
<1>1. /\ b * x \in Nat /\ x * b = b * x /\ b * 0 = 0
      /\ b * (x + y) = b * x + b * y
      /\ b * (x + 1) = b * x + b
  OBVIOUS
<1>2. ASSUME x <= y PROVE b * x <= b * y
  <2>1. y - x \in Nat /\ b * (y - x) \in Nat
    BY <1>2
  <2>2. b * (x + (y - x)) = b * x + b * (y - x)
    BY <2>1
  <2>3. b * x \in Nat /\ b * y \in Nat /\ x + (y - x) = y
    OBVIOUS
  <2> QED
    BY <2>1, <2>2, <2>3
<1> QED
  BY <1>1, <1>2

LEMMA ProductGrows ==
  ASSUME NEW b \in Nat \ {0}, NEW p \in Nat, NEW q \in Nat, b * p < b * q
  PROVE  p < q /\ b * p + b <= b * q
<1>1. b * p \in Nat /\ b * q \in Nat /\ b * (p + 1) = b * p + b
  BY Product
<1>2. p < q
  <2>1. SUFFICES ASSUME q <= p PROVE FALSE
    OBVIOUS
  <2>2. b * q <= b * p
    BY <2>1, Product
  <2> QED
    BY <1>1, <2>2
<1>3. b * (p + 1) <= b * q
  <2>1. p + 1 \in Nat /\ p + 1 <= q
    BY <1>2
  <2> QED
    BY <2>1, Product
<1> QED
  BY <1>1, <1>2, <1>3

\* The m-th byte of a text that begins at offset o of sector p and ends before sector p + n.
LEMMA ByteInSector ==
  ASSUME NEW b \in Nat \ {0}, NEW p \in Nat, NEW o \in 0..b - 1, NEW n \in Nat, NEW q \in Nat,
         NEW i \in 0..b - 1, NEW m \in Nat \ {0},
         o + m - 1 < b * n, b * q + i = b * p + o + m - 1
  PROVE  \E k \in 0..n - 1 : q = p + k /\ m = b * k - o + i + 1
<1>1. b * p \in Nat /\ b * q \in Nat /\ b * n \in Nat
  BY Product
<1>2. p <= q
  <2>1. SUFFICES ASSUME q < p PROVE FALSE
    OBVIOUS
  <2>2. q + 1 \in Nat /\ q + 1 <= p /\ b * (q + 1) = b * q + b
    BY <2>1, Product
  <2>3. b * (q + 1) <= b * p
    BY <2>2, Product
  <2> QED
    BY <1>1, <2>2, <2>3
<1>3. q < p + n
  <2>1. SUFFICES ASSUME p + n <= q PROVE FALSE
    OBVIOUS
  <2>2. b * (p + n) <= b * q /\ b * (p + n) = b * p + b * n
    <3>1. p + n \in Nat
      OBVIOUS
    <3> QED
      BY <2>1, <3>1, Product
  <2> QED
    BY <1>1, <2>2
<1>4. PICK k \in 0..n - 1 : q = p + k
  <2>1. q - p \in 0..n - 1 /\ q = p + (q - p)
    BY <1>2, <1>3
  <2> QED
    BY <2>1
<1>5. k \in Nat /\ b * k \in Nat /\ b * (p + k) = b * p + b * k
  <2>1. k \in Nat
    BY <1>4
  <2> QED
    BY <2>1, Product
<1> QED
  BY <1>1, <1>4, <1>5


\* How many sectors l bytes need that begin at offset o of one of c sectors.
LEMMA SectorsNeeded ==
  ASSUME NEW b \in Nat \ {0}, NEW c \in Nat \ {0}, NEW o \in 0..b - 1, NEW l \in Nat \ {0},
         l <= (c - 1) * b
  PROVE  LET q == (o + l - 1) \div b
         IN q \in Nat /\ q + 1 <= c /\ b * q <= o + l - 1 /\ o + l - 1 < b * (q + 1)
<1>1. \A m \in Nat : m = b * (m \div b) + (m % b) /\ m % b \in 0..b - 1 /\ m \div b \in Nat
  BY DivMod
<1>2. PICK q \in Nat, r \in 0..b - 1 : q = (o + l - 1) \div b /\ o + l - 1 = b * q + r
  <2>1. o + l - 1 \in Nat
    OBVIOUS
  <2> QED
    BY <1>1, <2>1
<1>3. b * q \in Nat /\ b * (q + 1) = b * q + b
  BY Product
<1>4. q + 1 <= c
  <2>1. SUFFICES ASSUME c <= q PROVE FALSE
    OBVIOUS
  <2>2. b * c <= b * q
    BY <2>1, Product
  <2>3. b * c = b * (c - 1) + b /\ (c - 1) * b = b * (c - 1) /\ b * (c - 1) \in Nat
    <3>1. c - 1 \in Nat /\ (c - 1) + 1 = c
      OBVIOUS
    <3> QED
      BY <3>1, Product
  <2>4. o + l - 1 < b * c
    BY <2>3
  <2> QED
    BY <1>2, <1>3, <2>2, <2>4
<1> QED
  BY <1>2, <1>3, <1>4

-----------------------------------------------------------------------------
(* Positions and sectors.                                                  *)

LEMMA SizesArePositive == SectorSize \in Nat \ {0} /\ Chip \in Nat \ {0}
  BY FlashAssumption

\* As many sectors in a row as the chip has are all different.
LEMMA ReachedDiffer ==
  ASSUME NEW x \in Nat, NEW y \in Nat, x < y, y - x < Chip, Reached(x) = Reached(y)
  PROVE  FALSE
<1>1. x % Chip = y % Chip
  BY DEF Reached
<1>2. /\ x = Chip * (x \div Chip) + (x % Chip) /\ x \div Chip \in Nat
      /\ y = Chip * (y \div Chip) + (y % Chip) /\ y \div Chip \in Nat
      /\ x % Chip \in Nat
  <2>1. \A z \in Nat : z = Chip * (z \div Chip) + (z % Chip) /\ z % Chip \in Nat /\ z \div Chip \in Nat
    BY SizesArePositive, DivMod
  <2> QED
    BY <2>1
<1>3. PICK u \in Nat, v \in Nat, r \in Nat : x = Chip * u + r /\ y = Chip * v + r
  BY <1>1, <1>2
<1>4. Chip * u \in Nat /\ Chip * v \in Nat
  BY SizesArePositive, Product
<1>5. Chip * u < Chip * v /\ Chip * v < Chip * u + Chip
  BY <1>3, <1>4, SizesArePositive
<1> QED
  BY <1>4, <1>5, SizesArePositive, ProductGrows

LEMMA ReachedIsSector == ASSUME NEW x \in Nat PROVE Reached(x) \in Sectors
  BY SizesArePositive, DivMod DEF Reached, Sectors

\* Where a write begins.
LEMMA WhereItBegins ==
  ASSUME NEW addr \in Addresses
  PROVE  /\ addr \in Nat /\ addr \div SectorSize \in Nat /\ addr % SectorSize \in 0..SectorSize - 1
         /\ addr = SectorSize * (addr \div SectorSize) + (addr % SectorSize)
<1>1. addr \in Nat
  BY FlashAssumption
<1> QED
  BY <1>1, SizesArePositive, DivMod

\* The sectors that sfmw goes through: the last byte is in the last one.
LEMMA SectorBounds ==
  ASSUME NEW bytes \in Texts, NEW o \in 0..SectorSize - 1
  PROVE  /\ bytes \in Seq(Nat) /\ Len(bytes) \in Nat
         /\ SectorCount(o, bytes) \in Nat \ {0} /\ SectorCount(o, bytes) <= Chip
         /\ Len(bytes) = 0 => SectorCount(o, bytes) = 1
         /\ Len(bytes) > 0 => /\ o + Len(bytes) - 1 >= SectorSize * (SectorCount(o, bytes) - 1)
                              /\ o + Len(bytes) - 1 < SectorSize * SectorCount(o, bytes)
<1>1. bytes \in Seq(Nat) /\ Len(bytes) \in Nat /\ Len(bytes) <= (Chip - 1) * SectorSize
  BY FlashAssumption
<1>2. CASE bytes = <<>>
  <2>1. SectorCount(o, bytes) = 1 /\ Len(bytes) = 0
    BY <1>2 DEF SectorCount
  <2> QED
    BY <1>1, <2>1, SizesArePositive
<1>3. CASE bytes # <<>>
  <2>1. Len(bytes) \in Nat \ {0}
    BY <1>1, <1>3, EmptySeq
  <2>2. PICK q : /\ q = (o + Len(bytes) - 1) \div SectorSize
                 /\ q \in Nat /\ q + 1 <= Chip
                 /\ SectorSize * q <= o + Len(bytes) - 1 /\ o + Len(bytes) - 1 < SectorSize * (q + 1)
    BY <1>1, <2>1, SizesArePositive, SectorsNeeded
  <2>3. SectorCount(o, bytes) = q + 1
    BY <1>3, <2>2 DEF SectorCount
  <2>4. SectorCount(o, bytes) - 1 = q
    BY <2>2, <2>3
  <2> QED
    BY <1>1, <2>1, <2>2, <2>3, <2>4
<1> QED
  BY <1>2, <1>3

\* The sector and the offset of the m-th byte.
LEMMA ByteAt ==
  ASSUME NEW addr \in Nat, NEW bytes \in Texts, NEW p \in Nat, NEW o \in 0..SectorSize - 1,
         addr = SectorSize * p + o, NEW m \in 1..Len(bytes)
  PROVE  \E k \in 0..SectorCount(o, bytes) - 1 :
           /\ (addr + m - 1) \div SectorSize = p + k
           /\ m = SectorSize * k - o + ((addr + m - 1) % SectorSize) + 1
<1> DEFINE n == SectorCount(o, bytes)
<1>1. n \in Nat /\ o + Len(bytes) - 1 < SectorSize * n /\ Len(bytes) \in Nat
  BY SectorBounds
<1> HIDE DEF n
<1>2. addr + m - 1 \in Nat /\ m \in Nat \ {0}
  BY <1>1
<1>3. PICK q \in Nat, i \in 0..SectorSize - 1 :
        q = (addr + m - 1) \div SectorSize /\ i = (addr + m - 1) % SectorSize
        /\ addr + m - 1 = SectorSize * q + i
  <2>1. \A z \in Nat : /\ z = SectorSize * (z \div SectorSize) + (z % SectorSize)
                       /\ z % SectorSize \in 0..SectorSize - 1 /\ z \div SectorSize \in Nat
    BY SizesArePositive, DivMod
  <2> QED
    BY <1>2, <2>1
<1>4. SectorSize * p \in Nat /\ SectorSize * n \in Nat /\ SectorSize * q \in Nat
  BY <1>1, SizesArePositive, Product
<1>5. SectorSize * q + i = SectorSize * p + o + m - 1
  BY <1>3
<1>6. o + m - 1 < SectorSize * n
  BY <1>1, <1>4
<1>7. \E k \in 0..n - 1 : q = p + k /\ m = SectorSize * k - o + i + 1
  BY <1>1, <1>2, <1>5, <1>6, SizesArePositive, ByteInSector
<1> QED
  BY <1>3, <1>7 DEF n

LEMMA SmallerOfTwo ==
  ASSUME NEW x \in Int, NEW y \in Int
  PROVE  Min({x, y}) = IF x <= y THEN x ELSE y
  BY DEF Min

\* Where the k-th part begins in the text and in its sector.
LEMMA PartBegins ==
  ASSUME NEW bytes \in Texts, NEW o \in 0..SectorSize - 1, NEW k \in 0..SectorCount(o, bytes) - 1
  PROVE  /\ k \in Nat /\ SectorSize * k \in Nat
         /\ BytesBefore(o, k) \in Nat /\ BytesBefore(o, k) <= Len(bytes)
         /\ OffsetIn(o, k) \in 0..SectorSize - 1
         /\ BytesBefore(o, k) - OffsetIn(o, k) = SectorSize * k - o
         /\ k > 0 => OffsetIn(o, k) = 0
         /\ k = 0 => BytesBefore(o, k) = 0
<1> DEFINE n == SectorCount(o, bytes)
<1>1. /\ n \in Nat \ {0} /\ Len(bytes) \in Nat
      /\ Len(bytes) = 0 => n = 1
      /\ Len(bytes) > 0 => o + Len(bytes) - 1 >= SectorSize * (n - 1)
  BY SectorBounds
<1>2. k \in 0..n - 1
  OBVIOUS
<1> HIDE DEF n
<1>3. k \in Nat /\ k <= n - 1 /\ n - 1 \in Nat
  BY <1>1, <1>2
<1>4. /\ SectorSize * k \in Nat /\ k * SectorSize = SectorSize * k
      /\ SectorSize * k <= SectorSize * (n - 1) /\ SectorSize * (n - 1) \in Nat
      /\ SectorSize * 0 = 0
  BY <1>3, SizesArePositive, Product
<1>5. CASE k = 0
  <2>1. BytesBefore(o, k) = 0 /\ OffsetIn(o, k) = o /\ SectorSize * k = 0
    BY <1>4, <1>5 DEF BytesBefore, OffsetIn
  <2> QED
    BY <1>1, <1>5, <2>1
<1>6. CASE k > 0
  <2>1. BytesBefore(o, k) = SectorSize * k - o /\ OffsetIn(o, k) = 0
    BY <1>3, <1>4, <1>6 DEF BytesBefore, OffsetIn
  <2>2. SectorSize <= SectorSize * k
    <3>1. 1 <= k /\ SectorSize * 1 = SectorSize
      BY <1>3, <1>6, SizesArePositive
    <3> QED
      BY <1>3, <3>1, SizesArePositive, Product
  <2>3. Len(bytes) > 0
    BY <1>1, <1>3, <1>6
  <2>4. SectorSize * k - o \in Nat /\ SectorSize * k - o <= Len(bytes)
    BY <1>1, <1>4, <2>2, <2>3, SizesArePositive
  <2> QED
    BY <1>3, <1>4, <1>6, <2>1, <2>4, SizesArePositive
<1> QED
  BY <1>3, <1>5, <1>6

\* The k-th part of the text in its sector.
LEMMA PartReplaced ==
  ASSUME NEW bytes \in Texts, NEW o \in 0..SectorSize - 1, NEW k \in 0..SectorCount(o, bytes) - 1,
         NEW old, NEW i \in 1..SectorSize
  PROVE  Replaced(old, OffsetIn(o, k), Part(o, bytes, k))[i]
           = IF SectorSize * k - o + i \in 1..Len(bytes) THEN bytes[SectorSize * k - o + i] ELSE old[i]
<1> DEFINE written == BytesBefore(o, k)
           off == OffsetIn(o, k)
           remain == Min({Len(bytes) - written, SectorSize - off})
           part == Part(o, bytes, k)
           m == SectorSize * k - o + i
<1>1. bytes \in Seq(Nat) /\ Len(bytes) \in Nat
  BY SectorBounds
<1>2. /\ k \in Nat /\ SectorSize * k \in Nat
      /\ written \in Nat /\ written <= Len(bytes)
      /\ off \in 0..SectorSize - 1
      /\ written - off = SectorSize * k - o
      /\ k > 0 => off = 0
      /\ k = 0 => written = 0
  BY PartBegins
<1>3. part = SubSeq(bytes, written + 1, written + remain)
  BY DEF Part
<1>4. Replaced(old, off, part)[i] = IF i - off \in DOMAIN part THEN part[i - off] ELSE old[i]
  BY DEF Replaced
<1>5. remain = IF Len(bytes) - written <= SectorSize - off THEN Len(bytes) - written ELSE SectorSize - off
  <2>1. Len(bytes) - written \in Int /\ SectorSize - off \in Int
    BY <1>1, <1>2, SizesArePositive
  <2> QED
    BY <2>1, SmallerOfTwo
<1>6. m = written + (i - off) /\ m \in Int
  <2>1. \A w, f, x, d \in Int : w - f = d => d + x = w + (x - f)
    OBVIOUS
  <2>2. SectorSize * k - o \in Int
    BY <1>2, SizesArePositive
  <2> QED
    BY <1>2, <2>1, <2>2, SizesArePositive
<1> HIDE DEF written, off, remain, part, m
<1>7. remain \in Nat
  BY <1>1, <1>2, <1>5, SizesArePositive
<1>8. DOMAIN part = 1..remain /\ \A j \in 1..remain : part[j] = bytes[written + j]
  <2>1. written + remain <= Len(bytes)
    BY <1>1, <1>2, <1>5, SizesArePositive
  <2>2. /\ written + 1 \in Int /\ written + remain \in Int
        /\ (written + remain) - (written + 1) + 1 = remain
        /\ \A j \in 1..remain : (written + 1) + j - 1 = written + j
    BY <1>2, <1>7
  <2>3. ASSUME NEW j \in (written + 1)..(written + remain) PROVE bytes[j] \in Nat
    <3>1. j \in 1..Len(bytes)
      BY <1>1, <1>2, <1>7, <2>1
    <3> QED
      BY <1>1, <3>1
  <2>4. part \in Seq(Nat) /\ Len(part) = remain
    BY <1>2, <1>3, <1>7, <2>2, <2>3, SubSeqProperties
  <2>5. \A j \in 1..remain : part[j] = bytes[(written + 1) + j - 1]
    BY <1>3, <2>2, <2>3, SubSeqProperties
  <2> QED
    BY <2>2, <2>4, <2>5
<1>9. i - off \in DOMAIN part <=> m \in 1..Len(bytes)
  <2>1. i - off \in 1..remain <=> m \in 1..Len(bytes)
    BY <1>1, <1>2, <1>5, <1>6, SizesArePositive
  <2> QED
    BY <1>8, <2>1
<1>10. ASSUME i - off \in DOMAIN part PROVE part[i - off] = bytes[m]
  BY <1>6, <1>8, <1>10
<1>11. Replaced(old, off, part)[i] = IF m \in 1..Len(bytes) THEN bytes[m] ELSE old[i]
  BY <1>4, <1>9, <1>10
<1> QED
  BY <1>11 DEF off, part, m

\* What the write is to leave in its k-th sector ...
LEMMA GoalAt ==
  ASSUME NEW addr \in Nat, NEW bytes \in Texts, NEW p \in Nat, NEW o \in 0..SectorSize - 1,
         addr = SectorSize * p + o, NEW k \in 0..SectorCount(o, bytes) - 1,
         NEW old, NEW i \in 1..SectorSize
  PROVE  Changed(old, addr, bytes)[Reached(p + k)][i]
           = IF SectorSize * k - o + i \in 1..Len(bytes) THEN bytes[SectorSize * k - o + i]
             ELSE old[Reached(p + k)][i]
<1> DEFINE c == Reached(p + k)
           m == SectorSize * k - o + i
           H == {j \in DOMAIN bytes : LET a == addr + j - 1
                                      IN Reached(a \div SectorSize) = c /\ a % SectorSize = i - 1}
<1>1. /\ bytes \in Seq(Nat) /\ Len(bytes) \in Nat /\ DOMAIN bytes = 1..Len(bytes)
      /\ SectorCount(o, bytes) \in Nat /\ SectorCount(o, bytes) <= Chip
  BY SectorBounds
<1>2. k \in Nat /\ p + k \in Nat /\ i - 1 \in 0..SectorSize - 1
  BY <1>1, SizesArePositive
<1>3. SectorSize * k \in Nat /\ SectorSize * p \in Nat /\ SectorSize * (p + k) = SectorSize * p + SectorSize * k
  BY <1>2, SizesArePositive, Product
<1>4. c \in Sectors
  BY <1>2, ReachedIsSector
<1>5. Changed(old, addr, bytes)[c][i] = IF H = {} THEN old[c][i] ELSE bytes[Max(H)]
  BY <1>4 DEF Changed
<1>6. ASSUME NEW j \in H PROVE j = m
  <2>1. /\ j \in 1..Len(bytes) /\ Reached((addr + j - 1) \div SectorSize) = Reached(p + k)
        /\ (addr + j - 1) % SectorSize = i - 1
    BY <1>1
  <2>2. PICK l \in 0..SectorCount(o, bytes) - 1 :
          /\ (addr + j - 1) \div SectorSize = p + l
          /\ j = SectorSize * l - o + ((addr + j - 1) % SectorSize) + 1
    BY <2>1, ByteAt
  <2>3. l \in Nat /\ p + l \in Nat /\ Reached(p + l) = Reached(p + k)
    BY <1>1, <2>1, <2>2
  <2>4. l = k
    <3>1. ~(p + l < p + k)
      <4>1. (p + k) - (p + l) < Chip
        BY <1>1, <1>2, <2>3, SizesArePositive
      <4> QED
        BY <1>2, <2>3, <4>1, ReachedDiffer
    <3>2. ~(p + k < p + l)
      <4>1. (p + l) - (p + k) < Chip
        BY <1>1, <1>2, <2>2, <2>3, SizesArePositive
      <4> QED
        BY <1>2, <2>3, <4>1, ReachedDiffer
    <3> QED
      BY <1>2, <2>3, <3>1, <3>2
  <2>5. j = SectorSize * k - o + (i - 1) + 1
    BY <2>1, <2>2, <2>4
  <2> HIDE DEF H
  <2> QED
    BY <1>3, <2>5
<1>7. ASSUME m \in 1..Len(bytes) PROVE m \in H
  <2>1. addr + m - 1 = SectorSize * (p + k) + (i - 1)
    <3>1. \A x, y, r, u : /\ x \in Nat /\ y \in Nat /\ r \in Int /\ u \in Int
                          => (x + r) + (y - r + u) - 1 = (x + y) + (u - 1)
      OBVIOUS
    <3> QED
      BY <1>3, <3>1
  <2>2. (addr + m - 1) \div SectorSize = p + k /\ (addr + m - 1) % SectorSize = i - 1
    <3>1. \A q \in Nat, r \in 0..SectorSize - 1 :
            (SectorSize * q + r) \div SectorSize = q /\ (SectorSize * q + r) % SectorSize = r
      BY SizesArePositive, DivModOf
    <3> HIDE DEF m
    <3> QED
      BY <1>2, <2>1, <3>1
  <2> QED
    BY <1>1, <1>7, <2>2
<1> HIDE DEF H
<1>8. CASE m \in 1..Len(bytes)
  <2>1. H = {m}
    BY <1>6, <1>7, <1>8
  <2>2. Max({m}) = m
    <3> HIDE DEF m
    <3> QED
      BY <1>8 DEF Max
  <2> QED
    BY <1>5, <1>8, <2>1, <2>2
<1>9. CASE m \notin 1..Len(bytes)
  <2>1. H = {}
    BY <1>1, <1>6, <1>9 DEF H
  <2> QED
    BY <1>5, <1>9, <2>1
<1> QED
  BY <1>8, <1>9

\* ... and in the others.
LEMMA GoalElsewhere ==
  ASSUME NEW addr \in Nat, NEW bytes \in Texts, NEW p \in Nat, NEW o \in 0..SectorSize - 1,
         addr = SectorSize * p + o,
         NEW old, NEW s \in Sectors, \A k \in 0..SectorCount(o, bytes) - 1 : s # Reached(p + k),
         old[s] = [i \in 1..SectorSize |-> old[s][i]]
  PROVE  Changed(old, addr, bytes)[s] = old[s]
<1>1. bytes \in Seq(Nat) /\ DOMAIN bytes = 1..Len(bytes)
  BY SectorBounds
<1>2. ASSUME NEW i \in 1..SectorSize
      PROVE  {j \in DOMAIN bytes : LET a == addr + j - 1
                                   IN Reached(a \div SectorSize) = s /\ a % SectorSize = i - 1} = {}
  BY <1>1, ByteAt
<1>3. Changed(old, addr, bytes)[s] = [i \in 1..SectorSize |-> old[s][i]]
  BY <1>2 DEF Changed
<1> QED
  BY <1>3

-----------------------------------------------------------------------------
(* Commands as sequences of operations.                                    *)

LEMMA FunctionIsSequence ==
  ASSUME NEW n \in Nat, NEW f, f = [i \in 1..n |-> f[i]]
  PROVE  f \in Seq({f[i] : i \in DOMAIN f}) /\ Len(f) = n /\ DOMAIN f = 1..n
<1>1. DOMAIN f = 1..n
  OBVIOUS
<1>2. f \in [1..n -> {f[i] : i \in DOMAIN f}]
  BY <1>1
<1> QED
  BY <1>1, <1>2

\* What is left when the first operation is over.
LEMMA Rest ==
  ASSUME NEW t, t # <<>>, t \in Seq({t[i] : i \in DOMAIN t})
  PROVE  /\ Len(t) \in Nat \ {0} /\ DOMAIN t = 1..Len(t)
         /\ Head(t) = t[1]
         /\ Tail(t) = [i \in 1..Len(t) - 1 |-> t[i + 1]]
         /\ DOMAIN Tail(t) = 1..Len(t) - 1
         /\ \A i \in 1..Len(t) - 1 : Tail(t)[i] = t[i + 1] /\ i + 1 \in DOMAIN t
         /\ Tail(t) \in Seq({Tail(t)[i] : i \in DOMAIN Tail(t)})
         /\ Len(t) = 1 <=> Tail(t) = <<>>
<1> DEFINE S == {t[i] : i \in DOMAIN t}
<1>1. t \in Seq(S)
  OBVIOUS
<1> HIDE DEF S
<1>2. Len(t) \in Nat \ {0} /\ DOMAIN t = 1..Len(t)
  BY <1>1, EmptySeq
<1>3. Head(t) = t[1]
  BY <1>1
<1>4. Tail(t) \in Seq(S) /\ Len(Tail(t)) = Len(t) - 1 /\ \A i \in 1..Len(t) - 1 : Tail(t)[i] = t[i + 1]
  BY <1>1, <1>2, HeadTailProperties
<1>5. DOMAIN Tail(t) = 1..Len(t) - 1
  BY <1>2, <1>4
<1>6. Tail(t) = [i \in 1..Len(t) - 1 |-> Tail(t)[i]]
  <2>1. Tail(t) \in [1..Len(t) - 1 -> S]
    BY <1>4, LenProperties
  <2> QED
    BY <2>1
<1>7. Tail(t) = [i \in 1..Len(t) - 1 |-> t[i + 1]]
  BY <1>4, <1>6
<1>8. Len(t) - 1 \in Nat
  BY <1>2
<1>9. Tail(t) \in Seq({Tail(t)[i] : i \in DOMAIN Tail(t)})
  BY <1>6, <1>8, FunctionIsSequence
<1>10. Len(t) = 1 <=> Tail(t) = <<>>
  <2>1. Tail(t) = <<>> <=> Len(Tail(t)) = 0
    BY <1>4, EmptySeq
  <2> QED
    BY <1>2, <1>4, <2>1
<1>11. \A i \in 1..Len(t) - 1 : i + 1 \in DOMAIN t
  BY <1>2
<1> QED
  BY <1>2, <1>3, <1>4, <1>5, <1>7, <1>9, <1>10, <1>11

LEMMA SfmwPlaces ==
  ASSUME cmd.addr \in Addresses, cmd.bytes \in Texts
  PROVE  /\ Secpos \in Nat /\ Secoff \in 0..SectorSize - 1
         /\ cmd.addr \in Nat /\ cmd.addr = SectorSize * Secpos + Secoff
         /\ Count \in Nat \ {0} /\ Count <= Chip
         /\ \A k \in 0..Count - 1 : At(k) \in Sectors
         /\ \A j, k \in 0..Count - 1 : j < k => At(j) # At(k)
<1>1. /\ Secpos \in Nat /\ Secoff \in 0..SectorSize - 1
      /\ cmd.addr \in Nat /\ cmd.addr = SectorSize * Secpos + Secoff
  BY WhereItBegins DEF Secpos, Secoff
<1>2. Count \in Nat \ {0} /\ Count <= Chip
  BY <1>1, SectorBounds DEF Count
<1>3. ASSUME NEW k \in 0..Count - 1 PROVE At(k) \in Sectors
  <2>1. Secpos + k \in Nat
    BY <1>1, <1>2
  <2> QED
    BY <2>1, ReachedIsSector DEF At
<1>4. ASSUME NEW j \in 0..Count - 1, NEW k \in 0..Count - 1, j < k PROVE At(j) # At(k)
  <2>1. /\ Secpos + j \in Nat /\ Secpos + k \in Nat /\ Secpos + j < Secpos + k
        /\ (Secpos + k) - (Secpos + j) < Chip
    BY <1>1, <1>2, <1>4, SizesArePositive
  <2> QED
    BY <2>1, ReachedDiffer DEF At
<1> QED
  BY <1>1, <1>2, <1>3, <1>4

\* What sfmw writes to its k-th sector is what is to be there.
LEMMA RewrittenIsGoal ==
  ASSUME cmd.addr \in Addresses, cmd.bytes \in Texts, goal = Changed(before, cmd.addr, cmd.bytes),
         NEW k \in 0..Count - 1
  PROVE  Replaced(before[At(k)], OffsetIn(Secoff, k), Part(Secoff, cmd.bytes, k)) = goal[At(k)]
<1> DEFINE new == Replaced(before[At(k)], OffsetIn(Secoff, k), Part(Secoff, cmd.bytes, k))
<1>1. /\ Secpos \in Nat /\ Secoff \in 0..SectorSize - 1
      /\ cmd.addr \in Nat /\ cmd.addr = SectorSize * Secpos + Secoff
      /\ At(k) \in Sectors
  BY SfmwPlaces
<1>2. k \in 0..SectorCount(Secoff, cmd.bytes) - 1
  BY DEF Count
<1>3. ASSUME NEW i \in 1..SectorSize PROVE new[i] = goal[At(k)][i]
  <2>1. new[i] = IF SectorSize * k - Secoff + i \in 1..Len(cmd.bytes)
                 THEN cmd.bytes[SectorSize * k - Secoff + i] ELSE before[At(k)][i]
    BY <1>1, <1>2, PartReplaced
  <2>2. goal[At(k)][i] = IF SectorSize * k - Secoff + i \in 1..Len(cmd.bytes)
                         THEN cmd.bytes[SectorSize * k - Secoff + i] ELSE before[At(k)][i]
    BY <1>1, <1>2, GoalAt DEF At
  <2> QED
    BY <2>1, <2>2
<1>4. new = [i \in 1..SectorSize |-> new[i]]
  BY DEF Replaced
<1>5. goal[At(k)] = [i \in 1..SectorSize |-> goal[At(k)][i]]
  BY <1>1 DEF Changed
<1> HIDE DEF new
<1>6. new = goal[At(k)]
  BY <1>3, <1>4, <1>5
<1> QED
  BY <1>6 DEF new

\* The operation that is next, and what it leaves.
LEMMA NextOfSfmw ==
  ASSUME SfmwRuns, NEW k \in 0..Count - 1, NEW r \in 0..2, Rewriting(k, r)
  PROVE  /\ Step = SectorSteps(Secpos + k, OffsetIn(Secoff, k), Part(Secoff, cmd.bytes, k))[r + 1]
         /\ todo \in Seq({todo[i] : i \in DOMAIN todo}) /\ todo # <<>>
         /\ Len(todo) = 3 * Count - (3 * k + r)
         /\ Tail(todo) = [i \in 1..3 * Count - (3 * k + r + 1) |->
                            SfmwSteps(Secpos, Secoff, cmd.bytes)[3 * k + r + 1 + i]]
<1>1. Secpos \in Nat /\ Count \in Nat \ {0} /\ k \in Nat /\ r \in Nat
  BY SfmwPlaces DEF SfmwRuns
<1> DEFINE n == 3 * Count - (3 * k + r)
           steps == SfmwSteps(Secpos, Secoff, cmd.bytes)
<1>2. n \in Nat \ {0}
  BY <1>1
<1>3. todo = [i \in 1..n |-> steps[3 * k + r + i]]
  BY DEF Rewriting
<1>4. n - 1 = 3 * Count - (3 * k + r + 1)
  BY <1>1
<1>5. steps[3 * k + r + 1] = SectorSteps(Secpos + k, OffsetIn(Secoff, k), Part(Secoff, cmd.bytes, k))[r + 1]
  <2> DEFINE m == 3 * k + r + 1
  <2>1. m \in 1..3 * SectorCount(Secoff, cmd.bytes) /\ (m - 1) \div 3 = k /\ m - 3 * k = r + 1
    BY <1>1 DEF Count
  <2> HIDE DEF m
  <2>2. steps[m] = SectorSteps(Secpos + k, OffsetIn(Secoff, k), Part(Secoff, cmd.bytes, k))[r + 1]
    BY <2>1 DEF SfmwSteps
  <2> QED
    BY <2>2 DEF m
<1> HIDE DEF n, steps
<1>6. todo \in Seq({todo[i] : i \in DOMAIN todo}) /\ Len(todo) = n /\ DOMAIN todo = 1..n
  <2>1. todo = [i \in 1..n |-> todo[i]]
    BY <1>3
  <2> QED
    BY <1>2, <2>1, FunctionIsSequence
<1>7. todo # <<>>
  BY <1>2, <1>6
<1>8. Head(todo) = todo[1] /\ Tail(todo) = [i \in 1..n - 1 |-> todo[i + 1]]
  BY <1>6, <1>7, Rest
<1>9. todo[1] = steps[3 * k + r + 1]
  BY <1>2, <1>3
<1>10. \A i \in 1..n - 1 : todo[i + 1] = steps[3 * k + r + 1 + i]
  <2>1. ASSUME NEW i \in 1..n - 1 PROVE todo[i + 1] = steps[3 * k + r + 1 + i]
    <3>1. i + 1 \in 1..n /\ 3 * k + r + (i + 1) = 3 * k + r + 1 + i
      BY <1>1, <1>2
    <3>2. todo[i + 1] = steps[3 * k + r + (i + 1)]
      BY <1>3, <3>1
    <3> QED
      BY <3>1, <3>2
  <2> QED
    BY <2>1
<1>11. Tail(todo) = [i \in 1..n - 1 |-> steps[3 * k + r + 1 + i]]
  BY <1>8, <1>10
<1> QED
  BY <1>4, <1>5, <1>6, <1>7, <1>8, <1>9, <1>11 DEF Step, n, steps

\* Whatever becomes of the sector that the next operation is about, one is in doubt at most.
LEMMA OthersAreSpared ==
  ASSUME StoreInv, status = "busy", NEW f,
         \A s \in Sectors : s # Reached(Step.sec) => f[s] = flash[s]
  PROVE  \E doubtful \in Sectors : \A s \in Sectors \ {doubtful} : f[s] \in {before[s], goal[s]}
<1>1. Busy
  BY DEF StoreInv
<1>2. 0 \in Sectors
  BY SizesArePositive DEF Sectors
<1>3. CASE cmd.do = "sfmw"
  <2>1. SfmwRuns
    BY <1>1, <1>3 DEF Busy
  <2>2. PICK k \in 0..Count - 1, r \in 0..2 : Rewriting(k, r)
    BY <2>1 DEF SfmwRuns
  <2>3. Step.sec = Secpos + k
    <3>1. Step = SectorSteps(Secpos + k, OffsetIn(Secoff, k), Part(Secoff, cmd.bytes, k))[r + 1]
      BY <2>1, <2>2, NextOfSfmw
    <3>2. r = 0 \/ r = 1 \/ r = 2
      OBVIOUS
    <3> QED
      BY <3>1, <3>2 DEF SectorSteps, Read, Erase, Rewrite
  <2>4. At(k) \in Sectors /\ Count \in Nat /\ k \in Nat
    BY <2>1, SfmwPlaces DEF SfmwRuns
  <2>5. ASSUME NEW s \in Sectors \ {At(k)} PROVE f[s] \in {before[s], goal[s]}
    <3>1. f[s] = flash[s]
      BY <2>3 DEF At
    <3>2. CASE \E j \in 0..k - 1 : s = At(j)
      BY <2>2, <3>1, <3>2 DEF Rewriting
    <3>3. CASE \A j \in 0..k - 1 : s # At(j)
      BY <2>2, <3>1, <3>3 DEF Rewriting
    <3> QED
      BY <3>2, <3>3
  <2> QED
    BY <2>4, <2>5
<1>4. CASE cmd.do # "sfmw" /\ Erasing
  <2> DEFINE d == IF Reached(Step.sec) \in Sectors THEN Reached(Step.sec) ELSE 0
  <2>1. d \in Sectors
    BY <1>2
  <2>2. \A s \in Sectors \ {d} : f[s] \in {before[s], goal[s]}
    BY <1>4 DEF Erasing
  <2> QED
    BY <2>1, <2>2
<1>5. CASE cmd.do # "sfmw" /\ OneSector
  <2>1. PICK d \in Sectors :
          /\ \A s \in Sectors \ {d} : flash[s] = before[s]
          /\ \A i \in DOMAIN todo : Reached(todo[i].sec) \in Sectors => Reached(todo[i].sec) = d
    BY <1>5 DEF OneSector
  <2>2. Step = todo[1] /\ 1 \in DOMAIN todo
    BY <1>1, Rest DEF Busy, Step
  <2>3. \A s \in Sectors \ {d} : f[s] = before[s]
    BY <2>1, <2>2
  <2> QED
    BY <2>1, <2>3
<1> QED
  BY <1>1, <1>3, <1>4, <1>5 DEF Busy

-----------------------------------------------------------------------------
(* The invariant holds initially, and when a command begins.               *)

LEMMA ReplacedIsSector ==
  ASSUME NEW old, NEW off, NEW bytes
  PROVE  Replaced(old, off, bytes) = [i \in 1..SectorSize |-> Replaced(old, off, bytes)[i]]
         /\ Len(Replaced(old, off, bytes)) = SectorSize
<1>1. Replaced(old, off, bytes) = [i \in 1..SectorSize |-> Replaced(old, off, bytes)[i]]
  BY DEF Replaced
<1> QED
  BY <1>1, SizesArePositive, FunctionIsSequence

LEMMA InvInitially == Init => StoreInv
<1> SUFFICES ASSUME Init PROVE StoreInv
  OBVIOUS
<1>1. SectorsShaped(flash)
  <2> DEFINE code == [i \in 1..SectorSize |-> Code]
             header == Replaced(code, 0, <<TypeOfSize(Chip), SPEED_40MHZ>>)
  <2>1. flash = [s \in Sectors |-> IF s = 0 THEN header ELSE code]
    BY DEF Init
  <2>2. header = [i \in 1..SectorSize |-> header[i]]
    BY ReplacedIsSector
  <2>3. code = [i \in 1..SectorSize |-> code[i]]
    OBVIOUS
  <2> HIDE DEF code, header
  <2> QED
    BY <2>1, <2>2, <2>3 DEF SectorsShaped
<1>2. before = flash /\ status = "none" /\ 0 \in Sectors
  BY SizesArePositive DEF Init, Sectors
<1> QED
  BY <1>1, <1>2 DEF StoreInv, OneSectorInDoubt, SfmwOkWritten, SectorsShaped

\* What is left to show when a command begins.
LEMMA BeginKeepsInv ==
  ASSUME StoreInv, NEW command, NEW steps, NEW sought, Begin(command, steps, sought), Busy'
  PROVE  StoreInv'
<1>1. flash' = flash /\ before' = flash /\ status' = "busy"
  BY DEF Begin
<1>2. SectorsShaped(flash)' /\ SectorsShaped(before)'
  BY <1>1 DEF StoreInv, SectorsShaped
<1>3. 0 \in Sectors
  BY SizesArePositive DEF Sectors
<1>4. OneSectorInDoubt'
  BY <1>1, <1>3 DEF OneSectorInDoubt
<1> QED
  BY <1>1, <1>2, <1>4 DEF StoreInv, SfmwOkWritten

LEMMA SfmwKeepsInv ==
  ASSUME StoreInv, NEW a \in Addresses, NEW t \in Texts, Sfmw(a, t)
  PROVE  StoreInv'
<1> DEFINE command == [do |-> "sfmw", addr |-> a, bytes |-> t]
           p == a \div SectorSize
           o == a % SectorSize
           steps == SfmwSteps(p, o, t)
           n == SectorCount(o, t)
<1>1. Begin(command, steps, Changed(flash, a, t))
  BY DEF Sfmw
<1>2. /\ flash' = flash /\ before' = flash /\ goal' = Changed(flash, a, t)
      /\ todo' = steps /\ cmd' = command
  BY <1>1 DEF Begin
<1>3. cmd'.addr = a /\ cmd'.bytes = t /\ cmd'.do = "sfmw"
  BY <1>2
<1>4. Secpos' = p /\ Secoff' = o /\ Count' = n
  BY <1>3 DEF Secpos, Secoff, Count
<1>5. o \in 0..SectorSize - 1
  BY WhereItBegins
<1>6. n \in Nat \ {0}
  BY <1>5, SectorBounds
<1>7. steps = [i \in 1..3 * n |-> steps[i]]
  BY DEF SfmwSteps
<1> HIDE DEF steps, n, p, o
<1>8. 3 * n \in Nat \ {0} /\ steps \in Seq({steps[i] : i \in DOMAIN steps}) /\ DOMAIN steps = 1..3 * n
  <2>1. 3 * n \in Nat \ {0}
    BY <1>6
  <2> QED
    BY <1>7, <2>1, FunctionIsSequence
<1>9. todo' # <<>>
  <2>1. 1 \in DOMAIN steps
    BY <1>8
  <2> QED
    BY <1>2, <2>1
<1>10. Rewriting(0, 0)'
  <2>1. todo' = [i \in 1..3 * n - (3 * 0 + 0) |-> steps[3 * 0 + 0 + i]]
    <3>1. 3 * n - (3 * 0 + 0) = 3 * n /\ \A i \in 1..3 * n : 3 * 0 + 0 + i = i
      BY <1>6
    <3> QED
      BY <1>2, <1>7, <3>1
  <2>2. SfmwSteps(Secpos, Secoff, cmd.bytes)' = steps
    BY <1>3, <1>4 DEF steps, SfmwSteps
  <2>3. \A j \in 0..0 - 1 : FALSE
    OBVIOUS
  <2> QED
    BY <1>2, <1>4, <2>1, <2>2, <2>3 DEF Rewriting
<1>11. SfmwRuns'
  <2>1. 0 \in 0..Count' - 1 /\ 0 \in 0..2
    BY <1>4, <1>6
  <2> QED
    BY <1>2, <1>3, <1>10, <2>1 DEF SfmwRuns
<1>12. Busy'
  BY <1>2, <1>3, <1>8, <1>9, <1>11 DEF Busy
<1> QED
  BY <1>1, <1>12, BeginKeepsInv

\* Functions that work on one sector: reachable or not, it is always the same.
LEMMA OneSectorKeepsInv ==
  ASSUME StoreInv, NEW command, NEW steps, NEW sought, Begin(command, steps, sought),
         command.do # "sfmw",
         steps # <<>>, steps \in Seq({steps[i] : i \in DOMAIN steps}),
         NEW sec, \A i \in DOMAIN steps : steps[i].sec = sec
  PROVE  StoreInv'
<1>1. flash' = flash /\ before' = flash /\ todo' = steps /\ cmd' = command
  BY DEF Begin
<1>2. PICK d \in Sectors : Reached(sec) \in Sectors => Reached(sec) = d
  <2>1. 0 \in Sectors
    BY SizesArePositive DEF Sectors
  <2> QED
    BY <2>1
<1>3. OneSector'
  BY <1>1, <1>2 DEF OneSector
<1>4. Busy'
  BY <1>1, <1>3 DEF Busy
<1> QED
  BY <1>4, BeginKeepsInv

LEMMA HeaderKeepsInv ==
  ASSUME StoreInv, NEW command, NEW field, NEW type, NEW sought, command.do # "sfmw",
         Begin(command, HeaderSteps(field, type), sought)
  PROVE  StoreInv'
<1> DEFINE steps == HeaderSteps(field, type)
<1>1. steps = <<Read(0), Erase(0, TRUE), Rewrite(0, field - 1, <<type>>, TRUE)>>
  BY DEF HeaderSteps
<1>2. steps = [i \in 1..3 |-> steps[i]] /\ \A i \in 1..3 : steps[i].sec = 0
  BY <1>1 DEF Read, Erase, Rewrite
<1> HIDE DEF steps
<1>3. steps \in Seq({steps[i] : i \in DOMAIN steps}) /\ DOMAIN steps = 1..3 /\ Len(steps) = 3
  BY <1>2, FunctionIsSequence
<1>4. steps # <<>>
  BY <1>1
<1>5. Begin(command, steps, sought)
  BY DEF steps
<1> QED
  BY <1>2, <1>3, <1>4, <1>5, OneSectorKeepsInv

LEMMA DefaultKeepsInv == ASSUME StoreInv, InitDataDefault PROVE StoreInv'
<1> DEFINE sec == rom_size' - 4
           steps == <<Erase(sec, FALSE), Write(sec, InitData)>>
           sought == IF Reaches(sec) THEN [flash EXCEPT ![Reached(sec)] = Replaced(Blank, 0, InitData)]
                     ELSE flash
<1>1. Begin([do |-> "default"], steps, sought)
  BY DEF InitDataDefault
<1>2. steps = [i \in 1..2 |-> steps[i]] /\ (\A i \in 1..2 : steps[i].sec = sec) /\ steps # <<>>
  BY DEF Erase, Write
<1> HIDE DEF steps, sec, sought
<1>3. steps \in Seq({steps[i] : i \in DOMAIN steps}) /\ DOMAIN steps = 1..2
  BY <1>2, FunctionIsSequence
<1> QED
  BY <1>1, <1>2, <1>3, OneSectorKeepsInv

LEMMA BlankKeepsInv == ASSUME StoreInv, InitDataBlank PROVE StoreInv'
<1> DEFINE S == rom_size'
           steps == <<Erase(S - 2, FALSE), Erase(S - 1, FALSE)>>
           sought == [s \in Sectors |-> IF \E n \in 1..2 : Reaches(S - n) /\ s = Reached(S - n)
                                        THEN Blank ELSE flash[s]]
<1>1. Begin([do |-> "blank"], steps, sought)
  BY DEF InitDataBlank
<1>2. /\ flash' = flash /\ before' = flash /\ goal' = sought /\ mirrored' = mirrored
      /\ todo' = steps /\ cmd' = [do |-> "blank"]
  BY <1>1 DEF Begin
<1>3. /\ steps = [i \in 1..2 |-> steps[i]] /\ steps # <<>>
      /\ \A i \in 1..2 : steps[i].do = "erase" /\ \E n \in 1..2 : steps[i].sec = S - n
  BY DEF Erase
<1>4. \A i \in 1..2 : Reaches(steps[i].sec) /\ Reached(steps[i].sec) \in Sectors
                      => sought[Reached(steps[i].sec)] = Blank
  <2> HIDE DEF steps
  <2> QED
    BY <1>3
<1> HIDE DEF steps, sought, S
<1>5. steps \in Seq({steps[i] : i \in DOMAIN steps}) /\ DOMAIN steps = 1..2
  BY <1>3, FunctionIsSequence
<1>6. Erasing'
  <2>1. \A x : Reaches(x)' = Reaches(x)
    BY <1>2 DEF Reaches
  <2> QED
    BY <1>2, <1>3, <1>4, <1>5, <2>1 DEF Erasing, Reaches
<1>7. Busy'
  BY <1>2, <1>3, <1>5, <1>6 DEF Busy
<1> QED
  BY <1>1, <1>7, BeginKeepsInv

LEMMA DestructKeepsInv == ASSUME StoreInv, SelfDestruct PROVE StoreInv'
<1>1. /\ flash' = [s \in Sectors |-> Blank] /\ goal' = flash' /\ before' = flash
      /\ status' = "ok" /\ cmd' = [do |-> "destruct"]
  BY DEF SelfDestruct
<1>2. Blank = [i \in 1..SectorSize |-> Blank[i]]
  BY DEF Blank
<1>3. SectorsShaped(flash)' /\ SectorsShaped(before)'
  BY <1>1, <1>2 DEF StoreInv, SectorsShaped
<1>4. 0 \in Sectors
  BY SizesArePositive DEF Sectors
<1> QED
  BY <1>1, <1>3, <1>4 DEF StoreInv, OneSectorInDoubt, SfmwOkWritten

-----------------------------------------------------------------------------
(* An operation is done, fails, or power is lost in it.                    *)

\* Only the sector that it is about changes.
LEMMA OnlyOneSectorChanges ==
  ASSUME StoreInv, StepDone \/ StepFails \/ PowerLoss
  PROVE  /\ SectorsShaped(flash)'
         /\ \A s \in Sectors : s # Reached(Step.sec) => flash'[s] = flash[s]
<1>1. SectorsShaped(flash)
  BY DEF StoreInv
<1>2. ASSUME NEW new, new = [i \in 1..SectorSize |-> new[i]],
             flash' = [flash EXCEPT ![Reached(Step.sec)] = new]
      PROVE  /\ SectorsShaped(flash)'
             /\ \A s \in Sectors : s # Reached(Step.sec) => flash'[s] = flash[s]
  BY <1>1, <1>2 DEF SectorsShaped
<1>3. CASE flash' = flash
  BY <1>1, <1>3 DEF SectorsShaped
<1>4. CASE flash' = [flash EXCEPT ![Reached(Step.sec)] = Blank]
  <2>1. Blank = [i \in 1..SectorSize |-> Blank[i]]
    BY DEF Blank
  <2> QED
    BY <1>2, <1>4, <2>1
<1>5. CASE \E n : flash' = Written(n)
  <2>1. PICK n : flash' = Written(n)
    BY <1>5
  <2> DEFINE old == flash[Reached(Step.sec)]
             new == [i \in 1..SectorSize |-> IF i <= n THEN Over(old[i], Content[i]) ELSE old[i]]
  <2>2. flash' = [flash EXCEPT ![Reached(Step.sec)] = new]
    BY <2>1 DEF Written
  <2>3. new = [i \in 1..SectorSize |-> new[i]]
    OBVIOUS
  <2> HIDE DEF new
  <2> QED
    BY <1>2, <2>2, <2>3
<1>6. \/ flash' = flash
      \/ flash' = [flash EXCEPT ![Reached(Step.sec)] = Blank]
      \/ \E n : flash' = Written(n)
  BY DEF StepDone, StepFails, PowerLoss
<1> QED
  BY <1>3, <1>4, <1>5, <1>6

\* When no operation is left, or the rest is given up.
LEMMA EndKeepsInv ==
  ASSUME StoreInv, status = "busy", StepDone \/ StepFails \/ PowerLoss,
         status' # "busy", SfmwOkWritten'
  PROVE  StoreInv'
<1>1. SectorsShaped(flash)' /\ \A s \in Sectors : s # Reached(Step.sec) => flash'[s] = flash[s]
  BY OnlyOneSectorChanges
<1>2. before' = before /\ goal' = goal
  BY DEF StepDone, StepFails, PowerLoss
<1>3. \E d \in Sectors : \A s \in Sectors \ {d} : flash'[s] \in {before[s], goal[s]}
  BY <1>1, OthersAreSpared
<1>4. SectorsShaped(before)'
  BY <1>2 DEF StoreInv, SectorsShaped
<1> QED
  BY <1>1, <1>2, <1>3, <1>4 DEF StoreInv, OneSectorInDoubt

\* When the command goes on.
LEMMA GoingOnKeepsInv ==
  ASSUME StoreInv, status = "busy", StepDone \/ StepFails, status' = "busy", Busy'
  PROVE  StoreInv'
<1>1. SectorsShaped(flash)' /\ \A s \in Sectors : s # Reached(Step.sec) => flash'[s] = flash[s]
  BY OnlyOneSectorChanges
<1>2. before' = before /\ goal' = goal
  BY DEF StepDone, StepFails
<1>3. \E d \in Sectors : \A s \in Sectors \ {d} : flash'[s] \in {before[s], goal[s]}
  BY <1>1, OthersAreSpared
<1>4. SectorsShaped(before)'
  BY <1>2 DEF StoreInv, SectorsShaped
<1> QED
  BY <1>1, <1>2, <1>3, <1>4 DEF StoreInv, OneSectorInDoubt, SfmwOkWritten

\* Functions other than sfmw, after an operation that was done or whose failure is ignored.
LEMMA OtherStep ==
  ASSUME StoreInv, status = "busy", cmd.do # "sfmw", StepDone \/ StepFails
  PROVE  StoreInv'
<1>1. Busy
  BY DEF StoreInv
<1>2. todo # <<>> /\ todo \in Seq({todo[i] : i \in DOMAIN todo}) /\ Step = todo[1]
  BY <1>1, Rest DEF Busy, Step
<1>3. cmd' = cmd /\ before' = before /\ goal' = goal /\ mirrored' = mirrored
  BY DEF StepDone, StepFails
<1>4. CASE status' # "busy"
  BY <1>3, <1>4, EndKeepsInv DEF SfmwOkWritten
<1>5. CASE status' = "busy"
  <2>1. todo' = Tail(todo) /\ todo' # <<>>
    BY <1>5 DEF StepDone, StepFails
  <2>2. /\ todo' \in Seq({todo'[i] : i \in DOMAIN todo'}) /\ 1 \in DOMAIN todo
        /\ \A i \in DOMAIN todo' : i + 1 \in DOMAIN todo /\ todo'[i] = todo[i + 1]
    <3>1. /\ Len(todo) \in Nat \ {0} /\ DOMAIN todo = 1..Len(todo)
          /\ DOMAIN Tail(todo) = 1..Len(todo) - 1
          /\ \A i \in 1..Len(todo) - 1 : Tail(todo)[i] = todo[i + 1] /\ i + 1 \in DOMAIN todo
          /\ Tail(todo) \in Seq({Tail(todo)[i] : i \in DOMAIN Tail(todo)})
      BY <1>2, Rest
    <3> QED
      BY <2>1, <3>1
  <2>3. CASE Erasing
    <3>1. Step.do = "erase"
      BY <1>2, <2>2, <2>3 DEF Erasing
    <3>2. Reaches(Step.sec) /\ Reached(Step.sec) \in Sectors => goal[Reached(Step.sec)] = Blank
      BY <1>2, <2>2, <2>3 DEF Erasing
    <3>3. \A s \in Sectors : flash[s] \in {before[s], goal[s]}
      BY <2>3 DEF Erasing
    <3>4. \/ flash' = flash
          \/ /\ Reaches(Step.sec)
             /\ flash' = [flash EXCEPT ![Reached(Step.sec)] = Blank]
      BY <3>1 DEF StepDone, StepFails
    <3>5. flash = [s \in Sectors |-> flash[s]]
      BY DEF StoreInv, SectorsShaped
    <3>6. \A s \in Sectors : flash'[s] \in {before[s], goal[s]}
      BY <3>2, <3>3, <3>4, <3>5
    <3>7. \A i \in DOMAIN todo' :
            /\ todo'[i].do = "erase"
            /\ Reaches(todo[i + 1].sec) /\ Reached(todo'[i].sec) \in Sectors
                 => goal[Reached(todo'[i].sec)] = Blank
      BY <2>2, <2>3 DEF Erasing
    <3>8. Erasing'
      BY <1>3, <2>2, <3>6, <3>7 DEF Erasing, Reaches
    <3>9. Busy'
      BY <1>3, <2>1, <2>2, <3>8 DEF Busy
    <3> QED
      BY <1>5, <3>9, GoingOnKeepsInv
  <2>4. CASE OneSector
    <3>1. PICK d \in Sectors :
            /\ \A s \in Sectors \ {d} : flash[s] = before[s]
            /\ \A i \in DOMAIN todo : Reached(todo[i].sec) \in Sectors => Reached(todo[i].sec) = d
      BY <2>4 DEF OneSector
    <3>2. \A s \in Sectors : s # Reached(Step.sec) => flash'[s] = flash[s]
      BY OnlyOneSectorChanges
    <3>3. \A s \in Sectors \ {d} : flash'[s] = before[s]
      BY <1>2, <2>2, <3>1, <3>2
    <3>4. OneSector'
      BY <1>3, <2>2, <3>1, <3>3 DEF OneSector
    <3>5. Busy'
      BY <1>3, <2>1, <2>2, <3>4 DEF Busy
    <3> QED
      BY <1>5, <3>5, GoingOnKeepsInv
  <2> QED
    BY <1>1, <2>3, <2>4 DEF Busy
<1> QED
  BY <1>4, <1>5

LEMMA PowerLossKeepsInv == ASSUME StoreInv, PowerLoss PROVE StoreInv'
<1>1. status = "busy" /\ status' = "lost"
  BY DEF PowerLoss
<1> QED
  BY <1>1, EndKeepsInv DEF SfmwOkWritten

\* sfmw ignores no failure.
LEMMA SfmwFails ==
  ASSUME StoreInv, status = "busy", cmd.do = "sfmw", StepFails
  PROVE  StoreInv'
<1>1. SfmwRuns
  BY DEF StoreInv, Busy
<1>2. PICK k \in 0..Count - 1, r \in 0..2 : Rewriting(k, r)
  BY <1>1 DEF SfmwRuns
<1>3. Step.do = "read" \/ ~Step.ignored
  <2>1. Step = SectorSteps(Secpos + k, OffsetIn(Secoff, k), Part(Secoff, cmd.bytes, k))[r + 1]
    BY <1>1, <1>2, NextOfSfmw
  <2>2. r = 0 \/ r = 1 \/ r = 2
    OBVIOUS
  <2> QED
    BY <2>1, <2>2 DEF SectorSteps, Read, Erase, Rewrite
<1>4. status' = "failed"
  BY <1>3 DEF StepFails
<1> QED
  BY <1>4, EndKeepsInv DEF SfmwOkWritten

\* sfmw reads its k-th sector, ...
LEMMA SfmwReads ==
  ASSUME StoreInv, status = "busy", cmd.do = "sfmw", StepDone,
         NEW k \in 0..Count - 1, Rewriting(k, 0)
  PROVE  StoreInv'
<1>1. SfmwRuns
  BY DEF StoreInv, Busy
<1>2. /\ Step = Read(Secpos + k) /\ todo \in Seq({todo[i] : i \in DOMAIN todo}) /\ todo # <<>>
      /\ Len(todo) = 3 * Count - 3 * k
      /\ Tail(todo) = [i \in 1..3 * Count - (3 * k + 1) |->
                         SfmwSteps(Secpos, Secoff, cmd.bytes)[3 * k + 1 + i]]
  <2>1. 0 \in 0..2 /\ 3 * k + 0 = 3 * k /\ 3 * k + 0 + 1 = 3 * k + 1
    BY SfmwPlaces, <1>1 DEF SfmwRuns
  <2>2. /\ Step = SectorSteps(Secpos + k, OffsetIn(Secoff, k), Part(Secoff, cmd.bytes, k))[0 + 1]
        /\ todo \in Seq({todo[i] : i \in DOMAIN todo}) /\ todo # <<>>
        /\ Len(todo) = 3 * Count - (3 * k + 0)
        /\ Tail(todo) = [i \in 1..3 * Count - (3 * k + 0 + 1) |->
                           SfmwSteps(Secpos, Secoff, cmd.bytes)[3 * k + 0 + 1 + i]]
    BY <1>1, <2>1, NextOfSfmw
  <2> QED
    BY <2>1, <2>2 DEF SectorSteps
<1>3. /\ Count \in Nat /\ k \in Nat /\ At(k) \in Sectors
      /\ \A j \in 0..k - 1 : At(k) # At(j)
  BY <1>1, SfmwPlaces DEF SfmwRuns
<1>4. /\ pmen' = flash[At(k)] /\ flash' = flash /\ todo' = Tail(todo)
      /\ before' = before /\ goal' = goal /\ cmd' = cmd
  BY <1>2 DEF StepDone, Read, At
<1>5. pmen' = before[At(k)]
  BY <1>3, <1>4 DEF Rewriting
<1>6. todo' \in Seq({todo'[i] : i \in DOMAIN todo'}) /\ todo' # <<>>
  <2>1. Len(todo) # 1
    BY <1>2, <1>3
  <2>2. Tail(todo) # <<>> /\ Tail(todo) \in Seq({Tail(todo)[i] : i \in DOMAIN Tail(todo)})
    BY <1>2, <2>1, Rest
  <2> QED
    BY <1>4, <2>2
<1>7. Secpos' = Secpos /\ Secoff' = Secoff /\ Count' = Count /\ \A j : At(j)' = At(j)
  BY <1>4 DEF Secpos, Secoff, Count, At
<1>8. Rewriting(k, 1)'
  <2>1. \A s \in Sectors : (\A j \in 0..k - 1 : s # At(j)) => flash[s] = before[s]
    BY DEF Rewriting
  <2>2. \A j \in 0..k - 1 : flash[At(j)] = goal[At(j)]
    BY DEF Rewriting
  <2>3. SfmwSteps(Secpos, Secoff, cmd.bytes)' = SfmwSteps(Secpos, Secoff, cmd.bytes)
    BY <1>4, <1>7 DEF SfmwSteps
  <2>4. todo' = [i \in 1..3 * Count' - (3 * k + 1) |->
                   SfmwSteps(Secpos, Secoff, cmd.bytes)'[3 * k + 1 + i]]
    BY <1>2, <1>4, <1>7, <2>3
  <2>5. \A j \in 0..k - 1 : flash'[At(j)'] = goal'[At(j)']
    BY <1>4, <1>7, <2>2
  <2>6. \A s \in Sectors : (\A j \in 0..k - 1 : s # At(j)') => flash'[s] = before'[s]
    BY <1>4, <1>7, <2>1
  <2>7. pmen' = before'[At(k)']
    BY <1>4, <1>5, <1>7
  <2> QED
    BY <2>4, <2>5, <2>6, <2>7 DEF Rewriting
<1>9. SfmwRuns'
  BY <1>1, <1>4, <1>7, <1>8 DEF SfmwRuns
<1>10. status' = "busy" /\ Busy'
  BY <1>4, <1>6, <1>9 DEF Busy, StepDone
<1> QED
  BY <1>10, GoingOnKeepsInv

\* ... erases it ...
LEMMA SfmwErases ==
  ASSUME StoreInv, status = "busy", cmd.do = "sfmw", StepDone,
         NEW k \in 0..Count - 1, Rewriting(k, 1)
  PROVE  StoreInv'
<1>1. SfmwRuns
  BY DEF StoreInv, Busy
<1>2. /\ Step = Erase(Secpos + k, FALSE) /\ todo \in Seq({todo[i] : i \in DOMAIN todo}) /\ todo # <<>>
      /\ Len(todo) = 3 * Count - (3 * k + 1)
      /\ Tail(todo) = [i \in 1..3 * Count - (3 * k + 2) |->
                         SfmwSteps(Secpos, Secoff, cmd.bytes)[3 * k + 2 + i]]
  <2>1. 1 \in 0..2 /\ 3 * k + 1 + 1 = 3 * k + 2
    BY SfmwPlaces, <1>1 DEF SfmwRuns
  <2>2. /\ Step = SectorSteps(Secpos + k, OffsetIn(Secoff, k), Part(Secoff, cmd.bytes, k))[1 + 1]
        /\ todo \in Seq({todo[i] : i \in DOMAIN todo}) /\ todo # <<>>
        /\ Len(todo) = 3 * Count - (3 * k + 1)
        /\ Tail(todo) = [i \in 1..3 * Count - (3 * k + 1 + 1) |->
                           SfmwSteps(Secpos, Secoff, cmd.bytes)[3 * k + 1 + 1 + i]]
    BY <1>1, <2>1, NextOfSfmw
  <2> QED
    BY <2>1, <2>2 DEF SectorSteps
<1>3. /\ Count \in Nat /\ k \in Nat /\ At(k) \in Sectors
      /\ \A j \in 0..k - 1 : At(k) # At(j)
  BY <1>1, SfmwPlaces DEF SfmwRuns
<1>4. /\ pmen' = pmen /\ flash' = [flash EXCEPT ![At(k)] = Blank] /\ todo' = Tail(todo)
      /\ before' = before /\ goal' = goal /\ cmd' = cmd
  BY <1>2 DEF StepDone, Erase, At
<1>5. pmen' = before[At(k)] /\ flash'[At(k)] = Blank /\ \A s \in Sectors \ {At(k)} : flash'[s] = flash[s]
  <2>1. flash = [s \in Sectors |-> flash[s]]
    BY DEF StoreInv, SectorsShaped
  <2> QED
    BY <1>3, <1>4, <2>1 DEF Rewriting
<1>6. todo' \in Seq({todo'[i] : i \in DOMAIN todo'}) /\ todo' # <<>>
  <2>1. Len(todo) # 1
    BY <1>2, <1>3
  <2>2. Tail(todo) # <<>> /\ Tail(todo) \in Seq({Tail(todo)[i] : i \in DOMAIN Tail(todo)})
    BY <1>2, <2>1, Rest
  <2> QED
    BY <1>4, <2>2
<1>7. Secpos' = Secpos /\ Secoff' = Secoff /\ Count' = Count /\ \A j : At(j)' = At(j)
  BY <1>4 DEF Secpos, Secoff, Count, At
<1>8. Rewriting(k, 2)'
  <2>1. \A s \in Sectors : (\A j \in 0..k - 1 : s # At(j)) /\ s # At(k) => flash'[s] = before[s]
    BY <1>5 DEF Rewriting
  <2>2. \A j \in 0..k - 1 : flash'[At(j)] = goal[At(j)]
    <3>1. ASSUME NEW j \in 0..k - 1 PROVE flash'[At(j)] = goal[At(j)]
      <4>1. At(j) \in Sectors \ {At(k)} /\ flash[At(j)] = goal[At(j)]
        BY <1>1, <1>3, SfmwPlaces DEF SfmwRuns, Rewriting
      <4> QED
        BY <1>5, <4>1
    <3> QED
      BY <3>1
  <2> QED
    BY <1>2, <1>4, <1>5, <1>7, <2>1, <2>2 DEF Rewriting, SfmwSteps, At, Secpos
<1>9. SfmwRuns'
  BY <1>1, <1>4, <1>7, <1>8 DEF SfmwRuns
<1>10. status' = "busy" /\ Busy'
  BY <1>4, <1>6, <1>9 DEF Busy, StepDone
<1> QED
  BY <1>10, GoingOnKeepsInv

\* ... and writes it: it is as it is to be then.
LEMMA SfmwWrites ==
  ASSUME StoreInv, status = "busy", cmd.do = "sfmw", StepDone,
         NEW k \in 0..Count - 1, Rewriting(k, 2)
  PROVE  StoreInv'
<1> DEFINE off == OffsetIn(Secoff, k)
           part == Part(Secoff, cmd.bytes, k)
<1>1. SfmwRuns
  BY DEF StoreInv, Busy
<1>2. /\ Step = Rewrite(Secpos + k, off, part, FALSE)
      /\ todo \in Seq({todo[i] : i \in DOMAIN todo}) /\ todo # <<>>
      /\ Len(todo) = 3 * Count - (3 * k + 2)
      /\ Tail(todo) = [i \in 1..3 * Count - (3 * k + 3) |->
                         SfmwSteps(Secpos, Secoff, cmd.bytes)[3 * k + 3 + i]]
  <2>1. 2 \in 0..2 /\ 3 * k + 2 + 1 = 3 * k + 3
    BY SfmwPlaces, <1>1 DEF SfmwRuns
  <2>2. /\ Step = SectorSteps(Secpos + k, OffsetIn(Secoff, k), Part(Secoff, cmd.bytes, k))[2 + 1]
        /\ todo \in Seq({todo[i] : i \in DOMAIN todo}) /\ todo # <<>>
        /\ Len(todo) = 3 * Count - (3 * k + 2)
        /\ Tail(todo) = [i \in 1..3 * Count - (3 * k + 2 + 1) |->
                           SfmwSteps(Secpos, Secoff, cmd.bytes)[3 * k + 2 + 1 + i]]
    BY <1>1, <2>1, NextOfSfmw
  <2> QED
    BY <2>1, <2>2 DEF SectorSteps
<1>3. /\ Count \in Nat /\ k \in Nat /\ At(k) \in Sectors
      /\ \A j \in 0..k - 1 : At(j) \in Sectors \ {At(k)}
  BY <1>1, SfmwPlaces DEF SfmwRuns
<1>4. /\ flash' = Written(Len(Content)) /\ todo' = Tail(todo)
      /\ before' = before /\ goal' = goal /\ cmd' = cmd
  BY <1>2 DEF StepDone, Rewrite
<1>5. flash'[At(k)] = goal[At(k)]
  <2>1. flash[At(k)] = Blank /\ pmen = before[At(k)]
    BY DEF Rewriting
  <2>2. Content = Replaced(pmen, off, part)
    BY <1>2 DEF Content, Rewrite
  <2>3. Content = goal[At(k)]
    BY <1>1, <2>1, <2>2, RewrittenIsGoal DEF SfmwRuns
  <2>4. Content = [i \in 1..SectorSize |-> Content[i]] /\ Len(Content) = SectorSize
    BY <2>2, ReplacedIsSector
  <2>5. flash'[At(k)] = [i \in 1..SectorSize |-> IF i <= SectorSize THEN Over(FF, Content[i]) ELSE FF]
    <3>1. flash = [s \in Sectors |-> flash[s]] /\ At(k) \in DOMAIN flash
      BY <1>3 DEF StoreInv, SectorsShaped
    <3>2. Reached(Step.sec) = At(k)
      BY <1>2 DEF Rewrite, At
    <3>3. flash'[At(k)] = [i \in 1..SectorSize |->
                             IF i <= SectorSize THEN Over(Blank[i], Content[i]) ELSE Blank[i]]
      BY <1>4, <2>1, <2>4, <3>1, <3>2 DEF Written
    <3> QED
      BY <3>3 DEF Blank
  <2>6. \A i \in 1..SectorSize : i <= SectorSize /\ Over(FF, Content[i]) = Content[i]
    BY SizesArePositive DEF Over
  <2> QED
    BY <2>3, <2>4, <2>5, <2>6
<1>6. \A s \in Sectors \ {At(k)} : flash'[s] = flash[s]
  <2>1. Reached(Step.sec) = At(k)
    BY <1>2 DEF Rewrite, At
  <2> QED
    BY <2>1, OnlyOneSectorChanges
<1>7. Secpos' = Secpos /\ Secoff' = Secoff /\ Count' = Count /\ \A j : At(j)' = At(j)
  BY <1>4 DEF Secpos, Secoff, Count, At
<1>8. \A j \in 0..k : flash'[At(j)] = goal[At(j)]
  <2>1. ASSUME NEW j \in 0..k PROVE flash'[At(j)] = goal[At(j)]
    <3>1. CASE j = k
      BY <1>5, <3>1
    <3>2. CASE j # k
      <4>1. j \in 0..k - 1
        BY <1>3, <3>2
      <4> QED
        BY <1>3, <1>6, <4>1 DEF Rewriting
    <3> QED
      BY <3>1, <3>2
  <2> QED
    BY <2>1
<1>9. \A s \in Sectors : (\A j \in 0..k : s # At(j)) => flash'[s] = before[s]
  <2>1. ASSUME NEW s \in Sectors, \A j \in 0..k : s # At(j) PROVE flash'[s] = before[s]
    <3>1. s # At(k) /\ \A j \in 0..k - 1 : s # At(j)
      BY <1>3, <2>1
    <3> QED
      BY <1>6, <3>1 DEF Rewriting
  <2> QED
    BY <2>1
<1>10. CASE k + 1 < Count
  <2>1. k + 1 \in 0..Count - 1 /\ k = (k + 1) - 1 /\ 3 * (k + 1) + 0 = 3 * k + 3
    BY <1>3, <1>10
  <2>2. todo' \in Seq({todo'[i] : i \in DOMAIN todo'}) /\ todo' # <<>>
    <3>1. Len(todo) # 1
      BY <1>2, <1>3, <1>10
    <3>2. Tail(todo) # <<>> /\ Tail(todo) \in Seq({Tail(todo)[i] : i \in DOMAIN Tail(todo)})
      BY <1>2, <3>1, Rest
    <3> QED
      BY <1>4, <3>2
  <2>3. todo' = [i \in 1..3 * Count - (3 * (k + 1) + 0) |->
                   SfmwSteps(Secpos, Secoff, cmd.bytes)[3 * (k + 1) + 0 + i]]
    BY <1>2, <1>4, <2>1
  <2> DEFINE m == k + 1
  <2>4. m \in 0..Count - 1 /\ k = m - 1
    BY <2>1
  <2>5. todo' = [i \in 1..3 * Count - (3 * m + 0) |->
                   SfmwSteps(Secpos, Secoff, cmd.bytes)[3 * m + 0 + i]]
    BY <2>3
  <2> HIDE DEF m
  <2>6. Rewriting(m, 0)'
    <3>1. SfmwSteps(Secpos, Secoff, cmd.bytes)' = SfmwSteps(Secpos, Secoff, cmd.bytes)
      BY <1>4, <1>7 DEF SfmwSteps
    <3>2. todo' = [i \in 1..3 * Count' - (3 * m + 0) |->
                     SfmwSteps(Secpos, Secoff, cmd.bytes)'[3 * m + 0 + i]]
      BY <1>7, <2>5, <3>1
    <3>3. \A j \in 0..m - 1 : flash'[At(j)'] = goal'[At(j)']
      BY <1>4, <1>7, <1>8, <2>4
    <3>4. \A s \in Sectors : (\A j \in 0..m - 1 : s # At(j)') => flash'[s] = before'[s]
      BY <1>4, <1>7, <1>9, <2>4
    <3> QED
      BY <3>2, <3>3, <3>4 DEF Rewriting
  <2>7. SfmwRuns'
    BY <1>1, <1>4, <1>7, <2>4, <2>6 DEF SfmwRuns
  <2>8. status' = "busy" /\ Busy'
    BY <1>4, <2>2, <2>7 DEF Busy, StepDone
  <2> QED
    BY <2>8, GoingOnKeepsInv
<1>11. CASE k + 1 = Count
  <2>1. todo' = <<>>
    <3>1. Len(todo) = 1
      BY <1>2, <1>3, <1>11
    <3> QED
      BY <1>2, <1>4, <3>1, Rest
  <2>2. status' = "ok"
    BY <2>1 DEF StepDone
  <2>3. flash' = goal
    <3>1. flash' = [s \in Sectors |-> flash'[s]]
      BY OnlyOneSectorChanges DEF SectorsShaped
    <3>2. goal = [s \in Sectors |-> goal[s]]
      BY <1>1 DEF SfmwRuns, Changed
    <3>3. ASSUME NEW s \in Sectors PROVE flash'[s] = goal[s]
      <4>1. CASE \E j \in 0..k : s = At(j)
        BY <1>8, <4>1
      <4>2. CASE \A j \in 0..k : s # At(j)
        <5>1. \A j \in 0..SectorCount(Secoff, cmd.bytes) - 1 : s # Reached(Secpos + j)
          BY <1>3, <1>11, <4>2 DEF Count, At
        <5>2. before[s] = [i \in 1..SectorSize |-> before[s][i]]
          BY DEF StoreInv, SectorsShaped
        <5>3. goal[s] = before[s]
          BY <1>1, <5>1, <5>2, SfmwPlaces, GoalElsewhere DEF SfmwRuns
        <5> QED
          BY <1>9, <4>2, <5>3
      <4> QED
        BY <4>1, <4>2
    <3> QED
      BY <3>1, <3>2, <3>3
  <2> QED
    BY <1>4, <2>2, <2>3, EndKeepsInv DEF SfmwOkWritten
<1> QED
  BY <1>3, <1>10, <1>11

LEMMA SfmwStepKeepsInv ==
  ASSUME StoreInv, status = "busy", cmd.do = "sfmw", StepDone
  PROVE  StoreInv'
<1>1. SfmwRuns
  BY DEF StoreInv, Busy
<1>2. PICK k \in 0..Count - 1, r \in 0..2 : Rewriting(k, r)
  BY <1>1 DEF SfmwRuns
<1>3. r = 0 \/ r = 1 \/ r = 2
  OBVIOUS
<1> QED
  BY <1>2, <1>3, SfmwReads, SfmwErases, SfmwWrites

-----------------------------------------------------------------------------
LEMMA NothingKeepsInv == ASSUME StoreInv, UNCHANGED vars PROVE StoreInv'
<1>1. /\ flash' = flash /\ before' = before /\ goal' = goal /\ todo' = todo /\ cmd' = cmd
      /\ status' = status /\ pmen' = pmen /\ mirrored' = mirrored
  BY DEF vars
<1>2. ASSUME Erasing PROVE Erasing'
  BY <1>1, <1>2 DEF Erasing, Reaches
<1>3. ASSUME OneSector PROVE OneSector'
  BY <1>1, <1>3 DEF OneSector
<1>4. ASSUME SfmwRuns PROVE SfmwRuns'
  <2>1. Secpos' = Secpos /\ Secoff' = Secoff /\ Count' = Count /\ \A j : At(j)' = At(j)
    BY <1>1 DEF Secpos, Secoff, Count, At
  <2>2. SfmwSteps(Secpos, Secoff, cmd.bytes)' = SfmwSteps(Secpos, Secoff, cmd.bytes)
    BY <1>1, <2>1 DEF SfmwSteps
  <2> QED
    BY <1>1, <1>4, <2>1, <2>2 DEF SfmwRuns, Rewriting
<1> QED
  BY <1>1, <1>2, <1>3, <1>4 DEF StoreInv, SectorsShaped, OneSectorInDoubt, SfmwOkWritten, Busy

LEMMA GetSizeKeepsInv == ASSUME StoreInv, SafeGetSize PROVE StoreInv'
<1>1. status # "busy" /\ status' = status
  BY DEF SafeGetSize
<1> QED
  BY <1>1 DEF StoreInv, SectorsShaped, OneSectorInDoubt, SfmwOkWritten, SafeGetSize

LEMMA InvIsKept == ASSUME StoreInv, [Next]_vars PROVE StoreInv'
<1>1. CASE \E a \in Addresses, t \in Texts : Sfmw(a, t)
  BY <1>1, SfmwKeepsInv
<1>2. CASE \E k \in 0..SizeTypes : RomSetSizeByte(ChipSize[k])
  <2>1. PICK sectors : RomSetSizeByte(sectors)
    BY <1>2
  <2>2. [do |-> "size", arg |-> sectors].do # "sfmw"
    OBVIOUS
  <2> QED
    BY <2>1, <2>2, HeaderKeepsInv DEF RomSetSizeByte
<1>3. CASE \E speed \in {20, 27, 40, 80} : RomSetSpeed(speed)
  <2>1. PICK speed : RomSetSpeed(speed)
    BY <1>3
  <2>2. [do |-> "speed", arg |-> speed].do # "sfmw"
    OBVIOUS
  <2> QED
    BY <2>1, <2>2, HeaderKeepsInv DEF RomSetSpeed
<1>4. CASE InitDataDefault \/ InitDataBlank \/ SelfDestruct \/ SafeGetSize \/ PowerLoss
  BY <1>4, DefaultKeepsInv, BlankKeepsInv, DestructKeepsInv, GetSizeKeepsInv, PowerLossKeepsInv
<1>5. CASE StepDone
  <2>1. status = "busy"
    BY <1>5 DEF StepDone
  <2> QED
    BY <1>5, <2>1, OtherStep, SfmwStepKeepsInv
<1>6. CASE StepFails
  <2>1. status = "busy"
    BY <1>6 DEF StepFails
  <2> QED
    BY <1>6, <2>1, OtherStep, SfmwFails
<1>7. CASE UNCHANGED vars
  BY <1>7, NothingKeepsInv
<1> QED
  BY <1>1, <1>2, <1>3, <1>4, <1>5, <1>6, <1>7 DEF Next

LEMMA InvHolds == Spec => []StoreInv
<1>1. Init => StoreInv
  BY InvInitially
<1>2. StoreInv /\ [Next]_vars => StoreInv'
  BY InvIsKept
<1> QED
  BY <1>1, <1>2, PTL DEF Spec

-----------------------------------------------------------------------------
\* Whatever operations fail and whenever power is lost, in any of the functions that
\* rewrite the flash (flash_api.c, and sfmw of cmd_mem.c): all sectors but one are as
\* they were before the function or as it is to leave them.  For a chip of any size, any
\* text that is shorter than the chip, and any number of faults.
THEOREM FailuresSpareOtherSectors == Spec => []OneSectorInDoubt
<1>1. StoreInv => OneSectorInDoubt
  BY DEF StoreInv
<1> QED
  BY InvHolds, <1>1, PTL

\* An sfmw that returns SPI_FLASH_RESULT_OK has written all of its text and has changed
\* nothing else, wherever the text begins, however many sectors it reaches into, and
\* whatever failed in commands before (cmd_mem.c, the loop over sectors).
THEOREM SfmwThatSucceedsHasWritten == Spec => []SfmwOkWritten
<1>1. StoreInv => SfmwOkWritten
  BY DEF StoreInv
<1> QED
  BY InvHolds, <1>1, PTL

-----------------------------------------------------------------------------
(* Reading back.  First the sizes of chips.                                *)

Doubling(g, n) == g \in [0..n -> Nat] /\ \A k \in 0..n : g[k] = IF k = 0 THEN Unit ELSE 2 * g[k - 1]

LEMMA DoublingExists == ASSUME NEW n \in Nat PROVE \E g : Doubling(g, n)
<1> DEFINE S == {m \in Nat : \E g : Doubling(g, m)}
<1>1. 0 \in S
  <2> DEFINE g == [k \in 0..0 |-> Unit]
  <2>1. Doubling(g, 0)
    BY FlashAssumption DEF Doubling
  <2> QED
    BY <2>1
<1>2. ASSUME NEW m \in S PROVE m + 1 \in S
  <2>1. m \in Nat
    OBVIOUS
  <2>2. PICK g : Doubling(g, m)
    OBVIOUS
  <2> DEFINE h == [k \in 0..(m + 1) |-> IF k = 0 THEN Unit ELSE 2 * g[k - 1]]
  <2>3. ASSUME NEW k \in 0..(m + 1) PROVE h[k] \in Nat /\ (k # m + 1 => h[k] = g[k])
    <3>1. CASE k = 0
      BY <2>1, <2>2, <3>1, FlashAssumption DEF Doubling
    <3>2. CASE k # 0
      <4>1. k - 1 \in 0..m /\ (k # m + 1 => k \in 0..m)
        BY <2>1, <3>2
      <4>2. g[k - 1] \in Nat
        BY <2>2, <4>1 DEF Doubling
      <4> QED
        BY <2>2, <3>2, <4>1, <4>2 DEF Doubling
    <3> QED
      BY <3>1, <3>2
  <2>4. ASSUME NEW k \in 0..(m + 1) PROVE h[k] = IF k = 0 THEN Unit ELSE 2 * h[k - 1]
    <3>1. CASE k = 0
      BY <3>1
    <3>2. CASE k # 0
      <4>1. k - 1 \in 0..(m + 1) /\ k - 1 # m + 1
        BY <2>1, <3>2
      <4>2. h[k - 1] = g[k - 1]
        BY <2>3, <4>1
      <4>3. h[k] = 2 * g[k - 1]
        BY <3>2
      <4> QED
        BY <3>2, <4>2, <4>3
    <3> QED
      BY <3>1, <3>2
  <2>5. h \in [0..(m + 1) -> Nat]
    <3> HIDE DEF h
    <3>1. h = [k \in 0..(m + 1) |-> h[k]]
      BY DEF h
    <3> QED
      BY <2>3, <3>1
  <2> HIDE DEF h
  <2>6. Doubling(h, m + 1)
    BY <2>4, <2>5 DEF Doubling
  <2> QED
    BY <2>1, <2>6
<1> HIDE DEF S
<1>3. S = Nat
  <2>1. S \in SUBSET Nat
    BY DEF S
  <2> QED
    BY <1>1, <1>2, <2>1, AllNumbers
<1> QED
  BY <1>3 DEF S

\* The recursive function is what its definition says.
LEMMA SizesAre ==
  /\ ChipSize[0] = Unit
  /\ \A k \in 0..SizeTypes : ChipSize[k] \in Nat
  /\ \A k \in 1..SizeTypes : ChipSize[k] = 2 * ChipSize[k - 1]
<1>1. SizeTypes \in Nat /\ Unit \in Nat
  BY FlashAssumption
<1>2. PICK g : Doubling(g, SizeTypes)
  BY <1>1, DoublingExists
<1>3. g = [k \in 0..SizeTypes |-> IF k = 0 THEN Unit ELSE 2 * g[k - 1]]
  BY <1>2 DEF Doubling
<1> DEFINE Is(f) == f = [k \in 0..SizeTypes |-> IF k = 0 THEN Unit ELSE 2 * f[k - 1]]
<1>4. ChipSize = CHOOSE f : Is(f)
  BY DEF ChipSize
<1>5. Is(ChipSize)
  <2>1. Is(g)
    BY <1>3
  <2> HIDE DEF Is
  <2> QED
    BY <1>4, <2>1
<1>6. \A k \in 0..SizeTypes : ChipSize[k] = IF k = 0 THEN Unit ELSE 2 * ChipSize[k - 1]
  <2>1. ChipSize = [k \in 0..SizeTypes |-> IF k = 0 THEN Unit ELSE 2 * ChipSize[k - 1]]
    BY <1>5
  <2> QED
    BY <2>1
<1> HIDE DEF Is
<1>7. ChipSize[0] = Unit /\ \A k \in 1..SizeTypes : ChipSize[k] = 2 * ChipSize[k - 1]
  BY <1>1, <1>6
<1> DEFINE S == {k \in Nat : k <= SizeTypes => ChipSize[k] \in Nat}
<1>8. 0 \in S
  BY <1>1, <1>7
<1>9. ASSUME NEW k \in S PROVE k + 1 \in S
  <2> SUFFICES ASSUME k + 1 <= SizeTypes PROVE ChipSize[k + 1] \in Nat
    OBVIOUS
  <2>1. k \in Nat
    OBVIOUS
  <2>2. k + 1 \in 1..SizeTypes /\ (k + 1) - 1 = k /\ k <= SizeTypes
    BY <1>1, <2>1
  <2>3. ChipSize[k + 1] = 2 * ChipSize[k] /\ ChipSize[k] \in Nat
    BY <1>7, <2>2
  <2> QED
    BY <2>3
<1>10. S = Nat
  <2>1. S \in SUBSET Nat
    OBVIOUS
  <2> HIDE DEF S
  <2> QED
    BY <1>8, <1>9, <2>1, AllNumbers
<1>11. \A k \in 0..SizeTypes : ChipSize[k] \in Nat
  BY <1>1, <1>10
<1> QED
  BY <1>7, <1>11

LEMMA SizesPositive == \A k \in 0..SizeTypes : ChipSize[k] >= 4
<1>1. SizeTypes \in Nat /\ Unit \in Nat /\ Unit >= 4
  BY FlashAssumption
<1> DEFINE S == {k \in Nat : k <= SizeTypes => ChipSize[k] >= 4}
<1>2. 0 \in S
  BY <1>1, SizesAre
<1>3. ASSUME NEW k \in S PROVE k + 1 \in S
  <2> SUFFICES ASSUME k + 1 <= SizeTypes PROVE ChipSize[k + 1] >= 4
    OBVIOUS
  <2>1. k \in Nat
    OBVIOUS
  <2>2. k + 1 \in 1..SizeTypes /\ (k + 1) - 1 = k /\ k <= SizeTypes /\ k \in 0..SizeTypes
    BY <1>1, <2>1
  <2>3. ChipSize[k + 1] = 2 * ChipSize[k] /\ ChipSize[k] \in Nat /\ ChipSize[k] >= 4
    BY <2>2, SizesAre
  <2> QED
    BY <2>3
<1>4. S = Nat
  <2>1. S \in SUBSET Nat
    OBVIOUS
  <2> HIDE DEF S
  <2> QED
    BY <1>2, <1>3, <2>1, AllNumbers
<1> QED
  BY <1>1, <1>4

\* They grow, so that no two types have the same.
LEMMA SizesDiffer == \A j, k \in 0..SizeTypes : ChipSize[j] = ChipSize[k] => j = k
<1>1. SizeTypes \in Nat
  BY FlashAssumption
<1> DEFINE Grown(j, d) == j + d + 1 <= SizeTypes => ChipSize[j + d + 1] > ChipSize[j]
           S == {d \in Nat : \A j \in 0..SizeTypes : Grown(j, d)}
<1>2. 0 \in S
  <2> SUFFICES ASSUME NEW j \in 0..SizeTypes, j + 0 + 1 <= SizeTypes PROVE ChipSize[j + 0 + 1] > ChipSize[j]
    OBVIOUS
  <2>1. j + 0 + 1 \in 1..SizeTypes /\ (j + 0 + 1) - 1 = j
    BY <1>1
  <2>2. ChipSize[j + 0 + 1] = 2 * ChipSize[j] /\ ChipSize[j] \in Nat /\ ChipSize[j] >= 4
    BY <2>1, SizesAre, SizesPositive
  <2> QED
    BY <2>2
<1>3. ASSUME NEW d \in S PROVE d + 1 \in S
  <2>1. d \in Nat
    OBVIOUS
  <2>2. ASSUME NEW j \in 0..SizeTypes, j + (d + 1) + 1 <= SizeTypes
        PROVE  ChipSize[j + (d + 1) + 1] > ChipSize[j]
    <3>1. /\ j + (d + 1) + 1 \in 1..SizeTypes /\ (j + (d + 1) + 1) - 1 = j + d + 1
          /\ j + d + 1 \in 0..SizeTypes /\ j + d + 1 <= SizeTypes
      BY <1>1, <2>1, <2>2
    <3>2. ChipSize[j + d + 1] > ChipSize[j]
      BY <3>1
    <3>3. ChipSize[j + (d + 1) + 1] = 2 * ChipSize[j + d + 1] /\ ChipSize[j + d + 1] \in Nat /\ ChipSize[j] \in Nat
      BY <3>1, SizesAre
    <3> QED
      BY <3>2, <3>3
  <2> QED
    BY <2>1, <2>2
<1>4. S = Nat
  <2>1. S \in SUBSET Nat
    OBVIOUS
  <2> HIDE DEF S
  <2> QED
    BY <1>2, <1>3, <2>1, AllNumbers
<1>5. ASSUME NEW j \in 0..SizeTypes, NEW k \in 0..SizeTypes, j < k PROVE ChipSize[k] > ChipSize[j]
  <2>1. k - j - 1 \in Nat /\ j + (k - j - 1) + 1 = k /\ j + (k - j - 1) + 1 <= SizeTypes
    BY <1>1, <1>5
  <2>2. Grown(j, k - j - 1)
    BY <1>4, <2>1
  <2> QED
    BY <2>1, <2>2
<1>6. \A k \in 0..SizeTypes : ChipSize[k] \in Nat
  BY SizesAre
<1> HIDE DEF S, Grown
<1>7. ASSUME NEW j \in 0..SizeTypes, NEW k \in 0..SizeTypes, ChipSize[j] = ChipSize[k], j # k PROVE FALSE
  <2>1. j < k \/ k < j
    BY <1>1, <1>7
  <2>2. ChipSize[j] \in Nat /\ ChipSize[k] \in Nat
    BY <1>6
  <2>3. CASE j < k
    BY <1>5, <1>7, <2>2, <2>3
  <2>4. CASE k < j
    BY <1>5, <1>7, <2>2, <2>4
  <2> QED
    BY <2>1, <2>3, <2>4
<1> QED
  BY <1>7

\* A size is what its type says.
LEMMA SizeReadsBack ==
  ASSUME NEW k \in 0..SizeTypes
  PROVE  SizeOfType(TypeOfSize(ChipSize[k])) = ChipSize[k]
<1>1. SizeTypes \in Nat
  BY FlashAssumption
<1>2. k = CHOOSE j \in 0..SizeTypes : ChipSize[k] = ChipSize[j]
  BY SizesDiffer
<1>3. TypeOfSize(ChipSize[k]) = IF k = 0 THEN 1 ELSE IF k = 1 THEN 0 ELSE k
  BY <1>2 DEF TypeOfSize
<1>4. CASE k = 0
  BY <1>3, <1>4, SizesAre DEF SizeOfType
<1>5. CASE k = 1
  <2>1. ChipSize[1] = 2 * Unit
    <3>1. 1 \in 1..SizeTypes /\ 1 - 1 = 0
      BY <1>1, <1>5
    <3> QED
      BY <3>1, SizesAre
  <2>2. TypeOfSize(ChipSize[k]) = 0 /\ ~(0 \in 2..SizeTypes)
    BY <1>3, <1>5
  <2> QED
    BY <1>5, <2>1, <2>2 DEF SizeOfType
<1>6. CASE k # 0 /\ k # 1
  <2>1. TypeOfSize(ChipSize[k]) = k /\ k \in 2..SizeTypes
    BY <1>1, <1>3, <1>6
  <2> QED
    BY <1>6, <2>1 DEF SizeOfType
<1> QED
  BY <1>4, <1>5, <1>6

LEMMA SizeOfTypeIs == ASSUME NEW type PROVE SizeOfType(type) \in Nat /\ SizeOfType(type) >= 4
<1>1. CASE type \in 2..SizeTypes
  <2>1. type # 1 /\ type \in 0..SizeTypes
    BY <1>1, FlashAssumption
  <2> QED
    BY <1>1, <2>1, SizesAre, SizesPositive DEF SizeOfType
<1>2. CASE type \notin 2..SizeTypes
  BY <1>2, FlashAssumption DEF SizeOfType
<1> QED
  BY <1>1, <1>2


-----------------------------------------------------------------------------
(* What md, sfmd and cmp make of bytes.                                    *)

\* Cut is where a sequence is cut into m pieces; Joined are the pieces up to the i-th.
Cuts(cut, m, seq) ==
  /\ m \in Nat \ {0} /\ cut \in [0..m -> 0..Len(seq)]
  /\ cut[0] = 0 /\ cut[m] = Len(seq)
  /\ \A j \in 1..m : cut[j - 1] <= cut[j]
Pieces(cut, m, seq) == [j \in 1..m |-> SubSeq(seq, cut[j - 1] + 1, cut[j])]

LEMMA PiecesJoin ==
  ASSUME NEW S, NEW seq \in Seq(S), NEW cut, NEW m, Cuts(cut, m, seq)
  PROVE  FlattenSeq(Pieces(cut, m, seq)) = seq
<1> DEFINE pieces == Pieces(cut, m, seq)
           Joins(g) == g = [i \in 1..Len(pieces) |-> IF i = 1 THEN pieces[i] ELSE g[i - 1] \o pieces[i]]
           g == [i \in 1..m |-> SubSeq(seq, 1, cut[i])]
<1>1. /\ m \in Nat \ {0} /\ cut[0] = 0 /\ cut[m] = Len(seq) /\ Len(seq) \in Nat
      /\ \A j \in 0..m : cut[j] \in 0..Len(seq)
      /\ \A j \in 1..m : cut[j - 1] <= cut[j] /\ j - 1 \in 0..m
  BY DEF Cuts
<1>2. pieces = [j \in 1..m |-> SubSeq(seq, cut[j - 1] + 1, cut[j])]
  BY DEF Pieces
<1>3. pieces = [j \in 1..m |-> pieces[j]]
  BY <1>2
<1> HIDE DEF pieces
<1>4. Len(pieces) = m
  BY <1>1, <1>3, FunctionIsSequence
<1>5. ASSUME NEW i \in 1..m
      PROVE  SubSeq(seq, 1, cut[i]) = IF i = 1 THEN pieces[i] ELSE SubSeq(seq, 1, cut[i - 1]) \o pieces[i]
  <2>1. pieces[i] = SubSeq(seq, cut[i - 1] + 1, cut[i])
    BY <1>2
  <2>2. CASE i = 1
    <3>1. cut[i - 1] + 1 = 1
      BY <1>1, <2>2
    <3> QED
      BY <2>1, <2>2, <3>1
  <2>3. CASE i # 1
    <3>1. 1 \in 1..Len(seq) + 1 /\ cut[i - 1] \in 1 - 1..Len(seq) /\ cut[i] \in cut[i - 1]..Len(seq)
      BY <1>1
    <3>2. SubSeq(seq, 1, cut[i - 1]) \o SubSeq(seq, cut[i - 1] + 1, cut[i]) = SubSeq(seq, 1, cut[i])
      BY <3>1, ConcatAdjacentSubSeq
    <3> QED
      BY <2>1, <2>3, <3>2
  <2> QED
    BY <2>2, <2>3
<1>6. Joins(g)
  <2>1. ASSUME NEW i \in 1..m PROVE g[i] = IF i = 1 THEN pieces[i] ELSE g[i - 1] \o pieces[i]
    <3>1. CASE i = 1
      BY <1>5, <3>1
    <3>2. CASE i # 1
      <4>1. i - 1 \in 1..m
        BY <1>1, <3>2
      <4> QED
        BY <1>5, <3>2, <4>1
    <3> QED
      BY <3>1, <3>2
  <2>2. g = [i \in 1..m |-> g[i]]
    OBVIOUS
  <2> HIDE DEF g
  <2>3. g = [i \in 1..m |-> IF i = 1 THEN pieces[i] ELSE g[i - 1] \o pieces[i]]
    BY <2>1, <2>2
  <2> QED
    BY <1>4, <2>3
<1>7. FlattenSeq(pieces) = (CHOOSE f : Joins(f))[m]
  BY <1>1, <1>4 DEF FlattenSeq
<1> DEFINE f == CHOOSE h : Joins(h)
<1>8. Joins(f)
  <2> HIDE DEF Joins, g
  <2> QED
    BY <1>6
<1>9. \A i \in 1..m : f[i] = IF i = 1 THEN pieces[i] ELSE f[i - 1] \o pieces[i]
  <2> HIDE DEF f
  <2> QED
    BY <1>4, <1>8
<1> HIDE DEF f, g, Joins
<1> DEFINE N == {i \in Nat : i + 1 <= m => f[i + 1] = SubSeq(seq, 1, cut[i + 1])}
<1>10. 0 \in N
  <2>1. 0 + 1 = 1 /\ 1 \in 1..m
    BY <1>1
  <2> QED
    BY <1>5, <1>9, <2>1
<1>11. ASSUME NEW i \in N PROVE i + 1 \in N
  <2>1. i \in Nat
    OBVIOUS
  <2> SUFFICES ASSUME (i + 1) + 1 <= m PROVE f[(i + 1) + 1] = SubSeq(seq, 1, cut[(i + 1) + 1])
    BY <2>1
  <2>2. (i + 1) + 1 \in 1..m /\ (i + 1) + 1 # 1 /\ ((i + 1) + 1) - 1 = i + 1 /\ i + 1 <= m
    BY <1>1, <2>1
  <2>3. f[i + 1] = SubSeq(seq, 1, cut[i + 1])
    BY <2>2
  <2>4. f[(i + 1) + 1] = f[i + 1] \o pieces[(i + 1) + 1]
    BY <1>9, <2>2
  <2>5. SubSeq(seq, 1, cut[(i + 1) + 1]) = SubSeq(seq, 1, cut[i + 1]) \o pieces[(i + 1) + 1]
    BY <1>5, <2>2
  <2> QED
    BY <2>3, <2>4, <2>5
<1>12. N = Nat
  <2>1. N \in SUBSET Nat
    OBVIOUS
  <2> HIDE DEF N
  <2> QED
    BY <1>10, <1>11, <2>1, AllNumbers
<1>13. f[m] = SubSeq(seq, 1, cut[m])
  <2>1. m - 1 \in Nat /\ (m - 1) + 1 = m
    BY <1>1
  <2>2. m - 1 \in N
    BY <1>12, <2>1
  <2> QED
    BY <2>1, <2>2
<1>14. SubSeq(seq, 1, Len(seq)) = seq
  BY SubSeqFull
<1> QED
  BY <1>1, <1>7, <1>13, <1>14 DEF f, pieces

\* The lines: how many they are, and where they end, in elements.
LEMMA LinesAre ==
  ASSUME NEW q \in Nat \ {0}, NEW e \in Nat
  PROVE  LET c == (e + q - 1) \div q
             elems(j) == IF j = c /\ e % q # 0 THEN e % q ELSE q
         IN /\ c \in Nat /\ (c = 0 => e = 0)
            /\ \A j \in 1..c : /\ elems(j) \in Nat /\ q * (j - 1) \in Nat
                               /\ q * (j - 1) + elems(j) = IF j = c THEN e ELSE q * j
                               /\ q * (j - 1) + elems(j) <= e
<1> DEFINE d == e \div q
           r == e % q
           c == (e + q - 1) \div q
           elems(j) == IF j = c /\ r # 0 THEN r ELSE q
<1>1. e = q * d + r /\ r \in 0..q - 1 /\ d \in Nat
  BY DivMod
<1> HIDE DEF d, r
<1>2. q * d \in Nat /\ q * (d + 1) = q * d + q
  BY <1>1, Product
<1>3. c = IF r = 0 THEN d ELSE d + 1
  <2>1. CASE r = 0
    <3>1. e + q - 1 = q * d + (q - 1) /\ q - 1 \in 0..q - 1
      BY <1>1, <1>2, <2>1
    <3> QED
      BY <1>1, <2>1, <3>1, DivModOf
  <2>2. CASE r # 0
    <3>1. e + q - 1 = q * (d + 1) + (r - 1) /\ r - 1 \in 0..q - 1 /\ d + 1 \in Nat
      BY <1>1, <1>2, <2>2
    <3> QED
      BY <2>2, <3>1, DivModOf
  <2> QED
    BY <2>1, <2>2
<1> HIDE DEF c
<1>4. c \in Nat /\ (c = 0 => e = 0)
  <2>1. d = 0 => q * d = 0
    OBVIOUS
  <2> QED
    BY <1>1, <1>3, <2>1
<1>5. ASSUME NEW j \in 1..c
      PROVE /\ elems(j) \in Nat /\ q * (j - 1) \in Nat
            /\ q * (j - 1) + elems(j) = IF j = c THEN e ELSE q * j
            /\ q * (j - 1) + elems(j) <= e
  <2>1. j \in Nat /\ j - 1 \in Nat /\ (j - 1) + 1 = j /\ j - 1 <= d
    BY <1>1, <1>3, <1>4
  <2>2. q * (j - 1) \in Nat /\ q * j = q * (j - 1) + q
    BY <2>1, Product
  <2>3. elems(j) \in Nat
    BY <1>1
  <2>4. CASE j = c /\ r # 0
    <3>1. j - 1 = d
      BY <1>1, <1>3, <2>4
    <3> QED
      BY <1>1, <1>2, <2>2, <2>3, <2>4, <3>1
  <2>5. CASE j = c /\ r = 0
    <3>1. j = d
      BY <1>3, <2>5
    <3> QED
      BY <1>1, <1>2, <2>2, <2>3, <2>5, <3>1
  <2>6. CASE j # c
    <3>1. j <= d
      BY <1>1, <1>3, <1>4, <2>6
    <3>2. q * j <= q * d
      BY <1>1, <2>1, <3>1, Product
    <3> QED
      BY <1>1, <1>2, <2>2, <2>3, <2>6, <3>2
  <2> QED
    BY <2>4, <2>5, <2>6
<1> HIDE DEF elems
<1> QED
  BY <1>4, <1>5 DEF elems, c, r


\* md shows every byte once and in order, in lines of any length.
LEMMA MdShowsAll ==
  ASSUME NEW seq \in Seq(Nat), NEW e \in Nat, NEW es \in ElemSizes, Len(seq) = e * es
  PROVE  Md(seq, e, es) = seq
<1> DEFINE q == LineBytes \div es
           c == (e + q - 1) \div q
           elems(j) == IF j = c /\ e % q # 0 THEN e % q ELSE q
           lines == Lines(e, es)
           cut == [j \in 0..c |-> es * (IF j = c THEN e ELSE q * j)]
           shown == [j \in DOMAIN lines |->
                       SubSeq(seq, lines[j].first + 1, lines[j].first + lines[j].elems * es)]
<1>1. es \in Nat \ {0} /\ q \in Nat \ {0}
  <2>1. es \in {1, 2, 4} /\ LineBytes \in {4, 8, 12, 16}
    BY FlashAssumption DEF ElemSizes
  <2> QED
    BY <2>1
<1>2. /\ c \in Nat /\ (c = 0 => e = 0)
      /\ \A j \in 1..c : /\ elems(j) \in Nat /\ q * (j - 1) \in Nat
                         /\ q * (j - 1) + elems(j) = IF j = c THEN e ELSE q * j
                         /\ q * (j - 1) + elems(j) <= e
  BY <1>1, LinesAre
<1>3. Md(seq, e, es) = FlattenSeq(shown)
  BY DEF Md
<1>4. lines = [j \in 1..c |-> [first |-> (j - 1) * q * es, elems |-> elems(j)]]
  BY DEF Lines
<1> HIDE DEF q, c, elems, lines
<1>5. shown = [j \in 1..c |-> SubSeq(seq, (j - 1) * q * es + 1, (j - 1) * q * es + elems(j) * es)]
  BY <1>4
<1> HIDE DEF shown
<1>6. Len(seq) = es * e /\ Len(seq) \in Nat
  BY <1>1, Product
<1>7. ASSUME c = 0 PROVE FlattenSeq(shown) = seq
  <2>1. e = 0 /\ Len(seq) = 0
    BY <1>1, <1>2, <1>6, <1>7, Product
  <2>2. seq = <<>>
    BY <2>1, EmptySeq
  <2>3. shown = <<>>
    <3>1. shown = [j \in 1..0 |-> shown[j]] /\ 0 \in Nat
      BY <1>5, <1>7
    <3>2. shown \in Seq({shown[j] : j \in DOMAIN shown}) /\ Len(shown) = 0
      BY <3>1, FunctionIsSequence
    <3> QED
      BY <3>2, EmptySeq
  <2> QED
    BY <2>2, <2>3 DEF FlattenSeq
<1>8. ASSUME NEW j \in 1..c
      PROVE  /\ cut[j - 1] = (j - 1) * q * es /\ cut[j - 1] \in Nat
             /\ cut[j] = (j - 1) * q * es + elems(j) * es
             /\ cut[j - 1] <= cut[j] /\ cut[j] <= Len(seq) /\ cut[j] \in Nat
  <2>1. j - 1 \in 0..c /\ j - 1 # c /\ j - 1 \in Nat /\ j \in 0..c
    BY <1>2
  <2>2. /\ elems(j) \in Nat /\ q * (j - 1) \in Nat
        /\ q * (j - 1) + elems(j) = IF j = c THEN e ELSE q * j
        /\ q * (j - 1) + elems(j) <= e
    BY <1>2
  <2>3. cut[j - 1] = es * (q * (j - 1)) /\ cut[j] = es * (IF j = c THEN e ELSE q * j)
    BY <2>1
  <2> HIDE DEF cut
  <2>4. (j - 1) * q = q * (j - 1) /\ (q * (j - 1)) * es = es * (q * (j - 1)) /\ elems(j) * es = es * elems(j)
    BY <1>1, <2>1, <2>2, Product
  <2>5. es * (q * (j - 1) + elems(j)) = es * (q * (j - 1)) + es * elems(j)
        /\ es * (q * (j - 1)) \in Nat /\ es * elems(j) \in Nat
    BY <1>1, <2>2, Product
  <2>6. es * (q * (j - 1) + elems(j)) <= es * e
    <3>1. q * (j - 1) + elems(j) \in Nat
      BY <2>2
    <3> QED
      BY <1>1, <2>2, <3>1, Product
  <2>7. (j - 1) * q * es = es * (q * (j - 1))
    BY <2>4
  <2>8. cut[j] = es * (q * (j - 1)) + es * elems(j)
    BY <2>2, <2>3, <2>5
  <2> QED
    BY <1>6, <2>3, <2>4, <2>5, <2>6, <2>7, <2>8
<1>9. ASSUME c # 0 PROVE FlattenSeq(shown) = seq
  <2>1. c \in Nat \ {0}
    BY <1>2, <1>9
  <2>2. cut[0] = 0
    <3>1. cut[0] = es * (q * 0)
      BY <2>1
    <3> QED
      BY <1>1, <3>1
  <2>3. cut[c] = Len(seq)
    BY <1>6, <2>1
  <2>4. cut \in [0..c -> 0..Len(seq)]
    <3>1. ASSUME NEW j \in 0..c PROVE cut[j] \in 0..Len(seq)
      <4>1. CASE j = 0
        BY <1>6, <2>2, <4>1
      <4>2. CASE j # 0
        <5>1. j \in 1..c
          BY <2>1, <4>2
        <5>2. cut[j] \in Nat /\ cut[j] <= Len(seq)
          BY <1>8, <5>1
        <5> QED
          BY <1>6, <5>2
      <4> QED
        BY <4>1, <4>2
    <3>2. cut = [j \in 0..c |-> cut[j]]
      OBVIOUS
    <3> HIDE DEF cut
    <3> QED
      BY <3>1, <3>2
  <2> HIDE DEF cut
  <2>5. Cuts(cut, c, seq)
    BY <1>8, <2>1, <2>2, <2>3, <2>4 DEF Cuts
  <2>6. shown = Pieces(cut, c, seq)
    BY <1>5, <1>8 DEF Pieces
  <2> QED
    BY <2>5, <2>6, PiecesJoin
<1> QED
  BY <1>3, <1>7, <1>9

\* How much of a text sfmd is asked for in ReadBack: whole words, and whole elements.
LEMMA WholeElements ==
  ASSUME NEW l \in Nat, NEW es \in ElemSizes
  PROVE  LET e == (l - (l % Word)) \div es
         IN e \in Nat /\ e * es \in Nat /\ e * es <= l /\ (e * es) % Word = 0
<1> DEFINE w == l - (l % Word)
<1>1. es \in {1, 2, 4} /\ Word \in {1, 2, 4}
  BY FlashAssumption DEF ElemSizes
<1>2. w \in Nat /\ w <= l /\ w % Word = 0
  BY <1>1
<1> HIDE DEF w
<1>3. CASE es = 1
  BY <1>1, <1>2, <1>3
<1>4. CASE es = 2
  BY <1>1, <1>2, <1>4
<1>5. CASE es = 4
  BY <1>1, <1>2, <1>5
<1> QED
  BY <1>1, <1>3, <1>4, <1>5 DEF w

\* The bytes that sfmd finds where sfmw wrote, and how they compare to the text.
LEMMA SfmdShowsText ==
  ASSUME NEW addr \in Addresses, NEW bytes \in Texts, NEW es \in ElemSizes,
         NEW old, flash = Changed(old, addr, bytes)
  PROVE  LET e == (Len(bytes) - (Len(bytes) % Word)) \div es
         IN Cmp(Sfmd(addr, e, es), bytes, e, es) = [rcode |-> 0, ngood |-> e]
<1> DEFINE p == addr \div SectorSize
           o == addr % SectorSize
           e == (Len(bytes) - (Len(bytes) % Word)) \div es
           n == e * es
           found(i) == flash[Reached((addr + i - 1) \div SectorSize)][1 + ((addr + i - 1) % SectorSize)]
           read == [i \in 1..n |-> IF i > n - (n % Word) THEN 0 ELSE found(i)]
<1>1. addr \in Nat /\ p \in Nat /\ o \in 0..SectorSize - 1 /\ addr = SectorSize * p + o
  BY WhereItBegins
<1>2. bytes \in Seq(Nat) /\ Len(bytes) \in Nat
  BY <1>1, SectorBounds
<1>3. e \in Nat /\ n \in Nat /\ n <= Len(bytes) /\ n % Word = 0
  BY <1>2, WholeElements
<1>4. Sfmd(addr, e, es) = Md(read, e, es)
  BY DEF Sfmd
<1> HIDE DEF p, o, e
<1>5. ASSUME NEW i \in 1..n PROVE found(i) = bytes[i]
  <2> DEFINE x == (addr + i - 1) % SectorSize
  <2>1. i \in 1..Len(bytes)
    BY <1>2, <1>3
  <2>2. PICK k \in 0..SectorCount(o, bytes) - 1 :
          /\ (addr + i - 1) \div SectorSize = p + k
          /\ i = SectorSize * k - o + x + 1
    BY <1>1, <2>1, ByteAt
  <2>3. x \in 0..SectorSize - 1
    <3>1. addr + i - 1 \in Nat
      BY <1>1, <2>1
    <3> QED
      BY <3>1, SizesArePositive, DivMod
  <2>4. k \in Nat /\ SectorSize * k \in Nat
    <3>1. k \in Nat
      BY <1>1, <2>2, SectorBounds
    <3> QED
      BY <3>1, SizesArePositive, Product
  <2>5. 1 + x \in 1..SectorSize /\ SectorSize * k - o + (1 + x) = i
    BY <1>1, <2>2, <2>3, <2>4, SizesArePositive
  <2> HIDE DEF x
  <2>6. Changed(old, addr, bytes)[Reached(p + k)][1 + x] = bytes[i]
    <3>1. Changed(old, addr, bytes)[Reached(p + k)][1 + x]
            = IF SectorSize * k - o + (1 + x) \in 1..Len(bytes) THEN bytes[SectorSize * k - o + (1 + x)]
              ELSE old[Reached(p + k)][1 + x]
      BY <1>1, <2>5, GoalAt
    <3> QED
      BY <2>1, <2>5, <3>1
  <2> QED
    BY <2>2, <2>6 DEF x
<1> HIDE DEF found
<1>6. \A i \in 1..n : read[i] = bytes[i] /\ bytes[i] \in Nat
  <2>1. ASSUME NEW i \in 1..n PROVE read[i] = bytes[i] /\ bytes[i] \in Nat
    <3>1. ~(i > n - (n % Word)) /\ i \in 1..Len(bytes)
      BY <1>2, <1>3
    <3>2. read[i] = found(i) /\ bytes[i] \in Nat
      BY <1>2, <3>1
    <3> QED
      BY <1>5, <3>2
  <2> QED
    BY <2>1
<1>7. read = [i \in 1..n |-> read[i]]
  OBVIOUS
<1> HIDE DEF read
<1>8. read \in Seq(Nat) /\ Len(read) = n
  <2>1. Len(read) = n
    BY <1>3, <1>7, FunctionIsSequence
  <2>2. read \in [1..n -> Nat]
    BY <1>6, <1>7
  <2> QED
    BY <1>3, <2>1, <2>2
<1>9. Sfmd(addr, e, es) = read
  <2>1. Len(read) = e * es
    BY <1>8
  <2> QED
    BY <1>3, <1>4, <1>8, <2>1, MdShowsAll
<1>10. ASSUME NEW k \in 1..e
       PROVE  SubSeq(read, (k - 1) * es + 1, k * es) = SubSeq(bytes, (k - 1) * es + 1, k * es)
  <2> DEFINE a == (k - 1) * es + 1
             b == k * es
  <2>1. a \in Nat \ {0} /\ b \in Nat /\ b <= n
    <3>1. es \in {1, 2, 4} /\ k \in Nat /\ k <= e /\ k - 1 \in Nat
      BY <1>3 DEF ElemSizes
    <3>2. CASE es = 1
      BY <1>3, <3>1, <3>2
    <3>3. CASE es = 2
      BY <1>3, <3>1, <3>3
    <3>4. CASE es = 4
      BY <1>3, <3>1, <3>4
    <3> QED
      BY <3>1, <3>2, <3>3, <3>4
  <2> HIDE DEF a, b, n
  <2>2. \A i \in a..b : read[i] = bytes[i] /\ read[i] \in Nat /\ bytes[i] \in Nat
    BY <1>3, <1>6, <2>1
  <2>3. /\ SubSeq(read, a, b) \in Seq(Nat) /\ SubSeq(bytes, a, b) \in Seq(Nat)
        /\ Len(SubSeq(read, a, b)) = Len(SubSeq(bytes, a, b))
        /\ Len(SubSeq(read, a, b)) = IF a <= b THEN b - a + 1 ELSE 0
    BY <2>1, <2>2, SubSeqProperties
  <2>4. ASSUME NEW i \in 1..b - a + 1 PROVE SubSeq(read, a, b)[i] = SubSeq(bytes, a, b)[i]
    <3>1. a + i - 1 \in a..b
      BY <2>1
    <3>2. SubSeq(read, a, b)[i] = read[a + i - 1] /\ SubSeq(bytes, a, b)[i] = bytes[a + i - 1]
      BY <2>1, <2>2, SubSeqProperties
    <3> QED
      BY <2>2, <3>1, <3>2
  <2> DEFINE u == SubSeq(read, a, b)
             v == SubSeq(bytes, a, b)
  <2> HIDE DEF u, v
  <2>5. /\ u \in Seq(Nat) /\ v \in Seq(Nat) /\ Len(u) = Len(v) /\ Len(u) = IF a <= b THEN b - a + 1 ELSE 0
        /\ \A i \in 1..b - a + 1 : u[i] = v[i]
    BY <2>3, <2>4 DEF u, v
  <2>6. \A i \in 1..Len(u) : u[i] = v[i]
    BY <2>1, <2>5
  <2>7. u = v
    BY <2>5, <2>6, SeqEqual
  <2> QED
    BY <2>7 DEF a, b, u, v
<1>11. {k \in 1..e : es \in ElemSizes /\ SubSeq(read, (k - 1) * es + 1, k * es)
                                         # SubSeq(bytes, (k - 1) * es + 1, k * es)} = {}
  BY <1>10
<1>12. Cmp(read, bytes, e, es) = [rcode |-> 0, ngood |-> e]
  BY <1>11 DEF Cmp
<1> QED
  BY <1>9, <1>12 DEF e

-----------------------------------------------------------------------------
(* What a command without a fault has done so far.                         *)

\* r of the n operations of steps are over.
Left(steps, n, r) == todo = [i \in 1..n - r |-> steps[r + i]]

Field == IF cmd.do = "size" THEN SIZE ELSE SPEED
Setting == IF cmd.do = "size" THEN TypeOfSize(cmd.arg) ELSE TypeOfSpeed(cmd.arg)

HeaderRuns(r) ==
  /\ Left(HeaderSteps(Field, Setting), 3, r)
  /\ r >= 1 => pmen = before[0]
  /\ flash = IF r = 2 THEN [before EXCEPT ![0] = Blank] ELSE before

DefaultRuns(r) ==
  /\ Left(<<Erase(rom_size - 4, FALSE), Write(rom_size - 4, InitData)>>, 2, r)
  /\ flash = IF r = 1 THEN [before EXCEPT ![Reached(rom_size - 4)] = Blank] ELSE before

BlankRuns(r) ==
  /\ Left(<<Erase(rom_size - 2, FALSE), Erase(rom_size - 1, FALSE)>>, 2, r)
  /\ flash = IF r = 1 THEN [before EXCEPT ![Reached(rom_size - 2)] = Blank] ELSE before
  /\ r = 1 => Reaches(rom_size - 2)

RunsOn ==
  /\ cmd.do \in {"sfmw", "size", "speed", "default", "blank"}
  /\ cmd.do \in {"size", "speed"} => \E r \in 0..2 : HeaderRuns(r)
  /\ cmd.do = "default" => \E r \in 0..1 : DefaultRuns(r)
  /\ cmd.do = "blank" => \E r \in 0..1 : BlankRuns(r)

Speeds == {20, 27, 40, 80}
SizesFound == {ChipSize[k] : k \in 0..SizeTypes}

\* What it was asked for, and what it is to leave.
Meant ==
  /\ cmd.do = "sfmw" => /\ cmd.addr \in Addresses /\ cmd.bytes \in Texts
                        /\ goal = Changed(before, cmd.addr, cmd.bytes)
  /\ cmd.do = "size" => cmd.arg \in SizesFound
  /\ cmd.do = "speed" => cmd.arg \in Speeds
  /\ cmd.do \in {"size", "speed"} => goal = [before EXCEPT ![0][Field] = Setting]
  /\ cmd.do \in {"default", "blank"} => rom_size \in Nat /\ rom_size >= 4
  /\ cmd.do = "default" /\ Reaches(rom_size - 4) =>
       goal = [before EXCEPT ![Reached(rom_size - 4)] = Replaced(Blank, 0, InitData)]
  /\ cmd.do = "blank" =>
       goal = [s \in Sectors |-> IF \E n \in 1..2 : Reaches(rom_size - n) /\ s = Reached(rom_size - n)
                                 THEN Blank ELSE before[s]]

Clean ==
  /\ Meant
  /\ status = "busy" => RunsOn
  /\ status = "ok" => flash = goal

ReadInv ==
  /\ faults \in Nat
  /\ rom_size \in Nat /\ (rom_size = 0 \/ rom_size >= 4)
  /\ faults = 0 => Clean

-----------------------------------------------------------------------------
(* The operations of such a command, one after the other.                  *)

LEMMA WholeLeft ==
  ASSUME NEW n \in Nat, NEW steps, steps = [i \in 1..n |-> steps[i]]
  PROVE  steps = [i \in 1..n - 0 |-> steps[0 + i]]
<1>1. n - 0 = n /\ \A i \in 1..n : 0 + i = i
  OBVIOUS
<1> QED
  BY <1>1

LEMMA NextLeft ==
  ASSUME NEW n \in Nat, NEW r \in 0..n - 1, NEW steps, Left(steps, n, r)
  PROVE  /\ todo # <<>> /\ Step = steps[r + 1]
         /\ Tail(todo) = [i \in 1..n - (r + 1) |-> steps[(r + 1) + i]]
         /\ Tail(todo) = <<>> <=> r + 1 = n
<1>1. n - r \in Nat \ {0} /\ n - r - 1 = n - (r + 1)
  OBVIOUS
<1>2. todo = [i \in 1..n - r |-> steps[r + i]]
  BY DEF Left
<1>3. todo \in Seq({todo[i] : i \in DOMAIN todo}) /\ Len(todo) = n - r
  <2>1. todo = [i \in 1..n - r |-> todo[i]] /\ n - r \in Nat
    BY <1>1, <1>2
  <2> QED
    BY <2>1, FunctionIsSequence
<1>4. todo # <<>>
  BY <1>1, <1>3, EmptySeq
<1>5. /\ Head(todo) = todo[1] /\ Tail(todo) = [i \in 1..Len(todo) - 1 |-> todo[i + 1]]
      /\ Len(todo) = 1 <=> Tail(todo) = <<>>
  BY <1>3, <1>4, Rest
<1>6. Step = steps[r + 1]
  <2>1. 1 \in 1..n - r
    BY <1>1
  <2> QED
    BY <1>2, <1>5, <2>1 DEF Step
<1>7. \A i \in 1..n - (r + 1) : todo[i + 1] = steps[(r + 1) + i]
  <2>1. ASSUME NEW i \in 1..n - (r + 1) PROVE todo[i + 1] = steps[(r + 1) + i]
    <3>1. i + 1 \in 1..n - r /\ r + (i + 1) = (r + 1) + i
      BY <1>1
    <3>2. todo[i + 1] = steps[r + (i + 1)]
      BY <1>2, <3>1
    <3> QED
      BY <3>1, <3>2
  <2> QED
    BY <2>1
<1>8. Tail(todo) = [i \in 1..n - (r + 1) |-> todo[i + 1]]
  BY <1>1, <1>3, <1>5
<1>9. Tail(todo) = [i \in 1..n - (r + 1) |-> steps[(r + 1) + i]]
  BY <1>7, <1>8
<1>10. Len(todo) = 1 <=> r + 1 = n
  BY <1>1, <1>3
<1> QED
  BY <1>4, <1>5, <1>6, <1>9, <1>10

\* The first sector is there.
LEMMA FirstSector == Reaches(0) /\ Reached(0) = 0 /\ 0 \in Sectors
<1>1. MaxSectors \in Nat /\ MaxSectors >= 4
  <2>1. SizeTypes \in 0..SizeTypes
    BY FlashAssumption
  <2> QED
    BY <2>1, SizesAre, SizesPositive DEF MaxSectors
<1> QED
  BY <1>1, SizesArePositive DEF Reaches, Reached, Sectors

\* What is written over a sector that is erased.
LEMMA WrittenToBlank ==
  ASSUME SectorsShaped(flash), NEW d \in Sectors, Reached(Step.sec) = d, flash[d] = Blank,
         Content = [i \in 1..SectorSize |-> Content[i]], Len(Content) = SectorSize
  PROVE  Written(Len(Content)) = [flash EXCEPT ![d] = Content]
<1>1. Written(Len(Content)) = [flash EXCEPT ![d] =
        [i \in 1..SectorSize |-> IF i <= SectorSize THEN Over(flash[d][i], Content[i]) ELSE flash[d][i]]]
  BY DEF SectorsShaped, Written
<1>2. \A i \in 1..SectorSize : /\ i <= SectorSize /\ flash[d][i] = FF
                               /\ Over(FF, Content[i]) = Content[i]
  BY SizesArePositive DEF Over, Blank
<1>3. [i \in 1..SectorSize |-> IF i <= SectorSize THEN Over(flash[d][i], Content[i]) ELSE flash[d][i]] = Content
  BY <1>2
<1> QED
  BY <1>1, <1>3

LEMMA InitDataToBlank ==
  ASSUME SectorsShaped(flash), NEW d \in Sectors, Reached(Step.sec) = d, flash[d] = Blank, Content = InitData
  PROVE  Written(Len(Content)) = [flash EXCEPT ![d] = Replaced(Blank, 0, InitData)]
<1>1. Len(Content) = 1 /\ Content[1] = 5 /\ DOMAIN InitData = 1..1 /\ InitData[1] = 5
  BY DEF InitData
<1>2. Written(Len(Content)) = [flash EXCEPT ![d] =
        [i \in 1..SectorSize |-> IF i <= 1 THEN Over(flash[d][i], Content[i]) ELSE flash[d][i]]]
  BY <1>1 DEF SectorsShaped, Written
<1>3. Replaced(Blank, 0, InitData) = [i \in 1..SectorSize |-> IF i - 0 \in 1..1 THEN InitData[i - 0] ELSE Blank[i]]
  BY <1>1 DEF Replaced
<1>4. ASSUME NEW i \in 1..SectorSize
      PROVE  (IF i <= 1 THEN Over(flash[d][i], Content[i]) ELSE flash[d][i])
               = IF i - 0 \in 1..1 THEN InitData[i - 0] ELSE Blank[i]
  <2>1. CASE i = 1
    <3>1. Over(FF, 5) = 5 /\ Blank[i] = FF
      BY DEF Over, Blank, FF
    <3> QED
      BY <1>1, <2>1, <3>1
  <2>2. CASE i # 1
    BY <2>2, SizesArePositive
  <2> QED
    BY <2>1, <2>2
<1>5. [i \in 1..SectorSize |-> IF i <= 1 THEN Over(flash[d][i], Content[i]) ELSE flash[d][i]]
        = Replaced(Blank, 0, InitData)
  BY <1>3, <1>4
<1> QED
  BY <1>2, <1>5

\* A byte of the header set in the copy of its sector.
LEMMA HeaderReplaced ==
  ASSUME NEW old, old = [i \in 1..SectorSize |-> old[i]], NEW field \in {1, 2}, NEW type
  PROVE  Replaced(old, field - 1, <<type>>) = [old EXCEPT ![field] = type]
<1>1. Replaced(old, field - 1, <<type>>)
        = [i \in 1..SectorSize |-> IF i - (field - 1) \in 1..1 THEN <<type>>[i - (field - 1)] ELSE old[i]]
  BY DEF Replaced
<1>2. \A i \in 1..SectorSize : /\ i - (field - 1) \in 1..1 <=> i = field
                               /\ i = field => i - (field - 1) = 1
  BY SizesArePositive
<1>3. \A i \in 1..SectorSize : (IF i - (field - 1) \in 1..1 THEN <<type>>[i - (field - 1)] ELSE old[i])
                                 = [old EXCEPT ![field] = type][i]
  <2>1. <<type>>[1] = type
    OBVIOUS
  <2> QED
    BY <1>2, <2>1
<1>4. [old EXCEPT ![field] = type] = [i \in 1..SectorSize |-> [old EXCEPT ![field] = type][i]]
  OBVIOUS
<1> QED
  BY <1>1, <1>3, <1>4

LEMMA HeaderNext ==
  ASSUME NEW r \in 0..2, HeaderRuns(r)
  PROVE  /\ todo # <<>> /\ Reached(Step.sec) = 0 /\ Reaches(Step.sec)
         /\ Step = <<Read(0), Erase(0, TRUE), Rewrite(0, Field - 1, <<Setting>>, TRUE)>>[r + 1]
         /\ Tail(todo) = [i \in 1..3 - (r + 1) |-> HeaderSteps(Field, Setting)[(r + 1) + i]]
         /\ Tail(todo) = <<>> <=> r = 2
<1> DEFINE steps == HeaderSteps(Field, Setting)
<1>1. Left(steps, 3, r) /\ 3 \in Nat /\ r \in 0..3 - 1
  BY DEF HeaderRuns
<1>2. steps = <<Read(0), Erase(0, TRUE), Rewrite(0, Field - 1, <<Setting>>, TRUE)>>
  BY DEF HeaderSteps
<1> HIDE DEF steps
<1>3. /\ todo # <<>> /\ Step = steps[r + 1]
      /\ Tail(todo) = [i \in 1..3 - (r + 1) |-> steps[(r + 1) + i]]
      /\ Tail(todo) = <<>> <=> r + 1 = 3
  BY <1>1, NextLeft
<1>4. Step.sec = 0
  <2>1. r = 0 \/ r = 1 \/ r = 2
    OBVIOUS
  <2> QED
    BY <1>2, <1>3, <2>1 DEF Read, Erase, Rewrite
<1>5. r + 1 = 3 <=> r = 2
  OBVIOUS
<1> QED
  BY <1>2, <1>3, <1>4, <1>5, FirstSector DEF steps

LEMMA HeaderStep ==
  ASSUME SectorsShaped(flash), SectorsShaped(before), cmd.do \in {"size", "speed"},
         NEW r \in 0..2, HeaderRuns(r), goal = [before EXCEPT ![0][Field] = Setting], StepDone
  PROVE  /\ status' = "busy" => \E q \in 0..2 : HeaderRuns(q)'
         /\ status' = "ok" => flash' = goal'
<1>1. /\ todo' = Tail(todo) /\ status' = IF todo' = <<>> THEN "ok" ELSE "busy"
      /\ cmd' = cmd /\ before' = before /\ goal' = goal
  BY DEF StepDone
<1>2. Field' = Field /\ Setting' = Setting /\ HeaderSteps(Field, Setting)' = HeaderSteps(Field, Setting)
  BY <1>1 DEF Field, Setting, HeaderSteps
<1>3. /\ Reached(Step.sec) = 0
      /\ Step = <<Read(0), Erase(0, TRUE), Rewrite(0, Field - 1, <<Setting>>, TRUE)>>[r + 1]
      /\ todo' = [i \in 1..3 - (r + 1) |-> HeaderSteps(Field, Setting)[(r + 1) + i]]
      /\ todo' = <<>> <=> r = 2
  BY <1>1, HeaderNext
<1>4. 0 \in Sectors /\ before[0] = [i \in 1..SectorSize |-> before[0][i]] /\ before = [s \in Sectors |-> before[s]]
  BY FirstSector DEF SectorsShaped
<1>5. CASE r = 0
  <2>1. Step = Read(0)
    BY <1>3, <1>5
  <2>2. flash' = flash /\ pmen' = flash[0]
    BY <1>3, <2>1 DEF StepDone, Read
  <2>3. flash = before
    BY <1>5 DEF HeaderRuns
  <2>4. HeaderRuns(1)'
    <3>1. todo' = [i \in 1..3 - 1 |-> HeaderSteps(Field, Setting)[1 + i]]
      BY <1>3, <1>5
    <3> QED
      BY <1>1, <1>2, <2>2, <2>3, <3>1 DEF HeaderRuns, Left
  <2> QED
    BY <1>1, <1>3, <1>5, <2>4
<1>6. CASE r = 1
  <2>1. Step = Erase(0, TRUE)
    BY <1>3, <1>6
  <2>2. flash' = [flash EXCEPT ![0] = Blank] /\ pmen' = pmen
    BY <1>3, <2>1 DEF StepDone, Erase
  <2>3. flash = before /\ pmen = before[0]
    BY <1>6 DEF HeaderRuns
  <2>4. HeaderRuns(2)'
    <3>1. todo' = [i \in 1..3 - 2 |-> HeaderSteps(Field, Setting)[2 + i]]
      BY <1>3, <1>6
    <3> QED
      BY <1>1, <1>2, <2>2, <2>3, <3>1 DEF HeaderRuns, Left
  <2> QED
    BY <1>1, <1>3, <1>6, <2>4
<1>7. CASE r = 2
  <2>1. Step = Rewrite(0, Field - 1, <<Setting>>, TRUE)
    BY <1>3, <1>7
  <2>2. flash' = Written(Len(Content)) /\ Content = Replaced(pmen, Field - 1, <<Setting>>)
    BY <2>1 DEF StepDone, Content, Rewrite
  <2>3. flash = [before EXCEPT ![0] = Blank] /\ pmen = before[0]
    BY <1>7 DEF HeaderRuns
  <2>4. Content = [before[0] EXCEPT ![Field] = Setting]
    <3>1. Field \in {1, 2}
      BY DEF Field, SIZE, SPEED
    <3> QED
      BY <1>4, <2>2, <2>3, <3>1, HeaderReplaced
  <2>5. Content = [i \in 1..SectorSize |-> Content[i]] /\ Len(Content) = SectorSize
    BY <2>2, ReplacedIsSector
  <2>6. flash[0] = Blank
    BY <1>4, <2>3
  <2>7. flash' = [flash EXCEPT ![0] = Content]
    BY <1>3, <1>4, <2>2, <2>5, <2>6, WrittenToBlank
  <2>8. flash' = [before EXCEPT ![0] = [before[0] EXCEPT ![Field] = Setting]]
    BY <1>4, <2>3, <2>4, <2>7
  <2>9. flash' = goal
    BY <1>4, <2>8
  <2> QED
    BY <1>1, <1>3, <1>7, <2>9
<1> QED
  BY <1>5, <1>6, <1>7

\* Of two operations, the first leaves the second; when that is done, the command is.
LEMMA TwoNext ==
  ASSUME NEW r \in 0..1, NEW a, NEW b, Left(<<a, b>>, 2, r)
  PROVE  /\ todo # <<>> /\ Step = (IF r = 0 THEN a ELSE b)
         /\ r = 0 => Tail(todo) = [i \in 1..2 - 1 |-> <<a, b>>[1 + i]]
         /\ Tail(todo) = <<>> <=> r = 1
<1>1. 2 \in Nat /\ r \in 0..2 - 1
  OBVIOUS
<1>2. /\ todo # <<>> /\ Step = <<a, b>>[r + 1]
      /\ Tail(todo) = [i \in 1..2 - (r + 1) |-> <<a, b>>[(r + 1) + i]]
      /\ Tail(todo) = <<>> <=> r + 1 = 2
  BY <1>1, NextLeft
<1>3. r = 0 \/ r = 1
  OBVIOUS
<1> QED
  BY <1>2, <1>3

LEMMA DefaultStep ==
  ASSUME SectorsShaped(flash), SectorsShaped(before), cmd.do = "default", rom_size \in Nat, rom_size >= 4, Meant,
         NEW r \in 0..1, DefaultRuns(r), StepDone
  PROVE  /\ status' = "busy" => DefaultRuns(1)'
         /\ status' = "ok" => flash' = goal'
<1> DEFINE sec == rom_size - 4
           d == Reached(sec)
           a == Erase(sec, FALSE)
           b == Write(sec, InitData)
<1>1. /\ todo' = Tail(todo) /\ Reaches(Step.sec)
      /\ status' = IF todo' = <<>> THEN "ok" ELSE "busy"
      /\ cmd' = cmd /\ before' = before /\ goal' = goal /\ rom_size' = rom_size
  BY DEF StepDone, SafeModeLeft
<1>2. Left(<<a, b>>, 2, r) /\ flash = IF r = 1 THEN [before EXCEPT ![d] = Blank] ELSE before
  BY DEF DefaultRuns
<1>3. sec \in Nat /\ d \in Sectors /\ before = [s \in Sectors |-> before[s]]
  BY ReachedIsSector DEF SectorsShaped
<1> HIDE DEF a, b, sec
<1>4. /\ Step = (IF r = 0 THEN a ELSE b)
      /\ r = 0 => todo' = [i \in 1..2 - 1 |-> <<a, b>>[1 + i]]
      /\ todo' = <<>> <=> r = 1
  BY <1>1, <1>2, TwoNext
<1>5. CASE r = 0
  <2>1. Step.do = "erase" /\ Step.sec = sec
    BY <1>4, <1>5 DEF a, Erase
  <2>2. flash' = [before EXCEPT ![d] = Blank]
    BY <1>2, <1>5, <2>1 DEF StepDone
  <2>3. d' = d /\ <<a, b>>' = <<a, b>>
    BY <1>1 DEF a, b, sec, Erase, Write, InitData, Reached
  <2>4. DefaultRuns(1)'
    BY <1>1, <1>4, <1>5, <2>2, <2>3 DEF DefaultRuns, Left, a, b, sec
  <2> QED
    BY <1>1, <1>4, <1>5, <2>4
<1>6. CASE r = 1
  <2>1. Step.do = "write" /\ Step.sec = sec /\ Step.bytes = InitData
    BY <1>4, <1>6 DEF b, Write
  <2>2. flash' = Written(Len(Content)) /\ Content = InitData
    BY <2>1 DEF StepDone, Content
  <2>3. flash[d] = Blank /\ flash = [before EXCEPT ![d] = Blank]
    BY <1>2, <1>3, <1>6
  <2>4. flash' = [flash EXCEPT ![d] = Replaced(Blank, 0, InitData)]
    BY <1>3, <2>1, <2>2, <2>3, InitDataToBlank
  <2>5. flash' = [before EXCEPT ![d] = Replaced(Blank, 0, InitData)]
    BY <1>3, <2>3, <2>4
  <2>6. goal = [before EXCEPT ![d] = Replaced(Blank, 0, InitData)]
    BY <1>1, <2>1 DEF Meant, sec
  <2> QED
    BY <1>1, <1>4, <1>6, <2>5, <2>6
<1> QED
  BY <1>5, <1>6

LEMMA BlankStep ==
  ASSUME SectorsShaped(flash), SectorsShaped(before), cmd.do = "blank", rom_size \in Nat, rom_size >= 4, Meant,
         NEW r \in 0..1, BlankRuns(r), StepDone
  PROVE  /\ status' = "busy" => BlankRuns(1)'
         /\ status' = "ok" => flash' = goal'
<1> DEFINE a == Erase(rom_size - 2, FALSE)
           b == Erase(rom_size - 1, FALSE)
           d == Reached(rom_size - 2)
           e == Reached(rom_size - 1)
<1>1. /\ todo' = Tail(todo) /\ Reaches(Step.sec)
      /\ status' = IF todo' = <<>> THEN "ok" ELSE "busy"
      /\ cmd' = cmd /\ before' = before /\ goal' = goal /\ rom_size' = rom_size /\ mirrored' = mirrored
  BY DEF StepDone, SafeModeLeft
<1>2. /\ Left(<<a, b>>, 2, r) /\ flash = IF r = 1 THEN [before EXCEPT ![d] = Blank] ELSE before
      /\ r = 1 => Reaches(rom_size - 2)
  BY DEF BlankRuns
<1>3. d \in Sectors /\ e \in Sectors /\ before = [s \in Sectors |-> before[s]]
  <2>1. rom_size - 2 \in Nat /\ rom_size - 1 \in Nat
    OBVIOUS
  <2> QED
    BY <2>1, ReachedIsSector DEF SectorsShaped
<1> HIDE DEF a, b
<1>4. /\ Step = (IF r = 0 THEN a ELSE b)
      /\ r = 0 => todo' = [i \in 1..2 - 1 |-> <<a, b>>[1 + i]]
      /\ todo' = <<>> <=> r = 1
  BY <1>1, <1>2, TwoNext
<1>5. CASE r = 0
  <2>1. Step.do = "erase" /\ Step.sec = rom_size - 2
    BY <1>4, <1>5 DEF a, Erase
  <2>2. flash' = [before EXCEPT ![d] = Blank] /\ Reaches(rom_size - 2)
    BY <1>1, <1>2, <1>5, <2>1 DEF StepDone
  <2>3. d' = d /\ <<a, b>>' = <<a, b>> /\ Reaches(rom_size - 2)'
    BY <1>1, <2>2 DEF a, b, Erase, Reached, Reaches
  <2>4. BlankRuns(1)'
    BY <1>1, <1>4, <1>5, <2>2, <2>3 DEF BlankRuns, Left, a, b
  <2> QED
    BY <1>1, <1>4, <1>5, <2>4
<1>6. CASE r = 1
  <2>1. Step.do = "erase" /\ Step.sec = rom_size - 1
    BY <1>4, <1>6 DEF b, Erase
  <2>2. flash' = [flash EXCEPT ![e] = Blank] /\ Reaches(rom_size - 1) /\ Reaches(rom_size - 2)
    BY <1>1, <1>2, <1>6, <2>1 DEF StepDone
  <2>3. flash = [before EXCEPT ![d] = Blank]
    BY <1>2, <1>6
  <2>4. flash' = [s \in Sectors |-> IF s = d \/ s = e THEN Blank ELSE before[s]]
    BY <1>3, <2>2, <2>3
  <2>5. goal = [s \in Sectors |-> IF \E n \in 1..2 : Reaches(rom_size - n) /\ s = Reached(rom_size - n)
                                  THEN Blank ELSE before[s]]
    BY DEF Meant
  <2>6. \A s \in Sectors : (\E n \in 1..2 : Reaches(rom_size - n) /\ s = Reached(rom_size - n)) <=> s = d \/ s = e
    <3>1. \A n \in 1..2 : n = 1 \/ n = 2
      OBVIOUS
    <3>2. 1 \in 1..2 /\ 2 \in 1..2
      OBVIOUS
    <3> QED
      BY <2>2, <3>1, <3>2
  <2>7. goal = flash'
    BY <2>4, <2>5, <2>6
  <2> QED
    BY <1>1, <1>4, <1>6, <2>7
<1> QED
  BY <1>5, <1>6

-----------------------------------------------------------------------------
(* The invariant of commands without a fault holds initially and is kept.  *)

LEMMA ReadInitially == Init => ReadInv
  BY DEF Init, ReadInv, Clean, Meant

\* What a command that begins has to show.
LEMMA BeginRuns ==
  ASSUME ReadInv, NEW command, NEW steps, NEW sought, Begin(command, steps, sought),
         Meant', RunsOn', rom_size' \in Nat, rom_size' = 0 \/ rom_size' >= 4
  PROVE  ReadInv'
<1>1. faults' = faults /\ status' = "busy"
  BY DEF Begin
<1> QED
  BY <1>1 DEF ReadInv, Clean

LEMMA SfmwBegins == ASSUME ReadInv, NEW a \in Addresses, NEW t \in Texts, Sfmw(a, t) PROVE ReadInv'
<1> DEFINE command == [do |-> "sfmw", addr |-> a, bytes |-> t]
           steps == SfmwSteps(a \div SectorSize, a % SectorSize, t)
           sought == Changed(flash, a, t)
<1>1. Begin(command, steps, sought) /\ rom_size' = rom_size
  BY DEF Sfmw
<1>2. cmd' = command /\ goal' = sought /\ before' = flash
  BY <1>1 DEF Begin
<1>3. cmd'.do = "sfmw" /\ cmd'.addr = a /\ cmd'.bytes = t
  BY <1>2
<1>4. Changed(before, cmd.addr, cmd.bytes)' = sought
  BY <1>2, <1>3 DEF Changed, Reached
<1>5. Meant' /\ RunsOn'
  BY <1>2, <1>3, <1>4 DEF Meant, RunsOn
<1> HIDE DEF command, steps, sought
<1>6. rom_size' \in Nat /\ (rom_size' = 0 \/ rom_size' >= 4)
  BY <1>1 DEF ReadInv
<1> QED
  BY <1>1, <1>5, <1>6, BeginRuns

LEMMA HeaderBegins ==
  ASSUME ReadInv, NEW command, NEW field, NEW type, rom_size' = rom_size,
         Begin(command, HeaderSteps(field, type), [flash EXCEPT ![0][field] = type]),
         command.do \in {"size", "speed"},
         command.do = "size" => command.arg \in SizesFound /\ field = SIZE /\ type = TypeOfSize(command.arg),
         command.do = "speed" => command.arg \in Speeds /\ field = SPEED /\ type = TypeOfSpeed(command.arg)
  PROVE  ReadInv'
<1> DEFINE steps == HeaderSteps(field, type)
<1>1. /\ cmd' = command /\ goal' = [flash EXCEPT ![0][field] = type] /\ before' = flash /\ flash' = flash
      /\ todo' = steps
  BY DEF Begin
<1>2. Field' = field /\ Setting' = type
  BY <1>1 DEF Field, Setting
<1>3. Meant'
  BY <1>1, <1>2 DEF Meant, SizesFound
<1>4. HeaderRuns(0)'
  <2>1. steps = [i \in 1..3 |-> steps[i]] /\ 3 \in Nat
    BY DEF HeaderSteps
  <2>2. HeaderSteps(Field, Setting)' = steps
    BY <1>2 DEF HeaderSteps
  <2> HIDE DEF steps
  <2>3. steps = [i \in 1..3 - 0 |-> steps[0 + i]]
    BY <2>1, WholeLeft
  <2> QED
    BY <1>1, <2>2, <2>3 DEF HeaderRuns, Left
<1>5. RunsOn'
  <2>1. 0 \in 0..2
    OBVIOUS
  <2> QED
    BY <1>1, <1>4, <2>1 DEF RunsOn
<1>6. rom_size' \in Nat /\ (rom_size' = 0 \/ rom_size' >= 4)
  BY DEF ReadInv
<1> QED
  BY <1>3, <1>5, <1>6, BeginRuns

LEMMA SizeKnown ==
  ASSUME ReadInv, RomSizeKnown
  PROVE  rom_size' \in Nat /\ rom_size' >= 4
<1>1. CASE rom_size' = IF rom_size = 0 THEN HeaderSize ELSE rom_size
  BY <1>1, SizeOfTypeIs DEF ReadInv, HeaderSize
<1>2. CASE rom_size' \in {SizeOfType(t) : t \in 0..SizeTypes}
  BY <1>2, SizeOfTypeIs
<1> QED
  BY <1>1, <1>2 DEF RomSizeKnown

LEMMA PairLeft == ASSUME NEW a, NEW b PROVE <<a, b>> = [i \in 1..2 - 0 |-> <<a, b>>[0 + i]]
<1> DEFINE steps == <<a, b>>
<1>1. steps = [i \in 1..2 |-> steps[i]] /\ 2 \in Nat
  OBVIOUS
<1> HIDE DEF steps
<1>2. steps = [i \in 1..2 - 0 |-> steps[0 + i]]
  BY <1>1, WholeLeft
<1> QED
  BY <1>2 DEF steps

LEMMA DefaultBegins == ASSUME ReadInv, InitDataDefault PROVE ReadInv'
<1> DEFINE sec == rom_size' - 4
           a == Erase(sec, FALSE)
           b == Write(sec, InitData)
           steps == <<a, b>>
           sought == IF Reaches(sec) THEN [flash EXCEPT ![Reached(sec)] = Replaced(Blank, 0, InitData)]
                     ELSE flash
           command == [do |-> "default"]
<1>1. Begin(command, steps, sought) /\ RomSizeKnown
  BY DEF InitDataDefault
<1>2. rom_size' \in Nat /\ rom_size' >= 4
  BY <1>1, SizeKnown
<1>3. /\ cmd' = command /\ goal' = sought /\ before' = flash /\ flash' = flash /\ todo' = steps
      /\ mirrored' = mirrored
  BY <1>1 DEF Begin
<1>4. steps = [i \in 1..2 - 0 |-> steps[0 + i]]
  <2> HIDE DEF a, b
  <2> QED
    BY PairLeft
<1>5. Meant'
  <2>1. Reaches(rom_size - 4)' = Reaches(sec) /\ Reached(rom_size - 4)' = Reached(sec)
        /\ Replaced(Blank, 0, InitData)' = Replaced(Blank, 0, InitData)
    BY <1>3 DEF Reaches, Reached, Replaced, Blank, InitData
  <2> QED
    BY <1>2, <1>3, <2>1 DEF Meant
<1>6. DefaultRuns(0)'
  <2>1. <<Erase(rom_size - 4, FALSE), Write(rom_size - 4, InitData)>>' = steps
    BY DEF Erase, Write, InitData
  <2> HIDE DEF steps
  <2> QED
    BY <1>3, <1>4, <2>1 DEF DefaultRuns, Left
<1>7. RunsOn'
  <2>1. 0 \in 0..1
    OBVIOUS
  <2> QED
    BY <1>3, <1>6, <2>1 DEF RunsOn
<1> HIDE DEF steps, sought, command
<1> QED
  BY <1>1, <1>2, <1>5, <1>7, BeginRuns

LEMMA BlankBegins == ASSUME ReadInv, InitDataBlank PROVE ReadInv'
<1> DEFINE a == Erase(rom_size' - 2, FALSE)
           b == Erase(rom_size' - 1, FALSE)
           steps == <<a, b>>
           sought == [s \in Sectors |-> IF \E n \in 1..2 : Reaches(rom_size' - n) /\ s = Reached(rom_size' - n)
                                        THEN Blank ELSE flash[s]]
           command == [do |-> "blank"]
<1>1. Begin(command, steps, sought) /\ RomSizeKnown
  BY DEF InitDataBlank
<1>2. rom_size' \in Nat /\ rom_size' >= 4
  BY <1>1, SizeKnown
<1>3. /\ cmd' = command /\ goal' = sought /\ before' = flash /\ flash' = flash /\ todo' = steps
      /\ mirrored' = mirrored
  BY <1>1 DEF Begin
<1>4. steps = [i \in 1..2 - 0 |-> steps[0 + i]]
  <2> HIDE DEF a, b
  <2> QED
    BY PairLeft
<1>5. Meant'
  <2>1. /\ \A x : Reaches(x)' = Reaches(x)
        /\ Blank' = Blank
    BY <1>3 DEF Reaches, Blank
  <2> QED
    BY <1>2, <1>3, <2>1 DEF Meant, Reaches
<1>6. BlankRuns(0)'
  <2>1. <<Erase(rom_size - 2, FALSE), Erase(rom_size - 1, FALSE)>>' = steps
    BY DEF Erase
  <2> HIDE DEF steps
  <2> QED
    BY <1>3, <1>4, <2>1 DEF BlankRuns, Left
<1>7. RunsOn'
  <2>1. 0 \in 0..1
    OBVIOUS
  <2> QED
    BY <1>3, <1>6, <2>1 DEF RunsOn
<1> HIDE DEF steps, sought, command
<1> QED
  BY <1>1, <1>2, <1>5, <1>7, BeginRuns

\* As long as nothing fails, the meaning of a command does not change.
LEMMA MeaningKept ==
  ASSUME Meant, cmd' = cmd, before' = before, goal' = goal, mirrored' = mirrored,
         cmd.do \in {"default", "blank"} => rom_size' = rom_size
  PROVE  Meant'
<1>1. Field' = Field /\ Setting' = Setting
  BY DEF Field, Setting
<1>2. cmd.do = "sfmw" => Changed(before, cmd.addr, cmd.bytes)' = Changed(before, cmd.addr, cmd.bytes)
  BY DEF Changed, Reached
<1>3. (cmd.do = "sfmw" => /\ cmd.addr \in Addresses /\ cmd.bytes \in Texts
                          /\ goal = Changed(before, cmd.addr, cmd.bytes))'
  BY <1>2 DEF Meant
<1>4. /\ (cmd.do = "size" => cmd.arg \in SizesFound)'
      /\ (cmd.do = "speed" => cmd.arg \in Speeds)'
      /\ (cmd.do \in {"size", "speed"} => goal = [before EXCEPT ![0][Field] = Setting])'
  BY <1>1 DEF Meant
<1>5. CASE cmd.do \in {"default", "blank"}
  BY <1>3, <1>4, <1>5 DEF Meant, Reaches, Reached
<1>6. CASE cmd.do \notin {"default", "blank"}
  BY <1>3, <1>4, <1>6 DEF Meant
<1> QED
  BY <1>5, <1>6

LEMMA StepDoneClean ==
  ASSUME StoreInv, StoreInv', Clean, rom_size \in Nat, StepDone
  PROVE  Clean'
<1>1. /\ status = "busy" /\ cmd' = cmd /\ before' = before /\ goal' = goal /\ mirrored' = mirrored
      /\ cmd.do # "sfmw" => rom_size' = rom_size
  BY DEF StepDone, SafeModeLeft
<1>2. Meant'
  BY <1>1, MeaningKept DEF Clean
<1>3. RunsOn /\ Meant /\ SectorsShaped(flash) /\ SectorsShaped(before)
  BY <1>1 DEF Clean, StoreInv
<1>4. CASE cmd.do = "sfmw"
  <2>1. RunsOn'
    BY <1>1, <1>4 DEF RunsOn
  <2>2. status' = "ok" => flash' = goal'
    BY <1>1, <1>4 DEF StoreInv, SfmwOkWritten
  <2> QED
    BY <1>2, <2>1, <2>2 DEF Clean
<1>5. CASE cmd.do \in {"size", "speed"}
  <2>1. PICK r \in 0..2 : HeaderRuns(r)
    BY <1>3, <1>5 DEF RunsOn
  <2>2. goal = [before EXCEPT ![0][Field] = Setting]
    BY <1>3, <1>5 DEF Meant
  <2>3. /\ status' = "busy" => \E q \in 0..2 : HeaderRuns(q)'
        /\ status' = "ok" => flash' = goal'
    BY <1>3, <1>5, <2>1, <2>2, HeaderStep
  <2>4. status' = "busy" => RunsOn'
    BY <1>1, <1>5, <2>3 DEF RunsOn
  <2> QED
    BY <1>2, <2>3, <2>4 DEF Clean
<1>6. CASE cmd.do = "default"
  <2>1. PICK r \in 0..1 : DefaultRuns(r)
    BY <1>3, <1>6 DEF RunsOn
  <2>2. rom_size >= 4
    BY <1>3, <1>6 DEF Meant
  <2>3. /\ status' = "busy" => DefaultRuns(1)'
        /\ status' = "ok" => flash' = goal'
    BY <1>3, <1>6, <2>1, <2>2, DefaultStep
  <2>4. status' = "busy" => RunsOn'
    <3>1. 1 \in 0..1
      OBVIOUS
    <3> QED
      BY <1>1, <1>6, <2>3, <3>1 DEF RunsOn
  <2> QED
    BY <1>2, <2>3, <2>4 DEF Clean
<1>7. CASE cmd.do = "blank"
  <2>1. PICK r \in 0..1 : BlankRuns(r)
    BY <1>3, <1>7 DEF RunsOn
  <2>2. rom_size >= 4
    BY <1>3, <1>7 DEF Meant
  <2>3. /\ status' = "busy" => BlankRuns(1)'
        /\ status' = "ok" => flash' = goal'
    BY <1>3, <1>7, <2>1, <2>2, BlankStep
  <2>4. status' = "busy" => RunsOn'
    <3>1. 1 \in 0..1
      OBVIOUS
    <3> QED
      BY <1>1, <1>7, <2>3, <3>1 DEF RunsOn
  <2> QED
    BY <1>2, <2>3, <2>4 DEF Clean
<1> QED
  BY <1>3, <1>4, <1>5, <1>6, <1>7 DEF RunsOn

\* Operations fail without a fault only where there is no sector: then the command has failed.
LEMMA StepFailsClean ==
  ASSUME StoreInv, StoreInv', Clean, faults \in Nat, faults' = 0, StepFails
  PROVE  Clean'
<1>1. /\ status = "busy" /\ cmd' = cmd /\ before' = before /\ goal' = goal /\ mirrored' = mirrored
      /\ cmd.do # "sfmw" => rom_size' = rom_size
  BY DEF StepFails, SafeModeLeft
<1>2. Meant' /\ RunsOn
  BY <1>1, MeaningKept DEF Clean
<1>3. ~Reaches(Step.sec)
  BY DEF StepFails
<1>4. CASE cmd.do = "sfmw"
  <2>1. RunsOn'
    BY <1>1, <1>4 DEF RunsOn
  <2>2. status' = "ok" => flash' = goal'
    BY <1>1, <1>4 DEF StoreInv, SfmwOkWritten
  <2> QED
    BY <1>2, <2>1, <2>2 DEF Clean
<1>5. cmd.do \notin {"size", "speed"}
  <2> SUFFICES ASSUME cmd.do \in {"size", "speed"} PROVE FALSE
    OBVIOUS
  <2>1. PICK r \in 0..2 : HeaderRuns(r)
    BY <1>2 DEF RunsOn
  <2> QED
    BY <1>3, <2>1, HeaderNext
<1>6. ASSUME cmd.do \in {"default", "blank"} PROVE status' = "failed"
  <2>1. \E r \in 0..1 : \E a, b :
          /\ Left(<<a, b>>, 2, r)
          /\ \A x \in {a, b} : x.do \in {"erase", "write"} /\ ~x.ignored
    <3>1. CASE cmd.do = "default"
      <4>1. PICK r \in 0..1 : DefaultRuns(r)
        BY <1>2, <3>1 DEF RunsOn
      <4> DEFINE a == Erase(rom_size - 4, FALSE)
                 b == Write(rom_size - 4, InitData)
      <4>2. a.do = "erase" /\ ~a.ignored /\ b.do = "write" /\ ~b.ignored
        BY DEF Erase, Write
      <4>3. Left(<<a, b>>, 2, r)
        BY <4>1 DEF DefaultRuns
      <4> HIDE DEF a, b
      <4> QED
        BY <4>2, <4>3
    <3>2. CASE cmd.do = "blank"
      <4>1. PICK r \in 0..1 : BlankRuns(r)
        BY <1>2, <3>2 DEF RunsOn
      <4> DEFINE a == Erase(rom_size - 2, FALSE)
                 b == Erase(rom_size - 1, FALSE)
      <4>2. a.do = "erase" /\ ~a.ignored /\ b.do = "erase" /\ ~b.ignored
        BY DEF Erase
      <4>3. Left(<<a, b>>, 2, r)
        BY <4>1 DEF BlankRuns
      <4> HIDE DEF a, b
      <4> QED
        BY <4>2, <4>3
    <3> QED
      BY <1>6, <3>1, <3>2
  <2>2. PICK r \in 0..1 : \E a, b :
          /\ Left(<<a, b>>, 2, r)
          /\ \A x \in {a, b} : x.do \in {"erase", "write"} /\ ~x.ignored
    BY <2>1
  <2>3. PICK a, b : /\ Left(<<a, b>>, 2, r)
                   /\ \A x \in {a, b} : x.do \in {"erase", "write"} /\ ~x.ignored
    BY <2>2
  <2>4. Step \in {a, b}
    BY <2>3, TwoNext
  <2>5. Step.do # "read" /\ ~Step.ignored
    BY <2>3, <2>4
  <2> QED
    BY <2>5 DEF StepFails
<1>7. CASE cmd.do \in {"default", "blank"}
  BY <1>2, <1>6, <1>7 DEF Clean
<1> QED
  BY <1>2, <1>4, <1>5, <1>7 DEF RunsOn

LEMMA ReadInvIsKept == ASSUME StoreInv, StoreInv', ReadInv, [Next]_vars PROVE ReadInv'
<1>0. faults \in Nat /\ rom_size \in Nat /\ (rom_size = 0 \/ rom_size >= 4) /\ (faults = 0 => Clean)
  BY DEF ReadInv
<1>1. CASE \E a \in Addresses, t \in Texts : Sfmw(a, t)
  BY <1>1, SfmwBegins
<1>2. CASE \E k \in 0..SizeTypes : RomSetSizeByte(ChipSize[k])
  <2>1. PICK sectors \in SizesFound : RomSetSizeByte(sectors)
    BY <1>2 DEF SizesFound
  <2> DEFINE command == [do |-> "size", arg |-> sectors]
  <2>2. command.do = "size" /\ command.arg = sectors
    OBVIOUS
  <2>3. /\ Begin(command, HeaderSteps(SIZE, TypeOfSize(sectors)), [flash EXCEPT ![0][SIZE] = TypeOfSize(sectors)])
        /\ rom_size' = rom_size
    BY <2>1 DEF RomSetSizeByte
  <2> HIDE DEF command
  <2> QED
    BY <2>2, <2>3, HeaderBegins
<1>3. CASE \E speed \in Speeds : RomSetSpeed(speed)
  <2>1. PICK speed \in Speeds : RomSetSpeed(speed)
    BY <1>3
  <2> DEFINE command == [do |-> "speed", arg |-> speed]
  <2>2. command.do = "speed" /\ command.arg = speed
    OBVIOUS
  <2>3. /\ Begin(command, HeaderSteps(SPEED, TypeOfSpeed(speed)), [flash EXCEPT ![0][SPEED] = TypeOfSpeed(speed)])
        /\ rom_size' = rom_size
    BY <2>1 DEF RomSetSpeed
  <2> HIDE DEF command
  <2> QED
    BY <2>2, <2>3, HeaderBegins
<1>4. CASE InitDataDefault \/ InitDataBlank
  BY <1>4, DefaultBegins, BlankBegins
<1>5. CASE SelfDestruct
  BY <1>0, <1>5 DEF SelfDestruct, ReadInv, Clean, Meant
<1>6. CASE StepDone
  <2>1. faults' = faults
    BY <1>6 DEF StepDone
  <2>2. rom_size' \in Nat /\ (rom_size' = 0 \/ rom_size' >= 4)
    BY <1>0, <1>6, SizeKnown DEF StepDone, SafeModeLeft
  <2> QED
    BY <1>0, <1>6, <2>1, <2>2, StepDoneClean DEF ReadInv
<1>7. CASE StepFails
  <2>1. faults' \in Nat /\ (faults' = 0 => faults = 0)
    BY <1>0, <1>7 DEF StepFails
  <2>2. rom_size' \in Nat /\ (rom_size' = 0 \/ rom_size' >= 4)
    BY <1>0, <1>7, SizeKnown DEF StepFails, SafeModeLeft
  <2> QED
    BY <1>0, <1>7, <2>1, <2>2, StepFailsClean DEF ReadInv
<1>8. CASE PowerLoss
  BY <1>0, <1>8 DEF PowerLoss, ReadInv
<1>9. CASE SafeGetSize
  <2>1. /\ cmd' = cmd /\ before' = before /\ goal' = goal /\ mirrored' = mirrored
        /\ flash' = flash /\ status' = status /\ status # "busy"
    BY <1>9 DEF SafeGetSize
  <2>2. rom_size' \in Nat /\ rom_size' >= 4
    BY <1>9, SizeKnown DEF SafeGetSize
  <2>3. faults' \in Nat /\ (faults' = 0 => faults = 0)
    BY <1>0, <1>9 DEF SafeGetSize, SafeSizeKnown
  <2>4. ASSUME Meant PROVE Meant'
    <3>1. cmd.do \in {"default", "blank"} => rom_size >= 4
      BY <2>4 DEF Meant
    <3>2. cmd.do \in {"default", "blank"} => rom_size' = rom_size
      BY <1>9, <3>1 DEF SafeGetSize, RomSizeKnown
    <3> QED
      BY <2>1, <2>4, <3>2, MeaningKept
  <2>5. Clean => Clean'
    BY <2>1, <2>4 DEF Clean
  <2> QED
    BY <1>0, <2>2, <2>3, <2>5 DEF ReadInv
<1>10. CASE UNCHANGED vars
  <2>1. /\ cmd' = cmd /\ before' = before /\ goal' = goal /\ mirrored' = mirrored /\ rom_size' = rom_size
        /\ flash' = flash /\ status' = status /\ faults' = faults /\ todo' = todo /\ pmen' = pmen
    BY <1>10 DEF vars
  <2>2. Meant => Meant'
    BY <2>1, MeaningKept
  <2>3. RunsOn => RunsOn'
    <3>1. Field' = Field /\ Setting' = Setting
      BY <2>1 DEF Field, Setting
    <3>2. ASSUME NEW r, HeaderRuns(r) PROVE HeaderRuns(r)'
      BY <2>1, <3>1, <3>2 DEF HeaderRuns, Left, HeaderSteps, Read, Erase, Rewrite
    <3>3. ASSUME NEW r, DefaultRuns(r) PROVE DefaultRuns(r)'
      BY <2>1, <3>3 DEF DefaultRuns, Left, Erase, Write, Reached, Blank, InitData
    <3>4. ASSUME NEW r, BlankRuns(r) PROVE BlankRuns(r)'
      BY <2>1, <3>4 DEF BlankRuns, Left, Erase, Reached, Reaches, Blank
    <3> QED
      BY <2>1, <3>2, <3>3, <3>4 DEF RunsOn
  <2> QED
    BY <1>0, <2>1, <2>2, <2>3 DEF ReadInv, Clean
<1> QED
  BY <1>1, <1>2, <1>3, <1>4, <1>5, <1>6, <1>7, <1>8, <1>9, <1>10 DEF Next, Speeds

LEMMA SpeedReadsBack ==
  ASSUME NEW speed \in Speeds, flash[0][SPEED] = TypeOfSpeed(speed)
  PROVE  RomGetSpeed = speed
<1>1. speed = 20 \/ speed = 27 \/ speed = 40 \/ speed = 80
  BY DEF Speeds
<1>2. TypeOfSpeed(20) = 2 /\ TypeOfSpeed(27) = 1 /\ TypeOfSpeed(40) = 0 /\ TypeOfSpeed(80) = 15
  BY DEF TypeOfSpeed, SPEED_20MHZ, SPEED_26MHZ, SPEED_40MHZ, SPEED_80MHZ
<1> QED
  BY <1>1, <1>2 DEF RomGetSpeed, SPEED_20MHZ, SPEED_26MHZ, SPEED_40MHZ, SPEED_80MHZ

LEMMA InvReadsBack == ASSUME StoreInv, ReadInv PROVE ReadBack
<1> SUFFICES ASSUME status = "ok", faults = 0
             PROVE /\ flash = goal
                   /\ cmd.do = "size" => HeaderSize = cmd.arg
                   /\ cmd.do = "speed" => RomGetSpeed = cmd.arg
                   /\ cmd.do = "default" => InitDataWritten(rom_size)
                   /\ cmd.do = "sfmw" /\ cmd.addr % Word = 0 =>
                        \A elem_size \in ElemSizes :
                          LET words == Len(cmd.bytes) - (Len(cmd.bytes) % Word)
                              elem_cnt == words \div elem_size
                          IN Cmp(Sfmd(cmd.addr, elem_cnt, elem_size), cmd.bytes, elem_cnt, elem_size)
                               = [rcode |-> 0, ngood |-> elem_cnt]
  BY DEF ReadBack
<1>1. Meant /\ flash = goal
  BY DEF ReadInv, Clean
<1>2. /\ before = [s \in Sectors |-> before[s]] /\ 0 \in Sectors
      /\ \A s \in Sectors : before[s] = [i \in 1..SectorSize |-> before[s][i]]
      /\ 1 \in 1..SectorSize /\ 2 \in 1..SectorSize
  BY FirstSector, FlashAssumption DEF StoreInv, SectorsShaped
<1>3. ASSUME cmd.do \in {"size", "speed"} PROVE flash[0][Field] = Setting
  <2>1. Field \in 1..SectorSize
    BY <1>2 DEF Field, SIZE, SPEED
  <2>2. flash = [before EXCEPT ![0][Field] = Setting]
    BY <1>1, <1>3 DEF Meant
  <2> QED
    BY <1>2, <2>1, <2>2
<1>4. ASSUME cmd.do = "size" PROVE HeaderSize = cmd.arg
  <2>1. PICK k \in 0..SizeTypes : cmd.arg = ChipSize[k]
    BY <1>1, <1>4 DEF Meant, SizesFound
  <2>2. flash[0][SIZE] = TypeOfSize(cmd.arg)
    BY <1>3, <1>4 DEF Field, Setting
  <2> QED
    BY <2>1, <2>2, SizeReadsBack DEF HeaderSize
<1>5. ASSUME cmd.do = "speed" PROVE RomGetSpeed = cmd.arg
  <2>1. cmd.arg \in Speeds
    BY <1>1, <1>5 DEF Meant
  <2>2. flash[0][SPEED] = TypeOfSpeed(cmd.arg)
    BY <1>3, <1>5 DEF Field, Setting
  <2> QED
    BY <2>1, <2>2, SpeedReadsBack
<1>6. ASSUME cmd.do = "default" PROVE InitDataWritten(rom_size)
  <2> SUFFICES ASSUME Reaches(rom_size - 4)
               PROVE  flash[Reached(rom_size - 4)][1] # FF
    BY <1>2 DEF InitDataWritten
  <2>1. rom_size - 4 \in Nat
    BY <1>1, <1>6 DEF Meant
  <2>2. Reached(rom_size - 4) \in Sectors
    BY <2>1, ReachedIsSector
  <2>3. flash = [before EXCEPT ![Reached(rom_size - 4)] = Replaced(Blank, 0, InitData)]
    BY <1>1, <1>6 DEF Meant
  <2>4. Replaced(Blank, 0, InitData)[1] = 5
    BY <1>2 DEF Replaced, InitData
  <2> QED
    BY <1>2, <2>2, <2>3, <2>4 DEF FF
<1>7. ASSUME cmd.do = "sfmw", NEW es \in ElemSizes
      PROVE  LET words == Len(cmd.bytes) - (Len(cmd.bytes) % Word)
                 elem_cnt == words \div es
             IN Cmp(Sfmd(cmd.addr, elem_cnt, es), cmd.bytes, elem_cnt, es) = [rcode |-> 0, ngood |-> elem_cnt]
  <2>1. cmd.addr \in Addresses /\ cmd.bytes \in Texts /\ flash = Changed(before, cmd.addr, cmd.bytes)
    BY <1>1, <1>7 DEF Meant
  <2> QED
    BY <2>1, SfmdShowsText
<1> QED
  BY <1>1, <1>4, <1>5, <1>6, <1>7

-----------------------------------------------------------------------------
\* A command that succeeds and met no fault has left the flash as it should, and what reads
\* it agrees: the header gives the size and the speed that were set, the default system
\* parameters are there, and sfmd shows, in elements of any size, the whole words that sfmw
\* wrote at the address of a word (flash_api.c, sfmw, sfmd, md and cmp of cmd_mem.c).  For a
\* chip of any size, any text shorter than it, and any number of commands before.
THEOREM WrittenReadsBack == Spec => []ReadBack
<1>1. Init => ReadInv
  BY ReadInitially
<1>2. StoreInv /\ StoreInv' /\ ReadInv /\ [Next]_vars => ReadInv'
  BY ReadInvIsKept
<1>3. StoreInv /\ ReadInv => ReadBack
  BY InvReadsBack
<1> QED
  BY InvHolds, <1>1, <1>2, <1>3, PTL DEF Spec

-----------------------------------------------------------------------------
(***************************************************************************)
(* The slot that boots is only ever given up for one that has just been    *)
(* filled, and the upgrade task only writes the other one: while there is  *)
(* a task, its file is for the slot that does not boot, and once the task  *)
(* claims success that slot holds the whole of this file.                  *)
(***************************************************************************)
TypeInv ==
  /\ boot \in Slots \cup {NoSlots}
  /\ slots \in [Slots -> [file : Slots, whole : BOOLEAN]]
  /\ task \in [state : {"idle", "loading", "done"}, file : Slots, upgrade_flag : BOOLEAN]

TaskInv ==
  /\ task.state # "idle" => boot \in Slots /\ task.file = Other(boot)
  /\ task.state # "done" => task.upgrade_flag = FALSE
  /\ task.upgrade_flag => slots[Other(boot)] = [file |-> Other(boot), whole |-> TRUE]

UpgradeInv == TypeInv /\ TaskInv /\ BootsWholeImage

\* The other slot is a slot, is another one, and it is the slot the file is for.
LEMMA OtherSlot ==
  ASSUME NEW s \in Slots
  PROVE  /\ Other(s) \in Slots /\ Other(s) # s /\ Other(Other(s)) = s
         /\ File(s) = Other(s)
  BY DEF Slots, Other, File, UPGRADE_FW_BIN1, UPGRADE_FW_BIN2

\* UpgradeInit establishes the invariant.
LEMMA InitUpgradeInv == UpgradeInit => UpgradeInv
<1> SUFFICES ASSUME UpgradeInit PROVE UpgradeInv
  OBVIOUS
<1>1. TypeInv
  BY DEF UpgradeInit, TypeInv, Idle, Slots, UPGRADE_FW_BIN1, UPGRADE_FW_BIN2
<1>2. TaskInv
  BY DEF UpgradeInit, TaskInv, Idle
<1>3. BootsWholeImage
  BY DEF UpgradeInit, BootsWholeImage
<1> QED
  BY <1>1, <1>2, <1>3 DEF UpgradeInv

\* Every step keeps it.
LEMMA NextUpgradeInv == UpgradeInv /\ [UpgradeNext]_upgradeVars => UpgradeInv'
<1> SUFFICES ASSUME UpgradeInv, [UpgradeNext]_upgradeVars PROVE UpgradeInv'
  OBVIOUS
<1> USE DEF UpgradeInv
<1>1. CASE UpgradeEvt
  <2>1. CASE Started
    <3> DEFINE o == Other(boot)
    <3>1. boot \in Slots /\ boot' = boot /\ File(boot) = o /\ o \in Slots /\ o # boot
      BY <1>1, <2>1, OtherSlot DEF UpgradeEvt, Started
    <3>2. task' = [Idle EXCEPT !.state = "loading", !.file = o]
      BY <2>1, <3>1 DEF Started
    <3>3. slots' = [slots EXCEPT ![o].whole = FALSE]
      BY <2>1 DEF Started
    <3>4. TypeInv'
      BY <3>1, <3>2, <3>3 DEF TypeInv, Idle, Slots, UPGRADE_FW_BIN1
    <3>5. TaskInv'
      BY <3>1, <3>2 DEF TaskInv, Idle
    <3>6. BootsWholeImage'
      BY <3>1, <3>3 DEF BootsWholeImage, TypeInv
    <3> QED
      BY <3>4, <3>5, <3>6
  <2>2. CASE UNCHANGED <<task, slots>>
    BY <1>1, <2>2 DEF UpgradeEvt, TypeInv, TaskInv, BootsWholeImage
  <2> QED
    BY <1>1, <2>1, <2>2 DEF UpgradeEvt
<1>2. CASE LoadEnds
  <2> DEFINE o == Other(boot)
  <2>1. task.state = "loading" /\ boot' = boot /\ boot \in Slots /\ task.file = o
    BY <1>2 DEF LoadEnds, TaskInv
  <2>2. o \in Slots /\ o # boot
    BY <2>1, OtherSlot
  <2>3. PICK whole \in BOOLEAN :
          /\ task' = [task EXCEPT !.state = "done", !.upgrade_flag = whole]
          /\ slots' = IF whole THEN [slots EXCEPT ![o] = [file |-> o, whole |-> TRUE]] ELSE slots
    BY <1>2, <2>1 DEF LoadEnds
  <2>4. TypeInv'
    BY <2>1, <2>2, <2>3 DEF TypeInv
  <2>5. TaskInv'
    BY <2>1, <2>2, <2>3 DEF TypeInv, TaskInv
  <2>6. BootsWholeImage'
    BY <2>1, <2>2, <2>3 DEF BootsWholeImage, TypeInv
  <2> QED
    BY <2>4, <2>5, <2>6
<1>3. CASE UpdateRsp
  <2>1. slots' = slots /\ task' = Idle /\ task.state = "done" /\ boot \in Slots
    BY <1>3 DEF UpdateRsp, TaskInv
  <2>2. \/ boot' = boot
        \/ boot' = Other(boot) /\ slots[Other(boot)] = [file |-> Other(boot), whole |-> TRUE]
    BY <1>3 DEF UpdateRsp, TaskInv
  <2>3. TypeInv'
    BY <2>1, <2>2, OtherSlot DEF TypeInv, Idle, Slots, UPGRADE_FW_BIN1
  <2>4. TaskInv'
    BY <2>1 DEF TaskInv, Idle
  <2>5. BootsWholeImage'
    BY <2>1, <2>2 DEF BootsWholeImage
  <2> QED
    BY <2>3, <2>4, <2>5
<1>4. CASE Restart
  <2>1. task' = Idle /\ UNCHANGED <<boot, slots>>
    BY <1>4 DEF Restart
  <2>2. TypeInv' /\ TaskInv' /\ BootsWholeImage'
    BY <2>1 DEF TypeInv, TaskInv, BootsWholeImage, Idle, Slots, UPGRADE_FW_BIN1
  <2> QED
    BY <2>2
<1>5. CASE UNCHANGED upgradeVars
  BY <1>5 DEF upgradeVars, TypeInv, TaskInv, BootsWholeImage
<1> QED
  BY <1>1, <1>2, <1>3, <1>4, <1>5 DEF UpgradeNext

\* update.c: whatever is lost when, the device boots a whole image linked for its
\* slot, for any number of upgrades.
THEOREM WholeImageBoots == UpgradeSpec => []BootsWholeImage
<1>1. UpgradeInv => BootsWholeImage
  BY DEF UpgradeInv
<1> QED
  BY InitUpgradeInv, NextUpgradeInv, <1>1, PTL DEF UpgradeSpec

-----------------------------------------------------------------------------
(* The software PWM.  First sums: MapThenSumSet adds up a set in an order   *)
(* of its own; what it yields is shown by induction.                        *)

Chosen(X) == CHOOSE x \in X : TRUE

\* g adds up the values of h over each set in D.
AddsUp(g, h, D) ==
  /\ g \in [D -> Int]
  /\ \A X \in D : g[X] = IF X = {} THEN 0 ELSE h[Chosen(X)] + g[X \ {Chosen(X)}]

UpTo(S, n) == {X \in SUBSET S : Cardinality(X) <= n}

LEMMA Smaller ==
  ASSUME NEW S, IsFiniteSet(S), NEW X \in SUBSET S, NEW x \in X
  PROVE  /\ IsFiniteSet(X) /\ X \ {x} \in SUBSET S
         /\ Cardinality(X) \in Nat \ {0} /\ Cardinality(X \ {x}) = Cardinality(X) - 1
<1>1. IsFiniteSet(X)
  BY FS_Subset
<1>2. Cardinality(X) \in Nat /\ Cardinality(X \ {x}) \in Nat
  BY <1>1, FS_CardinalityType, FS_RemoveElement
<1>3. Cardinality(X) # 0
  BY <1>1, FS_EmptySet
<1> QED
  BY <1>1, <1>2, <1>3, FS_RemoveElement

LEMMA ChosenIn == ASSUME NEW X, X # {} PROVE Chosen(X) \in X
  BY DEF Chosen

\* Such a function exists.
LEMMA SumExists ==
  ASSUME NEW S, IsFiniteSet(S), NEW h \in [S -> Int]
  PROVE  \E g : AddsUp(g, h, SUBSET S)
<1> DEFINE Levels_ == {n \in Nat : \E g : AddsUp(g, h, UpTo(S, n))}
<1>1. 0 \in Levels_
  <2>1. \A X \in UpTo(S, 0) : X = {}
    BY FS_EmptySet, FS_Subset, FS_CardinalityType DEF UpTo
  <2>2. AddsUp([X \in UpTo(S, 0) |-> 0], h, UpTo(S, 0))
    BY <2>1 DEF AddsUp
  <2> QED
    BY <2>2
<1>2. ASSUME NEW n \in Levels_ PROVE n + 1 \in Levels_
  <2>1. PICK g : AddsUp(g, h, UpTo(S, n))
    BY <1>2
  <2> DEFINE next == [X \in UpTo(S, n + 1) |->
                        IF X \in UpTo(S, n) THEN g[X] ELSE h[Chosen(X)] + g[X \ {Chosen(X)}]]
  <2>2. \A X \in UpTo(S, n + 1) : X # {} => /\ Chosen(X) \in X /\ Chosen(X) \in S
                                            /\ X \ {Chosen(X)} \in UpTo(S, n)
    BY Smaller, ChosenIn DEF UpTo
  <2>3. {} \in UpTo(S, n) /\ UpTo(S, n) \subseteq UpTo(S, n + 1)
    <3>1. n \in Nat
      BY <1>2
    <3>2. \A X \in SUBSET S : Cardinality(X) \in Nat
      BY FS_Subset, FS_CardinalityType
    <3> QED
      BY <3>1, <3>2, FS_EmptySet DEF UpTo
  <2>4. next \in [UpTo(S, n + 1) -> Int]
    <3>1. \A Y \in UpTo(S, n) : g[Y] \in Int
      BY <2>1 DEF AddsUp
    <3>2. ASSUME NEW X \in UpTo(S, n + 1), X \notin UpTo(S, n)
          PROVE  h[Chosen(X)] + g[X \ {Chosen(X)}] \in Int
      <4>1. X # {}
        BY <2>3, <3>2
      <4> QED
        BY <2>2, <3>1, <4>1
    <3> QED
      BY <3>1, <3>2
  <2>5. ASSUME NEW X \in UpTo(S, n + 1)
        PROVE  next[X] = IF X = {} THEN 0 ELSE h[Chosen(X)] + next[X \ {Chosen(X)}]
    <3>1. \A Y \in UpTo(S, n) : next[Y] = g[Y]
      BY <2>3
    <3>2. CASE X \in UpTo(S, n)
      <4>1. next[X] = IF X = {} THEN 0 ELSE h[Chosen(X)] + g[X \ {Chosen(X)}]
        BY <2>1, <3>1, <3>2 DEF AddsUp
      <4> QED
        BY <2>2, <2>5, <3>1, <4>1
    <3>3. CASE X \notin UpTo(S, n)
      <4>1. X # {} /\ next[X] = h[Chosen(X)] + g[X \ {Chosen(X)}]
        BY <2>3, <3>3, <2>5
      <4> QED
        BY <2>2, <2>5, <3>1, <4>1
    <3> QED
      BY <3>2, <3>3
  <2> HIDE DEF next
  <2>6. AddsUp(next, h, UpTo(S, n + 1))
    BY <2>4, <2>5 DEF AddsUp
  <2> QED
    BY <1>2, <2>6
<1> HIDE DEF Levels_
<1>3. Levels_ = Nat
  BY <1>1, <1>2, AllNumbers DEF Levels_
<1>4. UpTo(S, Cardinality(S)) = SUBSET S /\ Cardinality(S) \in Nat
  BY FS_Subset, FS_CardinalityType DEF UpTo
<1>5. Cardinality(S) \in Levels_
  BY <1>3, <1>4
<1>6. \E g : AddsUp(g, h, UpTo(S, Cardinality(S)))
  BY <1>5 DEF Levels_
<1> QED
  BY <1>4, <1>6

\* The order does not matter.
LEMMA AnyOrder ==
  ASSUME NEW S, IsFiniteSet(S), NEW h \in [S -> Int], NEW g, AddsUp(g, h, SUBSET S),
         NEW X \in SUBSET S, NEW x \in X
  PROVE  g[X] = h[x] + g[X \ {x}]
<1> DEFINE Holds(Y) == \A y \in Y : g[Y] = h[y] + g[Y \ {y}]
           Sizes == {n \in Nat : \A Y \in SUBSET S : Cardinality(Y) = n => Holds(Y)}
<1>0. \A Y \in SUBSET S : g[Y] \in Int /\ Y \in SUBSET S
  BY DEF AddsUp
<1>1. 0 \in Sizes
  BY FS_Subset, FS_EmptySet
<1>2. ASSUME NEW n \in Sizes PROVE n + 1 \in Sizes
  <2> SUFFICES ASSUME NEW Y \in SUBSET S, Cardinality(Y) = n + 1, NEW y \in Y
               PROVE  g[Y] = h[y] + g[Y \ {y}]
    BY <1>2
  <2> DEFINE c == Chosen(Y)
  <2>1. c \in Y /\ g[Y] = h[c] + g[Y \ {c}]
    BY ChosenIn DEF AddsUp
  <2> HIDE DEF c
  <2>2. CASE c = y
    BY <2>1, <2>2
  <2>3. CASE c # y
    <3>1. /\ Y \ {c} \in SUBSET S /\ Cardinality(Y \ {c}) = n /\ y \in Y \ {c}
          /\ Y \ {y} \in SUBSET S /\ Cardinality(Y \ {y}) = n /\ c \in Y \ {y}
      BY <1>2, <2>1, <2>3, Smaller
    <3>2. g[Y \ {c}] = h[y] + g[(Y \ {c}) \ {y}]
      BY <1>2, <3>1
    <3>3. g[Y \ {y}] = h[c] + g[(Y \ {y}) \ {c}]
      BY <1>2, <3>1
    <3>4. (Y \ {c}) \ {y} = (Y \ {y}) \ {c} /\ (Y \ {c}) \ {y} \in SUBSET S
      OBVIOUS
    <3>5. g[(Y \ {c}) \ {y}] \in Int /\ h[c] \in Int /\ h[y] \in Int
      BY <1>0, <2>1, <3>4
    <3> DEFINE rest == g[(Y \ {c}) \ {y}]
    <3>6. g[Y] = h[c] + (h[y] + rest) /\ g[Y \ {y}] = h[c] + rest /\ rest \in Int
      BY <2>1, <3>2, <3>3, <3>4, <3>5
    <3> HIDE DEF rest
    <3> QED
      BY <3>5, <3>6
  <2> QED
    BY <2>2, <2>3
<1> HIDE DEF Sizes
<1>3. Sizes = Nat
  BY <1>1, <1>2, AllNumbers DEF Sizes
<1>4. Cardinality(X) \in Nat
  BY FS_Subset, FS_CardinalityType
<1> QED
  BY <1>3, <1>4 DEF Sizes

\* What adds up like this is a number.
LEMMA SumTyped ==
  ASSUME NEW S, IsFiniteSet(S), NEW h \in [S -> Int], NEW g, DOMAIN g = SUBSET S,
         \A X \in SUBSET S : g[X] = IF X = {} THEN 0 ELSE h[Chosen(X)] + g[X \ {Chosen(X)}]
  PROVE  \A X \in SUBSET S : g[X] \in Int
<1> DEFINE Sizes == {n \in Nat : \A X \in SUBSET S : Cardinality(X) = n => g[X] \in Int}
<1>1. 0 \in Sizes
  <2> SUFFICES ASSUME NEW X \in SUBSET S, Cardinality(X) = 0 PROVE g[X] = 0
    OBVIOUS
  <2>1. X = {}
    BY FS_Subset, FS_EmptySet
  <2> QED
    BY <2>1
<1>2. ASSUME NEW n \in Sizes PROVE n + 1 \in Sizes
  <2> SUFFICES ASSUME NEW X \in SUBSET S, Cardinality(X) = n + 1 PROVE g[X] \in Int
    BY <1>2
  <2>0. n + 1 # 0
    BY <1>2
  <2>1. X # {}
    BY <2>0, FS_EmptySet
  <2>2. Chosen(X) \in X /\ X \ {Chosen(X)} \in SUBSET S /\ Cardinality(X \ {Chosen(X)}) = n
    BY <1>2, <2>1, ChosenIn, Smaller
  <2>3. g[X \ {Chosen(X)}] \in Int
    BY <1>2, <2>2
  <2> QED
    BY <2>1, <2>2, <2>3
<1> HIDE DEF Sizes
<1>3. Sizes = Nat
  BY <1>1, <1>2, AllNumbers DEF Sizes
<1>4. \A X \in SUBSET S : Cardinality(X) \in Nat
  BY FS_Subset, FS_CardinalityType
<1> QED
  BY <1>3, <1>4 DEF Sizes

\* What the model writes for it.
LEMMA SumIs ==
  ASSUME NEW s, NEW S, IsFiniteSet(S), \A i \in S : s[i].h_time \in Int
  PROVE  \E g : AddsUp(g, [i \in S |-> s[i].h_time], SUBSET S) /\ Sum(s, S) = g[S]
<1> DEFINE h == [i \in S |-> s[i].h_time]
           Body(g) == [X \in SUBSET S |->
                         IF X = {} THEN 0
                         ELSE s[CHOOSE x \in X : TRUE].h_time + g[X \ {CHOOSE x \in X : TRUE}]]
           iter == CHOOSE g : g = Body(g)
<1>1. Sum(s, S) = iter[S]
  BY DEF Sum, MapThenSumSet, MapThenFoldSet
<1>2. PICK g : AddsUp(g, h, SUBSET S)
  BY SumExists
<1>3. g = Body(g)
  BY <1>2 DEF AddsUp, Chosen
<1>4. iter = Body(iter)
  BY <1>3
<1> HIDE DEF iter
<1>5. /\ DOMAIN iter = SUBSET S
      /\ \A X \in SUBSET S : iter[X] = IF X = {} THEN 0 ELSE h[Chosen(X)] + iter[X \ {Chosen(X)}]
  <2>1. \A X \in SUBSET S : X # {} => Chosen(X) \in S
    BY ChosenIn
  <2> QED
    BY <1>4, <2>1 DEF Chosen
<1>6. h \in [S -> Int]
  OBVIOUS
<1> HIDE DEF h
<1>7. \A X \in SUBSET S : iter[X] \in Int
  BY <1>5, <1>6, SumTyped
<1>8. iter \in [SUBSET S -> Int]
  <2>1. iter = [X \in SUBSET S |-> iter[X]]
    BY <1>4
  <2> QED
    BY <1>7, <2>1
<1>9. AddsUp(iter, h, SUBSET S)
  BY <1>5, <1>8 DEF AddsUp
<1> QED
  BY <1>1, <1>9 DEF h

\* Taking one element off changes the sum by its value.
Adding(g, s, S) ==
  g[{}] = 0 /\ \A X \in SUBSET S : \A x \in X : g[X] = s[x].h_time + g[X \ {x}]

LEMMA SumWithout ==
  ASSUME NEW s, NEW S, IsFiniteSet(S), \A i \in S : s[i].h_time \in Int
  PROVE  \E g : Sum(s, S) = g[S] /\ Adding(g, s, S)
<1> DEFINE h == [i \in S |-> s[i].h_time]
<1>1. PICK g : AddsUp(g, h, SUBSET S) /\ Sum(s, S) = g[S]
  BY SumIs
<1>2. h \in [S -> Int] /\ \A x \in S : h[x] = s[x].h_time
  OBVIOUS
<1> HIDE DEF h
<1>3. ASSUME NEW X \in SUBSET S, NEW x \in X PROVE g[X] = h[x] + g[X \ {x}]
  BY <1>1, <1>2, AnyOrder, SMTT(60)
<1>4. {} \in SUBSET S
  OBVIOUS
<1>5. g[{}] = 0
  BY <1>1, <1>4 DEF AddsUp
<1>6. \A X \in SUBSET S : \A x \in X : g[X] = s[x].h_time + g[X \ {x}]
  BY <1>2, <1>3
<1>7. Adding(g, s, S)
  BY <1>5, <1>6 DEF Adding
<1> QED
  BY <1>1, <1>7

\* A run of differences adds up to the difference of its ends.
LEMMA SumOfRun ==
  ASSUME NEW s, NEW m \in Nat, NEW at \in [0..m -> Int],
         \A k \in 1..m : s[k].h_time = at[k] - at[k - 1]
  PROVE  Sum(s, 1..m) = at[m] - at[0]
<1>0. /\ \A k \in 1..m : s[k].h_time \in Int
      /\ \A k \in 0..m : at[k] \in Int
  <2>1. \A k \in 1..m : k \in 0..m /\ k - 1 \in 0..m
    OBVIOUS
  <2>2. \A k \in 0..m : at[k] \in Int
    OBVIOUS
  <2>3. ASSUME NEW k \in 1..m PROVE s[k].h_time \in Int
    <3>1. at[k] \in Int /\ at[k - 1] \in Int
      BY <2>1, <2>2
    <3>2. s[k].h_time = at[k] - at[k - 1]
      OBVIOUS
    <3> QED
      BY <3>1, <3>2
  <2> QED
    BY <2>2, <2>3
<1> DEFINE S == 1..m
<1>1. PICK g : Sum(s, S) = g[S] /\ Adding(g, s, S)
  <2>1. IsFiniteSet(S) /\ \A i \in S : s[i].h_time \in Int
    BY <1>0, FS_Interval
  <2> HIDE DEF S
  <2> QED
    BY <2>1, SumWithout, Zenon
<1> DEFINE Runs == {n \in Nat : n <= m => g[1..n] = at[n] - at[0]}
<1>2. 0 \in Runs
  <2>1. 1..0 = {} /\ at[0] \in Int
    BY <1>0
  <2> QED
    BY <1>1, <2>1 DEF Adding
<1>3. ASSUME NEW n \in Runs PROVE n + 1 \in Runs
  <2> SUFFICES ASSUME n + 1 <= m PROVE g[1..(n + 1)] = at[n + 1] - at[0]
    BY <1>3
  <2>0. n \in Nat
    BY <1>3
  <2>1. n \in Nat /\ n <= m /\ n + 1 \in 1..m /\ (n + 1) - 1 = n
    <3> HIDE DEF Runs
    <3>1. n <= m
      BY <2>0
    <3>2. n + 1 \in 1..m
      BY <2>0
    <3> QED
      BY <2>0, <3>1, <3>2
  <2>2. g[1..n] = at[n] - at[0]
    BY <1>3, <2>1
  <2>3. 1..(n + 1) \in SUBSET S /\ n + 1 \in 1..(n + 1)
    BY <2>1
  <2>4. (1..(n + 1)) \ {n + 1} = 1..n
    <3>1. ASSUME NEW k \in (1..(n + 1)) \ {n + 1} PROVE k \in 1..n
      BY <2>1
    <3>2. ASSUME NEW k \in 1..n PROVE k \in (1..(n + 1)) \ {n + 1}
      BY <2>1
    <3> QED
      BY <3>1, <3>2
  <2>5. g[1..(n + 1)] = s[n + 1].h_time + g[1..n]
    <3> HIDE DEF S, Runs
    <3>1. g[1..(n + 1)] = s[n + 1].h_time + g[(1..(n + 1)) \ {n + 1}]
      BY <1>1, <2>3 DEF Adding
    <3> QED
      BY <2>4, <3>1
  <2>6. s[n + 1].h_time = at[n + 1] - at[n]
    BY <2>1
  <2>7. at[n] \in Int /\ at[n + 1] \in Int /\ at[0] \in Int
    BY <1>0, <2>1
  <2> QED
    BY <2>2, <2>5, <2>6, <2>7
<1> HIDE DEF Runs
<1>4. Runs = Nat
  BY <1>2, <1>3, AllNumbers DEF Runs
<1> QED
  BY <1>1, <1>4 DEF Runs
-----------------------------------------------------------------------------
(* Step 3: the times in order.                                              *)

Sorts(q, S) ==
  /\ q \in [1..Cardinality(S) -> S] /\ ToSet(q) = S
  /\ \A k, l \in DOMAIN q : k < l => q[k] < q[l]

LEMMA SortedExists ==
  ASSUME NEW S \in SUBSET Nat, IsFiniteSet(S)
  PROVE  \E q : Sorts(q, S)
<1> DEFINE Sizes == {n \in Nat : \A R \in SUBSET Nat :
                       IsFiniteSet(R) /\ Cardinality(R) = n => \E q : Sorts(q, R)}
<1>1. 0 \in Sizes
  <2> SUFFICES ASSUME NEW R \in SUBSET Nat, IsFiniteSet(R), Cardinality(R) = 0
               PROVE  \E q : Sorts(q, R)
    OBVIOUS
  <2>1. R = {}
    BY FS_EmptySet
  <2>2. Sorts([k \in 1..0 |-> 0], R)
    BY <2>1 DEF Sorts, ToSet
  <2> QED
    BY <2>2
<1>2. ASSUME NEW n \in Sizes PROVE n + 1 \in Sizes
  <2> SUFFICES ASSUME NEW R \in SUBSET Nat, IsFiniteSet(R), Cardinality(R) = n + 1
               PROVE  \E q : Sorts(q, R)
    BY <1>2
  <2>0. n \in Nat /\ n + 1 # 0
    BY <1>2
  <2>1. R # {}
    BY <2>0, FS_EmptySet
  <2>2. PICK least \in R : \A x \in R : least <= x
    BY <2>1, LeastNumber
  <2> DEFINE rest == R \ {least}
  <2>3. rest \in SUBSET Nat /\ IsFiniteSet(rest) /\ Cardinality(rest) = n
    <3>1. IsFiniteSet(rest) /\ Cardinality(rest) = Cardinality(R) - 1
      BY <2>2, FS_RemoveElement
    <3>2. rest \in SUBSET Nat
      OBVIOUS
    <3> HIDE DEF rest, Sizes
    <3> QED
      BY <2>0, <3>1, <3>2
  <2>4. PICK q : Sorts(q, rest)
    BY <1>2, <2>3
  <2>5. /\ q \in [1..n -> rest] /\ {q[k] : k \in 1..n} = rest
        /\ \A k, l \in 1..n : k < l => q[k] < q[l]
    BY <2>3, <2>4 DEF Sorts, ToSet
  <2> DEFINE more == [k \in 1..(n + 1) |-> IF k = 1 THEN least ELSE q[k - 1]]
  <2>6. \A k \in 2..(n + 1) : k - 1 \in 1..n /\ q[k - 1] \in rest /\ least < q[k - 1]
    <3> SUFFICES ASSUME NEW k \in 2..(n + 1)
                 PROVE  k - 1 \in 1..n /\ q[k - 1] \in rest /\ least < q[k - 1]
      OBVIOUS
    <3>1. k - 1 \in 1..n
      BY <2>0
    <3>2. q[k - 1] \in rest
      BY <2>5, <3>1
    <3>3. q[k - 1] \in R /\ q[k - 1] # least /\ q[k - 1] \in Nat /\ least \in Nat
      BY <3>2
    <3> QED
      BY <2>2, <3>1, <3>2, <3>3
  <2>7. more \in [1..(n + 1) -> R]
    BY <2>0, <2>6
  <2>8. \A k, l \in 1..(n + 1) : k < l => more[k] < more[l]
    <3> SUFFICES ASSUME NEW k \in 1..(n + 1), NEW l \in 1..(n + 1), k < l PROVE more[k] < more[l]
      OBVIOUS
    <3>1. l \in 2..(n + 1) /\ more[l] = q[l - 1]
      BY <2>0
    <3>2. CASE k = 1
      BY <2>6, <3>1, <3>2
    <3>3. CASE k # 1
      <4>1. k \in 2..(n + 1) /\ more[k] = q[k - 1] /\ k - 1 < l - 1
        BY <2>0, <3>3
      <4> QED
        BY <2>5, <2>6, <3>1, <4>1
    <3> QED
      BY <3>2, <3>3
  <2>9. {more[k] : k \in 1..(n + 1)} = R
    <3>1. ASSUME NEW x \in R PROVE \E k \in 1..(n + 1) : more[k] = x
      <4>1. CASE x = least
        <5>1. 1 \in 1..(n + 1) /\ more[1] = x
          BY <2>0, <4>1
        <5> QED
          BY <5>1
      <4>2. CASE x # least
        <5>1. PICK k \in 1..n : q[k] = x
          BY <2>5, <4>2
        <5>2. k + 1 \in 1..(n + 1) /\ k + 1 # 1 /\ (k + 1) - 1 = k
          BY <2>0
        <5>3. more[k + 1] = x
          BY <5>1, <5>2
        <5> QED
          BY <5>2, <5>3
      <4> QED
        BY <4>1, <4>2
    <3> QED
      BY <2>7, <3>1
  <2>10. DOMAIN more = 1..(n + 1)
    OBVIOUS
  <2> HIDE DEF more
  <2>11. Sorts(more, R)
    BY <2>7, <2>8, <2>9, <2>10 DEF Sorts, ToSet
  <2> QED
    BY <2>11
<1> HIDE DEF Sizes
<1>3. Sizes = Nat
  BY <1>1, <1>2, AllNumbers DEF Sizes
<1>4. Cardinality(S) \in Nat
  BY FS_CardinalityType
<1> QED
  BY <1>3, <1>4 DEF Sizes

LEMMA SortedIs ==
  ASSUME NEW S \in SUBSET Nat, IsFiniteSet(S)
  PROVE  Sorts(Sorted(S), S)
<1>1. PICK q : Sorts(q, S)
  BY SortedExists
<1>2. \E p \in [1..Cardinality(S) -> S] :
         ToSet(p) = S /\ \A k, l \in DOMAIN p : k < l => p[k] < p[l]
  BY <1>1 DEF Sorts
<1> QED
  BY <1>2 DEF Sorted, Sorts

\* The largest comes last.
LEMMA SortedLast ==
  ASSUME NEW S \in SUBSET Nat, IsFiniteSet(S), NEW max \in S, \A x \in S : x <= max
  PROVE  /\ Cardinality(S) \in Nat \ {0}
         /\ Sorted(S)[Cardinality(S)] = max
<1> DEFINE n == Cardinality(S)
           q == Sorted(S)
<1>1. n \in Nat /\ n # 0
  BY FS_CardinalityType, FS_EmptySet
<1>2. /\ q \in [1..n -> S] /\ {q[k] : k \in 1..n} = S
      /\ \A k, l \in 1..n : k < l => q[k] < q[l]
  BY SortedIs DEF Sorts, ToSet
<1> HIDE DEF n, q
<1>3. PICK k \in 1..n : q[k] = max
  BY <1>2
<1>4. n \in 1..n /\ q[n] \in S
  BY <1>1, <1>2
<1>5. q[n] <= max /\ q[n] \in Nat /\ max \in Nat
  BY <1>4
<1>6. k < n => q[k] < q[n]
  BY <1>2, <1>4
<1>7. q[n] = max
  BY <1>1, <1>3, <1>5, <1>6
<1> QED
  BY <1>1, <1>7 DEF n, q
-----------------------------------------------------------------------------
(* Shares of a period                                                       *)

Share(r, i) == Ticks((r.period * r.duty[i]) \div PWM_DEPTH)

LEMMA Multiply ==
  ASSUME NEW a \in Nat, NEW b \in Nat, NEW c \in Nat, a <= b
  PROVE  c * a <= c * b
<1>1. b - a \in Nat /\ c * (b - a) \in Nat /\ c * b = c * a + c * (b - a)
  OBVIOUS
<1>2. c * a \in Nat
  OBVIOUS
<1> QED
  BY <1>1, <1>2

LEMMA Division ==
  ASSUME NEW a \in Nat, NEW b \in Nat \ {0}
  PROVE  /\ a \div b \in Nat /\ b * (a \div b) \in Nat
         /\ b * (a \div b) <= a /\ a < b * (a \div b) + b
OBVIOUS

LEMMA ShareOfPeriod ==
  ASSUME NEW per \in Nat \ {0}, NEW depth \in Nat \ {0}, NEW d \in 0..depth
  PROVE  /\ (per * d) \div depth \in 0..per
         /\ (per * d) \div depth = per <=> d = depth
<1> DEFINE q == (per * d) \div depth
<1>1. per * d \in Nat /\ per * depth \in Nat /\ depth * per = per * depth
  OBVIOUS
<1>2. /\ q \in Nat /\ depth * q \in Nat
      /\ depth * q <= per * d /\ per * d < depth * q + depth
  BY <1>1, Division
<1> HIDE DEF q
<1>3. per * d <= per * depth
  BY Multiply
<1>4. q <= per
  <2> SUFFICES ASSUME per + 1 <= q PROVE FALSE
    BY <1>2
  <2>1. depth * (per + 1) <= depth * q
    BY <1>2, Multiply
  <2>2. depth * (per + 1) = depth * per + depth
    OBVIOUS
  <2> QED
    BY <1>1, <1>2, <1>3, <2>1, <2>2
<1>5. d = depth => q = per
  <2> SUFFICES ASSUME d = depth, q + 1 <= per PROVE FALSE
    BY <1>2, <1>4
  <2>1. depth * (q + 1) <= depth * per
    BY <1>2, Multiply
  <2>2. depth * (q + 1) = depth * q + depth
    BY <1>2
  <2> QED
    BY <1>1, <1>2, <2>1, <2>2
<1>6. q = per => d = depth
  <2> SUFFICES ASSUME q = per, d + 1 <= depth PROVE FALSE
    OBVIOUS
  <2>1. per * (d + 1) <= per * depth
    BY Multiply
  <2>2. per * (d + 1) = per * d + per
    OBVIOUS
  <2> QED
    BY <1>1, <1>2, <2>1, <2>2
<1> QED
  BY <1>2, <1>4, <1>5, <1>6 DEF q
-----------------------------------------------------------------------------
(* What pwm_start makes of a request                                        *)

\* What callers can ask for: different pins, each with a duty, and a period that is not empty.
Request(r) ==
  /\ r.pins \in Seq(Pins) /\ Len(r.pins) <= PWM_CHANNEL
  /\ \A i, j \in DOMAIN r.pins : r.pins[i] = r.pins[j] => i = j
  /\ r.duty \in [DOMAIN r.pins -> 0..PWM_DEPTH]
  /\ r.period \in Nat \ {0}

Entries == [gpio_set : SUBSET Pins, gpio_clear : SUBSET Pins, h_time : Nat]

LEMMA RequestIs ==
  ASSUME NEW r, Request(r)
  PROVE  /\ Len(r.pins) \in Nat /\ DOMAIN r.pins = 1..Len(r.pins)
         /\ Len(r.pins) + 1 \in 1..(PWM_CHANNEL + 1)
         /\ \A i \in 1..Len(r.pins) : r.pins[i] \in Pins
         /\ ToSet(r.pins) = {r.pins[i] : i \in 1..Len(r.pins)} /\ ToSet(r.pins) \subseteq Pins
         /\ Ticks(r.period) \in Nat \ {0}
<1>1. /\ r.pins \in Seq(Pins) /\ Len(r.pins) <= PWM_CHANNEL /\ r.period \in Nat \ {0}
      /\ PWM_CHANNEL \in Nat
  BY PwmAssumption DEF Request
<1>2. Len(r.pins) \in Nat /\ DOMAIN r.pins = 1..Len(r.pins) /\ \A i \in 1..Len(r.pins) : r.pins[i] \in Pins
  BY <1>1
<1>3. Ticks(r.period) \in Nat \ {0}
  BY <1>1 DEF Ticks
<1> QED
  BY <1>1, <1>2, <1>3 DEF ToSet

LEMMA ShareIs ==
  ASSUME NEW r, Request(r), NEW i \in DOMAIN r.pins
  PROVE  /\ Share(r, i) \in 0..Ticks(r.period)
         /\ Share(r, i) = Ticks(r.period) <=> r.duty[i] = PWM_DEPTH
<1>1. r.period \in Nat \ {0} /\ PWM_DEPTH \in Nat \ {0} /\ r.duty[i] \in 0..PWM_DEPTH
  BY PwmAssumption DEF Request
<1> DEFINE q == (r.period * r.duty[i]) \div PWM_DEPTH
           per == r.period
<1>2. q \in 0..per /\ (q = per <=> r.duty[i] = PWM_DEPTH)
  BY <1>1, ShareOfPeriod
<1>3. per \in Nat
  BY <1>1
<1>4. Share(r, i) = 5 * q /\ Ticks(r.period) = 5 * per
  BY DEF Share, Ticks
<1> HIDE DEF q, per
<1>5. 5 * q \in 0..(5 * per) /\ (5 * q = 5 * per <=> q = per)
  BY <1>2, <1>3
<1> QED
  BY <1>2, <1>4, <1>5

LEMMA FilledIs ==
  ASSUME NEW r, Request(r), NEW n, n = Len(r.pins)
  PROVE  /\ Filled(r) \in Seq(Entries) /\ Len(Filled(r)) = n + 1
         /\ \A i \in 1..n : Filled(r)[i] = Entry({}, {r.pins[i]}, Share(r, i))
         /\ Filled(r)[n + 1] = Entry(ToSet(r.pins), {}, Ticks(r.period))
<1> DEFINE low == [i \in 1..n |-> Entry({}, {r.pins[i]}, Share(r, i))]
           end == Entry(ToSet(r.pins), {}, Ticks(r.period))
<1>1. Filled(r) = Append(low, end)
  BY DEF Filled, Share
<1>2. n \in Nat /\ DOMAIN r.pins = 1..n /\ Ticks(r.period) \in Nat
  BY RequestIs
<1>3. \A i \in 1..n : Share(r, i) \in Nat
  BY <1>2, ShareIs
<1>4. \A i \in 1..n : Entry({}, {r.pins[i]}, Share(r, i)) \in Entries
  BY <1>2, <1>3, RequestIs DEF Entry, Entries
<1>5. end \in Entries
  BY <1>2, RequestIs DEF Entry, Entries
<1>6. /\ low \in Seq(Entries) /\ Len(low) = n
      /\ \A i \in 1..n : low[i] = Entry({}, {r.pins[i]}, Share(r, i))
  BY <1>2, <1>4
<1> HIDE DEF low
<1>7. Append(low, end) \in Seq(Entries) /\ Len(Append(low, end)) = n + 1
  BY <1>5, <1>6
<1>8. \A i \in 1..n : Append(low, end)[i] = low[i]
  BY <1>2, <1>5, <1>6
<1>9. Append(low, end)[n + 1] = end
  BY <1>2, <1>5, <1>6
<1> QED
  BY <1>1, <1>6, <1>7, <1>8, <1>9

\* The pins that go low after t ticks.
Falling(r, t) == {r.pins[i] : i \in {j \in DOMAIN r.pins : Share(r, j) = t}}

LEMMA FallingIs ==
  ASSUME NEW r, Request(r), NEW t
  PROVE  /\ Falling(r, t) \subseteq ToSet(r.pins)
         /\ \A i \in DOMAIN r.pins : r.pins[i] \in Falling(r, t) <=> Share(r, i) = t
BY DEF Falling, Request, ToSet

\* q are the times of the entries, in order.
InOrder(r, q, m) ==
  /\ m \in Nat \ {0} /\ q \in [1..m -> 0..Ticks(r.period)] /\ q[m] = Ticks(r.period)
  /\ \A k, l \in 1..m : k < l => q[k] < q[l]
  /\ \A i \in DOMAIN r.pins : \E k \in 1..m : q[k] = Share(r, i)
  /\ m <= Len(r.pins) + 1

\* The table after step 3, and after step 5.
Timed(r, q, m) ==
  [k \in 1..m |-> Entry(IF k = m THEN ToSet(r.pins) ELSE {}, Falling(r, q[k]), q[k])]
Played(r, q, m) ==
  [k \in 1..m |-> Entry(IF k = m THEN ToSet(r.pins) ELSE {}, IF k = m THEN {} ELSE Falling(r, q[k]),
                        IF k = 1 THEN q[1] ELSE q[k] - q[k - 1])]

LEMMA CombinedIs ==
  ASSUME NEW r, Request(r)
  PROVE  \E q, m : InOrder(r, q, m) /\ Combined(Filled(r)) = Timed(r, q, m)
<1> DEFINE n == Len(r.pins)
           s == Filled(r)
           T == Ticks(r.period)
           times == {s[i].h_time : i \in DOMAIN s}
           q == Sorted(times)
           m == Cardinality(times)
           at(h) == {i \in DOMAIN s : s[i].h_time = h}
<1>1. /\ n \in Nat /\ DOMAIN r.pins = 1..n /\ T \in Nat \ {0}
      /\ DOMAIN s = 1..(n + 1)
      /\ \A i \in 1..n : s[i] = Entry({}, {r.pins[i]}, Share(r, i)) /\ Share(r, i) \in 0..T
      /\ s[n + 1] = Entry(ToSet(r.pins), {}, T)
  <2>1. n \in Nat /\ DOMAIN r.pins = 1..n /\ T \in Nat \ {0}
    BY RequestIs
  <2>2. \A i \in 1..n : Share(r, i) \in 0..T
    BY <2>1, ShareIs
  <2>3. /\ s \in Seq(Entries) /\ Len(s) = n + 1
        /\ \A i \in 1..n : s[i] = Entry({}, {r.pins[i]}, Share(r, i))
        /\ s[n + 1] = Entry(ToSet(r.pins), {}, T)
    BY FilledIs, Zenon
  <2> HIDE DEF n, s, T
  <2>4. DOMAIN s = 1..(n + 1)
    BY <2>3
  <2> QED
    BY <2>1, <2>2, <2>3, <2>4
<1> HIDE DEF n, s, T, times, q, m, at
<1>2. /\ \A i \in 1..n : s[i].h_time = Share(r, i) /\ s[i].gpio_set = {} /\ s[i].gpio_clear = {r.pins[i]}
      /\ s[n + 1].h_time = T /\ s[n + 1].gpio_set = ToSet(r.pins) /\ s[n + 1].gpio_clear = {}
  <2>1. ASSUME NEW i \in 1..n
        PROVE  s[i].h_time = Share(r, i) /\ s[i].gpio_set = {} /\ s[i].gpio_clear = {r.pins[i]}
    <3>1. s[i] = Entry({}, {r.pins[i]}, Share(r, i))
      BY <1>1
    <3> QED
      BY <3>1 DEF Entry
  <2>2. s[n + 1].h_time = T /\ s[n + 1].gpio_set = ToSet(r.pins) /\ s[n + 1].gpio_clear = {}
    BY <1>1 DEF Entry
  <2> QED
    BY <2>1, <2>2
<1>3. \A i \in 1..(n + 1) : i \in 1..n \/ i = n + 1
  BY <1>1
<1>4. n + 1 \in DOMAIN s /\ \A i \in 1..n : i \in DOMAIN s
  BY <1>1
<1>5. /\ times \subseteq 0..T /\ T \in times /\ \A x \in times : x <= T
      /\ \A i \in 1..n : Share(r, i) \in times
  <2>1. ASSUME NEW i \in 1..(n + 1) PROVE s[i].h_time \in 0..T
    <3>1. CASE i \in 1..n
      BY <1>1, <1>2, <3>1
    <3>2. CASE i = n + 1
      BY <1>1, <1>2, <3>2
    <3> QED
      BY <1>3, <3>1, <3>2
  <2>2. times \subseteq 0..T
    BY <1>1, <2>1 DEF times
  <2>3. T \in times
    BY <1>2, <1>4 DEF times
  <2>4. \A i \in 1..n : Share(r, i) \in times
    BY <1>2, <1>4 DEF times
  <2>5. \A x \in 0..T : x <= T
    BY <1>1
  <2> QED
    BY <2>2, <2>3, <2>4, <2>5
<1>6. IsFiniteSet(times) /\ m <= n + 1
  <2>1. IsFiniteSet(1..(n + 1)) /\ Cardinality(1..(n + 1)) = n + 1
    BY <1>1, FS_Interval
  <2> DEFINE f == [i \in 1..(n + 1) |-> s[i].h_time]
  <2>2. f \in Surjection(1..(n + 1), times)
    BY <1>1 DEF Surjection, times
  <2> HIDE DEF f
  <2> QED
    BY <2>1, <2>2, FS_Surjection DEF m
<1>7. times \in SUBSET Nat
  BY <1>1, <1>5
<1>8. m \in Nat \ {0} /\ q[m] = T /\ Sorts(q, times)
  BY <1>5, <1>6, <1>7, SortedLast, SortedIs DEF q, m
<1>9. /\ q \in [1..m -> times] /\ {q[k] : k \in 1..m} = times
      /\ \A k, l \in 1..m : k < l => q[k] < q[l]
  BY <1>8 DEF Sorts, ToSet, m
<1>10. InOrder(r, q, m)
  <2>1. q \in [1..m -> 0..T]
    BY <1>5, <1>9
  <2>2. ASSUME NEW i \in 1..n PROVE \E k \in 1..m : q[k] = Share(r, i)
    BY <1>5, <1>9
  <2> QED
    BY <1>1, <1>6, <1>8, <1>9, <2>1, <2>2 DEF InOrder, T, n
<1>11. ASSUME NEW k \in 1..m
       PROVE  /\ UNION {s[i].gpio_set : i \in at(q[k])} = IF k = m THEN ToSet(r.pins) ELSE {}
              /\ UNION {s[i].gpio_clear : i \in at(q[k])} = Falling(r, q[k])
  <2>1. q[k] = T <=> k = m
    <3>1. m \in 1..m
      BY <1>8
    <3>4. q[m] \in Nat /\ q[k] \in Nat
      BY <1>7, <1>9, <3>1
    <3>2. k < m => q[k] < q[m]
      BY <1>9, <3>1
    <3> QED
      BY <1>8, <3>1, <3>2, <3>4
  <2>2. UNION {s[i].gpio_set : i \in at(q[k])} = IF k = m THEN ToSet(r.pins) ELSE {}
    <3>1. CASE k = m
      <4>1. n + 1 \in at(q[k])
        BY <1>2, <1>4, <2>1, <3>1 DEF at
      <4>2. \A i \in at(q[k]) : s[i].gpio_set \subseteq ToSet(r.pins)
        BY <1>1, <1>2, <1>3 DEF at
      <4> QED
        BY <1>2, <3>1, <4>1, <4>2
    <3>2. CASE k # m
      <4>1. \A i \in at(q[k]) : s[i].gpio_set = {}
        BY <1>1, <1>2, <1>3, <2>1, <3>2 DEF at
      <4> QED
        BY <3>2, <4>1
    <3> QED
      BY <3>1, <3>2
  <2>3. UNION {s[i].gpio_clear : i \in at(q[k])} = Falling(r, q[k])
    <3>1. ASSUME NEW p, NEW i \in at(q[k]), p \in s[i].gpio_clear PROVE p \in Falling(r, q[k])
      <4>1. i \in 1..n /\ Share(r, i) = q[k] /\ p = r.pins[i]
        BY <1>1, <1>2, <1>3, <3>1 DEF at
      <4> QED
        BY <1>1, <4>1 DEF Falling
    <3>2. ASSUME NEW p \in Falling(r, q[k]) PROVE \E i \in at(q[k]) : p \in s[i].gpio_clear
      <4>1. PICK i \in 1..n : Share(r, i) = q[k] /\ p = r.pins[i]
        BY <1>1 DEF Falling
      <4>2. i \in at(q[k]) /\ p \in s[i].gpio_clear
        BY <1>2, <1>4, <4>1 DEF at
      <4> QED
        BY <4>2
    <3> QED
      BY <3>1, <3>2
  <2> QED
    BY <2>2, <2>3
<1>12. DOMAIN q = 1..m
  BY <1>9
<1>13. Combined(s) = [k \in 1..m |-> Entry(UNION {s[i].gpio_set : i \in at(q[k])},
                                           UNION {s[i].gpio_clear : i \in at(q[k])}, q[k])]
  BY <1>12 DEF Combined, at, times, q
<1>14. Combined(s) =
         [k \in 1..m |-> Entry(IF k = m THEN ToSet(r.pins) ELSE {}, Falling(r, q[k]), q[k])]
  BY <1>11, <1>13
<1> QED
  BY <1>10, <1>14 DEF s, Timed

\* What a table means: entry k is played at time at[k], and every channel goes low
\* at its share, or is high from the end of the period on or never.
Meaning(s, r, at) ==
  LET L == Len(s)
  IN /\ s \in Seq(Entries) /\ L \in 1..(Len(r.pins) + 1)
     /\ at \in [0..L -> 0..Ticks(r.period)] /\ at[0] = 0 /\ at[L] = Ticks(r.period)
     /\ \A k, l \in 0..L : k < l => at[k] < at[l]
     /\ \A k \in 1..L : /\ s[k].h_time = at[k] - at[k - 1]
                        /\ s[k].gpio_set \cup s[k].gpio_clear \subseteq ToSet(r.pins)
     /\ \A i \in DOMAIN r.pins :
          /\ \E k \in 0..L : at[k] = Share(r, i)
          /\ \A k \in 1..(L - 1) : /\ r.pins[i] \notin s[k].gpio_set
                                   /\ r.pins[i] \in s[k].gpio_clear <=> at[k] = Share(r, i)
          /\ r.pins[i] \in s[L].gpio_set <=> Share(r, i) # 0
          /\ r.pins[i] \in s[L].gpio_clear <=> Share(r, i) = 0

LEMMA ShapedOn ==
  ASSUME NEW r, Request(r), NEW q, NEW m, InOrder(r, q, m)
  PROVE  /\ StaysOn(Deltas(Timed(r, q, m))) = Played(r, q, m)
         /\ Played(r, q, m) \in Seq(Entries) /\ Len(Played(r, q, m)) = m
<1> DEFINE c == Timed(r, q, m)
           d == Deltas(c)
           s == StaysOn(d)
           delta(k) == IF k = 1 THEN q[1] ELSE q[k] - q[k - 1]
           final(k) == Entry(IF k = m THEN ToSet(r.pins) ELSE {}, IF k = m THEN {} ELSE Falling(r, q[k]),
                             delta(k))
<1>1. /\ m \in Nat /\ m # 0 /\ Ticks(r.period) \in Nat
      /\ \A k \in 1..m : q[k] \in 0..Ticks(r.period)
      /\ \A k, l \in 1..m : k < l => q[k] < q[l]
  BY RequestIs DEF InOrder
<1>2. \A k \in 1..m : delta(k) \in Nat /\ (k # 1 => k - 1 \in 1..m)
  <2> SUFFICES ASSUME NEW k \in 1..m PROVE delta(k) \in Nat /\ (k # 1 => k - 1 \in 1..m)
    OBVIOUS
  <2>1. CASE k = 1
    BY <1>1, <2>1
  <2>2. CASE k # 1
    <3>1. k - 1 \in 1..m /\ k - 1 < k
      BY <1>1, <2>2
    <3>2. q[k - 1] < q[k] /\ q[k - 1] \in Nat /\ q[k] \in Nat
      BY <1>1, <3>1
    <3> QED
      BY <2>2, <3>1, <3>2
  <2> QED
    BY <2>1, <2>2
<1>3. /\ DOMAIN c = 1..m
      /\ \A k \in 1..m : c[k] = Entry(IF k = m THEN ToSet(r.pins) ELSE {}, Falling(r, q[k]), q[k])
  BY DEF Timed
<1> HIDE DEF c
<1>4. d = [k \in 1..m |-> [c[k] EXCEPT !.h_time = IF k = 1 THEN @ ELSE @ - c[k - 1].h_time]]
  BY <1>3 DEF Deltas
<1>5. ASSUME NEW k \in 1..m
      PROVE  d[k] = Entry(IF k = m THEN ToSet(r.pins) ELSE {}, Falling(r, q[k]), delta(k))
  <2> DEFINE up == IF k = m THEN ToSet(r.pins) ELSE {}
  <2>1. c[k] = Entry(up, Falling(r, q[k]), q[k]) /\ c[k].h_time = q[k]
    BY <1>3 DEF Entry
  <2>2. k # 1 => c[k - 1].h_time = q[k - 1]
    <3> SUFFICES ASSUME k # 1 PROVE c[k - 1].h_time = q[k - 1]
      OBVIOUS
    <3>1. c[k - 1] = Entry(IF k - 1 = m THEN ToSet(r.pins) ELSE {}, Falling(r, q[k - 1]), q[k - 1])
      BY <1>2, <1>3
    <3> QED
      BY <3>1 DEF Entry
  <2> HIDE DEF up
  <2>3. d[k] = [c[k] EXCEPT !.h_time = delta(k)]
    <3>1. d[k] = [c[k] EXCEPT !.h_time = IF k = 1 THEN c[k].h_time ELSE c[k].h_time - c[k - 1].h_time]
      BY <1>4
    <3>2. (IF k = 1 THEN c[k].h_time ELSE c[k].h_time - c[k - 1].h_time) = delta(k)
      BY <2>1, <2>2
    <3> QED
      BY <3>1, <3>2
  <2> HIDE DEF delta
  <2> QED
    BY <2>1, <2>3 DEF Entry, up
<1>6. DOMAIN d = 1..m /\ Len(d) = m
  BY <1>1, <1>4
<1> HIDE DEF d, delta
<1>7. s = [k \in 1..m |-> IF k = m THEN [d[k] EXCEPT !.gpio_clear = {}] ELSE d[k]]
  BY <1>6 DEF StaysOn
<1> HIDE DEF s
<1>8. ASSUME NEW k \in 1..m PROVE s[k] = final(k)
  <2>1. CASE k = m
    <3>1. d[k] = Entry(ToSet(r.pins), Falling(r, q[k]), delta(k))
      BY <1>5, <2>1
    <3>2. s[k] = [d[k] EXCEPT !.gpio_clear = {}]
      BY <1>7, <2>1
    <3>3. s[k] = Entry(ToSet(r.pins), {}, delta(k))
      BY <3>1, <3>2 DEF Entry
    <3> QED
      BY <2>1, <3>3
  <2>2. CASE k # m
    BY <1>5, <1>7, <2>2
  <2> QED
    BY <2>1, <2>2
<1>9. \A k \in 1..m : final(k) \in Entries
  <2> SUFFICES ASSUME NEW k \in 1..m PROVE final(k) \in Entries
    OBVIOUS
  <2>1. delta(k) \in Nat /\ ToSet(r.pins) \subseteq Pins /\ Falling(r, q[k]) \subseteq Pins
    BY <1>2, RequestIs, FallingIs
  <2> QED
    BY <2>1 DEF Entry, Entries
<1>10. s = Played(r, q, m)
  BY <1>7, <1>8 DEF Played, delta
<1>11. Played(r, q, m) \in Seq(Entries) /\ Len(Played(r, q, m)) = m
  <2>1. Played(r, q, m) = [k \in 1..m |-> final(k)]
    BY DEF Played, delta
  <2> QED
    BY <1>1, <1>9, <2>1
<1> QED
  BY <1>10, <1>11 DEF s, d, c

LEMMA ShapedMeans ==
  ASSUME NEW r, Request(r)
  PROVE  \E at : Meaning(Shaped(Filled(r)), r, at)
<1> DEFINE T == Ticks(r.period)
           d == StaysOn(Deltas(Combined(Filled(r))))
           s == Shaped(Filled(r))
<1>1. PICK q, m : InOrder(r, q, m) /\ Combined(Filled(r)) = Timed(r, q, m)
  BY CombinedIs
<1>2. d \in Seq(Entries) /\ Len(d) = m /\ d = Played(r, q, m)
  BY <1>1, ShapedOn
<1>3. s = StaysOff(d)
  BY DEF Shaped
<1> HIDE DEF d, s, T
<1>4. /\ m \in Nat /\ m # 0 /\ m <= Len(r.pins) + 1 /\ Len(r.pins) \in Nat /\ T \in Nat /\ T # 0
      /\ \A k \in 1..m : q[k] \in 0..T
      /\ \A k, l \in 1..m : k < l => q[k] < q[l]
      /\ q[m] = T /\ \A i \in DOMAIN r.pins : \E k \in 1..m : q[k] = Share(r, i)
  BY <1>1, RequestIs DEF InOrder, T
<1>5. ASSUME NEW k \in 1..m
      PROVE  /\ d[k].gpio_set = IF k = m THEN ToSet(r.pins) ELSE {}
             /\ d[k].gpio_clear = IF k = m THEN {} ELSE Falling(r, q[k])
             /\ d[k].h_time = IF k = 1 THEN q[1] ELSE q[k] - q[k - 1]
  <2>1. d[k] = Entry(IF k = m THEN ToSet(r.pins) ELSE {}, IF k = m THEN {} ELSE Falling(r, q[k]),
                     IF k = 1 THEN q[1] ELSE q[k] - q[k - 1])
    BY <1>2 DEF Played
  <2> QED
    BY <2>1 DEF Entry
<1>6. \A i \in DOMAIN r.pins : r.pins[i] \in ToSet(r.pins)
  BY DEF ToSet
<1>7. 1 \in 1..m /\ m \in 1..m /\ d[1].h_time = q[1] /\ q[1] \in Nat
  <2>1. 1 \in 1..m /\ m \in 1..m
    BY <1>4
  <2> QED
    BY <1>4, <1>5, <2>1
<1>8. CASE q[1] > 0
  <2> DEFINE at == [k \in 0..m |-> IF k = 0 THEN 0 ELSE q[k]]
  <2>1. s = d
    BY <1>3, <1>7, <1>8 DEF StaysOff
  <2>2. \A k \in 1..m : k \in 0..m /\ k # 0 /\ at[k] = q[k] /\ q[k] \in 0..T
    BY <1>4
  <2>3. at \in [0..m -> 0..T] /\ at[0] = 0 /\ at[m] = T
    BY <1>4, <1>7, <2>2
  <2>4. ASSUME NEW k \in 0..m, NEW l \in 0..m, k < l PROVE at[k] < at[l]
    <3>1. l \in 1..m
      BY <1>4, <2>4
    <3>2. q[1] <= q[l]
      <4>1. CASE l = 1
        BY <1>7, <4>1
      <4>2. CASE l # 1
        <5>1. 1 < l
          BY <3>1, <4>2
        <5>2. q[1] < q[l] /\ q[l] \in Nat
          BY <1>4, <1>7, <3>1, <5>1
        <5> QED
          BY <1>7, <5>2
      <4> QED
        BY <4>1, <4>2
    <3>3. CASE k = 0
      BY <1>4, <1>7, <1>8, <2>2, <3>1, <3>2, <3>3
    <3>4. CASE k # 0
      <4>1. k \in 1..m
        BY <3>4
      <4> HIDE DEF at
      <4> QED
        BY <1>4, <2>2, <2>4, <3>1, <4>1
    <3> QED
      BY <3>3, <3>4
  <2>5. ASSUME NEW k \in 1..m PROVE d[k].h_time = at[k] - at[k - 1]
    <3>1. CASE k = 1
      BY <1>7, <2>2, <2>3, <3>1
    <3>2. CASE k # 1
      <4>1. k - 1 \in 1..m
        BY <1>4, <3>2
      <4> HIDE DEF at
      <4> QED
        BY <1>5, <2>2, <3>2, <4>1
    <3> QED
      BY <3>1, <3>2
  <2>6. ASSUME NEW i \in DOMAIN r.pins
        PROVE  /\ \E k \in 0..m : at[k] = Share(r, i)
               /\ \A k \in 1..(m - 1) : /\ r.pins[i] \notin d[k].gpio_set
                                        /\ r.pins[i] \in d[k].gpio_clear <=> at[k] = Share(r, i)
               /\ r.pins[i] \in d[m].gpio_set <=> Share(r, i) # 0
               /\ r.pins[i] \in d[m].gpio_clear <=> Share(r, i) = 0
    <3> HIDE DEF at
    <3>1. PICK k \in 1..m : q[k] = Share(r, i)
      BY <1>4
    <3>2. at[k] = Share(r, i) /\ k \in 0..m
      BY <2>2, <3>1
    <3>3. Share(r, i) # 0
      <4>1. q[1] <= q[k]
        <5>1. CASE k = 1
          BY <1>7, <5>1
        <5>2. CASE k # 1
          <6>1. 1 < k
            BY <5>2
          <6>2. q[1] < q[k] /\ q[k] \in Nat
            BY <1>4, <1>7, <6>1
          <6> QED
            BY <1>7, <6>2
        <5> QED
          BY <5>1, <5>2
      <4>2. q[k] \in Nat
        BY <1>4
      <4> QED
        BY <1>7, <1>8, <3>1, <4>1, <4>2
    <3>4. ASSUME NEW j \in 1..(m - 1)
          PROVE  r.pins[i] \notin d[j].gpio_set /\ (r.pins[i] \in d[j].gpio_clear <=> at[j] = Share(r, i))
      <4>1. j \in 1..m /\ j # m
        BY <1>4
      <4>2. d[j].gpio_set = {} /\ d[j].gpio_clear = Falling(r, q[j]) /\ at[j] = q[j]
        BY <1>5, <2>2, <4>1
      <4> QED
        BY <4>2, FallingIs
    <3>5. d[m].gpio_set = ToSet(r.pins) /\ d[m].gpio_clear = {}
      BY <1>5, <1>7
    <3> QED
      BY <1>6, <3>2, <3>3, <3>4, <3>5
  <2>7. m \in 1..(Len(r.pins) + 1)
    BY <1>4
  <2>8. \A k \in 1..m : d[k].gpio_set \cup d[k].gpio_clear \subseteq ToSet(r.pins)
    BY <1>5, FallingIs
  <2> HIDE DEF at
  <2>9. Meaning(s, r, at)
    BY <1>2, <2>1, <2>3, <2>4, <2>5, <2>6, <2>7, <2>8 DEF Meaning, T
  <2> QED
    BY <2>9 DEF s
<1>9. CASE q[1] = 0
  <2> DEFINE L == m - 1
             off == Falling(r, 0)
             at == [k \in 0..L |-> q[k + 1]]
             last == Entry(ToSet(r.pins) \ off, off, q[m] - q[m - 1])
  <2>1. m # 1 /\ L \in Nat /\ L # 0 /\ L < m /\ L \in 1..m /\ L + 1 = m
    BY <1>4, <1>9
  <2>2. \A k \in 0..L : k + 1 \in 1..m
    BY <1>4
  <2>3. at \in [0..L -> 0..T] /\ at[0] = 0 /\ at[L] = T /\ \A k \in 0..L : at[k] = q[k + 1]
    BY <1>4, <1>9, <2>1, <2>2
  <2>4. d[1].gpio_clear = off /\ ~(d[1].h_time > 0)
    BY <1>5, <1>7, <1>9, <2>1
  <2>5. d[m].gpio_set = ToSet(r.pins) /\ d[m].gpio_clear = {} /\ d[m].h_time = q[m] - q[m - 1]
    BY <1>5, <1>7, <2>1
  <2>6. s = Append(Front(Tail(d)), last)
    <3>1. Last(d) = d[m]
      BY <1>2 DEF Last
    <3>2. s = Append(Front(Tail(d)), Entry(d[m].gpio_set \ off, d[m].gpio_clear \cup off, d[m].h_time))
      BY <1>3, <2>4, <3>1 DEF StaysOff
    <3> QED
      BY <2>5, <3>2
  <2> HIDE DEF at, last, off
  <2>7. /\ Front(Tail(d)) \in Seq(Entries) /\ Len(Front(Tail(d))) = L - 1
        /\ \A k \in 1..(L - 1) : Front(Tail(d))[k] = d[k + 1]
    <3>1. d # <<>>
      BY <1>2, <1>4
    <3>2. /\ Tail(d) \in Seq(Entries) /\ Len(Tail(d)) = L
          /\ \A k \in 1..L : Tail(d)[k] = d[k + 1]
      BY <1>2, <2>1, <3>1
    <3> DEFINE t == Tail(d)
    <3> HIDE DEF t
    <3>3. Front(t) = SubSeq(t, 1, L - 1)
      BY <3>2 DEF Front, t
    <3>4. /\ SubSeq(t, 1, L - 1) \in Seq(Entries) /\ Len(SubSeq(t, 1, L - 1)) = L - 1
          /\ \A k \in 1..(L - 1) : SubSeq(t, 1, L - 1)[k] = t[k]
      BY <2>1, <3>2 DEF t
    <3>5. ASSUME NEW k \in 1..(L - 1) PROVE Front(t)[k] = d[k + 1]
      <4>1. k \in 1..L
        BY <2>1
      <4>2. t[k] = d[k + 1]
        BY <3>2, <4>1 DEF t
      <4> QED
        BY <3>3, <3>4, <4>2
    <3>6. Front(t) \in Seq(Entries) /\ Len(Front(t)) = L - 1
      BY <3>3, <3>4
    <3> QED
      BY <3>5, <3>6 DEF t
  <2>8. last \in Entries
    <3>1. q[m] - q[m - 1] \in Nat
      BY <1>4, <1>7, <2>1
    <3> QED
      BY <3>1, RequestIs, FallingIs DEF Entry, Entries, last, off
  <2>9. /\ s \in Seq(Entries) /\ Len(s) = L /\ s[L] = last
        /\ \A k \in 1..(L - 1) : s[k] = d[k + 1]
    <3> DEFINE t == Front(Tail(d))
    <3> HIDE DEF t
    <3>1. t \in Seq(Entries) /\ Len(t) = L - 1
      BY <2>7 DEF t
    <3>2. Append(t, last) \in Seq(Entries) /\ Len(Append(t, last)) = L /\ Append(t, last)[L] = last
      BY <2>1, <2>8, <3>1
    <3>3. \A k \in 1..(L - 1) : Append(t, last)[k] = t[k]
      BY <2>1, <2>8, <3>1
    <3> QED
      BY <2>6, <2>7, <3>2, <3>3 DEF t
  <2>10. \A k, l \in 0..L : k < l => at[k] < at[l]
    <3> SUFFICES ASSUME NEW k \in 0..L, NEW l \in 0..L, k < l PROVE q[k + 1] < q[l + 1]
      BY <2>3
    <3>1. k + 1 \in 1..m /\ l + 1 \in 1..m /\ k + 1 < l + 1
      BY <2>2
    <3> QED
      BY <1>4, <3>1
  <2>11. ASSUME NEW k \in 1..L PROVE s[k].h_time = at[k] - at[k - 1]
    <3>1. k \in 0..L /\ k - 1 \in 0..L /\ (k - 1) + 1 = k /\ k + 1 \in 1..m /\ k + 1 # 1 /\ (k + 1) - 1 = k
      BY <2>1
    <3>2. at[k] = q[k + 1] /\ at[k - 1] = q[k]
      BY <2>3, <3>1
    <3>3. CASE k = L
      <4>1. s[k].h_time = q[m] - q[m - 1]
        BY <2>9, <3>3 DEF last, Entry
      <4> QED
        BY <2>1, <3>2, <3>3, <4>1
    <3>4. CASE k # L
      <4>1. s[k] = d[k + 1]
        BY <2>1, <2>9, <3>4
      <4>2. d[k + 1].h_time = q[k + 1] - q[k]
        BY <1>5, <3>1
      <4> QED
        BY <3>2, <4>1, <4>2
    <3> QED
      BY <3>3, <3>4
  <2>12. ASSUME NEW i \in DOMAIN r.pins
         PROVE  /\ \E k \in 0..L : at[k] = Share(r, i)
                /\ \A k \in 1..(L - 1) : /\ r.pins[i] \notin s[k].gpio_set
                                         /\ r.pins[i] \in s[k].gpio_clear <=> at[k] = Share(r, i)
                /\ r.pins[i] \in s[L].gpio_set <=> Share(r, i) # 0
                /\ r.pins[i] \in s[L].gpio_clear <=> Share(r, i) = 0
    <3>1. \E k \in 0..L : at[k] = Share(r, i)
      <4>1. PICK k \in 1..m : q[k] = Share(r, i)
        BY <1>4
      <4>2. k - 1 \in 0..L /\ (k - 1) + 1 = k
        BY <2>1
      <4>3. at[k - 1] = Share(r, i)
        BY <2>3, <4>1, <4>2
      <4> QED
        BY <4>2, <4>3
    <3>2. ASSUME NEW k \in 1..(L - 1)
          PROVE  r.pins[i] \notin s[k].gpio_set /\ (r.pins[i] \in s[k].gpio_clear <=> at[k] = Share(r, i))
      <4>1. k \in 0..L /\ k + 1 \in 1..m /\ k + 1 # m
        BY <2>1
      <4>2. s[k] = d[k + 1] /\ at[k] = q[k + 1]
        BY <2>3, <2>9, <4>1
      <4>3. d[k + 1].gpio_set = {} /\ d[k + 1].gpio_clear = Falling(r, q[k + 1])
        BY <1>5, <4>1
      <4> QED
        BY <4>2, <4>3, FallingIs
    <3>3. s[L].gpio_set = ToSet(r.pins) \ off /\ s[L].gpio_clear = off
      BY <2>9 DEF last, Entry
    <3>4. r.pins[i] \in off <=> Share(r, i) = 0
      BY FallingIs DEF off
    <3> QED
      BY <1>6, <3>1, <3>2, <3>3, <3>4
  <2>13. ASSUME NEW k \in 1..L PROVE s[k].gpio_set \cup s[k].gpio_clear \subseteq ToSet(r.pins)
    <3>1. CASE k = L
      BY <2>9, <3>1, FallingIs DEF last, Entry, off
    <3>2. CASE k # L
      <4>1. k + 1 \in 1..m /\ s[k] = d[k + 1]
        BY <2>1, <2>9, <3>2
      <4> QED
        BY <1>5, <4>1, FallingIs
    <3> QED
      BY <3>1, <3>2
  <2>14. L \in 1..(Len(r.pins) + 1)
    BY <1>4, <2>1
  <2> HIDE DEF L
  <2>15. Meaning(s, r, at)
    BY <2>3, <2>9, <2>10, <2>11, <2>12, <2>13, <2>14 DEF Meaning, T
  <2> QED
    BY <2>15 DEF s
<1> QED
  BY <1>7, <1>8, <1>9
-----------------------------------------------------------------------------
(* What a table means is what PlaysAsAsked says of it.                      *)

LEMMA MeaningSums ==
  ASSUME NEW r, Request(r), NEW s, NEW at, Meaning(s, r, at), NEW m \in 0..Len(s)
  PROVE  Sum(s, 1..m) = at[m]
<1> DEFINE upto == [k \in 0..m |-> at[k]]
           L == Len(s)
<1>1. /\ L \in Nat /\ Ticks(r.period) \in Nat
      /\ at \in [0..L -> 0..Ticks(r.period)] /\ at[0] = 0
      /\ \A k \in 1..L : s[k].h_time = at[k] - at[k - 1]
  BY RequestIs DEF Meaning
<1> HIDE DEF L
<1>2. m \in Nat /\ m <= L /\ \A k \in 0..m : k \in 0..L
  BY <1>1 DEF L
<1>3. \A k \in 0..m : at[k] \in Int
  BY <1>1, <1>2
<1>4. upto \in [0..m -> Int] /\ \A k \in 0..m : upto[k] = at[k]
  BY <1>3
<1>5. ASSUME NEW k \in 1..m PROVE s[k].h_time = upto[k] - upto[k - 1]
  <2>1. k \in 0..m /\ k - 1 \in 0..m /\ k \in 1..L
    BY <1>1, <1>2
  <2> QED
    BY <1>1, <1>4, <2>1
<1> HIDE DEF upto
<1>6. Sum(s, 1..m) = upto[m] - upto[0]
  BY <1>2, <1>4, <1>5, SumOfRun
<1>7. 0 \in 0..m /\ m \in 0..m
  BY <1>2
<1> QED
  BY <1>1, <1>3, <1>4, <1>6, <1>7

LEMMA MeaningLevels ==
  ASSUME NEW r, Request(r), NEW s, NEW at, Meaning(s, r, at),
         NEW i \in DOMAIN r.pins, NEW low \in 0..Len(s), at[low] = Share(r, i), NEW k \in 1..Len(s)
  PROVE  Levels(s, r.pins[i], k) <=> k <= low
<1> DEFINE L == Len(s)
           p == r.pins[i]
           changes == {j \in 1..(k - 1) : p \in s[j].gpio_set \cup s[j].gpio_clear}
<1>1. /\ L \in Nat /\ at[0] = 0
      /\ \A j \in 0..L : at[j] \in Nat
      /\ \A j, l \in 0..L : j < l => at[j] < at[l]
      /\ \A j \in 1..(L - 1) : /\ p \notin s[j].gpio_set
                               /\ p \in s[j].gpio_clear <=> at[j] = Share(r, i)
      /\ p \in s[L].gpio_set <=> Share(r, i) # 0
      /\ p \in s[L].gpio_clear <=> Share(r, i) = 0
  <2>1. L \in Nat /\ at \in [0..L -> 0..Ticks(r.period)] /\ at[0] = 0 /\ Ticks(r.period) \in Nat
    BY RequestIs DEF Meaning
  <2>2. \A j, l \in 0..L : j < l => at[j] < at[l]
    BY DEF Meaning
  <2>3. /\ \A j \in 1..(L - 1) : /\ p \notin s[j].gpio_set
                                 /\ p \in s[j].gpio_clear <=> at[j] = Share(r, i)
        /\ p \in s[L].gpio_set <=> Share(r, i) # 0
        /\ p \in s[L].gpio_clear <=> Share(r, i) = 0
    BY DEF Meaning
  <2> HIDE DEF L, p
  <2>4. \A j \in 0..L : at[j] \in Nat
    BY <2>1
  <2> QED
    BY <2>1, <2>2, <2>3, <2>4
<1>2. k \in 1..L /\ low \in 0..L
  OBVIOUS
<1> HIDE DEF L, p
<1>3. \A j \in 0..L : at[j] = Share(r, i) <=> j = low
  <2> SUFFICES ASSUME NEW j \in 0..L, at[j] = at[low] PROVE j = low
    OBVIOUS
  <2>1. at[j] \in Nat /\ at[low] \in Nat /\ ~(j < low) /\ ~(low < j)
    BY <1>1, <1>2
  <2> QED
    BY <1>2, <2>1
<1>4. Share(r, i) = 0 <=> low = 0
  <2>1. 0 \in 0..L
    BY <1>1
  <2> QED
    BY <1>1, <1>3, <2>1
<1>5. changes = {j \in 1..(k - 1) : j = low}
  <2>1. \A j \in 1..(k - 1) : j \in 1..(L - 1) /\ j \in 0..L
    BY <1>1, <1>2
  <2> QED
    BY <1>1, <1>3, <2>1
<1>6. CASE low \in 1..(k - 1)
  <2>1. changes = {low}
    BY <1>5, <1>6
  <2>2. Max({low}) = low
    BY <1>6 DEF Max
  <2>3. low \in 1..(L - 1)
    BY <1>1, <1>2, <1>6
  <2>4. ~ Levels(s, p, k)
    BY <1>1, <2>1, <2>2, <2>3 DEF Levels
  <2> QED
    BY <1>2, <1>6, <2>4 DEF p
<1>7. CASE low \notin 1..(k - 1)
  <2>1. changes = {}
    BY <1>5, <1>7
  <2>2. Levels(s, p, k) <=> Share(r, i) # 0
    BY <1>1, <2>1 DEF Levels, L
  <2>3. low # 0 <=> k <= low
    BY <1>2, <1>7
  <2> QED
    BY <1>4, <2>2, <2>3 DEF p
<1> QED
  BY <1>6, <1>7

\* Where the pins are when the timer is down.
Still(entry, pins) == entry.gpio_set \ entry.gpio_clear \subseteq pins /\ entry.gpio_clear \cap pins = {}

LEMMA MeaningPlays ==
  ASSUME NEW r, Request(r), NEW s, NEW at, Meaning(s, r, at)
  PROVE  /\ Sum(s, DOMAIN s) = Ticks(r.period)
         /\ \A i \in DOMAIN r.pins : HighTime(s, r.pins[i]) = Share(r, i)
         /\ \A pins : Len(s) = 1 /\ Still(s[1], pins) =>
              \A i \in DOMAIN r.pins : r.pins[i] \in pins <=> r.duty[i] = PWM_DEPTH
<1> DEFINE L == Len(s)
           T == Ticks(r.period)
<1>1. /\ s \in Seq(Entries) /\ L \in Nat /\ L # 0 /\ T \in Nat /\ T # 0 /\ DOMAIN s = 1..L
      /\ at[0] = 0 /\ at[L] = T
  BY RequestIs DEF Meaning
<1>2. ASSUME NEW i \in DOMAIN r.pins
      PROVE  /\ \E k \in 0..L : at[k] = Share(r, i)
             /\ r.pins[i] \in s[L].gpio_set <=> Share(r, i) # 0
             /\ r.pins[i] \in s[L].gpio_clear <=> Share(r, i) = 0
  BY DEF Meaning
<1> HIDE DEF L, T
<1>3. Sum(s, DOMAIN s) = T
  BY <1>1, MeaningSums DEF L
<1>4. ASSUME NEW i \in DOMAIN r.pins PROVE HighTime(s, r.pins[i]) = Share(r, i)
  <2>1. PICK low \in 0..L : at[low] = Share(r, i)
    BY <1>2
  <2>2. \A k \in 1..L : Levels(s, r.pins[i], k) <=> k <= low
    BY <2>1, MeaningLevels DEF L
  <2>3. {k \in 1..L : Levels(s, r.pins[i], k)} = 1..low
    <3>1. \A k : k \in 1..low <=> k \in 1..L /\ k <= low
      BY <1>1
    <3> QED
      BY <2>2, <3>1
  <2>4. HighTime(s, r.pins[i]) = Sum(s, 1..low)
    BY <1>1, <2>3 DEF HighTime
  <2> QED
    BY <2>1, <2>4, MeaningSums DEF L
<1>5. ASSUME NEW pins, L = 1, Still(s[1], pins), NEW i \in DOMAIN r.pins
      PROVE  r.pins[i] \in pins <=> r.duty[i] = PWM_DEPTH
  <2>1. PICK k \in 0..1 : at[k] = Share(r, i)
    BY <1>2, <1>5
  <2>2. Share(r, i) = 0 \/ Share(r, i) = T
    BY <1>1, <1>5, <2>1
  <2>3. Share(r, i) = T <=> r.duty[i] = PWM_DEPTH
    BY ShareIs DEF T
  <2>4. r.pins[i] \in pins <=> Share(r, i) # 0
    BY <1>2, <1>5 DEF Still
  <2> QED
    BY <1>1, <2>2, <2>3, <2>4
<1> QED
  BY <1>3, <1>4, <1>5 DEF L, T
-----------------------------------------------------------------------------
(* What holds in every state                                                *)

Current == [pins |-> pwm_out_io_num, duty |-> duty, period |-> period]

Built(b) == table[b] = Shaped(Filled(asked[b]))

\* Which tables pwm_start has finished, wherever it is.
Tables ==
  /\ Built(pwm_toggle)
  /\ pc = "shape" => table[OtherBuffer(pwm_toggle)] = Filled(asked[OtherBuffer(pwm_toggle)])
  /\ pc \in {"begin", "flip"} => Built(OtherBuffer(pwm_toggle))
  /\ pc = "idle" => Built(playing)

Scalars ==
  /\ DOMAIN table = 0..1 /\ DOMAIN asked = 0..1
  /\ \A b \in 0..1 : Request(asked[b])
  /\ pwm_toggle \in 0..1 /\ playing \in 0..1
  /\ pwm_current_channel \in 0..PWM_CHANNEL
  /\ pwm_timer_down \in BOOLEAN
  /\ high \subseteq Pins
  /\ pc \in {"idle", "shape", "begin", "flip"}

\* What callers who wait for the interrupt can rely on.
Patience ==
  patient =>
    /\ pc \in {"shape", "begin"} => playing = pwm_toggle
    /\ pwm_timer_down <=> Len(table[playing]) = 1
    /\ pwm_timer_down => Still(table[playing][1], high)
    /\ pc = "idle" /\ playing # pwm_toggle => ~pwm_timer_down
    /\ pc = "flip" /\ playing = pwm_toggle => ~pwm_timer_down

PwmInv == Request(Current) /\ Scalars /\ Tables /\ Patience

LEMMA ShapedIs ==
  ASSUME NEW r, Request(r)
  PROVE  /\ Shaped(Filled(r)) \in Seq(Entries)
         /\ Len(Shaped(Filled(r))) \in 1..(Len(r.pins) + 1)
         /\ Len(Shaped(Filled(r))) \in 1..(PWM_CHANNEL + 1)
         /\ \A k \in 1..Len(Shaped(Filled(r))) :
              Shaped(Filled(r))[k].gpio_set \cup Shaped(Filled(r))[k].gpio_clear \subseteq ToSet(r.pins)
<1> DEFINE s == Shaped(Filled(r))
<1>1. PICK at : Meaning(s, r, at)
  BY ShapedMeans
<1> HIDE DEF s
<1>2. /\ s \in Seq(Entries) /\ Len(s) \in 1..(Len(r.pins) + 1)
      /\ \A k \in 1..Len(s) : s[k].gpio_set \cup s[k].gpio_clear \subseteq ToSet(r.pins)
  BY <1>1 DEF Meaning
<1>3. Len(s) \in 1..(PWM_CHANNEL + 1)
  <2>1. Len(r.pins) \in Nat /\ Len(r.pins) + 1 \in 1..(PWM_CHANNEL + 1) /\ PWM_CHANNEL \in Nat
    BY RequestIs, PwmAssumption
  <2> QED
    BY <1>2, <2>1
<1> QED
  BY <1>2, <1>3 DEF s

LEMMA OtherIs ==
  ASSUME NEW b \in 0..1
  PROVE  OtherBuffer(b) \in 0..1 /\ OtherBuffer(b) # b /\ OtherBuffer(OtherBuffer(b)) = b /\ \A c \in 0..1 : c = b \/ c = OtherBuffer(b)
BY DEF OtherBuffer

\* The interrupt always has a table to play from.
LEMMA TablePlayed ==
  ASSUME PwmInv
  PROVE  /\ table[playing] \in Seq(Entries) /\ Len(table[playing]) \in 1..(PWM_CHANNEL + 1)
         /\ table[pwm_toggle] \in Seq(Entries) /\ Len(table[pwm_toggle]) \in 1..(PWM_CHANNEL + 1)
<1>1. /\ \A b \in 0..1 : Request(asked[b])
      /\ pwm_toggle \in 0..1 /\ playing \in 0..1
      /\ pc \in {"idle", "shape", "begin", "flip"}
  BY DEF PwmInv, Scalars
<1>2. ASSUME NEW b \in 0..1, Built(b) \/ table[b] = Filled(asked[b])
      PROVE  table[b] \in Seq(Entries) /\ Len(table[b]) \in 1..(PWM_CHANNEL + 1)
  <2>1. Request(asked[b])
    BY <1>1
  <2>2. CASE Built(b)
    BY <2>1, <2>2, ShapedIs DEF Built
  <2>3. CASE table[b] = Filled(asked[b])
    <3> DEFINE r == asked[b]
    <3> HIDE DEF r
    <3>1. Request(r) /\ table[b] = Filled(r)
      BY <2>1, <2>3 DEF r
    <3>2. Filled(r) \in Seq(Entries) /\ Len(Filled(r)) = Len(r.pins) + 1
      BY <3>1, FilledIs
    <3>3. Len(r.pins) + 1 \in 1..(PWM_CHANNEL + 1)
      BY <3>1, RequestIs
    <3> QED
      BY <3>1, <3>2, <3>3
  <2> QED
    BY <1>2, <2>2, <2>3
<1>3. Built(pwm_toggle)
  BY DEF PwmInv, Tables
<1>4. Built(playing) \/ table[playing] = Filled(asked[playing])
  <2>1. playing = pwm_toggle \/ playing = OtherBuffer(pwm_toggle)
    BY <1>1, OtherIs
  <2> QED
    BY <1>1, <1>3, <2>1 DEF PwmInv, Tables
<1> QED
  BY <1>1, <1>2, <1>3, <1>4

\* What is played is what was asked for, if the callers are patient.
LEMMA PlayedBuilt ==
  ASSUME PwmInv, patient
  PROVE  playing \in 0..1 /\ Request(asked[playing]) /\ Built(playing)
<1>1. /\ \A b \in 0..1 : Request(asked[b])
      /\ pwm_toggle \in 0..1 /\ playing \in 0..1
      /\ pc \in {"idle", "shape", "begin", "flip"}
  BY DEF PwmInv, Scalars
<1>2. playing = pwm_toggle \/ playing = OtherBuffer(pwm_toggle)
  BY <1>1, OtherIs
<1>3. CASE playing = pwm_toggle
  BY <1>1, <1>3 DEF PwmInv, Tables
<1>4. CASE playing # pwm_toggle
  <2>1. pc \in {"idle", "flip"}
    BY <1>1, <1>4 DEF PwmInv, Patience
  <2> QED
    BY <1>1, <1>2, <1>4, <2>1 DEF PwmInv, Tables
<1> QED
  BY <1>3, <1>4

LEMMA PwmInvPlays ==
  ASSUME PwmInv
  PROVE  PlaysAsAsked
<1> SUFFICES ASSUME patient
             PROVE  LET request == asked[playing]  s == table[playing]
                    IN /\ Sum(s, DOMAIN s) = Ticks(request.period)
                       /\ \A i \in DOMAIN request.pins :
                            /\ HighTime(s, request.pins[i]) = Ticks((request.period * request.duty[i]) \div PWM_DEPTH)
                            /\ pwm_timer_down => (request.pins[i] \in high <=> request.duty[i] = PWM_DEPTH)
  BY DEF PlaysAsAsked
<1> DEFINE r == asked[playing]
           s == table[playing]
<1>1. Request(r) /\ s = Shaped(Filled(r))
  BY PlayedBuilt DEF Built
<1>2. pwm_timer_down => Len(s) = 1 /\ Still(s[1], high)
  BY DEF PwmInv, Patience
<1> HIDE DEF r, s
<1>3. PICK at : Meaning(s, r, at)
  BY <1>1, ShapedMeans
<1>4. /\ Sum(s, DOMAIN s) = Ticks(r.period)
      /\ \A i \in DOMAIN r.pins : HighTime(s, r.pins[i]) = Share(r, i)
      /\ \A pins : Len(s) = 1 /\ Still(s[1], pins) =>
           \A i \in DOMAIN r.pins : r.pins[i] \in pins <=> r.duty[i] = PWM_DEPTH
  BY <1>1, <1>3, MeaningPlays
<1> QED
  BY <1>2, <1>4 DEF r, s, Share
-----------------------------------------------------------------------------
(* The calls that change what is asked for                                  *)

LEMMA SequenceIs ==
  ASSUME NEW S, NEW n \in Nat, NEW s
  PROVE  s \in [1..n -> S] <=> s \in Seq(S) /\ Len(s) = n
<1>1. ASSUME s \in [1..n -> S] PROVE s \in Seq(S) /\ Len(s) = n
  <2>1. s = [k \in 1..n |-> s[k]] /\ \A k \in 1..n : s[k] \in S
    BY <1>1
  <2> QED
    BY <2>1
<1>2. ASSUME s \in Seq(S), Len(s) = n PROVE s \in [1..n -> S]
  BY <1>2, LenProperties
<1> QED
  BY <1>1, <1>2

LEMMA PeriodTyped ==
  ASSUME NEW freq \in Nat
  PROVE  PeriodOf(freq) \in Nat \ {0}
<1> DEFINE f == IF freq > PWM_FREQ_MAX THEN PWM_FREQ_MAX ELSE IF freq < 1 THEN 1 ELSE freq
<1>1. f \in 1..PWM_FREQ_MAX /\ PWM_1S \in Nat /\ PWM_1S >= f /\ PeriodOf(freq) = PWM_1S \div f
  BY PwmAssumption DEF PeriodOf
<1> HIDE DEF f
<1> DEFINE q == PWM_1S \div f
<1>2. q \in Nat /\ f * q \in Nat /\ PWM_1S < f * q + f
  BY <1>1, Division, PwmAssumption
<1> HIDE DEF q
<1>3. q # 0
  <2> SUFFICES ASSUME q = 0 PROVE FALSE
    OBVIOUS
  <2>1. f * q = 0
    BY <1>1, PwmAssumption
  <2> QED
    BY <1>1, <1>2, <2>1, PwmAssumption
<1> QED
  BY <1>1, <1>2, <1>3 DEF q

LEMMA RemovedAt ==
  ASSUME NEW S, NEW s \in Seq(S), NEW i \in 1..Len(s)
  PROVE  /\ RemoveAt(s, i) \in Seq(S) /\ Len(RemoveAt(s, i)) = Len(s) - 1
         /\ \A k \in 1..(Len(s) - 1) : RemoveAt(s, i)[k] = s[IF k < i THEN k ELSE k + 1]
<1> DEFINE front == SubSeq(s, 1, i - 1)
           back == SubSeq(s, i + 1, Len(s))
           n == Len(s)
<1>1. n \in Nat /\ i \in 1..n /\ i - 1 \in 0..n
  OBVIOUS
<1>2. /\ front \in Seq(S) /\ Len(front) = i - 1
      /\ \A k \in 1..(i - 1) : front[k] = s[k]
  BY <1>1
<1>3. /\ back \in Seq(S) /\ Len(back) = n - i
      /\ \A k \in 1..(n - i) : back[k] = s[i + k]
  BY <1>1
<1>4. RemoveAt(s, i) = front \o back
  BY DEF RemoveAt
<1> HIDE DEF front, back, n
<1>5. front \o back \in Seq(S) /\ Len(front \o back) = n - 1
  <2>1. front \o back \in Seq(S)
    BY <1>2, <1>3
  <2>2. Len(front \o back) = Len(front) + Len(back)
    BY <1>2, <1>3, ConcatProperties
  <2> QED
    BY <1>1, <1>2, <1>3, <2>1, <2>2
<1>6. ASSUME NEW k \in 1..(n - 1) PROVE (front \o back)[k] = s[IF k < i THEN k ELSE k + 1]
  <2>1. CASE k < i
    BY <1>1, <1>2, <1>3, <2>1
  <2>2. CASE ~(k < i)
    <3>1. (front \o back)[k] = back[k - (i - 1)]
      BY <1>1, <1>2, <1>3, <2>2
    <3>2. k - (i - 1) \in 1..(n - i) /\ i + (k - (i - 1)) = k + 1
      BY <1>1, <2>2
    <3> QED
      BY <1>3, <2>2, <3>1, <3>2
  <2> QED
    BY <2>1, <2>2
<1> QED
  BY <1>4, <1>5, <1>6 DEF n

LEMMA CurrentIs ==
  ASSUME Request(Current)
  PROVE  /\ pwm_out_io_num \in Seq(Pins) /\ Len(pwm_out_io_num) <= PWM_CHANNEL
         /\ Len(pwm_out_io_num) \in Nat /\ DOMAIN pwm_out_io_num = 1..Len(pwm_out_io_num)
         /\ \A i, j \in DOMAIN pwm_out_io_num : pwm_out_io_num[i] = pwm_out_io_num[j] => i = j
         /\ duty \in [DOMAIN pwm_out_io_num -> 0..PWM_DEPTH]
         /\ duty \in Seq(0..PWM_DEPTH) /\ Len(duty) = Len(pwm_out_io_num)
         /\ period \in Nat \ {0}
<1>1. /\ pwm_out_io_num \in Seq(Pins) /\ Len(pwm_out_io_num) <= PWM_CHANNEL
      /\ \A i, j \in DOMAIN pwm_out_io_num : pwm_out_io_num[i] = pwm_out_io_num[j] => i = j
      /\ duty \in [DOMAIN pwm_out_io_num -> 0..PWM_DEPTH]
      /\ period \in Nat \ {0}
  BY DEF Request, Current
<1>2. Len(pwm_out_io_num) \in Nat /\ DOMAIN pwm_out_io_num = 1..Len(pwm_out_io_num)
  BY <1>1
<1>3. duty \in Seq(0..PWM_DEPTH) /\ Len(duty) = Len(pwm_out_io_num)
  BY <1>1, <1>2, SequenceIs
<1> QED
  BY <1>1, <1>2, <1>3

\* The places are taken by different pins, each with a duty, after every call.
LEMMA AddRequest ==
  ASSUME Request(Current), NEW pin \in Pins, PwmAdd(pin)
  PROVE  Request(Current)'
<1> DEFINE n == Len(pwm_out_io_num)
<1>1. /\ pin \notin ToSet(pwm_out_io_num) /\ n < PWM_CHANNEL
      /\ pwm_out_io_num' = Append(pwm_out_io_num, pin) /\ duty' = Append(duty, 0)
      /\ period' = period /\ PWM_CHANNEL \in Nat /\ 0 \in 0..PWM_DEPTH
  BY PwmAssumption DEF PwmAdd
<1>2. /\ pwm_out_io_num' \in Seq(Pins) /\ Len(pwm_out_io_num') = n + 1
      /\ \A i \in 1..n : pwm_out_io_num'[i] = pwm_out_io_num[i]
      /\ pwm_out_io_num'[n + 1] = pin
  BY <1>1, CurrentIs
<1>3. duty' \in Seq(0..PWM_DEPTH) /\ Len(duty') = n + 1
  BY <1>1, CurrentIs
<1>4. n \in Nat /\ DOMAIN pwm_out_io_num = 1..n /\ DOMAIN pwm_out_io_num' = 1..(n + 1)
  BY <1>2, CurrentIs
<1> HIDE DEF n
<1>5. \A i, j \in 1..(n + 1) : pwm_out_io_num'[i] = pwm_out_io_num'[j] => i = j
  <2>1. \A i \in 1..n : pwm_out_io_num[i] # pin
    BY <1>1, <1>4 DEF ToSet
  <2>2. \A i \in 1..(n + 1) : i \in 1..n \/ i = n + 1
    BY <1>4
  <2>3. \A i, j \in 1..n : pwm_out_io_num[i] = pwm_out_io_num[j] => i = j
    BY <1>4, CurrentIs
  <2> QED
    BY <1>2, <2>1, <2>2, <2>3
<1>6. duty' \in [DOMAIN pwm_out_io_num' -> 0..PWM_DEPTH]
  <2>1. n + 1 \in Nat
    BY <1>4
  <2>2. duty' \in [1..(n + 1) -> 0..PWM_DEPTH]
    BY <1>3, <2>1, SequenceIs
  <2> QED
    BY <1>4, <2>2
<1>7. n + 1 <= PWM_CHANNEL /\ period' \in Nat \ {0}
  BY <1>1, <1>4, CurrentIs DEF n
<1> QED
  BY <1>2, <1>4, <1>5, <1>6, <1>7 DEF Request, Current

LEMMA DeleteRequest ==
  ASSUME Request(Current), NEW pin \in Pins, PwmDelete(pin)
  PROVE  Request(Current)'
<1> DEFINE n == Len(pwm_out_io_num)
<1>1. PICK i \in DOMAIN pwm_out_io_num :
        pwm_out_io_num' = RemoveAt(pwm_out_io_num, i) /\ duty' = RemoveAt(duty, i)
  BY DEF PwmDelete
<1>2. n \in Nat /\ DOMAIN pwm_out_io_num = 1..n /\ n <= PWM_CHANNEL /\ PWM_CHANNEL \in Nat /\ i \in 1..n
  BY <1>1, CurrentIs, PwmAssumption
<1>3. /\ pwm_out_io_num' \in Seq(Pins) /\ Len(pwm_out_io_num') = n - 1
      /\ \A k \in 1..(n - 1) : pwm_out_io_num'[k] = pwm_out_io_num[IF k < i THEN k ELSE k + 1]
  <2>1. pwm_out_io_num \in Seq(Pins)
    BY CurrentIs
  <2> DEFINE s == pwm_out_io_num
  <2> HIDE DEF s
  <2>2. /\ RemoveAt(s, i) \in Seq(Pins) /\ Len(RemoveAt(s, i)) = Len(s) - 1
        /\ \A k \in 1..(Len(s) - 1) : RemoveAt(s, i)[k] = s[IF k < i THEN k ELSE k + 1]
    BY <1>2, <2>1, RemovedAt DEF s
  <2> QED
    BY <1>1, <2>2 DEF s
<1>4. duty' \in Seq(0..PWM_DEPTH) /\ Len(duty') = n - 1
  <2>1. duty \in Seq(0..PWM_DEPTH) /\ Len(duty) = n
    BY CurrentIs
  <2>2. RemoveAt(duty, i) \in Seq(0..PWM_DEPTH) /\ Len(RemoveAt(duty, i)) = n - 1
    BY <1>2, <2>1, RemovedAt
  <2> QED
    BY <1>1, <2>2
<1>5. DOMAIN pwm_out_io_num' = 1..(n - 1) /\ duty' \in [1..(n - 1) -> 0..PWM_DEPTH]
  <2>1. n - 1 \in Nat
    BY <1>2
  <2> HIDE DEF n
  <2> QED
    BY <1>3, <1>4, <2>1, SequenceIs
<1> HIDE DEF n
<1>6. ASSUME NEW k \in 1..(n - 1), NEW l \in 1..(n - 1), pwm_out_io_num'[k] = pwm_out_io_num'[l] PROVE k = l
  <2> DEFINE was(x) == IF x < i THEN x ELSE x + 1
  <2>1. was(k) \in 1..n /\ was(l) \in 1..n
    BY <1>2
  <2>2. pwm_out_io_num[was(k)] = pwm_out_io_num[was(l)]
    BY <1>3, <1>6
  <2>3. was(k) = was(l)
    BY <1>2, <2>1, <2>2, CurrentIs
  <2> QED
    BY <1>2, <2>3
<1>7. n - 1 <= PWM_CHANNEL
  BY <1>2
<1>8. period' \in Nat \ {0}
  BY CurrentIs DEF PwmDelete
<1> QED
  BY <1>3, <1>5, <1>6, <1>7, <1>8 DEF Request, Current

LEMMA SetRequest ==
  ASSUME Request(Current), NEW pin \in Pins, NEW d \in Duties, PwmSetDuty(d, pin)
  PROVE  Request(Current)'
<1>1. /\ pwm_out_io_num' = pwm_out_io_num /\ period' = period
      /\ \E i \in DOMAIN pwm_out_io_num : duty' = [duty EXCEPT ![i] = IF d >= PWM_DEPTH THEN PWM_DEPTH ELSE d]
  BY DEF PwmSetDuty
<1>2. d \in Nat /\ PWM_DEPTH \in Nat
  BY PwmAssumption
<1>3. (IF d >= PWM_DEPTH THEN PWM_DEPTH ELSE d) \in 0..PWM_DEPTH
  BY <1>2
<1>4. duty' \in [DOMAIN pwm_out_io_num -> 0..PWM_DEPTH]
  BY <1>1, <1>3, CurrentIs
<1> QED
  BY <1>1, <1>4 DEF Request, Current

LEMMA FreqRequest ==
  ASSUME Request(Current), NEW freq \in Freqs, PwmSetFreq(freq)
  PROVE  Request(Current)'
<1>1. pwm_out_io_num' = pwm_out_io_num /\ duty' = duty /\ period' = PeriodOf(freq)
  BY DEF PwmSetFreq
<1>2. PeriodOf(freq) \in Nat \ {0}
  BY PeriodTyped, PwmAssumption
<1> QED
  BY <1>1, <1>2 DEF Request, Current

LEMMA NoChannelsRequest == Request(NoChannels)
<1>1. PeriodOf(InitFreq) \in Nat \ {0}
  BY PeriodTyped, PwmAssumption
<1>2. /\ NoChannels.pins = <<>> /\ NoChannels.duty = <<>> /\ NoChannels.period = PeriodOf(InitFreq)
      /\ PWM_CHANNEL \in Nat
  BY PwmAssumption DEF NoChannels
<1>3. <<>> \in Seq(Pins) /\ Len(<<>>) = 0 /\ <<>> \in [DOMAIN <<>> -> 0..PWM_DEPTH] /\ DOMAIN <<>> = {}
  OBVIOUS
<1> QED
  BY <1>1, <1>2, <1>3 DEF Request
-----------------------------------------------------------------------------
(* Every step preserves it.                                                 *)

LEMMA InitPwmInv == ASSUME PwmInit PROVE PwmInv
<1>1. /\ pwm_out_io_num = <<>> /\ duty = <<>> /\ period = PeriodOf(InitFreq)
      /\ asked = [b \in 0..1 |-> NoChannels]
      /\ table = [b \in 0..1 |-> IF b = 0 THEN Shaped(Filled(NoChannels)) ELSE <<>>]
      /\ pwm_toggle = 0 /\ playing = 0 /\ pwm_current_channel = 0 /\ pwm_timer_down = TRUE
      /\ high = {} /\ pc = "idle"
  BY DEF PwmInit
<1>2. Current = NoChannels
  BY <1>1 DEF Current, NoChannels
<1>3. Request(NoChannels) /\ NoChannels.pins = <<>>
  BY NoChannelsRequest DEF NoChannels
<1>4. table[0] = Shaped(Filled(NoChannels)) /\ asked[0] = NoChannels /\ asked[1] = NoChannels
  BY <1>1
<1> DEFINE s == Shaped(Filled(NoChannels))
<1>5. Len(s) = 1 /\ s[1].gpio_set \cup s[1].gpio_clear \subseteq ToSet(<<>>)
  <2>1. Len(NoChannels.pins) + 1 = 1
    BY <1>3
  <2>2. Len(s) \in 1..1 /\ \A k \in 1..Len(s) : s[k].gpio_set \cup s[k].gpio_clear \subseteq ToSet(<<>>)
    <3> DEFINE r == NoChannels
    <3> HIDE DEF r
    <3>1. Request(r) /\ Len(r.pins) + 1 = 1 /\ r.pins = <<>>
      BY <1>3, <2>1 DEF r
    <3>2. /\ Len(Shaped(Filled(r))) \in 1..(Len(r.pins) + 1)
          /\ \A k \in 1..Len(Shaped(Filled(r))) :
               Shaped(Filled(r))[k].gpio_set \cup Shaped(Filled(r))[k].gpio_clear \subseteq ToSet(r.pins)
      BY <3>1, ShapedIs
    <3> QED
      BY <3>1, <3>2 DEF r
  <2> QED
    BY <2>2
<1> HIDE DEF s
<1>6. ToSet(<<>>) = {}
  BY DEF ToSet
<1>7. Scalars
  BY <1>1, <1>3, <1>4, PwmAssumption DEF Scalars
<1>8. Tables
  BY <1>1, <1>4 DEF Tables, Built
<1>9. Patience
  BY <1>1, <1>4, <1>5, <1>6 DEF Patience, Still, s
<1> QED
  BY <1>2, <1>3, <1>7, <1>8, <1>9 DEF PwmInv

\* What the task or the interrupt leaves alone keeps what is known about it.
LEMMA SettingsKept ==
  ASSUME PwmInv, UNCHANGED settings
  PROVE  Request(Current)'
BY DEF PwmInv, settings, Request, Current

LEMMA RestKept ==
  ASSUME PwmInv, TableUnchanged, Request(Current)'
  PROVE  PwmInv'
<1>1. Scalars'
  BY DEF PwmInv, Scalars, TableUnchanged
<1>2. Tables'
  BY DEF PwmInv, Tables, Built, TableUnchanged
<1>3. Patience'
  BY DEF PwmInv, Patience, TableUnchanged
<1> QED
  BY <1>1, <1>2, <1>3 DEF PwmInv

LEMMA FillPwmInv == ASSUME PwmInv, Fill PROVE PwmInv'
<1> DEFINE b == OtherBuffer(pwm_toggle)
<1>1. /\ pc = "idle" /\ (patient => Adopted)
      /\ asked' = [asked EXCEPT ![b] = Current]
      /\ table' = [table EXCEPT ![b] = Filled(Current)]
      /\ pc' = "shape"
      /\ UNCHANGED <<settings, pwm_toggle, playing, pwm_current_channel, pwm_timer_down, high, patient>>
  BY DEF Fill, Current
<1>2. Request(Current) /\ Scalars /\ Tables /\ Patience
  BY DEF PwmInv
<1>3. b \in 0..1 /\ b # pwm_toggle /\ pwm_toggle \in 0..1 /\ playing \in 0..1
  BY <1>2, OtherIs DEF Scalars
<1>4. OtherBuffer(pwm_toggle)' = b
  BY <1>1 DEF OtherBuffer
<1> HIDE DEF b
<1>5. /\ table'[b] = Filled(Current) /\ asked'[b] = Current
      /\ \A c \in 0..1 : c # b => table'[c] = table[c] /\ asked'[c] = asked[c]
      /\ DOMAIN table' = 0..1 /\ DOMAIN asked' = 0..1
  BY <1>1, <1>2, <1>3 DEF Scalars
<1>6. Scalars'
  <2>1. \A c \in 0..1 : Request(asked'[c])
    BY <1>2, <1>5 DEF Scalars
  <2> QED
    BY <1>1, <1>2, <1>5, <2>1 DEF Scalars
<1>7. Tables'
  BY <1>1, <1>2, <1>3, <1>4, <1>5 DEF Tables, Built
<1>8. Patience'
  <2> SUFFICES ASSUME patient PROVE Patience'
    BY <1>1 DEF Patience
  <2>1. playing = pwm_toggle
    BY <1>1, <1>2 DEF Patience, Adopted
  <2>2. table'[playing] = table[playing]
    BY <1>3, <1>5, <2>1
  <2> QED
    BY <1>1, <1>2, <2>1, <2>2 DEF Patience
<1> QED
  BY <1>1, <1>6, <1>7, <1>8, SettingsKept DEF PwmInv

LEMMA ShapePwmInv == ASSUME PwmInv, Shape PROVE PwmInv'
<1> DEFINE b == OtherBuffer(pwm_toggle)
<1>1. /\ pc = "shape" /\ pc' = "begin"
      /\ table' = [table EXCEPT ![b] = Shaped(table[b])]
      /\ UNCHANGED <<settings, asked, pwm_toggle, playing, pwm_current_channel, pwm_timer_down, high, patient>>
  BY DEF Shape
<1>2. Scalars /\ Tables /\ Patience
  BY DEF PwmInv
<1>3. b \in 0..1 /\ b # pwm_toggle /\ pwm_toggle \in 0..1 /\ playing \in 0..1
  BY <1>2, OtherIs DEF Scalars
<1>4. OtherBuffer(pwm_toggle)' = b /\ table[b] = Filled(asked[b])
  BY <1>1, <1>2 DEF OtherBuffer, Tables
<1> HIDE DEF b
<1>5. /\ table'[b] = Shaped(Filled(asked[b]))
      /\ \A c \in 0..1 : c # b => table'[c] = table[c]
      /\ DOMAIN table' = 0..1
  BY <1>1, <1>2, <1>3, <1>4 DEF Scalars
<1>6. Scalars'
  BY <1>1, <1>2, <1>5 DEF Scalars
<1>7. Tables'
  BY <1>1, <1>2, <1>3, <1>4, <1>5 DEF Tables, Built
<1>8. Patience'
  <2> SUFFICES ASSUME patient PROVE Patience'
    BY <1>1 DEF Patience
  <2>1. playing = pwm_toggle
    BY <1>1, <1>2 DEF Patience
  <2>2. table'[playing] = table[playing]
    BY <1>3, <1>5, <2>1
  <2> QED
    BY <1>1, <1>2, <2>1, <2>2 DEF Patience
<1> QED
  BY <1>1, <1>6, <1>7, <1>8, SettingsKept DEF PwmInv

\* An entry that is played leaves the pins where it wants them.
LEMMA OutputStill ==
  ASSUME high \subseteq Pins, NEW entry \in Entries, GpioOutputSet(entry)
  PROVE  high' \subseteq Pins /\ Still(entry, high')
BY DEF GpioOutputSet, Still, Entries

LEMMA BeginPwmInv == ASSUME PwmInv, StartTimer PROVE PwmInv'
<1> DEFINE b == OtherBuffer(pwm_toggle)
<1>1. /\ pc = "begin" /\ pc' = "flip"
      /\ UNCHANGED <<settings, table, asked, pwm_toggle, pwm_current_channel, patient>>
  BY DEF StartTimer
<1>2. Scalars /\ Tables /\ Patience
  BY DEF PwmInv
<1>3. b \in 0..1 /\ b # pwm_toggle /\ pwm_toggle \in 0..1 /\ playing \in 0..1
  BY <1>2, OtherIs DEF Scalars
<1>4. OtherBuffer(pwm_toggle)' = b /\ Built(b)
  BY <1>1, <1>2 DEF OtherBuffer, Tables
<1>5. Tables'
  BY <1>1, <1>2, <1>4 DEF Tables, Built
<1>6. CASE ~pwm_timer_down
  <2>1. UNCHANGED <<playing, high, pwm_timer_down>>
    BY <1>6 DEF StartTimer
  <2>2. Scalars' /\ Patience'
    BY <1>1, <1>2, <1>6, <2>1 DEF Scalars, Patience
  <2> QED
    BY <1>1, <1>5, <2>2, SettingsKept DEF PwmInv
<1>7. CASE pwm_timer_down
  <2>1. playing' = b /\ GpioOutputSet(table[b][1]) /\ pwm_timer_down' = (Len(table[b]) = 1)
    BY <1>7 DEF StartTimer
  <2> HIDE DEF b
  <2>2. table[b] \in Seq(Entries) /\ Len(table[b]) \in 1..(PWM_CHANNEL + 1)
    BY <1>2, <1>3, <1>4, ShapedIs DEF Built, Scalars
  <2>3. table[b][1] \in Entries
    BY <2>2
  <2>4. high' \subseteq Pins /\ Still(table[b][1], high')
    BY <1>2, <2>1, <2>3, OutputStill DEF Scalars
  <2>5. Scalars'
    BY <1>1, <1>2, <1>3, <2>1, <2>4 DEF Scalars
  <2>6. Patience'
    BY <1>1, <1>3, <2>1, <2>4 DEF Patience
  <2> QED
    BY <1>1, <1>5, <2>5, <2>6, SettingsKept DEF PwmInv
<1> QED
  BY <1>6, <1>7

LEMMA FlipPwmInv == ASSUME PwmInv, Flip PROVE PwmInv'
<1> DEFINE b == OtherBuffer(pwm_toggle)
           old == pwm_toggle
<1>1. /\ pc = "flip" /\ pc' = "idle" /\ pwm_toggle' = b
      /\ table' = [table EXCEPT ![old] = IF playing # old THEN <<>> ELSE table[old]]
      /\ asked' = [asked EXCEPT ![old] = IF playing # old THEN NoChannels ELSE asked[old]]
      /\ UNCHANGED <<settings, playing, pwm_current_channel, pwm_timer_down, high, patient>>
  BY DEF Flip, ForgetIf
<1>2. Scalars /\ Tables /\ Patience
  BY DEF PwmInv
<1>3. /\ b \in 0..1 /\ b # old /\ old \in 0..1 /\ playing \in 0..1 /\ (playing = old \/ playing = b)
      /\ Built(b) /\ Built(old)
  BY <1>1, <1>2, OtherIs DEF Scalars, Tables
<1> HIDE DEF b, old
<1>4. /\ table'[b] = table[b] /\ asked'[b] = asked[b]
      /\ playing = old => table'[old] = table[old] /\ asked'[old] = asked[old]
      /\ asked'[old] \in {asked[old], NoChannels}
      /\ DOMAIN table' = 0..1 /\ DOMAIN asked' = 0..1
  BY <1>1, <1>2, <1>3 DEF Scalars
<1>5. table'[playing] = table[playing] /\ asked'[playing] = asked[playing]
  BY <1>3, <1>4
<1>6. Scalars'
  <2>1. \A c \in 0..1 : c = b \/ c = old
    BY <1>3
  <2>2. \A c \in 0..1 : Request(asked'[c])
    BY <1>2, <1>3, <1>4, <2>1, NoChannelsRequest DEF Scalars
  <2> QED
    BY <1>1, <1>2, <1>3, <1>4, <2>2 DEF Scalars
<1>7. Tables'
  BY <1>1, <1>3, <1>4, <1>5 DEF Tables, Built
<1>8. Patience'
  BY <1>1, <1>2, <1>3, <1>5 DEF Patience, old
<1> QED
  BY <1>1, <1>6, <1>7, <1>8, SettingsKept DEF PwmInv

LEMMA EdgePwmInv == ASSUME PwmInv, Edge PROVE PwmInv'
<1> DEFINE s == table[playing]
           k == pwm_current_channel + 1
<1>1. /\ ~pwm_timer_down /\ ~(pwm_current_channel >= Len(s) - 1)
      /\ GpioOutputSet(s[k]) /\ pwm_current_channel' = k
      /\ UNCHANGED <<settings, table, asked, pwm_toggle, playing, pwm_timer_down, pc, patient>>
  BY DEF Edge, AtLast
<1>2. Scalars /\ Tables /\ Patience
  BY DEF PwmInv
<1>3. s \in Seq(Entries) /\ Len(s) \in 1..(PWM_CHANNEL + 1)
  BY TablePlayed
<1>4. pwm_current_channel \in 0..PWM_CHANNEL /\ PWM_CHANNEL \in Nat /\ high \subseteq Pins
  BY <1>2, PwmAssumption DEF Scalars
<1>5. k \in 1..Len(s) /\ k \in 0..PWM_CHANNEL
  <2> HIDE DEF s
  <2> QED
    BY <1>1, <1>3, <1>4
<1>6. s[k] \in Entries
  <2> HIDE DEF s, k
  <2> QED
    BY <1>3, <1>5
<1>7. high' \subseteq Pins
  BY <1>1, <1>4, <1>6, OutputStill
<1>8. Scalars'
  BY <1>1, <1>2, <1>5, <1>7 DEF Scalars
<1>9. Tables'
  BY <1>1, <1>2 DEF Tables, Built, OtherBuffer
<1>10. Patience'
  BY <1>1, <1>2 DEF Patience
<1> QED
  BY <1>1, <1>8, <1>9, <1>10, SettingsKept DEF PwmInv

LEMMA PeriodEndPwmInv == ASSUME PwmInv, PeriodEnd PROVE PwmInv'
<1> DEFINE b == OtherBuffer(pwm_toggle)
           t == pwm_toggle
<1>1. /\ ~pwm_timer_down /\ ~(patient /\ pc = "flip" /\ playing # t)
      /\ playing' = t /\ GpioOutputSet(Last(table[t])) /\ pwm_current_channel' = 0
      /\ pwm_timer_down' = (Len(table[t]) = 1)
      /\ table' = [table EXCEPT ![b] = IF pc = "idle" THEN <<>> ELSE table[b]]
      /\ asked' = [asked EXCEPT ![b] = IF pc = "idle" THEN NoChannels ELSE asked[b]]
      /\ UNCHANGED <<settings, pwm_toggle, pc, patient>>
  BY DEF PeriodEnd, ForgetIf
<1>2. Scalars /\ Tables /\ Patience
  BY DEF PwmInv
<1>3. b \in 0..1 /\ b # t /\ t \in 0..1 /\ playing \in 0..1 /\ Built(t)
  BY <1>2, OtherIs DEF Scalars, Tables
<1>4. OtherBuffer(pwm_toggle)' = b
  BY <1>1 DEF OtherBuffer
<1>5. table[t] \in Seq(Entries) /\ Len(table[t]) \in 1..(PWM_CHANNEL + 1)
  BY TablePlayed
<1>6. /\ pc = "shape" => table[b] = Filled(asked[b])
      /\ pc \in {"begin", "flip"} => Built(b)
  BY <1>2 DEF Tables
<1> HIDE DEF b
<1>7. /\ table'[t] = table[t] /\ asked'[t] = asked[t]
      /\ pc # "idle" => table'[b] = table[b] /\ asked'[b] = asked[b]
      /\ asked'[b] \in {asked[b], NoChannels}
      /\ DOMAIN table' = 0..1 /\ DOMAIN asked' = 0..1
  BY <1>1, <1>2, <1>3 DEF Scalars
<1>8. Last(table[t]) \in Entries
  BY <1>5 DEF Last
<1>9. high' \subseteq Pins /\ Still(Last(table[t]), high')
  BY <1>1, <1>2, <1>8, OutputStill DEF Scalars
<1>10. Scalars'
  <2>1. \A c \in 0..1 : c = b \/ c = t
    BY <1>3
  <2>2. \A c \in 0..1 : Request(asked'[c])
    BY <1>2, <1>3, <1>7, <2>1, NoChannelsRequest DEF Scalars
  <2>3. 0 \in 0..PWM_CHANNEL
    BY PwmAssumption
  <2> QED
    BY <1>1, <1>2, <1>3, <1>7, <1>9, <2>2, <2>3 DEF Scalars
<1>11. Tables'
  BY <1>1, <1>3, <1>4, <1>6, <1>7 DEF Tables, Built
<1>12. Patience'
  <2>1. Len(table[t]) = 1 => Last(table[t]) = table[t][1]
    BY DEF Last
  <2>2. patient /\ pc = "flip" => Len(table[t]) # 1
    BY <1>1, <1>2 DEF Patience
  <2> QED
    BY <1>1, <1>7, <1>9, <2>1, <2>2 DEF Patience
<1> QED
  BY <1>1, <1>10, <1>11, <1>12, SettingsKept DEF PwmInv

LEMMA NextPwmInv == ASSUME PwmInv, [PwmNext]_pwmVars PROVE PwmInv'
<1>1. Request(Current)
  BY DEF PwmInv
<1>2. ASSUME NEW p \in Pins, PwmAdd(p) PROVE PwmInv'
  <2>1. TableUnchanged
    BY <1>2 DEF PwmAdd
  <2> QED
    BY <1>1, <1>2, <2>1, AddRequest, RestKept
<1>3. ASSUME NEW p \in Pins, PwmDelete(p) PROVE PwmInv'
  <2>1. TableUnchanged
    BY <1>3 DEF PwmDelete
  <2> QED
    BY <1>1, <1>3, <2>1, DeleteRequest, RestKept
<1>4. ASSUME NEW p \in Pins, NEW d \in Duties, PwmSetDuty(d, p) PROVE PwmInv'
  <2>1. TableUnchanged
    BY <1>4 DEF PwmSetDuty
  <2> QED
    BY <1>1, <1>4, <2>1, SetRequest, RestKept
<1>5. ASSUME NEW f \in Freqs, PwmSetFreq(f) PROVE PwmInv'
  <2>1. TableUnchanged
    BY <1>5 DEF PwmSetFreq
  <2> QED
    BY <1>1, <1>5, <2>1, FreqRequest, RestKept
<1>6. CASE UNCHANGED pwmVars
  <2>1. TableUnchanged /\ UNCHANGED settings
    BY <1>6 DEF pwmVars, TableUnchanged, settings
  <2> QED
    BY <2>1, SettingsKept, RestKept
<1> QED
  BY <1>2, <1>3, <1>4, <1>5, <1>6, FillPwmInv, ShapePwmInv, BeginPwmInv, FlipPwmInv, EdgePwmInv,
     PeriodEndPwmInv DEF PwmNext

\* pwm_start, pwm_tim1_intr_handler: whoever calls pwm_start when, the settings and the
\* tables that are played keep their form, and the interrupt stays inside its table.
LEMMA PwmInvTypes == ASSUME PwmInv PROVE PwmTypeOK
<1>1. /\ \A b \in 0..1 : Request(asked[b]) /\ pwm_toggle \in 0..1 /\ playing \in 0..1
      /\ pwm_current_channel \in 0..PWM_CHANNEL /\ high \subseteq Pins /\ Request(Current)
  BY DEF PwmInv, Scalars
<1> DEFINE n == Len(pwm_out_io_num)
<1>2. /\ n \in Nat /\ DOMAIN pwm_out_io_num = 1..n /\ pwm_out_io_num \in [1..n -> Pins]
      /\ \A i, j \in 1..n : pwm_out_io_num[i] = pwm_out_io_num[j] => i = j
      /\ duty \in [1..n -> 0..PWM_DEPTH] /\ Len(duty) = n
  BY <1>1, CurrentIs, LenProperties
<1> HIDE DEF n
<1>3. ToSet(pwm_out_io_num) \subseteq Pins /\ ToSet(duty) \subseteq 0..PWM_DEPTH
  BY <1>2 DEF ToSet
<1>4. Cardinality(ToSet(pwm_out_io_num)) = n
  <2>1. pwm_out_io_num \in Surjection(1..n, ToSet(pwm_out_io_num))
    BY <1>2 DEF Surjection, ToSet
  <2>2. pwm_out_io_num \in Injection(1..n, ToSet(pwm_out_io_num))
    BY <1>2, <2>1 DEF Surjection, Injection, IsInjective
  <2>3. IsFiniteSet(1..n) /\ Cardinality(1..n) = n
    BY <1>2, FS_Interval
  <2>4. pwm_out_io_num \in Bijection(1..n, ToSet(pwm_out_io_num))
    BY <2>1, <2>2 DEF Bijection
  <2>5. ExistsBijection(1..n, ToSet(pwm_out_io_num))
    BY <2>4 DEF ExistsBijection
  <2> QED
    BY <2>3, <2>5, FS_Bijection
<1>5. Len(table[playing]) \in 1..(PWM_CHANNEL + 1)
  BY TablePlayed
<1> QED
  BY <1>1, <1>2, <1>3, <1>4, <1>5 DEF PwmTypeOK, n

THEOREM PwmTypeCorrect == PwmSpec => []PwmTypeOK
<1>1. PwmInit => PwmInv
  BY InitPwmInv
<1>2. PwmInv /\ [PwmNext]_pwmVars => PwmInv'
  BY NextPwmInv
<1>3. PwmInv => PwmTypeOK
  BY PwmInvTypes
<1> QED
  BY <1>1, <1>2, <1>3, PTL DEF PwmSpec

\* pwm_start: callers who let a table be adopted before they build the next one get, for
\* any number of channels and any duties and frequencies, every channel its share of
\* every period, whenever the interrupt comes.
THEOREM PlaysWhatWasAsked == PwmSpec => []PlaysAsAsked
<1>1. PwmInit => PwmInv
  BY InitPwmInv
<1>2. PwmInv /\ [PwmNext]_pwmVars => PwmInv'
  BY NextPwmInv
<1>3. PwmInv => PlaysAsAsked
  BY PwmInvPlays
<1> QED
  BY <1>1, <1>2, <1>3, PTL DEF PwmSpec

=============================================================================
