--------------------------- MODULE EdpStreamProofs ---------------------------
(***************************************************************************)
(* That every buffer of the EDP codec holds bytes, and no more of them     *)
(* than it has room for: whatever the device packs, and however TCP cuts   *)
(* what the cloud sends.                                                   *)
(***************************************************************************)
EXTENDS EdpStream, SequenceTheorems, WellFoundedInduction, NaturalsInduction, TLAPS

Bytes == 0..Base - 1

-----------------------------------------------------------------------------
(* Numbers *)

LEMMA LeastNumber ==
  ASSUME NEW S \in SUBSET Nat, S # {}
  PROVE  \E m \in S : \A n \in S : m <= n
<1> DEFINE Less == OpToRel(<, Nat)
<1>1. PICK m \in S : \A n \in S : <<n, m>> \notin Less
  BY NatLessThanWellFounded, WFMin, Zenon
<1>2. Less = {p \in Nat \X Nat : p[1] < p[2]}
  BY Zenon DEF OpToRel
<1> HIDE DEF Less
<1>3. \A n \in S : ~(n < m)
  BY <1>1, <1>2
<1> QED
  BY <1>3

\* A set of numbers that has 0, and n + 1 whenever it has n, has all.
LEMMA AllNumbers ==
  ASSUME NEW S \in SUBSET Nat, 0 \in S, \A n \in S : n + 1 \in S
  PROVE  S = Nat
<1> SUFFICES ASSUME Nat \ S # {} PROVE FALSE
  OBVIOUS
<1>1. PICK m \in Nat \ S : \A n \in Nat \ S : m <= n
  BY LeastNumber
<1>2. m # 0 /\ m - 1 \in Nat /\ m - 1 \in S
  BY <1>1
<1> QED
  BY <1>1, <1>2

LEMMA LeastIs ==
  ASSUME NEW S \in SUBSET Nat, S # {}
  PROVE  Least(S) \in S /\ \A n \in S : Least(S) <= n
BY LeastNumber DEF Least

LEMMA Quotient ==
  ASSUME NEW n \in Nat, NEW d \in Nat \ {0}
  PROVE  n \div d \in Nat /\ n % d \in 0..d - 1
OBVIOUS

\* Below the modulus, and in the round after.
LEMMA NoWrap ==
  ASSUME NEW w \in Nat \ {0}, NEW x \in 0..w - 1
  PROVE  x % w = x /\ (x + w) % w = x
<1>1. ASSUME NEW y \in Nat, NEW r \in 0..1, y - r * w \in 0..w - 1 PROVE y % w = y - r * w
  <2> DEFINE q == y \div w
             z == y % w
  <2>1. q \in Nat /\ z \in 0..w - 1
    BY Quotient
  <2>2. y = w * q + z
    BY DEF q, z
  <2> HIDE DEF q, z
  <2>3. ASSUME q = r PROVE z = y - r * w
    BY <2>1, <2>2, <2>3
  <2>4. ASSUME q < r PROVE z = y - r * w
    <3>1. q = 0 /\ r = 1
      BY <2>1, <2>4
    <3> QED
      BY <1>1, <2>1, <2>2, <3>1
  <2>5. ASSUME q > r PROVE z = y - r * w
    <3>1. q - r - 1 \in Nat
      BY <2>1, <2>5
    <3>2. w * (q - r - 1) \in Nat
      BY <3>1
    <3>3. w * q = w * (q - r - 1) + w * r + w
      BY <2>1
    <3>4. w * r = r * w
      OBVIOUS
    <3> QED
      BY <1>1, <2>1, <2>2, <3>2, <3>3, <3>4
  <2>6. z = y - r * w
    BY <2>1, <2>3, <2>4, <2>5
  <2> QED
    BY <2>6 DEF z
<1>2. x - 0 * w \in 0..w - 1 /\ (x + w) - 1 * w \in 0..w - 1 /\ x \in Nat /\ x + w \in Nat
  OBVIOUS
<1>3. x % w = x - 0 * w
  BY <1>1, <1>2
<1>4. (x + w) % w = (x + w) - 1 * w
  BY <1>1, <1>2
<1> QED
  BY <1>3, <1>4

LEMMA Division ==
  ASSUME NEW n \in Nat, NEW d \in Nat \ {0}
  PROVE  n = d * (n \div d) + (n % d)
OBVIOUS

LEMMA QuotientBelow ==
  ASSUME NEW n \in Nat, NEW d \in Nat \ {0}, n < d * d
  PROVE  n \div d < d
<1> DEFINE q == n \div d
<1>1. q \in Nat /\ n % d \in Nat
  BY Quotient
<1>2. n = d * q + (n % d)
  BY Division
<1> HIDE DEF q
<1>3. ASSUME q >= d PROVE FALSE
  <2>1. q - d \in Nat /\ d * (q - d) \in Nat
    BY <1>1, <1>3
  <2>2. d * q = d * d + d * (q - d)
    BY <1>1
  <2> QED
    BY <1>1, <1>2, <2>1, <2>2
<1>4. q < d
  BY <1>1, <1>3
<1> QED
  BY <1>4 DEF q

LEMMA Product == ASSUME NEW a \in Nat, NEW b \in Nat PROVE a * b \in Nat /\ (a > 0 /\ b > 0 => a * b > 0)
OBVIOUS

LEMMA Constants ==
  /\ Radix \in Nat /\ Radix >= 8 /\ Base = 2 * Radix /\ Base \in Nat /\ Base >= 16
  /\ BUFFER_SIZE \in Nat /\ BUFFER_SIZE >= 6 /\ Word \in Nat /\ Word > BUFFER_SIZE
BY CodecAssumption DEF Base

LEMMA Remainder == ASSUME NEW x \in Nat PROVE x % Base \in Bytes
<1>1. Base \in Nat \ {0}
  BY Constants
<1> HIDE DEF Base
<1>2. x % Base \in 0..Base - 1
  BY <1>1, Quotient
<1> QED
  BY <1>2 DEF Bytes

LEMMA StringIs ==
  ASSUME NEW s \in Strings \cup {<<>>}
  PROVE  /\ s \in Seq(Bytes) /\ Len(s) \in Nat
         /\ 42 + 5 * Len(s) < Radix * Radix
         /\ MaxPackets > 0 => 2 * (42 + 5 * Len(s)) <= Word
<1>1. s \in Seq(Bytes)
  <2>1. 1..Base - 1 \subseteq Bytes
    BY DEF Bytes
  <2>2. \A t \in Strings : t \in Seq(1..Base - 1)
    BY StreamAssumption
  <2>3. CASE s = <<>>
    BY <2>3, EmptySeq
  <2>4. CASE s \in Strings
    BY <2>1, <2>2, <2>4, SeqMonotonic
  <2> QED
    BY <2>3, <2>4
<1>2. Len(s) \in Nat
  BY <1>1, LenProperties
<1> DEFINE most == 42 + 5 * Len(s)
<1>3. most < Radix * Radix /\ 2 * MaxPackets * most <= Word /\ MaxPackets \in Nat
  BY StreamAssumption DEF LongestWith
<1>4. ASSUME MaxPackets > 0 PROVE 2 * most <= Word
  <2>1. most \in Nat
    BY <1>2
  <2> HIDE DEF most
  <2>2. MaxPackets - 1 \in Nat /\ (MaxPackets - 1) * most \in Nat
    BY <1>3, <1>4, <2>1
  <2>3. 2 * MaxPackets * most = 2 * most + 2 * ((MaxPackets - 1) * most)
    BY <1>3, <2>1
  <2> QED
    BY <1>3, <2>1, <2>2, <2>3, Constants
<1> QED
  BY <1>1, <1>2, <1>3, <1>4

\* The types of messages are bytes.
LEMMA TypesAreBytes ==
  {CONNREQ, CONNRESP, PUSHDATA, CONNCLOSE, SAVEDATA, SAVEACK, CMDREQ, CMDRESP, PINGREQ, PINGRESP} \subseteq Bytes
<1>1. PICK q \in Nat : Radix = 8 * q /\ q > 0
  <2>1. Radix = 8 * (Radix \div 8) + (Radix % 8) /\ Radix \div 8 \in Nat
    BY Constants
  <2> QED
    BY <2>1, CodecAssumption
<1>2. Base \div 16 = q /\ Base = 16 * q
  BY <1>1 DEF Base
<1> QED
  BY <1>1, <1>2 DEF Bytes, TypeByte, CONNREQ, CONNRESP, PUSHDATA, CONNCLOSE, SAVEDATA, SAVEACK, CMDREQ, CMDRESP, PINGREQ, PINGRESP

-----------------------------------------------------------------------------
(* Powers, by induction as the absence of a least exception. *)

Powers(g, b, n) == g = [k \in 0..n |-> IF k = 0 THEN 1 ELSE b * g[k - 1]]

LEMMA PowersExist == ASSUME NEW b, NEW n \in Nat PROVE \E g : Powers(g, b, n)
<1> DEFINE S == {m \in Nat : \E g : Powers(g, b, m)}
<1>1. 0 \in S
  <2>1. Powers([k \in 0..0 |-> 1], b, 0)
    BY DEF Powers
  <2> QED
    BY <2>1
<1>2. ASSUME NEW m \in S PROVE m + 1 \in S
  <2>1. m \in Nat
    OBVIOUS
  <2>2. PICK g : Powers(g, b, m)
    OBVIOUS
  <2> DEFINE h == [k \in 0..(m + 1) |-> IF k = 0 THEN 1 ELSE b * g[k - 1]]
  <2>3. ASSUME NEW k \in 0..m PROVE h[k] = g[k]
    <3>1. k \in 0..(m + 1)
      BY <2>1
    <3>2. g[k] = IF k = 0 THEN 1 ELSE b * g[k - 1]
      BY <2>2 DEF Powers
    <3> QED
      BY <3>1, <3>2
  <2>4. ASSUME NEW k \in 0..(m + 1), k # 0 PROVE h[k - 1] = g[k - 1]
    <3>1. k - 1 \in 0..m
      BY <2>1, <2>4
    <3> QED
      BY <2>3, <3>1
  <2>5. h = [k \in 0..(m + 1) |-> IF k = 0 THEN 1 ELSE b * h[k - 1]]
    <3> HIDE DEF h
    <3>1. h = [k \in 0..(m + 1) |-> IF k = 0 THEN 1 ELSE b * g[k - 1]]
      BY DEF h
    <3> QED
      BY <2>4, <3>1
  <2> HIDE DEF h
  <2>6. Powers(h, b, m + 1)
    BY <2>5 DEF Powers
  <2> QED
    BY <2>1, <2>6
<1> HIDE DEF S
<1>3. S = Nat
  <2>1. S \in SUBSET Nat
    BY DEF S
  <2> QED
    BY <1>1, <1>2, <2>1, AllNumbers
<1> QED
  BY <1>3 DEF S

LEMMA PowersPositive ==
  ASSUME NEW b \in Nat \ {0}, NEW n \in 3..5, NEW g, Powers(g, b, n)
  PROVE  \A k \in 0..n : g[k] \in Nat \ {0}
<1>1. \A k \in 0..n : g[k] = IF k = 0 THEN 1 ELSE b * g[k - 1]
  BY DEF Powers
<1>2. ASSUME NEW k \in 1..n, g[k - 1] \in Nat \ {0} PROVE g[k] \in Nat \ {0}
  <2>1. g[k] = b * g[k - 1]
    BY <1>1
  <2> QED
    BY <1>2, <2>1
<1>3. g[0] \in Nat \ {0}
  BY <1>1
<1>4. g[1] \in Nat \ {0}
  BY <1>2, <1>3
<1>5. g[2] \in Nat \ {0}
  BY <1>2, <1>4
<1>6. g[3] \in Nat \ {0}
  BY <1>2, <1>5
<1>7. n >= 4 => g[4] \in Nat \ {0}
  BY <1>2, <1>6
<1>8. n >= 5 => g[5] \in Nat \ {0}
  BY <1>2, <1>7
<1> QED
  BY <1>3, <1>4, <1>5, <1>6, <1>7, <1>8

LEMMA PowerTyped == \A k \in 0..5 : Power[k] \in Nat \ {0}
<1>1. PICK g : Powers(g, Radix, 5)
  BY PowersExist
<1> DEFINE Is(f) == f = [k \in 0..5 |-> IF k = 0 THEN 1 ELSE Radix * f[k - 1]]
<1>2. Power = CHOOSE f : Is(f)
  BY DEF Power
<1>3. Is(g)
  BY <1>1 DEF Powers
<1>4. Is(Power)
  <2> HIDE DEF Is
  <2> QED
    BY <1>2, <1>3
<1>5. Powers(Power, Radix, 5)
  BY <1>4 DEF Powers
<1> QED
  BY <1>5, PowersPositive, Constants

LEMMA BasePowerTyped == \A k \in 0..3 : BasePower[k] \in Nat \ {0}
<1>1. PICK g : Powers(g, Base, 3)
  BY PowersExist
<1> DEFINE Is(f) == f = [k \in 0..3 |-> IF k = 0 THEN 1 ELSE Base * f[k - 1]]
<1>2. BasePower = CHOOSE f : Is(f)
  BY DEF BasePower
<1>3. Is(g)
  BY <1>1 DEF Powers
<1>4. Is(BasePower)
  <2> HIDE DEF Is
  <2> QED
    BY <1>2, <1>3
<1>5. Powers(BasePower, Base, 3)
  BY <1>4 DEF Powers
<1> QED
  BY <1>5, PowersPositive, Constants

-----------------------------------------------------------------------------
(* Buffers *)

Buffers == [data : Seq(Bytes), read : Nat, capacity : BUFFER_SIZE..Word - 1]
Sound(b) == b \in Buffers /\ Len(b.data) <= b.capacity

LEMMA NewIsSound == Sound(NewBuffer) /\ NewBuffer.data = <<>> /\ NewBuffer.capacity = BUFFER_SIZE
BY Constants DEF Sound, Buffers, NewBuffer

Doubled(g, cap) == g = [k \in 0..32 |-> IF k = 0 THEN cap ELSE (2 * g[k - 1]) % Word]

LEMMA DoubledExists == ASSUME NEW cap PROVE \E g : Doubled(g, cap)
<1> DEFINE Upto(g, n) == g = [k \in 0..n |-> IF k = 0 THEN cap ELSE (2 * g[k - 1]) % Word]
           S == {m \in Nat : \E g : Upto(g, m)}
<1>1. 0 \in S
  <2>1. Upto([k \in 0..0 |-> cap], 0)
    OBVIOUS
  <2> QED
    BY <2>1
<1>2. ASSUME NEW m \in S PROVE m + 1 \in S
  <2>1. m \in Nat
    OBVIOUS
  <2>2. PICK g : Upto(g, m)
    OBVIOUS
  <2> DEFINE h == [k \in 0..(m + 1) |-> IF k = 0 THEN cap ELSE (2 * g[k - 1]) % Word]
  <2>3. ASSUME NEW k \in 0..m PROVE h[k] = g[k]
    <3>1. k \in 0..(m + 1)
      BY <2>1
    <3>2. g[k] = IF k = 0 THEN cap ELSE (2 * g[k - 1]) % Word
      BY <2>2
    <3> QED
      BY <3>1, <3>2
  <2>4. ASSUME NEW k \in 0..(m + 1), k # 0 PROVE h[k - 1] = g[k - 1]
    <3>1. k - 1 \in 0..m
      BY <2>1, <2>4
    <3> QED
      BY <2>3, <3>1
  <2>5. Upto(h, m + 1)
    <3> HIDE DEF h
    <3>1. h = [k \in 0..(m + 1) |-> IF k = 0 THEN cap ELSE (2 * g[k - 1]) % Word]
      BY DEF h
    <3> QED
      BY <2>4, <3>1
  <2> HIDE DEF h, Upto
  <2> QED
    BY <2>1, <2>5
<1>3. S = Nat
  <2> HIDE DEF Upto
  <2>1. S \in SUBSET Nat
    OBVIOUS
  <2> HIDE DEF S
  <2> QED
    BY <1>1, <1>2, <2>1, AllNumbers
<1>4. \E g : Upto(g, 32)
  <2> HIDE DEF Upto
  <2> QED
    BY <1>3
<1> QED
  BY <1>4 DEF Doubled

LEMMA DoublingsIs ==
  ASSUME NEW cap
  PROVE  /\ Doublings(cap)[0] = cap
         /\ \A k \in 1..32 : Doublings(cap)[k] = (2 * Doublings(cap)[k - 1]) % Word
<1>1. PICK g : Doubled(g, cap)
  BY DoubledExists
<1> DEFINE Is(f) == f = [k \in 0..32 |-> IF k = 0 THEN cap ELSE (2 * f[k - 1]) % Word]
           d == CHOOSE f : Is(f)
<1>2. Doublings(cap) = d
  BY DEF Doublings
<1>3. Is(g)
  BY <1>1 DEF Doubled
<1>4. Is(d)
  <2> HIDE DEF Is
  <2> QED
    BY <1>3
<1> HIDE DEF d
<1>5. \A k \in 0..32 : d[k] = IF k = 0 THEN cap ELSE (2 * d[k - 1]) % Word
  BY <1>4
<1> QED
  BY <1>2, <1>5

\* If what is to be in the buffer fits into half of the addresses, the first doubling that
\* seems to be enough has not wrapped around, and is enough.
LEMMA DoublingsGrow ==
  ASSUME NEW b, Sound(b), NEW len \in Nat, 2 * (Len(b.data) + len) <= Word,
         NEW k \in 0..32, \A j \in 0..k - 1 : j \notin Enough(b, len)
  PROVE  Doublings(b.capacity)[k] \in b.capacity..Word - 1
<1> DEFINE d == Doublings(b.capacity)
<1>1. /\ b.capacity \in Nat /\ Len(b.data) \in Nat /\ Len(b.data) <= b.capacity
      /\ b.capacity < Word /\ Word \in Nat
  BY Constants DEF Sound, Buffers
<1>2. d[0] = b.capacity
  BY DoublingsIs
<1> DEFINE Next_(j) == d[j] = (2 * d[j - 1]) % Word
<1>9. \A j \in 1..32 : Next_(j)
  BY DoublingsIs
<1>3. \A j \in 0..k - 1 : ~((d[j] + Word - Len(b.data)) % Word >= len)
  BY DEF Enough
<1> HIDE DEF d, Next_
<1> DEFINE S == {m \in Nat : m <= k => d[m] \in b.capacity..Word - 1}
<1>4. 0 \in S
  BY <1>1, <1>2
<1>5. ASSUME NEW m \in S PROVE m + 1 \in S
  <2> SUFFICES ASSUME m + 1 <= k PROVE d[m + 1] \in b.capacity..Word - 1
    OBVIOUS
  <2>1. m \in 0..k - 1 /\ m + 1 \in 1..32 /\ d[m] \in b.capacity..Word - 1
    OBVIOUS
  <2> DEFINE x == d[m] - Len(b.data)
  <2>2. x \in Nat /\ x < Word
    BY <1>1, <2>1
  <2>3. (d[m] + Word - Len(b.data)) % Word = x
    <3>1. d[m] + Word - Len(b.data) = x + Word
      BY <1>1, <2>1
    <3>2. (x + Word) % Word = x
      BY <1>1, <2>2, NoWrap
    <3> QED
      BY <3>1, <3>2
  <2>4. x < len
    BY <1>3, <2>1, <2>2, <2>3
  <2>5. 2 * d[m] < Word
    BY <1>1, <2>1, <2>4
  <2>6. d[m + 1] = (2 * d[m]) % Word
    <3>1. Next_(m + 1)
      BY <1>9, <2>1
    <3>2. (m + 1) - 1 = m
      BY <2>1
    <3> QED
      BY <3>1, <3>2 DEF Next_
  <2>7. (2 * d[m]) % Word = 2 * d[m]
    <3>1. 2 * d[m] \in 0..Word - 1 /\ Word \in Nat \ {0}
      BY <1>1, <2>1, <2>5
    <3> QED
      BY <3>1, NoWrap
  <2>8. 2 * d[m] \in b.capacity..Word - 1
    BY <1>1, <2>1, <2>5
  <2> QED
    BY <2>6, <2>7, <2>8
<1>6. S = Nat
  <2>1. S \in SUBSET Nat
    OBVIOUS
  <2> HIDE DEF S
  <2> QED
    BY <1>4, <1>5, <2>1, AllNumbers
<1>7. k \in S
  BY <1>6, k \in Nat
<1>8. d[k] \in b.capacity..Word - 1
  BY <1>7
<1> QED
  BY <1>8 DEF d

LEMMA EnoughIs == ASSUME NEW b, NEW len PROVE Enough(b, len) \in SUBSET Nat
<1>1. Enough(b, len) \subseteq 0..32
  BY Zenon DEF Enough
<1> QED
  BY <1>1

\* CheckCapacity makes room.
LEMMA CheckCapacityMakesRoom ==
  ASSUME NEW b, Sound(b), NEW len \in Nat, 2 * (Len(b.data) + len) <= Word, CheckCapacity(b, len).ok
  PROVE  LET grown == CheckCapacity(b, len).buf
         IN Sound(grown) /\ grown.data = b.data /\ Len(b.data) + len <= grown.capacity
<1> DEFINE k == Least(Enough(b, len))
           cap == Doublings(b.capacity)[k]
           new == IF cap > b.capacity THEN cap ELSE b.capacity
<1>1. Enough(b, len) # {}
  BY DEF CheckCapacity
<1>2. k \in Enough(b, len) /\ \A j \in Enough(b, len) : k <= j
  <2>1. Enough(b, len) \in SUBSET Nat
    BY EnoughIs
  <2> QED
    BY <1>1, <2>1, LeastIs
<1>3. k \in 0..32 /\ (cap + Word - Len(b.data)) % Word >= len
  BY <1>2 DEF Enough
<1>4. \A j \in 0..k - 1 : j \notin Enough(b, len)
  <2> HIDE DEF k
  <2> QED
    BY <1>2, <1>3
<1>5. cap \in b.capacity..Word - 1
  BY <1>3, <1>4, DoublingsGrow
<1>6. CheckCapacity(b, len).buf = [b EXCEPT !.capacity = new]
  BY <1>1 DEF CheckCapacity
<1> HIDE DEF k, cap
<1>7. /\ b.capacity \in Nat /\ b.capacity >= BUFFER_SIZE /\ Len(b.data) \in Nat /\ Len(b.data) <= b.capacity
      /\ b.capacity < Word /\ Word \in Nat /\ BUFFER_SIZE \in Nat
  BY Constants DEF Sound, Buffers
<1>8. new = cap /\ cap - Len(b.data) >= len
  <2> DEFINE x == cap - Len(b.data)
  <2>1. x \in Nat /\ x < Word /\ cap + Word - Len(b.data) = x + Word
    BY <1>5, <1>7
  <2>2. (x + Word) % Word = x
    BY <1>7, <2>1, NoWrap
  <2>3. x >= len
    BY <1>3, <2>1, <2>2
  <2> QED
    BY <1>5, <1>7, <2>3
<1>9. new \in BUFFER_SIZE..Word - 1 /\ Len(b.data) + len <= new
  BY <1>5, <1>7, <1>8
<1> HIDE DEF new
<1> QED
  BY <1>6, <1>7, <1>9 DEF Sound, Buffers

LEMMA WriteBytesSound ==
  ASSUME NEW b, Sound(b), NEW bytes \in Seq(Bytes), 2 * (Len(b.data) + Len(bytes)) <= Word
  PROVE  LET w == WriteBytes(b, bytes)
         IN Sound(w) /\ Len(w.data) <= Len(b.data) + Len(bytes)
<1> DEFINE room == CheckCapacity(b, Len(bytes))
<1>1. Len(bytes) \in Nat /\ Len(b.data) \in Nat /\ b.data \in Seq(Bytes)
  BY DEF Sound, Buffers
<1>2. CASE ~room.ok
  <2>1. WriteBytes(b, bytes) = b
    BY <1>2 DEF WriteBytes
  <2> QED
    BY <1>1, <2>1
<1>3. CASE room.ok
  <2>1. Sound(room.buf) /\ room.buf.data = b.data /\ Len(b.data) + Len(bytes) <= room.buf.capacity
    BY <1>1, <1>3, CheckCapacityMakesRoom
  <2>2. WriteBytes(b, bytes) = [room.buf EXCEPT !.data = b.data \o bytes]
    BY <1>3, <2>1 DEF WriteBytes
  <2> HIDE DEF room
  <2> DEFINE all == b.data \o bytes
  <2>3. all \in Seq(Bytes) /\ Len(all) = Len(b.data) + Len(bytes)
    BY <1>1
  <2>4. [room.buf EXCEPT !.data = b.data \o bytes] = [room.buf EXCEPT !.data = all]
    OBVIOUS
  <2> HIDE DEF all
  <2> DEFINE w == WriteBytes(b, bytes)
  <2>5. w = [room.buf EXCEPT !.data = all]
    BY <2>2, <2>4
  <2> HIDE DEF w
  <2>6. w.data = all /\ w.capacity = room.buf.capacity /\ w \in Buffers
    BY <2>1, <2>3, <2>5 DEF Sound, Buffers
  <2>7. Sound(w) /\ Len(w.data) <= Len(b.data) + Len(bytes)
    BY <1>1, <2>1, <2>3, <2>6 DEF Sound
  <2> QED
    BY <2>7 DEF w
<1> QED
  BY <1>2, <1>3

-----------------------------------------------------------------------------
(* Writing several fields: what the library's fold yields. *)

LEMMA MaxIs ==
  ASSUME NEW n \in Nat, NEW S \in SUBSET (1..n), S # {}
  PROVE  Max(S) \in S /\ \A y \in S : y <= Max(S)
<1> DEFINE T == {n - x : x \in S}
<1>1. T \in SUBSET Nat /\ T # {}
  <2>1. \A x \in S : n - x \in Nat
    OBVIOUS
  <2> QED
    BY <2>1
<1>2. PICK t \in T : \A u \in T : t <= u
  BY <1>1, LeastNumber
<1>3. PICK x \in S : t = n - x
  BY <1>2
<1>4. \A y \in S : n - y \in T
  OBVIOUS
<1>5. \A y \in S : x >= y
  <2> TAKE y \in S
  <2>1. t <= n - y
    BY <1>2, <1>4
  <2> QED
    BY <1>3, <2>1
<1>6. Max(S) \in S /\ \A y \in S : Max(S) >= y
  BY <1>5, Zenon DEF Max
<1> QED
  BY <1>6

LEMMA MaxOfRun ==
  ASSUME NEW m \in Nat
  PROVE  Max(1..(m + 1)) = m + 1 /\ (1..(m + 1)) \ {m + 1} = 1..m
<1>1. 1..(m + 1) \in SUBSET (1..(m + 1)) /\ m + 1 \in 1..(m + 1) /\ m + 1 \in Nat
  OBVIOUS
<1>2. Max(1..(m + 1)) \in 1..(m + 1) /\ m + 1 <= Max(1..(m + 1))
  BY <1>1, MaxIs
<1> QED
  BY <1>2

\* What is left below the greatest element.
LEMMA BelowMax ==
  ASSUME NEW m \in Nat, NEW S \in SUBSET (1..(m + 1)), S # {}
  PROVE  S \ {Max(S)} \in SUBSET (1..m)
<1>1. Max(S) \in S /\ \A y \in S : y <= Max(S)
  BY MaxIs, m + 1 \in Nat
<1>2. ASSUME NEW y \in S, y # Max(S) PROVE y \in 1..m
  <2>1. y \in 1..(m + 1) /\ Max(S) \in 1..(m + 1) /\ y <= Max(S)
    BY <1>1
  <2> QED
    BY <1>2, <2>1
<1> QED
  BY <1>2

Folded(g, base, fs, n) ==
  g = [s \in SUBSET (1..n) |-> IF s = {} THEN base ELSE WriteBytes(g[s \ {Max(s)}], fs[Max(s)])]

LEMMA FoldExists == ASSUME NEW base, NEW fs, NEW n \in Nat PROVE \E g : Folded(g, base, fs, n)
<1> DEFINE S == {m \in Nat : \E g : Folded(g, base, fs, m)}
<1>1. 0 \in S
  <2>1. \A s \in SUBSET (1..0) : s = {}
    OBVIOUS
  <2>2. Folded([s \in SUBSET (1..0) |-> base], base, fs, 0)
    BY <2>1 DEF Folded
  <2> QED
    BY <2>2
<1>2. ASSUME NEW m \in S PROVE m + 1 \in S
  <2>1. m \in Nat /\ SUBSET (1..m) \subseteq SUBSET (1..(m + 1))
    OBVIOUS
  <2>2. PICK g : Folded(g, base, fs, m)
    OBVIOUS
  <2> DEFINE h == [s \in SUBSET (1..(m + 1)) |->
                     IF s = {} THEN base ELSE WriteBytes(g[s \ {Max(s)}], fs[Max(s)])]
  <2>3. ASSUME NEW s \in SUBSET (1..m) PROVE h[s] = g[s]
    <3>1. g[s] = IF s = {} THEN base ELSE WriteBytes(g[s \ {Max(s)}], fs[Max(s)])
      BY <2>2 DEF Folded
    <3> QED
      BY <2>1, <3>1
  <2> HIDE DEF h
  <2>4. ASSUME NEW s \in SUBSET (1..(m + 1)), s # {} PROVE h[s \ {Max(s)}] = g[s \ {Max(s)}]
    BY <2>1, <2>3, <2>4, BelowMax
  <2>5. h = [s \in SUBSET (1..(m + 1)) |->
               IF s = {} THEN base ELSE WriteBytes(h[s \ {Max(s)}], fs[Max(s)])]
    <3>1. h = [s \in SUBSET (1..(m + 1)) |->
                 IF s = {} THEN base ELSE WriteBytes(g[s \ {Max(s)}], fs[Max(s)])]
      BY DEF h
    <3> QED
      BY <2>4, <3>1
  <2>6. Folded(h, base, fs, m + 1)
    BY <2>5 DEF Folded
  <2> QED
    BY <2>1, <2>6
<1> HIDE DEF S
<1>3. S = Nat
  <2>1. S \in SUBSET Nat
    BY DEF S
  <2> QED
    BY <1>1, <1>2, <2>1, AllNumbers
<1> QED
  BY <1>3 DEF S

AllWritten(base, fs) == FoldLeft(WriteBytes, base, fs)

\* g has what is there after each field.
InTurn(g, base, fs, n) ==
  /\ AllWritten(base, fs) = g[1..n]
  /\ g[1..0] = base
  /\ \A m \in 0..(n - 1) : g[1..(m + 1)] = WriteBytes(g[1..m], fs[m + 1])

LEMMA FoldIs ==
  ASSUME NEW base, NEW n \in Nat, NEW fs, DOMAIN fs = 1..n
  PROVE  \E g : InTurn(g, base, fs, n)
<1>1. PICK w : Folded(w, base, fs, n)
  BY FoldExists
<1> DEFINE Is(f) == f = [s \in SUBSET (1..n) |-> IF s = {} THEN base ELSE WriteBytes(f[s \ {Max(s)}], fs[Max(s)])]
           g == CHOOSE f : Is(f)
<1>2. AllWritten(base, fs) = g[1..n]
  BY DEF AllWritten, FoldLeft, MapThenFoldSet
<1>3. Is(w)
  BY <1>1 DEF Folded
<1>4. Is(g)
  <2> HIDE DEF Is
  <2> QED
    BY <1>3
<1> HIDE DEF g
<1>5. \A s \in SUBSET (1..n) : g[s] = IF s = {} THEN base ELSE WriteBytes(g[s \ {Max(s)}], fs[Max(s)])
  BY <1>4
<1> HIDE DEF Is
<1>6. g[1..0] = base
  <2>1. 1..0 = {} /\ {} \in SUBSET (1..n)
    OBVIOUS
  <2>2. g[{}] = base
    BY <1>5, <2>1
  <2> QED
    BY <2>1, <2>2
<1>7. ASSUME NEW m \in 0..(n - 1) PROVE g[1..(m + 1)] = WriteBytes(g[1..m], fs[m + 1])
  <2>1. m \in Nat /\ 1..(m + 1) \in SUBSET (1..n) /\ 1..(m + 1) # {}
    OBVIOUS
  <2> DEFINE s == 1..(m + 1)
  <2>2. g[s] = WriteBytes(g[s \ {Max(s)}], fs[Max(s)])
    <3> HIDE DEF s
    <3>1. s \in SUBSET (1..n) /\ s # {}
      BY <2>1 DEF s
    <3> QED
      BY <1>5, <3>1
  <2>3. Max(s) = m + 1 /\ s \ {m + 1} = 1..m
    BY <2>1, MaxOfRun
  <2> HIDE DEF s
  <2>4. g[s] = WriteBytes(g[1..m], fs[m + 1])
    BY <2>2, <2>3
  <2> QED
    BY <2>4 DEF s
<1> QED
  BY <1>2, <1>6, <1>7 DEF InTurn

\* Up to four fields of at most L bytes behind a header.
LEMMA FieldsSound ==
  ASSUME NEW base, Sound(base), Len(base.data) <= 6,
         NEW fs \in Seq(Seq(Bytes)), Len(fs) <= 4,
         NEW L \in Nat, \A i \in 1..Len(fs) : Len(fs[i]) <= L,
         2 * (6 + 4 * L) <= Word
  PROVE  Sound(AllWritten(base, fs))
<1> DEFINE n == Len(fs)
<1>1. n \in Nat /\ n \in 0..4 /\ DOMAIN fs = 1..n
  <2>1. Len(fs) \in Nat /\ DOMAIN fs = 1..Len(fs)
    BY LenProperties
  <2>2. \A j \in Nat : j <= 4 => j \in 0..4
    OBVIOUS
  <2> QED
    BY <2>1, <2>2
<1>2. PICK g : InTurn(g, base, fs, n)
  <2> HIDE DEF n
  <2> QED
    BY <1>1, FoldIs
<1> DEFINE Ok(m) == Sound(g[1..m]) /\ Len(g[1..m].data) <= 6 + m * L
<1>3. Ok(0)
  BY <1>2 DEF InTurn
<1>4. ASSUME NEW m \in 0..3, m + 1 <= n, Ok(m) PROVE Ok(m + 1)
  <2> DEFINE b == g[1..m]
             f == fs[m + 1]
  <2>1. f \in Seq(Bytes) /\ Len(f) \in Nat /\ Len(f) <= L
    BY <1>4
  <2>2. Sound(b) /\ Len(b.data) \in Nat /\ Len(b.data) <= 6 + m * L
    BY <1>4 DEF Sound, Buffers
  <2>3. g[1..(m + 1)] = WriteBytes(b, f)
    BY <1>2, <1>4 DEF InTurn
  <2> HIDE DEF b, f
  <2>4. (m + 1) * L = m * L + L /\ m * L \in Nat
    OBVIOUS
  <2>5. m * L + L <= 4 * L
    OBVIOUS
  <2>6. 2 * (Len(b.data) + Len(f)) <= Word
    BY <2>1, <2>2, <2>4, <2>5, Constants
  <2> DEFINE w == WriteBytes(b, f)
  <2>7. Sound(w) /\ Len(w.data) <= Len(b.data) + Len(f)
    BY <2>1, <2>2, <2>6, WriteBytesSound
  <2>8. Len(w.data) \in Nat
    BY <2>7 DEF Sound, Buffers
  <2> HIDE DEF w
  <2>9. Len(w.data) <= 6 + (m + 1) * L
    BY <2>1, <2>2, <2>4, <2>7, <2>8
  <2> QED
    BY <2>3, <2>7, <2>9 DEF w
<1> HIDE DEF Ok
<1>5. n >= 1 => Ok(1)
  BY <1>1, <1>3, <1>4, 0 + 1 = 1
<1>6. n >= 2 => Ok(2)
  BY <1>1, <1>5, <1>4, 1 + 1 = 2
<1>7. n >= 3 => Ok(3)
  BY <1>1, <1>6, <1>4, 2 + 1 = 3
<1>8. n >= 4 => Ok(4)
  BY <1>1, <1>7, <1>4, 3 + 1 = 4
<1>9. Ok(n)
  BY <1>1, <1>3, <1>5, <1>6, <1>7, <1>8
<1> QED
  BY <1>2, <1>9 DEF Ok, InTurn

-----------------------------------------------------------------------------
(* Fields put one behind the other: what the library's FlattenSeq yields. *)

Flat(g, fs, n) == g = [i \in 1..n |-> IF i = 1 THEN fs[i] ELSE g[i - 1] \o fs[i]]

LEMMA FlatExists == ASSUME NEW fs, NEW n \in Nat PROVE \E g : Flat(g, fs, n)
<1> DEFINE S == {m \in Nat : \E g : Flat(g, fs, m)}
<1>1. 0 \in S
  <2>1. Flat([i \in 1..0 |-> fs[i]], fs, 0)
    BY DEF Flat
  <2> QED
    BY <2>1
<1>2. ASSUME NEW m \in S PROVE m + 1 \in S
  <2>1. m \in Nat
    OBVIOUS
  <2>2. PICK g : Flat(g, fs, m)
    OBVIOUS
  <2> DEFINE h == [i \in 1..(m + 1) |-> IF i = 1 THEN fs[i] ELSE g[i - 1] \o fs[i]]
  <2>3. ASSUME NEW i \in 1..m PROVE h[i] = g[i]
    <3>1. i \in 1..(m + 1)
      BY <2>1
    <3>2. g[i] = IF i = 1 THEN fs[i] ELSE g[i - 1] \o fs[i]
      BY <2>2 DEF Flat
    <3> QED
      BY <3>1, <3>2
  <2>4. ASSUME NEW i \in 1..(m + 1), i # 1 PROVE h[i - 1] = g[i - 1]
    <3>1. i - 1 \in 1..m
      BY <2>1, <2>4
    <3> QED
      BY <2>3, <3>1
  <2>5. h = [i \in 1..(m + 1) |-> IF i = 1 THEN fs[i] ELSE h[i - 1] \o fs[i]]
    <3> HIDE DEF h
    <3>1. h = [i \in 1..(m + 1) |-> IF i = 1 THEN fs[i] ELSE g[i - 1] \o fs[i]]
      BY DEF h
    <3> QED
      BY <2>4, <3>1
  <2> HIDE DEF h
  <2>6. Flat(h, fs, m + 1)
    BY <2>5 DEF Flat
  <2> QED
    BY <2>1, <2>6
<1> HIDE DEF S
<1>3. S = Nat
  <2>1. S \in SUBSET Nat
    BY DEF S
  <2> QED
    BY <1>1, <1>2, <2>1, AllNumbers
<1> QED
  BY <1>3 DEF S

LEMMA FlattenedBytes ==
  ASSUME NEW fs \in Seq(Seq(Bytes)), Len(fs) <= 5,
         NEW L \in Nat, \A i \in 1..Len(fs) : Len(fs[i]) <= L
  PROVE  FlattenSeq(fs) \in Seq(Bytes) /\ Len(FlattenSeq(fs)) <= 5 * L
<1>0. PICK w : Flat(w, fs, Len(fs))
  <2>1. Len(fs) \in Nat
    BY LenProperties
  <2> QED
    BY <2>1, FlatExists
<1> DEFINE n == Len(fs)
           Is(f) == f = [i \in 1..n |-> IF i = 1 THEN fs[i] ELSE f[i - 1] \o fs[i]]
           g == CHOOSE f : Is(f)
<1>1. n \in 0..5
  <2>1. Len(fs) \in Nat
    BY LenProperties
  <2>2. \A j \in Nat : j <= 5 => j \in 0..5
    OBVIOUS
  <2> QED
    BY <2>1, <2>2
<1>2. CASE n = 0
  <2>1. fs = <<>> /\ FlattenSeq(fs) = fs
    BY <1>2, EmptySeq DEF FlattenSeq
  <2>2. FlattenSeq(fs) = <<>>
    BY <2>1
  <2>3. <<>> \in Seq(Bytes) /\ Len(<<>>) = 0
    OBVIOUS
  <2> QED
    BY <2>2, <2>3
<1>3. CASE n # 0
  <2>1. FlattenSeq(fs) = g[n]
    BY <1>3 DEF FlattenSeq
  <2>2. Is(g)
    <3>2. Is(w)
      BY <1>0 DEF Flat
    <3> HIDE DEF Is
    <3> QED
      BY <3>2
  <2> HIDE DEF g
  <2>3. \A i \in 1..n : g[i] = IF i = 1 THEN fs[i] ELSE g[i - 1] \o fs[i]
    BY <2>2
  <2> HIDE DEF Is
  <2> DEFINE Ok(i) == g[i] \in Seq(Bytes) /\ Len(g[i]) <= i * L
  <2>4. \A i \in 1..n : fs[i] \in Seq(Bytes) /\ Len(fs[i]) \in Nat /\ Len(fs[i]) <= L
    <3>1. \A i \in 1..n : fs[i] \in Seq(Bytes)
      BY ElementOfSeq
    <3> QED
      BY <3>1, LenProperties
  <2> HIDE DEF n
  <2>5. Ok(1)
    <3>1. 1 \in 1..n /\ 1 * L = L
      BY <1>1, <1>3
    <3> QED
      BY <2>3, <2>4, <3>1
  <2>6. ASSUME NEW i \in 1..4, i + 1 <= n, Ok(i) PROVE Ok(i + 1)
    <3>1. i + 1 \in 1..n /\ i + 1 # 1 /\ (i + 1) - 1 = i
      BY <1>1, <2>6
    <3>2. g[i + 1] = g[i] \o fs[i + 1]
      BY <2>3, <3>1
    <3> DEFINE a == g[i]
               c == fs[i + 1]
    <3>3. a \in Seq(Bytes) /\ c \in Seq(Bytes) /\ Len(a) <= i * L /\ Len(c) <= L
      BY <2>4, <2>6, <3>1
    <3> HIDE DEF a, c
    <3>4. a \o c \in Seq(Bytes) /\ Len(a \o c) = Len(a) + Len(c) /\ Len(a) \in Nat /\ Len(c) \in Nat
      BY <3>3
    <3>5. (i + 1) * L = i * L + L
      OBVIOUS
    <3>6. Len(a \o c) <= (i + 1) * L
      BY <3>3, <3>4, <3>5
    <3> QED
      BY <3>2, <3>4, <3>6 DEF a, c
  <2> HIDE DEF Ok
  <2>7. n >= 2 => Ok(2)
    BY <1>1, <2>5, <2>6, 1 + 1 = 2
  <2>8. n >= 3 => Ok(3)
    BY <1>1, <2>7, <2>6, 2 + 1 = 3
  <2>9. n >= 4 => Ok(4)
    BY <1>1, <2>8, <2>6, 3 + 1 = 4
  <2>10. n >= 5 => Ok(5)
    BY <1>1, <2>9, <2>6, 4 + 1 = 5
  <2>11. Ok(n)
    BY <1>1, <1>3, <2>5, <2>7, <2>8, <2>9, <2>10
  <2>12. n * L <= 5 * L
    BY <1>1
  <2>13. g[n] \in Seq(Bytes) /\ Len(g[n]) \in Nat /\ Len(g[n]) <= n * L /\ n * L \in Nat
    BY <1>1, <2>11 DEF Ok
  <2>14. Len(g[n]) <= 5 * L
    BY <2>12, <2>13
  <2> QED
    BY <2>1, <2>13, <2>14
<1> QED
  BY <1>2, <1>3

-----------------------------------------------------------------------------
(* Packets of the cloud *)

LEMMA BigTyped ==
  ASSUME NEW n \in Nat, NEW bytes \in 1..4
  PROVE  Big(n, bytes) \in Seq(Bytes) /\ Len(Big(n, bytes)) = bytes
<1>1. ASSUME NEW k \in 1..bytes PROVE (n \div BasePower[bytes - k]) % Base \in Bytes
  <2>1. BasePower[bytes - k] \in Nat \ {0}
    BY BasePowerTyped
  <2>2. n \div BasePower[bytes - k] \in Nat
    BY <2>1, Quotient
  <2> QED
    BY <2>2, Remainder
<1>2. Big(n, bytes) \in [1..bytes -> Bytes]
  BY <1>1 DEF Big
<1> QED
  BY <1>2

LEMMA FieldTyped ==
  ASSUME NEW width, NEW value \in Seq(Bytes)
  PROVE  Field(width, value) \in Seq(Bytes) /\ Len(Field(width, value)) <= 4 + Len(value)
<1>1. Len(value) \in Nat
  BY LenProperties
<1>2. ASSUME NEW b \in {2, 4}
      PROVE  LET f == Big(Len(value), b) \o value IN f \in Seq(Bytes) /\ Len(f) <= 4 + Len(value)
  <2> DEFINE h == Big(Len(value), b)
  <2>1. h \in Seq(Bytes) /\ Len(h) = b
    <3>1. b \in 1..4
      OBVIOUS
    <3> QED
      BY <1>1, <3>1, BigTyped
  <2> HIDE DEF h
  <2>2. h \o value \in Seq(Bytes) /\ Len(h \o value) = b + Len(value)
    BY <2>1
  <2>3. Len(h \o value) <= 4 + Len(value)
    BY <1>1, <2>2
  <2> QED
    BY <2>2, <2>3 DEF h
<1>3. Len(value) <= 4 + Len(value)
  BY <1>1
<1> QED
  BY <1>2, <1>3 DEF Field, Str2, Data4

\* At most n fields of at most L bytes.
Fields(fields, n, L) ==
  /\ fields \in Seq(Seq(Bytes)) /\ Len(fields) <= n
  /\ \A i \in 1..Len(fields) : Len(fields[i]) <= L

LEMMA JoinTyped ==
  ASSUME NEW type \in Bytes, NEW widths, NEW m \in Strings \cup {<<>>},
         NEW fields, Fields(fields, 5, 1 + Len(m))
  PROVE  LET bytes == Join(type, widths, fields)
         IN bytes \in Seq(Bytes) /\ Len(bytes) > 0 /\ Len(bytes) <= LongestWith(m)
<1> DEFINE fs == [i \in 1..Len(fields) |-> Field(widths[i], fields[i])]
           rest == FlattenSeq(fs)
           L == 5 + Len(m)
<1>1. Len(m) \in Nat /\ LongestWith(m) = 42 + 5 * Len(m)
  BY StringIs DEF LongestWith
<1>15. fields \in Seq(Seq(Bytes)) /\ Len(fields) \in Nat
  BY LenProperties DEF Fields
<1>13. LongestWith(m) < Radix * Radix /\ Radix \in Nat \ {0}
  BY StringIs, Constants DEF LongestWith
<1>2. ASSUME NEW i \in 1..Len(fields)
      PROVE  fs[i] \in Seq(Bytes) /\ Len(fs[i]) <= L
  <2>1. fields[i] \in Seq(Bytes)
    BY <1>15, ElementOfSeq
  <2>2. Len(fields[i]) \in Nat /\ Len(fields[i]) <= 1 + Len(m)
    BY <2>1, LenProperties DEF Fields
  <2> DEFINE f == Field(widths[i], fields[i])
  <2>3. f \in Seq(Bytes) /\ Len(f) <= 4 + Len(fields[i])
    BY <2>1, FieldTyped
  <2>4. Len(f) \in Nat
    BY <2>3, LenProperties
  <2>5. fs[i] = f
    OBVIOUS
  <2> HIDE DEF f, fs
  <2> QED
    BY <1>1, <2>2, <2>3, <2>4, <2>5
<1>3. fs \in Seq(Seq(Bytes)) /\ Len(fs) = Len(fields)
  <2>1. fs = [i \in 1..Len(fields) |-> fs[i]]
    OBVIOUS
  <2> HIDE DEF fs
  <2>2. fs \in [1..Len(fields) -> Seq(Bytes)]
    BY <1>2, <2>1
  <2>3. fs \in Seq(Seq(Bytes)) /\ DOMAIN fs = 1..Len(fields)
    <3> DEFINE k == Len(fields)
    <3>1. k \in Nat /\ fs \in [1..k -> Seq(Bytes)]
      BY <1>15, <2>2
    <3> HIDE DEF k
    <3> QED
      BY <3>1 DEF k
  <2> QED
    BY <1>15, <2>3, LenProperties
<1> HIDE DEF fs
<1>4. rest \in Seq(Bytes) /\ Len(rest) <= 5 * L
  <2>1. L \in Nat
    BY <1>1
  <2> HIDE DEF L
  <2>2. \A i \in 1..Len(fs) : Len(fs[i]) <= L
    BY <1>2, <1>3
  <2>3. Len(fs) <= 5
    BY <1>3 DEF Fields
  <2> QED
    BY <1>3, <2>1, <2>2, <2>3, FlattenedBytes
<1> DEFINE n == Len(rest)
<1>5. n \in Nat /\ n <= 25 + 5 * Len(m)
  <2>1. n \in Nat
    BY <1>4, LenProperties
  <2> HIDE DEF rest
  <2> QED
    BY <1>1, <1>4, <2>1
<1>14. n < Radix * Radix
  BY <1>1, <1>5, <1>13
<1> HIDE DEF rest
<1>6. /\ CloudLength(n) \in Seq(Bytes)
      /\ Len(CloudLength(n)) \in Nat /\ 1 <= Len(CloudLength(n)) /\ Len(CloudLength(n)) <= 2
  <2>1. CASE n < Radix
    <3>1. n \in Bytes
      BY <1>5, <2>1, Constants DEF Bytes
    <3> HIDE DEF n
    <3> QED
      BY <2>1, <3>1 DEF CloudLength
  <2>2. CASE ~(n < Radix)
    <3> HIDE DEF n
    <3> DEFINE q == n \div Radix
               r == n % Radix
    <3>1. q \in Nat /\ r \in 0..Radix - 1
      BY <1>5, <1>13, Quotient
    <3>2. q < Radix
      BY <1>5, <1>13, <1>14, QuotientBelow
    <3> HIDE DEF q, r
    <3>3. Radix + r \in Bytes /\ q \in Bytes
      BY <3>1, <3>2, Constants DEF Bytes
    <3>4. CloudLength(n) = <<Radix + r, q>>
      BY <2>2 DEF CloudLength, q, r
    <3> QED
      BY <3>3, <3>4
  <2> QED
    BY <2>1, <2>2
<1>7. Join(type, widths, fields) = <<type>> \o CloudLength(n) \o rest
  BY DEF Join, rest, fs
<1> DEFINE c == CloudLength(n)
           a == <<type>> \o c
           b == a \o rest
<1>8. <<type>> \in Seq(Bytes) /\ Len(<<type>>) = 1
  OBVIOUS
<1>9. c \in Seq(Bytes) /\ Len(c) \in Nat /\ 1 <= Len(c) /\ Len(c) <= 2
  BY <1>6
<1> HIDE DEF c
<1>10. a \in Seq(Bytes) /\ Len(a) \in Nat /\ 2 <= Len(a) /\ Len(a) <= 3
  <2>1. a \in Seq(Bytes) /\ Len(a) = 1 + Len(c)
    BY <1>8, <1>9, ConcatProperties
  <2> HIDE DEF a
  <2> QED
    BY <1>9, <2>1
<1> HIDE DEF a
<1>11. b \in Seq(Bytes) /\ Len(b) = Len(a) + n
  BY <1>4, <1>10, ConcatProperties
<1>12. Len(b) > 0 /\ Len(b) <= LongestWith(m)
  <2> HIDE DEF b, n
  <2> QED
    BY <1>1, <1>5, <1>10, <1>11
<1> QED
  BY <1>7, <1>11, <1>12 DEF a, c

\* A field of at most one byte more than m has.
Short(v, m) == v \in Seq(Bytes) /\ Len(v) <= 1 + Len(m)

LEMMA ShortStrings ==
  ASSUME NEW m \in Strings \cup {<<>>}, NEW s \in Strings, Len(s) <= Len(m)
  PROVE  Short(s, m)
<1>1. s \in Seq(Bytes) /\ Len(s) \in Nat /\ Len(m) \in Nat
  BY StringIs
<1> QED
  BY <1>1 DEF Short

LEMMA ShortBytes ==
  ASSUME NEW m \in Strings \cup {<<>>}, NEW b \in Bytes
  PROVE  Short(<<b>>, m)
<1>1. Len(m) \in Nat
  BY StringIs
<1> QED
  BY <1>1 DEF Short

LEMMA LongerOfTwo ==
  ASSUME NEW s \in Strings, NEW t \in Strings
  PROVE  \E m \in Strings : Len(s) <= Len(m) /\ Len(t) <= Len(m)
<1>1. Len(s) \in Nat /\ Len(t) \in Nat
  BY StringIs
<1>2. CASE Len(s) <= Len(t)
  BY <1>1, <1>2
<1>3. CASE Len(t) <= Len(s)
  BY <1>1, <1>3
<1> QED
  BY <1>1, <1>2, <1>3

LEMMA FieldsOf ==
  ASSUME NEW m
  PROVE  /\ Fields(<<>>, 5, 1 + Len(m))
         /\ \A a : Short(a, m) => Fields(<<a>>, 5, 1 + Len(m))
         /\ \A a, b : Short(a, m) /\ Short(b, m) => Fields(<<a, b>>, 5, 1 + Len(m))
         /\ \A a, b, c : Short(a, m) /\ Short(b, m) /\ Short(c, m) => Fields(<<a, b, c>>, 5, 1 + Len(m))
         /\ \A a, b, c, d, e :
              Short(a, m) /\ Short(b, m) /\ Short(c, m) /\ Short(d, m) /\ Short(e, m) =>
                Fields(<<a, b, c, d, e>>, 5, 1 + Len(m))
<1> DEFINE L == 1 + Len(m)
<1> HIDE DEF L
<1>1. Fields(<<>>, 5, L)
  BY DEF Fields
<1>2. ASSUME NEW a \in Seq(Bytes), Len(a) <= L PROVE Fields(<<a>>, 5, L)
  BY <1>2 DEF Fields
<1>3. ASSUME NEW a \in Seq(Bytes), Len(a) <= L, NEW b \in Seq(Bytes), Len(b) <= L
      PROVE  Fields(<<a, b>>, 5, L)
  BY <1>3 DEF Fields
<1>4. ASSUME NEW a \in Seq(Bytes), Len(a) <= L, NEW b \in Seq(Bytes), Len(b) <= L,
             NEW c \in Seq(Bytes), Len(c) <= L
      PROVE  Fields(<<a, b, c>>, 5, L)
  BY <1>4 DEF Fields
<1>5. ASSUME NEW a \in Seq(Bytes), Len(a) <= L, NEW b \in Seq(Bytes), Len(b) <= L,
             NEW c \in Seq(Bytes), Len(c) <= L, NEW d \in Seq(Bytes), Len(d) <= L,
             NEW e \in Seq(Bytes), Len(e) <= L
      PROVE  Fields(<<a, b, c, d, e>>, 5, L)
  BY <1>5 DEF Fields
<1> QED
  BY <1>1, <1>2, <1>3, <1>4, <1>5 DEF Short, L

\* Bytes, and no more than the assumption allows for.
CloudPacket(bytes) ==
  /\ bytes \in Seq(Bytes) /\ Len(bytes) > 0
  /\ \E m \in Strings \cup {<<>>} : Len(bytes) <= 42 + 5 * Len(m)

LEMMA FromCloudTyped ==
  ASSUME NEW type \in Bytes, NEW addressed, NEW flag, NEW meant, NEW m \in Strings \cup {<<>>},
         NEW fields, Fields(fields, 5, 1 + Len(m))
  PROVE  CloudPacket(FromCloud(type, addressed, flag, fields, meant).bytes)
<1> DEFINE w == Layout(type, addressed, flag)
<1>1. FromCloud(type, addressed, flag, fields, meant).bytes = Join(type, w, fields)
  BY DEF FromCloud
<1> HIDE DEF w
<1>2. Join(type, w, fields) \in Seq(Bytes) /\ Len(Join(type, w, fields)) > 0
      /\ Len(Join(type, w, fields)) <= LongestWith(m)
  BY JoinTyped
<1> QED
  BY <1>1, <1>2 DEF CloudPacket, LongestWith

LEMMA CloudPacketsTyped == ASSUME NEW p \in CloudPackets PROVE CloudPacket(p.bytes)
<1>1. /\ CONNRESP \in Bytes /\ PUSHDATA \in Bytes /\ CONNCLOSE \in Bytes /\ SAVEDATA \in Bytes
      /\ SAVEACK \in Bytes /\ CMDREQ \in Bytes /\ PINGRESP \in Bytes
  BY TypesAreBytes
<1>2. {0, 1, 2, 3, 4, 5} \subseteq Bytes /\ Radix \in Bytes
  BY Constants DEF Bytes
<1> DEFINE e == <<>>
<1>3. e \in Strings \cup {<<>>}
  OBVIOUS
<1> HIDE DEF e
<1>4. \A b \in {0, 1, 2, 3, 4, 5} \cup {Radix}, m \in Strings \cup {<<>>} : Short(<<b>>, m)
  BY <1>2, ShortBytes
<1>5. CASE p \in {FromCloud(CONNRESP, FALSE, 0, <<<<0>>, <<c>>>>, <<<<c>>>>) : c \in {0, 4}}
  <2>1. PICK c \in {0, 4} : p = FromCloud(CONNRESP, FALSE, 0, <<<<0>>, <<c>>>>, <<<<c>>>>)
    BY <1>5
  <2>2. Short(<<0>>, e) /\ Short(<<c>>, e)
    BY <1>3, <1>4
  <2>3. Fields(<<<<0>>, <<c>>>>, 5, 1 + Len(e))
    BY <2>2, FieldsOf
  <2> QED
    BY <1>1, <1>3, <2>1, <2>3, FromCloudTyped
<1>6. CASE p \in {FromCloud(PUSHDATA, FALSE, 0, st, st) : st \in Strings \X Strings}
  <2>1. PICK s \in Strings, t \in Strings : p = FromCloud(PUSHDATA, FALSE, 0, <<s, t>>, <<s, t>>)
    <3>1. PICK st \in Strings \X Strings : p = FromCloud(PUSHDATA, FALSE, 0, st, st)
      BY <1>6
    <3>2. st = <<st[1], st[2]>> /\ st[1] \in Strings /\ st[2] \in Strings
      OBVIOUS
    <3> QED
      BY <3>1, <3>2
  <2>2. PICK m \in Strings : Len(s) <= Len(m) /\ Len(t) <= Len(m)
    BY LongerOfTwo
  <2>3. m \in Strings \cup {<<>>} /\ Short(s, m) /\ Short(t, m)
    BY <2>2, ShortStrings
  <2>4. Fields(<<s, t>>, 5, 1 + Len(m))
    BY <2>3, FieldsOf
  <2> QED
    BY <1>1, <2>1, <2>3, <2>4, FromCloudTyped
<1>7. CASE p = FromCloud(CONNCLOSE, FALSE, 0, <<<<3>>>>, <<<<3>>>>)
  <2>1. Short(<<3>>, e)
    BY <1>3, <1>4
  <2>2. Fields(<<<<3>>>>, 5, 1 + Len(e))
    BY <2>1, FieldsOf
  <2> QED
    BY <1>1, <1>3, <1>7, <2>2, FromCloudTyped
<1>8. CASE p \in {FromCloud(SAVEDATA, FALSE, ks[1][1], <<<<0>>, ks[1], ks[2]>>, ks) : ks \in {<<1>>, <<5>>} \X Strings}
  <2>1. PICK k \in {1, 5}, s \in Strings :
          p = FromCloud(SAVEDATA, FALSE, k, <<<<0>>, <<k>>, s>>, <<<<k>>, s>>)
    <3>1. PICK ks \in {<<1>>, <<5>>} \X Strings :
            p = FromCloud(SAVEDATA, FALSE, ks[1][1], <<<<0>>, ks[1], ks[2]>>, ks)
      BY <1>8
    <3>2. ks = <<ks[1], ks[2]>> /\ ks[2] \in Strings /\ ks[1] \in {<<1>>, <<5>>}
      OBVIOUS
    <3>3. PICK k \in {1, 5} : ks[1] = <<k>>
      BY <3>2
    <3>4. ks[1][1] = k
      BY <3>3
    <3> QED
      BY <3>1, <3>2, <3>3, <3>4
  <2>2. PICK m \in Strings : Len(s) <= Len(m) /\ Len(s) <= Len(m)
    BY LongerOfTwo
  <2>3. m \in Strings \cup {<<>>} /\ Short(<<0>>, m) /\ Short(<<k>>, m) /\ Short(s, m)
    BY <1>4, <2>2, ShortStrings
  <2>4. Fields(<<<<0>>, <<k>>, s>>, 5, 1 + Len(m))
    BY <2>3, FieldsOf
  <2> QED
    BY <1>1, <2>1, <2>3, <2>4, FromCloudTyped
<1>9. CASE p \in {FromCloud(SAVEDATA, TRUE, 2, <<<<Radix>>, st[1], <<2>>, st[1], st[2]>>, <<<<2>>, st[1], st[2]>>) :
                     st \in Strings \X Strings}
  <2>1. PICK s \in Strings, t \in Strings :
          p = FromCloud(SAVEDATA, TRUE, 2, <<<<Radix>>, s, <<2>>, s, t>>, <<<<2>>, s, t>>)
    <3>1. PICK st \in Strings \X Strings :
            p = FromCloud(SAVEDATA, TRUE, 2, <<<<Radix>>, st[1], <<2>>, st[1], st[2]>>, <<<<2>>, st[1], st[2]>>)
      BY <1>9
    <3>2. st[1] \in Strings /\ st[2] \in Strings
      OBVIOUS
    <3> QED
      BY <3>1, <3>2
  <2>2. PICK m \in Strings : Len(s) <= Len(m) /\ Len(t) <= Len(m)
    BY LongerOfTwo
  <2>3. /\ m \in Strings \cup {<<>>} /\ Short(<<Radix>>, m) /\ Short(<<2>>, m)
        /\ Short(s, m) /\ Short(t, m)
    BY <1>4, <2>2, ShortStrings
  <2>4. Fields(<<<<Radix>>, s, <<2>>, s, t>>, 5, 1 + Len(m))
    BY <2>3, FieldsOf
  <2> QED
    BY <1>1, <2>1, <2>3, <2>4, FromCloudTyped
<1>10. CASE p \in {FromCloud(SAVEACK, FALSE, Radix, <<<<Radix>>, s>>, <<s>>) : s \in Strings}
  <2>1. PICK s \in Strings : p = FromCloud(SAVEACK, FALSE, Radix, <<<<Radix>>, s>>, <<s>>)
    BY <1>10
  <2>2. PICK m \in Strings : Len(s) <= Len(m) /\ Len(s) <= Len(m)
    BY LongerOfTwo
  <2>3. m \in Strings \cup {<<>>} /\ Short(<<Radix>>, m) /\ Short(s, m)
    BY <1>4, <2>2, ShortStrings
  <2>4. Fields(<<<<Radix>>, s>>, 5, 1 + Len(m))
    BY <2>3, FieldsOf
  <2> QED
    BY <1>1, <2>1, <2>3, <2>4, FromCloudTyped
<1>11. CASE p = FromCloud(SAVEACK, FALSE, 0, <<<<0>>>>, <<>>)
  <2>1. Short(<<0>>, e)
    BY <1>3, <1>4
  <2>2. Fields(<<<<0>>>>, 5, 1 + Len(e))
    BY <2>1, FieldsOf
  <2> QED
    BY <1>1, <1>3, <1>11, <2>2, FromCloudTyped
<1>12. CASE p \in {FromCloud(CMDREQ, FALSE, 0, st, st) : st \in Strings \X Strings}
  <2>1. PICK s \in Strings, t \in Strings : p = FromCloud(CMDREQ, FALSE, 0, <<s, t>>, <<s, t>>)
    <3>1. PICK st \in Strings \X Strings : p = FromCloud(CMDREQ, FALSE, 0, st, st)
      BY <1>12
    <3>2. st = <<st[1], st[2]>> /\ st[1] \in Strings /\ st[2] \in Strings
      OBVIOUS
    <3> QED
      BY <3>1, <3>2
  <2>2. PICK m \in Strings : Len(s) <= Len(m) /\ Len(t) <= Len(m)
    BY LongerOfTwo
  <2>3. m \in Strings \cup {<<>>} /\ Short(s, m) /\ Short(t, m)
    BY <2>2, ShortStrings
  <2>4. Fields(<<s, t>>, 5, 1 + Len(m))
    BY <2>3, FieldsOf
  <2> QED
    BY <1>1, <2>1, <2>3, <2>4, FromCloudTyped
<1>13. CASE p = FromCloud(PINGRESP, FALSE, 0, <<>>, <<>>)
  <2>1. Fields(<<>>, 5, 1 + Len(e))
    BY FieldsOf
  <2> QED
    BY <1>1, <1>3, <1>13, <2>1, FromCloudTyped
<1> QED
  BY <1>5, <1>6, <1>7, <1>8, <1>9, <1>10, <1>11, <1>12, <1>13 DEF CloudPackets

-----------------------------------------------------------------------------
(* Packets of the device *)

LEMMA RemainBytesTyped ==
  ASSUME NEW n \in Nat
  PROVE  RemainBytes(n) \in Seq(Bytes) /\ Len(RemainBytes(n)) <= 5
<1> DEFINE S == {5} \cup {k \in 1..4 : n \div Power[k] = 0}
           c == DigitCount(n)
<1>1. c \in 1..5
  <2>1. S \in SUBSET Nat /\ S # {} /\ S \subseteq 1..5
    OBVIOUS
  <2>2. c = Least(S)
    BY DEF DigitCount
  <2> HIDE DEF S
  <2> QED
    BY <2>1, <2>2, LeastIs
<1> HIDE DEF c
<1> DEFINE v(k) == Digit(n, k) + (IF n \div Power[k] > 0 THEN Radix ELSE 0)
<1>2. ASSUME NEW k \in 1..c PROVE v(k) \in Bytes
  <2>1. k - 1 \in 0..5
    BY <1>1
  <2>2. Power[k - 1] \in Nat \ {0}
    BY <2>1, PowerTyped
  <2>3. n \div Power[k - 1] \in Nat
    BY <2>2, Quotient
  <2>4. Digit(n, k) \in 0..Radix - 1
    <3>1. Radix \in Nat \ {0}
      BY Constants
    <3> QED
      BY <2>3, <3>1, Quotient DEF Digit
  <2> QED
    BY <2>4, Constants DEF Bytes
<1>3. RemainBytes(n) = [k \in 1..c |-> v(k)]
  BY DEF RemainBytes, c
<1> HIDE DEF v
<1>4. RemainBytes(n) \in [1..c -> Bytes]
  BY <1>2, <1>3
<1> DEFINE r == RemainBytes(n)
<1>5. r \in [1..c -> Bytes]
  BY <1>4
<1> HIDE DEF r
<1>6. r \in Seq(Bytes) /\ Len(r) = c
  BY <1>1, <1>5
<1>7. Len(r) <= 5
  BY <1>1, <1>6
<1> QED
  BY <1>6, <1>7 DEF r

\* The type and the remaining length fit into a new buffer, although WriteRemainlen does
\* not ask for room.
LEMMA HeaderSound ==
  ASSUME NEW type \in Bytes, NEW n \in Nat
  PROVE  LET b == WriteRemainlen(WriteBytes(NewBuffer, <<type>>), n)
         IN Sound(b) /\ Len(b.data) <= 6
<1> DEFINE t == <<type>>
           w == WriteBytes(NewBuffer, t)
           r == RemainBytes(n)
           all == w.data \o r
           b == WriteRemainlen(w, n)
<1>1. t \in Seq(Bytes) /\ Len(t) = 1
  OBVIOUS
<1>2. Sound(NewBuffer) /\ Len(NewBuffer.data) = 0
  BY NewIsSound
<1> HIDE DEF t
<1>3. 2 * (Len(NewBuffer.data) + Len(t)) <= Word
  BY <1>1, <1>2, Constants
<1>4. Sound(w) /\ Len(w.data) <= Len(NewBuffer.data) + Len(t)
  BY <1>1, <1>2, <1>3, WriteBytesSound
<1> HIDE DEF w
<1>5. /\ w \in Buffers /\ w.data \in Seq(Bytes) /\ Len(w.data) \in Nat /\ Len(w.data) <= 1
      /\ w.capacity \in Nat /\ w.capacity >= 6
  BY <1>1, <1>2, <1>4, Constants DEF Sound, Buffers
<1>6. r \in Seq(Bytes) /\ Len(r) \in Nat /\ Len(r) <= 5
  BY RemainBytesTyped, LenProperties
<1>7. b = [w EXCEPT !.data = all]
  BY DEF WriteRemainlen
<1> HIDE DEF r
<1>8. all \in Seq(Bytes) /\ Len(all) = Len(w.data) + Len(r)
  BY <1>5, <1>6, ConcatProperties
<1> HIDE DEF all, b
<1>9. Len(all) <= 6 /\ Len(all) <= w.capacity
  BY <1>5, <1>6, <1>8
<1>10. b \in Buffers /\ b.data = all /\ b.capacity = w.capacity
  BY <1>5, <1>7, <1>8 DEF Buffers
<1>11. Sound(b) /\ Len(b.data) <= 6
  BY <1>9, <1>10 DEF Sound
<1> QED
  BY <1>11 DEF b, w, t

LEMMA PackSound ==
  ASSUME MaxPackets > 0, NEW type \in Bytes, NEW n \in Nat, NEW m \in Strings \cup {<<>>},
         NEW fields, Fields(fields, 4, 9 + Len(m))
  PROVE  Sound(Pack(type, n, fields))
<1> DEFINE b == WriteRemainlen(WriteBytes(NewBuffer, <<type>>), n)
           L == 9 + Len(m)
<1>1. Sound(b) /\ Len(b.data) <= 6
  BY HeaderSound
<1>2. Pack(type, n, fields) = AllWritten(b, fields)
  BY DEF Pack, AllWritten
<1> HIDE DEF b
<1>3. Len(m) \in Nat /\ 2 * (42 + 5 * Len(m)) <= Word
  BY StringIs
<1>4. L \in Nat /\ 2 * (6 + 4 * L) <= Word
  BY <1>3, Constants
<1>5. fields \in Seq(Seq(Bytes)) /\ Len(fields) <= 4 /\ \A i \in 1..Len(fields) : Len(fields[i]) <= L
  BY DEF Fields
<1> HIDE DEF L
<1>6. Sound(AllWritten(b, fields))
  BY <1>1, <1>4, <1>5, FieldsSound
<1> QED
  BY <1>2, <1>6

Fits(v, m) == v \in Seq(Bytes) /\ Len(v) <= 9 + Len(m)

LEMMA FieldsFit ==
  ASSUME NEW m
  PROVE  /\ Fields(<<>>, 4, 9 + Len(m))
         /\ \A a, b : Fits(a, m) /\ Fits(b, m) => Fields(<<a, b>>, 4, 9 + Len(m))
         /\ \A a, b, c : Fits(a, m) /\ Fits(b, m) /\ Fits(c, m) => Fields(<<a, b, c>>, 4, 9 + Len(m))
         /\ \A a, b, c, d :
              Fits(a, m) /\ Fits(b, m) /\ Fits(c, m) /\ Fits(d, m) => Fields(<<a, b, c, d>>, 4, 9 + Len(m))
<1> DEFINE L == 9 + Len(m)
<1> HIDE DEF L
<1>1. Fields(<<>>, 4, L)
  BY DEF Fields
<1>2. ASSUME NEW a \in Seq(Bytes), Len(a) <= L, NEW b \in Seq(Bytes), Len(b) <= L
      PROVE  Fields(<<a, b>>, 4, L)
  BY <1>2 DEF Fields
<1>3. ASSUME NEW a \in Seq(Bytes), Len(a) <= L, NEW b \in Seq(Bytes), Len(b) <= L,
             NEW c \in Seq(Bytes), Len(c) <= L
      PROVE  Fields(<<a, b, c>>, 4, L)
  BY <1>3 DEF Fields
<1>4. ASSUME NEW a \in Seq(Bytes), Len(a) <= L, NEW b \in Seq(Bytes), Len(b) <= L,
             NEW c \in Seq(Bytes), Len(c) <= L, NEW d \in Seq(Bytes), Len(d) <= L
      PROVE  Fields(<<a, b, c, d>>, 4, L)
  BY <1>4 DEF Fields
<1> QED
  BY <1>1, <1>2, <1>3, <1>4 DEF Fits, L

LEMMA Uint16Typed == ASSUME NEW n \in Nat PROVE Uint16(n) \in Seq(Bytes) /\ Len(Uint16(n)) = 2
<1>1. n \div Base \in Nat
  BY Quotient, Constants
<1>2. (n \div Base) % Base \in Bytes /\ n % Base \in Bytes
  BY <1>1, Remainder
<1> QED
  BY <1>2 DEF Uint16

LEMMA Uint32Typed == ASSUME NEW n \in Nat PROVE Uint32(n) \in Seq(Bytes) /\ Len(Uint32(n)) = 4
<1> DEFINE d == Base * Base
<1>1. d \in Nat \ {0}
  BY Constants
<1> HIDE DEF d
<1>2. n \div d \in Nat /\ n % d \in Nat
  BY <1>1, Quotient
<1> DEFINE a == Uint16(n \div d)
           c == Uint16(n % d)
<1>3. a \in Seq(Bytes) /\ Len(a) = 2 /\ c \in Seq(Bytes) /\ Len(c) = 2
  BY <1>2, Uint16Typed
<1>4. Uint32(n) = a \o c
  BY DEF Uint32, d
<1> HIDE DEF a, c
<1>5. a \o c \in Seq(Bytes) /\ Len(a \o c) = Len(a) + Len(c)
  BY <1>3, ConcatProperties
<1> QED
  BY <1>3, <1>4, <1>5

LEMMA StrTyped == ASSUME NEW s \in Seq(Bytes) PROVE Str(s) \in Seq(Bytes) /\ Len(Str(s)) = 2 + Len(s)
<1> DEFINE a == Uint16(Len(s))
<1>1. a \in Seq(Bytes) /\ Len(a) = 2
  BY Uint16Typed, LenProperties
<1>2. Str(s) = a \o s
  BY DEF Str
<1> HIDE DEF a
<1>3. a \o s \in Seq(Bytes) /\ Len(a \o s) = Len(a) + Len(s)
  BY <1>1, ConcatProperties
<1> QED
  BY <1>1, <1>2, <1>3

LEMMA StrFits ==
  ASSUME NEW m \in Strings \cup {<<>>}, NEW s \in Strings, Len(s) <= Len(m)
  PROVE  Fits(Str(s), m) /\ Fits(s, m)
<1>1. s \in Seq(Bytes) /\ Len(s) \in Nat /\ Len(m) \in Nat
  BY StringIs
<1>2. Str(s) \in Seq(Bytes) /\ Len(Str(s)) = 2 + Len(s)
  BY <1>1, StrTyped
<1> QED
  BY <1>1, <1>2 DEF Fits

\* "EDP", the version, the flag and the keep-alive time: 9 bytes.
LEMMA ProtocolFits ==
  ASSUME NEW m \in Strings \cup {<<>>}, NEW flag \in Bytes
  PROVE  Fits(Protocol(flag), m)
<1> DEFINE e == <<1, 2, 3>>
           a == Str(e)
           b == <<1, flag>>
           c == Uint16(Base \div 2)
           ab == a \o b
<1>1. e \in Seq(Bytes) /\ Len(e) = 3
  <2>1. 1 \in Bytes /\ 2 \in Bytes /\ 3 \in Bytes
    BY Constants DEF Bytes
  <2> QED
    BY <2>1
<1> HIDE DEF e
<1>2. a \in Seq(Bytes) /\ Len(a) = 5
  <2>1. a \in Seq(Bytes) /\ Len(a) = 2 + Len(e)
    BY <1>1, StrTyped
  <2> HIDE DEF a
  <2> QED
    BY <1>1, <2>1
<1>3. b \in Seq(Bytes) /\ Len(b) = 2
  <2>1. 1 \in Bytes
    BY Constants DEF Bytes
  <2> QED
    BY <2>1
<1>4. c \in Seq(Bytes) /\ Len(c) = 2
  <2>1. Base \div 2 \in Nat
    BY Constants, Quotient
  <2> QED
    BY <2>1, Uint16Typed
<1>5. Protocol(flag) = ab \o c
  BY DEF Protocol, e
<1> HIDE DEF a, b, c
<1>6. ab \in Seq(Bytes) /\ Len(ab) = Len(a) + Len(b)
  BY <1>2, <1>3, ConcatProperties
<1> HIDE DEF ab
<1>7. ab \o c \in Seq(Bytes) /\ Len(ab \o c) = Len(ab) + Len(c)
  BY <1>4, <1>6, ConcatProperties
<1>8. Len(ab \o c) = 9 /\ Len(m) \in Nat
  BY <1>2, <1>3, <1>4, <1>6, <1>7, StringIs
<1>9. Len(ab \o c) <= 9 + Len(m)
  BY <1>8
<1> QED
  BY <1>5, <1>7, <1>9 DEF Fits

LEMMA ByteFits ==
  ASSUME NEW m \in Strings \cup {<<>>}
  PROVE  \A b \in Bytes : Fits(<<b>>, m) /\ Fits(<<b, b>>, m)
<1>1. Len(m) \in Nat
  BY StringIs
<1>2. ASSUME NEW b \in Bytes PROVE /\ <<b>> \in Seq(Bytes) /\ Len(<<b>>) = 1
                                   /\ <<b, b>> \in Seq(Bytes) /\ Len(<<b, b>>) = 2
  OBVIOUS
<1> QED
  BY <1>1, <1>2 DEF Fits

LEMMA LengthFits ==
  ASSUME NEW m \in Strings \cup {<<>>}, NEW n \in Nat
  PROVE  Fits(Uint32(n), m)
<1> DEFINE u == Uint32(n)
<1>1. u \in Seq(Bytes) /\ Len(u) = 4 /\ Len(m) \in Nat
  BY Uint32Typed, StringIs
<1> HIDE DEF u
<1>2. Len(u) <= 9 + Len(m)
  BY <1>1
<1>3. Fits(u, m)
  BY <1>1, <1>2 DEF Fits
<1> QED
  BY <1>3 DEF u

LEMMA AddressFits ==
  ASSUME NEW m \in Strings \cup {<<>>}, NEW dst \in Destinations,
         \A s \in Strings : dst = <<s>> => Len(s) <= Len(m)
  PROVE  Fits(Address(dst), m) /\ AddressLen(dst) \in Nat
<1>1. CASE dst = <<>>
  <2>1. 0 \in Bytes
    BY Constants DEF Bytes
  <2>2. Address(dst) = <<0>> /\ AddressLen(dst) = 1
    BY <1>1 DEF Address, AddressLen
  <2>3. Fits(<<0>>, m) /\ 1 \in Nat
    BY <2>1, ByteFits
  <2> QED
    BY <2>2, <2>3
<1>2. CASE dst # <<>>
  <2>1. PICK s \in Strings : dst = <<s>>
    BY <1>2 DEF Destinations
  <2> DEFINE a == <<Translated>>
             b == Str(s)
  <2>2. a \in Seq(Bytes) /\ Len(a) = 1
    <3>1. Translated \in Bytes
      BY Constants DEF Bytes, Translated
    <3> QED
      BY <3>1
  <2>3. s \in Seq(Bytes) /\ Len(s) \in Nat /\ Len(m) \in Nat /\ Len(s) <= Len(m)
    BY <2>1, StringIs
  <2>4. b \in Seq(Bytes) /\ Len(b) = 2 + Len(s)
    BY <2>3, StrTyped
  <2>5. dst[1] = s
    BY <2>1
  <2>6. Address(dst) = a \o b /\ AddressLen(dst) = 1 + (2 + Len(s))
    BY <1>2, <2>5 DEF Address, AddressLen
  <2> HIDE DEF a, b
  <2>7. a \o b \in Seq(Bytes) /\ Len(a \o b) = Len(a) + Len(b)
    BY <2>2, <2>4, ConcatProperties
  <2>8. Len(a \o b) <= 9 + Len(m)
    BY <2>2, <2>3, <2>4, <2>7
  <2>9. AddressLen(dst) \in Nat
    BY <2>3, <2>6
  <2> QED
    BY <2>6, <2>7, <2>8, <2>9 DEF Fits
<1> QED
  BY <1>1, <1>2

LEMMA ConnectSound ==
  ASSUME MaxPackets > 0, NEW id \in Strings, NEW auth \in Strings
  PROVE  Sound(PacketConnect1(id, auth)) /\ Sound(PacketConnect2(id, auth))
<1>1. PICK m \in Strings : Len(id) <= Len(m) /\ Len(auth) <= Len(m)
  BY LongerOfTwo
<1>2. m \in Strings \cup {<<>>} /\ Fits(Str(id), m) /\ Fits(Str(auth), m)
  BY <1>1, StrFits
<1>3. Base \div 4 \in Bytes /\ 3 * (Base \div 4) \in Bytes /\ 0 \in Bytes
  BY Constants DEF Bytes
<1>4. Fits(Protocol(Base \div 4), m) /\ Fits(Protocol(3 * (Base \div 4)), m) /\ Fits(<<0, 0>>, m)
  BY <1>2, <1>3, ProtocolFits, ByteFits
<1>5. Len(id) \in Nat /\ Len(auth) \in Nat
  BY StringIs
<1>6. CONNREQ \in Bytes
  BY TypesAreBytes
<1>7. Sound(PacketConnect1(id, auth))
  <2> DEFINE n == (2 + 3) + 1 + 1 + 2 + (2 + Len(id)) + (2 + Len(auth))
             f == <<Protocol(Base \div 4), Str(id), Str(auth)>>
  <2>1. n \in Nat
    BY <1>5
  <2>2. Fields(f, 4, 9 + Len(m))
    BY <1>2, <1>4, FieldsFit
  <2>3. PacketConnect1(id, auth) = Pack(CONNREQ, n, f)
    BY DEF PacketConnect1
  <2> HIDE DEF n, f
  <2> QED
    BY <1>2, <1>6, <2>1, <2>2, <2>3, PackSound
<1>8. Sound(PacketConnect2(id, auth))
  <2> DEFINE n == (2 + 3) + 1 + 1 + 2 + 2 + (2 + Len(id)) + (2 + Len(auth))
             f == <<Protocol(3 * (Base \div 4)), <<0, 0>>, Str(id), Str(auth)>>
  <2>1. n \in Nat
    BY <1>5
  <2>2. Fields(f, 4, 9 + Len(m))
    BY <1>2, <1>4, FieldsFit
  <2>3. PacketConnect2(id, auth) = Pack(CONNREQ, n, f)
    BY DEF PacketConnect2
  <2> HIDE DEF n, f
  <2> QED
    BY <1>2, <1>6, <2>1, <2>2, <2>3, PackSound
<1> QED
  BY <1>7, <1>8

LEMMA PingSound == ASSUME MaxPackets > 0 PROVE Sound(PacketPing)
<1> DEFINE m == <<>>
<1>1. m \in Strings \cup {<<>>} /\ PINGREQ \in Bytes
  BY TypesAreBytes
<1> HIDE DEF m
<1>2. Fields(<<>>, 4, 9 + Len(m))
  BY FieldsFit
<1>3. PacketPing = Pack(PINGREQ, 0, <<>>)
  BY DEF PacketPing
<1> QED
  BY <1>1, <1>2, <1>3, PackSound

LEMMA PushdataSound ==
  ASSUME MaxPackets > 0, NEW dst \in Strings, NEW data \in Strings
  PROVE  Sound(PacketPushdata(dst, data))
<1>1. PICK m \in Strings : Len(dst) <= Len(m) /\ Len(data) <= Len(m)
  BY LongerOfTwo
<1>2. m \in Strings \cup {<<>>} /\ Fits(Str(dst), m) /\ Fits(data, m) /\ PUSHDATA \in Bytes
  BY <1>1, StrFits, TypesAreBytes
<1>3. Len(dst) \in Nat /\ Len(data) \in Nat
  BY StringIs
<1> DEFINE n == (2 + Len(dst)) + Len(data)
           f == <<Str(dst), data>>
<1>4. n \in Nat
  BY <1>3
<1>5. Fields(f, 4, 9 + Len(m))
  BY <1>2, FieldsFit
<1>6. PacketPushdata(dst, data) = Pack(PUSHDATA, n, f)
  BY DEF PacketPushdata
<1> HIDE DEF n, f
<1> QED
  BY <1>2, <1>4, <1>5, <1>6, PackSound

LEMMA CmdrespSound ==
  ASSUME MaxPackets > 0, NEW id \in Strings, NEW body \in Strings
  PROVE  Sound(PacketCmdresp(id, body))
<1>1. PICK m \in Strings : Len(id) <= Len(m) /\ Len(body) <= Len(m)
  BY LongerOfTwo
<1>2. m \in Strings \cup {<<>>} /\ Fits(Str(id), m) /\ Fits(body, m) /\ CMDRESP \in Bytes
  BY <1>1, StrFits, TypesAreBytes
<1>3. Len(id) \in Nat /\ Len(body) \in Nat /\ Len(m) \in Nat
  BY <1>1, StringIs
<1> DEFINE n == 2 + Len(id) + 4 + Len(body)
           f == <<Str(id), Uint32(Len(body)), body>>
<1>4. n \in Nat
  BY <1>3
<1>5. Fits(Uint32(Len(body)), m)
  BY <1>2, <1>3, LengthFits
<1>6. Fields(f, 4, 9 + Len(m))
  BY <1>2, <1>5, FieldsFit
<1>7. PacketCmdresp(id, body) = Pack(CMDRESP, n, f)
  BY DEF PacketCmdresp
<1> HIDE DEF n, f
<1> QED
  BY <1>2, <1>4, <1>6, <1>7, PackSound

\* An address and two more strings.
LEMMA LongerOfThree ==
  ASSUME NEW dst \in Destinations, NEW s \in Strings, NEW t \in Strings
  PROVE  \E m \in Strings : /\ Len(s) <= Len(m) /\ Len(t) <= Len(m)
                            /\ \A d \in Strings : dst = <<d>> => Len(d) <= Len(m)
<1>1. PICK l \in Strings : Len(s) <= Len(l) /\ Len(t) <= Len(l)
  BY LongerOfTwo
<1>2. CASE dst = <<>>
  <2>1. \A d \in Strings : dst # <<d>>
    BY <1>2
  <2> QED
    BY <1>1, <2>1
<1>3. CASE dst # <<>>
  <2>1. PICK d \in Strings : dst = <<d>>
    BY <1>3 DEF Destinations
  <2>2. PICK m \in Strings : Len(d) <= Len(m) /\ Len(l) <= Len(m)
    BY LongerOfTwo
  <2>3. Len(s) \in Nat /\ Len(t) \in Nat /\ Len(l) \in Nat /\ Len(m) \in Nat
    BY StringIs
  <2>4. Len(s) <= Len(m) /\ Len(t) <= Len(m)
    BY <1>1, <2>2, <2>3
  <2>5. \A c \in Strings : dst = <<c>> => c = d
    BY <2>1
  <2> QED
    BY <2>2, <2>4, <2>5
<1> QED
  BY <1>2, <1>3

LEMMA SaveSound ==
  ASSUME MaxPackets > 0, NEW dst \in Destinations, NEW s \in Strings, NEW bin \in Strings
  PROVE  /\ Sound(PacketSaveField(dst, s)) /\ Sound(PacketSaveJson(dst, s))
         /\ PacketSavedataBin(dst, s, bin) # <<>> => Sound(PacketSavedataBin(dst, s, bin)[1])
<1>1. PICK m \in Strings : /\ Len(s) <= Len(m) /\ Len(bin) <= Len(m)
                           /\ \A d \in Strings : dst = <<d>> => Len(d) <= Len(m)
  BY LongerOfThree
<1>2. m \in Strings \cup {<<>>} /\ Fits(Str(s), m) /\ SAVEDATA \in Bytes
  BY <1>1, StrFits, TypesAreBytes
<1>3. Fits(Address(dst), m) /\ AddressLen(dst) \in Nat
  BY <1>1, <1>2, AddressFits
<1>4. Fits(<<1>>, m) /\ Fits(<<2>>, m) /\ Fits(<<5>>, m)
  <2>1. 1 \in Bytes /\ 2 \in Bytes /\ 5 \in Bytes
    BY Constants DEF Bytes
  <2> QED
    BY <1>2, <2>1, ByteFits
<1>5. Len(s) \in Nat /\ Len(bin) \in Nat /\ Len(m) \in Nat
  BY StringIs
<1>6. Fits(Uint32(Len(bin)), m)
  BY <1>2, <1>5, LengthFits
<1> DEFINE n == AddressLen(dst) + 1 + (2 + Len(s))
<1>7. n \in Nat /\ n + (4 + Len(bin)) \in Nat
  BY <1>3, <1>5
<1>8. /\ Fields(<<Address(dst), <<5>>, Str(s)>>, 4, 9 + Len(m))
      /\ Fields(<<Address(dst), <<1>>, Str(s)>>, 4, 9 + Len(m))
      /\ Fields(<<Address(dst), <<2>>, Str(s), Uint32(Len(bin))>>, 4, 9 + Len(m))
  BY <1>2, <1>3, <1>4, <1>6, FieldsFit
<1>9. /\ PacketSaveField(dst, s) = Pack(SAVEDATA, n, <<Address(dst), <<5>>, Str(s)>>)
      /\ PacketSaveJson(dst, s) = Pack(SAVEDATA, n, <<Address(dst), <<1>>, Str(s)>>)
      /\ PacketSavedataBin(dst, s, bin) # <<>> =>
           PacketSavedataBin(dst, s, bin)[1] =
             Pack(SAVEDATA, n + (4 + Len(bin)), <<Address(dst), <<2>>, Str(s), Uint32(Len(bin))>>)
  BY DEF PacketSaveField, PacketSaveJson, PacketSavedataBin
<1> HIDE DEF n
<1> QED
  BY <1>2, <1>7, <1>8, <1>9, PackSound

-----------------------------------------------------------------------------
(* Taking packets off a buffer *)

LEMMA Complete ==
  ASSUME NEW data \in Seq(Bytes)
  PROVE  IsPkgComplete(data) \in Int /\ IsPkgComplete(data) <= Len(data)
<1> DEFINE k == Digits(data, 1)
           ends == {j \in 1..4 : 1 + j <= Len(data) /\ data[1 + j] < Radix}
           at(j) == IF j <= k THEN (data[1 + j] % Radix) * Power[j - 1] ELSE 0
           total == 1 + k + DigitSum(data, 1, k)
<1>1. Len(data) \in Nat
  BY LenProperties
<1>2. k \in 0..4 /\ (k > 0 => 1 + k <= Len(data))
  <2>1. k = IF ends = {} THEN 0 ELSE Least(ends)
    BY DEF Digits
  <2>2. ends \in SUBSET Nat /\ \A j \in ends : j \in 1..4 /\ 1 + j <= Len(data)
    OBVIOUS
  <2> HIDE DEF ends, k
  <2>3. ends # {} => Least(ends) \in ends
    BY <2>2, LeastIs
  <2> QED
    BY <2>1, <2>2, <2>3
<1>3. DigitSum(data, 1, k) = at(1) + at(2) + at(3) + at(4)
  BY DEF DigitSum
<1> HIDE DEF k
<1>4. ASSUME NEW j \in 1..4 PROVE at(j) \in Nat
  <2>1. CASE j <= k
    <3>1. 1 + j \in 1..Len(data)
      BY <1>1, <1>2, <2>1
    <3>2. data[1 + j] \in Nat
      BY <3>1, ElementOfSeq, Constants DEF Bytes
    <3>3. Power[j - 1] \in Nat
      BY PowerTyped
    <3>4. data[1 + j] % Radix \in Nat
      <4>1. Radix \in Nat \ {0}
        BY Constants
      <4> DEFINE x == data[1 + j]
      <4>2. x \in Nat
        BY <3>2
      <4> HIDE DEF x
      <4>3. x % Radix \in 0..Radix - 1
        BY <4>1, <4>2, Quotient
      <4>4. x % Radix \in Nat
        BY <4>1, <4>3
      <4> QED
        BY <4>4 DEF x
    <3>5. (data[1 + j] % Radix) * Power[j - 1] \in Nat
      BY <3>3, <3>4, Product
    <3> QED
      BY <2>1, <3>5
  <2>2. CASE ~(j <= k)
    BY <2>2
  <2> QED
    BY <2>1, <2>2
<1>5. at(1) \in Nat /\ at(2) \in Nat /\ at(3) \in Nat /\ at(4) \in Nat
  BY <1>4
<1> HIDE DEF at
<1>6. total \in Int
  BY <1>2, <1>3, <1>5
<1>7. IsPkgComplete(data) =
        CASE k > 0 /\ total <= Len(data) -> total
          [] k = 0 /\ Len(data) > 4 -> -1
          [] OTHER -> 0
  BY DEF IsPkgComplete, k
<1> HIDE DEF total
<1> QED
  BY <1>1, <1>2, <1>6, <1>7

LEMMA Cut ==
  ASSUME NEW bytes \in Seq(Bytes), NEW n \in 1..Len(bytes)
  PROVE  /\ SubSeq(bytes, 1, n) \in Seq(Bytes) /\ Len(SubSeq(bytes, 1, n)) = n
         /\ SubSeq(bytes, n + 1, Len(bytes)) \in Seq(Bytes)
         /\ Len(SubSeq(bytes, n + 1, Len(bytes))) = Len(bytes) - n
<1>1. Len(bytes) \in Nat
  BY LenProperties
<1>2. 1 \in 1..(Len(bytes) + 1) /\ n \in (1 - 1)..Len(bytes) /\ n - 1 + 1 = n
  BY <1>1
<1>3. SubSeq(bytes, 1, n) \in Seq(Bytes) /\ Len(SubSeq(bytes, 1, n)) = n - 1 + 1
  BY <1>2, SubSeqProperties
<1>4. n + 1 \in 1..(Len(bytes) + 1) /\ Len(bytes) \in ((n + 1) - 1)..Len(bytes)
  BY <1>1
<1>5. /\ SubSeq(bytes, n + 1, Len(bytes)) \in Seq(Bytes)
      /\ Len(SubSeq(bytes, n + 1, Len(bytes))) = Len(bytes) - (n + 1) + 1
  BY <1>4, SubSeqProperties
<1> QED
  BY <1>1, <1>2, <1>3, <1>5

-----------------------------------------------------------------------------
(* The inductive invariant.  What is on its way to the device and what is   *)
(* in its buffer have been sent, and so fit into half of the addresses.     *)

Share == IF MaxPackets = 0 THEN 0 ELSE Word \div (2 * MaxPackets)

StreamInv ==
  /\ scenario \in Scenarios
  /\ wire \in Seq(Bytes)
  /\ Sound(buf) /\ Sound(pkt)
  /\ sent = [i \in 1..Len(sent) |-> sent[i]] /\ Len(sent) \in 0..MaxPackets
  /\ Down => Len(wire) + Len(buf.data) <= Len(sent) * Share

\* sent, once more, as a sequence.
LEMMA Appended ==
  ASSUME NEW s, s = [i \in 1..Len(s) |-> s[i]], Len(s) \in Nat, NEW e
  PROVE  /\ Append(s, e) = [i \in 1..Len(Append(s, e)) |-> Append(s, e)[i]]
         /\ Len(Append(s, e)) = Len(s) + 1
<1> DEFINE T == {s[i] : i \in 1..Len(s)} \cup {e}
           a == Append(s, e)
<1>1. s \in Seq(T)
  <2>1. \A i \in 1..Len(s) : s[i] \in T
    OBVIOUS
  <2> HIDE DEF T
  <2>2. s \in [1..Len(s) -> T]
    BY <2>1
  <2> QED
    BY <2>2
<1>2. e \in T
  OBVIOUS
<1> HIDE DEF T
<1>3. a \in Seq(T) /\ Len(a) = Len(s) + 1
  BY <1>1, <1>2, AppendProperties
<1> HIDE DEF a
<1>4. a = [i \in 1..Len(a) |-> a[i]]
  <2>1. a \in [1..Len(a) -> T]
    BY <1>3, LenProperties
  <2> QED
    BY <2>1
<1> QED
  BY <1>3, <1>4 DEF a

LEMMA Shares ==
  /\ Share \in Nat
  /\ \A n \in 0..MaxPackets : n * Share \in Nat /\ 2 * (n * Share) <= Word
  /\ \A bytes : MaxPackets > 0 /\ CloudPacket(bytes) => Len(bytes) <= Share
<1>0. SUFFICES ASSUME MaxPackets # 0
               PROVE  /\ Share \in Nat
                      /\ \A n \in 0..MaxPackets : n * Share \in Nat /\ 2 * (n * Share) <= Word
                      /\ \A bytes : CloudPacket(bytes) => Len(bytes) <= Share
  <2>1. CASE MaxPackets = 0
    <3>1. Share = 0 /\ Word \in Nat /\ \A n \in 0..MaxPackets : n * Share = 0
      BY <2>1, Constants DEF Share
    <3> QED
      BY <2>1, <3>1
  <2>2. CASE MaxPackets # 0
    BY <2>2
  <2> QED
    BY <2>1, <2>2
<1>1. MaxPackets \in Nat \ {0} /\ Word \in Nat
  BY <1>0, StreamAssumption, Constants
<1> DEFINE d == 2 * MaxPackets
<1>2. d \in Nat \ {0}
  BY <1>1
<1>3. Share \in Nat /\ Word % d \in 0..d - 1 /\ Word = d * Share + (Word % d)
  BY <1>1, <1>2, Quotient, Division DEF Share
<1> HIDE DEF Share
<1>4. ASSUME NEW n \in 0..MaxPackets PROVE n * Share \in Nat /\ 2 * (n * Share) <= Word
  <2>1. MaxPackets - n \in Nat /\ (MaxPackets - n) * Share \in Nat /\ n * Share \in Nat
    BY <1>1, <1>3
  <2>2. d * Share = 2 * (n * Share) + 2 * ((MaxPackets - n) * Share)
    BY <1>1, <1>3
  <2> HIDE DEF d
  <2> QED
    BY <1>1, <1>2, <1>3, <2>1, <2>2
<1>5. ASSUME NEW bytes, CloudPacket(bytes) PROVE Len(bytes) <= Share
  <2>1. PICK m \in Strings \cup {<<>>} : Len(bytes) <= 42 + 5 * Len(m)
    BY <1>5 DEF CloudPacket
  <2>2. Len(bytes) \in Nat /\ Len(m) \in Nat
    BY <1>5, StringIs, LenProperties DEF CloudPacket
  <2> DEFINE most == 42 + 5 * Len(m)
  <2>3. d * most <= Word
    BY StreamAssumption DEF LongestWith
  <2>4. most \in Nat
    BY <2>2
  <2>5. Len(bytes) <= most
    BY <2>1
  <2> HIDE DEF most, d
  <2>6. ASSUME most > Share PROVE FALSE
    <3>1. most - Share - 1 \in Nat /\ d * (most - Share - 1) \in Nat
      BY <1>2, <1>3, <2>4, <2>6
    <3>2. d * most = d * Share + d + d * (most - Share - 1)
      BY <1>2, <1>3, <2>4
    <3>3. d * Share \in Nat
      BY <1>2, <1>3
    <3> QED
      BY <1>1, <1>2, <1>3, <2>3, <3>1, <3>2, <3>3
  <2> QED
    BY <1>3, <2>2, <2>4, <2>5, <2>6
<1> QED
  BY <1>3, <1>4, <1>5

LEMMA InitHolds == Init => StreamInv
<1> SUFFICES ASSUME Init PROVE StreamInv
  OBVIOUS
<1>1. wire = <<>> /\ sent = <<>> /\ buf = NewBuffer /\ pkt = NewBuffer /\ scenario \in Scenarios
  BY DEF Init
<1>2. wire \in Seq(Bytes) /\ Len(wire) = 0 /\ Len(sent) = 0 /\ sent = [i \in 1..0 |-> sent[i]]
  BY <1>1
<1>3. Sound(buf) /\ Sound(pkt) /\ Len(buf.data) = 0
  BY <1>1, NewIsSound
<1>4. Len(sent) \in 0..MaxPackets
  BY <1>2, StreamAssumption
<1>5. Len(wire) + Len(buf.data) <= Len(sent) * Share
  BY <1>2, <1>3, <1>4, Shares
<1> QED
  BY <1>1, <1>2, <1>3, <1>4, <1>5 DEF StreamInv

LEMMA SentGrows ==
  ASSUME StreamInv, Len(sent) < MaxPackets, NEW e, sent' = Append(sent, e)
  PROVE  /\ sent' = [i \in 1..Len(sent') |-> sent'[i]] /\ Len(sent') = Len(sent) + 1
         /\ Len(sent') \in 0..MaxPackets /\ MaxPackets > 0 /\ Len(sent) \in Nat
<1>1. sent = [i \in 1..Len(sent) |-> sent[i]] /\ Len(sent) \in Nat /\ MaxPackets \in Nat
  BY StreamAssumption DEF StreamInv
<1>2. sent' = [i \in 1..Len(sent') |-> sent'[i]] /\ Len(sent') = Len(sent) + 1
  BY <1>1, Appended
<1> QED
  BY <1>1, <1>2

LEMMA CloudSendsKeeps == StreamInv /\ CloudSends => StreamInv'
<1> SUFFICES ASSUME StreamInv, CloudSends PROVE StreamInv'
  OBVIOUS
<1>1. PICK p \in CloudPackets : wire' = wire \o p.bytes /\ sent' = Append(sent, p.meant)
  BY DEF CloudSends
<1>2. Down /\ Len(sent) < MaxPackets /\ scenario' = scenario /\ buf' = buf /\ pkt' = pkt
  BY DEF CloudSends
<1>3. /\ sent' = [i \in 1..Len(sent') |-> sent'[i]] /\ Len(sent') = Len(sent) + 1
      /\ Len(sent') \in 0..MaxPackets /\ MaxPackets > 0 /\ Len(sent) \in Nat
  BY <1>1, <1>2, SentGrows
<1> DEFINE b == p.bytes
<1>4. CloudPacket(b)
  BY CloudPacketsTyped
<1>5. b \in Seq(Bytes) /\ Len(b) \in Nat /\ Len(b) <= Share
  BY <1>3, <1>4, Shares, LenProperties DEF CloudPacket
<1>6. wire' = wire \o b
  BY <1>1
<1> HIDE DEF b
<1>7. wire \in Seq(Bytes) /\ Len(wire) \in Nat /\ Len(buf.data) \in Nat
  BY LenProperties DEF StreamInv, Sound, Buffers
<1>8. wire' \in Seq(Bytes) /\ Len(wire') = Len(wire) + Len(b)
  BY <1>5, <1>6, <1>7, ConcatProperties
<1>9. Len(wire') + Len(buf'.data) <= Len(sent') * Share
  <2>1. Len(wire) + Len(buf.data) <= Len(sent) * Share
    BY <1>2 DEF StreamInv
  <2>2. Share \in Nat
    BY Shares
  <2>3. (Len(sent) + 1) * Share = Len(sent) * Share + Share /\ Len(sent) * Share \in Nat
    BY <1>3, <2>2
  <2>4. Len(wire) + Len(b) + Len(buf.data) <= Len(sent) * Share + Share
    <3> DEFINE x == Len(sent) * Share
               w == Len(wire)
               c == Len(b)
               u == Len(buf.data)
    <3>1. x \in Nat /\ w \in Nat /\ c \in Nat /\ u \in Nat /\ c <= Share /\ w + u <= x
      BY <1>5, <1>7, <2>1, <2>3
    <3> HIDE DEF x, w, c, u
    <3>2. w + c + u <= x + Share
      BY <2>2, <3>1
    <3> QED
      BY <3>2 DEF x, w, c, u
  <2> QED
    BY <1>2, <1>3, <1>8, <2>3, <2>4
<1> QED
  BY <1>2, <1>3, <1>8, <1>9 DEF StreamInv

\* A segment is taken off the wire.
LEMMA SegmentTaken ==
  ASSUME StreamInv, NEW n \in 1..Len(wire), Segment(n)
  PROVE  /\ SubSeq(wire, 1, n) \in Seq(Bytes) /\ Len(SubSeq(wire, 1, n)) = n
         /\ wire' \in Seq(Bytes) /\ Len(wire') = Len(wire) - n
         /\ Len(wire) \in Nat /\ n \in Nat
<1>1. wire \in Seq(Bytes) /\ wire' = SubSeq(wire, n + 1, Len(wire))
  BY DEF StreamInv, Segment
<1> QED
  BY <1>1, Cut, LenProperties

LEMMA RecvCallbackKeeps == StreamInv /\ RecvCallback => StreamInv'
<1> SUFFICES ASSUME StreamInv, RecvCallback PROVE StreamInv'
  OBVIOUS
<1>1. PICK n \in 1..Len(wire) : Segment(n)
  BY DEF RecvCallback
<1>2. scenario' = scenario /\ sent' = sent /\ buf' = buf /\ pkt' = pkt
  BY DEF RecvCallback
<1>3. wire' \in Seq(Bytes) /\ Len(wire') = Len(wire) - n /\ Len(wire) \in Nat /\ n \in Nat
  BY <1>1, SegmentTaken
<1>4. Down' = Down
  BY <1>2 DEF Down
<1>5. Down => Len(wire') + Len(buf.data) <= Len(sent) * Share
  <2>1. Len(buf.data) \in Nat
    BY DEF StreamInv, Sound, Buffers
  <2>2. Len(sent) \in 0..MaxPackets /\ Len(sent) * Share \in Nat
    BY Shares DEF StreamInv
  <2> QED
    BY <1>3, <2>1, <2>2 DEF StreamInv
<1> QED
  BY <1>2, <1>3, <1>4, <1>5 DEF StreamInv, Sound, Buffers

LEMMA BufferSegmentKeeps == StreamInv /\ BufferSegment => StreamInv'
<1> SUFFICES ASSUME StreamInv, BufferSegment PROVE StreamInv'
  OBVIOUS
<1>1. PICK n \in 1..Len(wire) : Segment(n) /\ buf' = WriteBytes(buf, SubSeq(wire, 1, n))
  BY DEF BufferSegment
<1>2. Down /\ Down' /\ scenario' = scenario /\ sent' = sent /\ pkt' = pkt
  BY DEF BufferSegment, Down
<1> DEFINE s == SubSeq(wire, 1, n)
<1>3. /\ s \in Seq(Bytes) /\ Len(s) = n
      /\ wire' \in Seq(Bytes) /\ Len(wire') = Len(wire) - n /\ Len(wire) \in Nat /\ n \in Nat
  BY <1>1, SegmentTaken
<1>4. buf' = WriteBytes(buf, s)
  BY <1>1
<1> HIDE DEF s
<1> DEFINE x == Len(sent) * Share
<1>5. x \in Nat /\ 2 * x <= Word /\ Word \in Nat
  BY Shares, Constants DEF StreamInv
<1>6. Len(buf.data) \in Nat /\ Sound(buf) /\ Len(wire) + Len(buf.data) <= x
  BY <1>2 DEF StreamInv, Sound, Buffers
<1> HIDE DEF x
<1>7. 2 * (Len(buf.data) + Len(s)) <= Word
  BY <1>3, <1>5, <1>6
<1>8. Sound(buf') /\ Len(buf'.data) <= Len(buf.data) + Len(s)
  BY <1>3, <1>4, <1>6, <1>7, WriteBytesSound
<1>9. Len(buf'.data) \in Nat
  BY <1>8 DEF Sound, Buffers
<1>10. Len(wire') + Len(buf'.data) <= x
  BY <1>3, <1>5, <1>6, <1>8, <1>9
<1> QED
  BY <1>2, <1>3, <1>8, <1>10 DEF StreamInv, x, Sound, Buffers

LEMMA TakePacketKeeps == StreamInv /\ TakePacket => StreamInv'
<1> SUFFICES ASSUME StreamInv, TakePacket PROVE StreamInv'
  OBVIOUS
<1> DEFINE n == IsPkgComplete(buf.data)
           s == SubSeq(buf.data, 1, n)
           r == SubSeq(buf.data, n + 1, Len(buf.data))
           got == GetEdpPacket(buf)
<1>1. /\ Down /\ Down' /\ scenario' = scenario /\ sent' = sent /\ wire' = wire
      /\ got.pkg # <<>> /\ buf' = got.buf /\ pkt' = got.pkg[1]
  BY DEF TakePacket, Down
<1>2. buf \in Buffers /\ buf.data \in Seq(Bytes) /\ Len(buf.data) \in Nat /\ Len(buf.data) <= buf.capacity
  BY DEF StreamInv, Sound, Buffers
<1>3. n \in Int /\ n <= Len(buf.data)
  BY <1>2, Complete
<1>4. n > 0
  <2>1. CASE n <= 0
    <3>1. got = [pkg |-> <<>>, buf |-> buf]
      BY <2>1 DEF GetEdpPacket
    <3> QED
      BY <1>1, <3>1
  <2> HIDE DEF n, got
  <2> QED
    BY <1>3, <2>1
<1>5. got = [pkg |-> <<WriteBytes(NewBuffer, s)>>, buf |-> [buf EXCEPT !.data = r]]
  <2>1. ~(n <= 0)
    <3> HIDE DEF n
    <3> QED
      BY <1>3, <1>4
  <2> QED
    BY <2>1 DEF GetEdpPacket
<1> HIDE DEF got
<1>6. n \in 1..Len(buf.data)
  <2> HIDE DEF n
  <2> QED
    BY <1>2, <1>3, <1>4
<1>7. s \in Seq(Bytes) /\ Len(s) = n /\ r \in Seq(Bytes) /\ Len(r) = Len(buf.data) - n
  <2> HIDE DEF n
  <2> QED
    BY <1>2, <1>6, Cut
<1> HIDE DEF s, r, n
<1>8. pkt' = WriteBytes(NewBuffer, s) /\ buf' = [buf EXCEPT !.data = r]
  BY <1>1, <1>5
<1>9. buf' \in Buffers /\ buf'.data = r /\ buf'.capacity = buf.capacity
  BY <1>2, <1>7, <1>8 DEF Buffers
<1>10. Len(buf'.data) <= Len(buf.data) /\ Len(buf'.data) \in Nat
  BY <1>2, <1>3, <1>4, <1>7, <1>9
<1>11. Sound(buf')
  <2>1. buf.capacity \in Nat
    BY <1>2, Constants DEF Buffers
  <2> QED
    BY <1>2, <1>9, <1>10, <2>1 DEF Sound
<1> DEFINE x == Len(sent) * Share
<1>12. x \in Nat /\ 2 * x <= Word /\ Word \in Nat
  BY Shares, Constants DEF StreamInv
<1>13. Len(wire) \in Nat /\ Len(wire) + Len(buf.data) <= x
  BY <1>1, LenProperties DEF StreamInv
<1> HIDE DEF x
<1>14. Sound(pkt')
  <2>1. Len(NewBuffer.data) = 0 /\ Sound(NewBuffer)
    BY NewIsSound
  <2>2. 2 * (Len(NewBuffer.data) + Len(s)) <= Word
    BY <1>2, <1>3, <1>7, <1>12, <1>13, <2>1
  <2> QED
    BY <1>7, <1>8, <2>1, <2>2, WriteBytesSound
<1>15. Len(wire') + Len(buf'.data) <= x
  BY <1>1, <1>2, <1>10, <1>12, <1>13
<1> QED
  BY <1>1, <1>11, <1>14, <1>15 DEF StreamInv, x

LEMMA EspconnSendKeeps ==
  ASSUME StreamInv, NEW packet, NEW meant, EspconnSend(packet, meant), MaxPackets > 0 => Sound(packet)
  PROVE  StreamInv'
<1>1. /\ ~Down /\ ~Down' /\ Len(sent) < MaxPackets /\ sent' = Append(sent, meant)
      /\ pkt' = packet /\ wire' = wire \o packet.data /\ scenario' = scenario /\ buf' = buf
  BY DEF EspconnSend, Down
<1>2. /\ sent' = [i \in 1..Len(sent') |-> sent'[i]]
      /\ Len(sent') \in 0..MaxPackets /\ MaxPackets > 0
  BY <1>1, SentGrows
<1>3. Sound(packet) /\ packet.data \in Seq(Bytes)
  BY <1>2 DEF Sound, Buffers
<1>4. wire' \in Seq(Bytes)
  <2>1. wire \in Seq(Bytes)
    BY DEF StreamInv
  <2> QED
    BY <1>1, <1>3, <2>1, ConcatProperties
<1>5. Sound(pkt') /\ Sound(buf')
  BY <1>1, <1>3 DEF StreamInv, Sound, Buffers
<1> QED
  BY <1>1, <1>2, <1>4, <1>5 DEF StreamInv

LEMMA DeviceSendsKeeps ==
  StreamInv /\ (EdpLogin \/ EdpHeartbeat \/ EdpPushdata \/ EdpSavedata \/ EdpCmdresp) => StreamInv'
<1> SUFFICES ASSUME StreamInv PROVE EdpLogin \/ EdpHeartbeat \/ EdpPushdata \/ EdpSavedata \/ EdpCmdresp => StreamInv'
  OBVIOUS
<1>1. ASSUME EdpLogin PROVE StreamInv'
  <2>1. PICK id \in Strings, auth \in Strings :
          \E meant : EspconnSend(PacketConnect1(id, auth), meant) \/ EspconnSend(PacketConnect2(id, auth), meant)
    BY <1>1 DEF EdpLogin
  <2> QED
    BY <2>1, EspconnSendKeeps, ConnectSound
<1>2. ASSUME EdpHeartbeat PROVE StreamInv'
  <2>1. PICK meant : EspconnSend(PacketPing, meant)
    BY <1>2 DEF EdpHeartbeat
  <2> QED
    BY <2>1, EspconnSendKeeps, PingSound
<1>3. ASSUME EdpPushdata PROVE StreamInv'
  <2>1. PICK dst \in Strings, data \in Strings : \E meant : EspconnSend(PacketPushdata(dst, data), meant)
    BY <1>3 DEF EdpPushdata
  <2> QED
    BY <2>1, EspconnSendKeeps, PushdataSound
<1>4. ASSUME EdpSavedata PROVE StreamInv'
  <2>1. PICK dst \in Destinations, s \in Strings, bin \in Strings :
          \E meant : \/ EspconnSend(PacketSaveField(dst, s), meant) \/ EspconnSend(PacketSaveJson(dst, s), meant)
                     \/ /\ PacketSavedataBin(dst, s, bin) # <<>>
                        /\ EspconnSend(PacketSavedataBin(dst, s, bin)[1], meant)
    BY <1>4 DEF EdpSavedata
  <2> QED
    BY <2>1, EspconnSendKeeps, SaveSound
<1>5. ASSUME EdpCmdresp PROVE StreamInv'
  <2>1. PICK id \in Strings, body \in Strings : \E meant : EspconnSend(PacketCmdresp(id, body), meant)
    BY <1>5 DEF EdpCmdresp
  <2> QED
    BY <2>1, EspconnSendKeeps, CmdrespSound
<1> QED
  BY <1>1, <1>2, <1>3, <1>4, <1>5

LEMMA CloudReadsKeeps == StreamInv /\ CloudReads => StreamInv'
<1> SUFFICES ASSUME StreamInv, CloudReads PROVE StreamInv'
  OBVIOUS
<1> DEFINE l == LengthOf(wire)
           d == LengthDigits(wire)
<1>1. /\ Whole(wire) /\ wire' = SubSeq(wire, 2 + d + l, Len(wire))
      /\ scenario' = scenario /\ sent' = sent /\ buf' = buf /\ pkt' = pkt /\ ~Down /\ ~Down'
  BY DEF CloudReads, Down
<1>2. wire \in Seq(Bytes) /\ Len(wire) \in Nat
  BY LenProperties DEF StreamInv
<1>3. d \in 1..2 /\ l \in Nat
  <2>1. Len(wire) >= 2 /\ Len(wire) >= 1 + LengthDigits(wire)
    BY <1>1 DEF Whole
  <2>2. wire[2] \in Nat
    <3>1. 2 \in 1..Len(wire)
      BY <1>2, <2>1
    <3>2. wire[2] \in Bytes
      BY <1>2, <3>1, ElementOfSeq
    <3> QED
      BY <3>2, Constants DEF Bytes
  <2>3. CASE wire[2] < Radix
    BY <2>2, <2>3 DEF LengthDigits, LengthOf
  <2>4. CASE ~(wire[2] < Radix)
    <3>1. d = 2 /\ l = wire[2] - Radix + Radix * wire[3]
      BY <2>4 DEF LengthDigits, LengthOf
    <3>2. 3 \in 1..Len(wire)
      BY <1>2, <2>1, <3>1
    <3>3. wire[3] \in Bytes
      BY <1>2, <3>2, ElementOfSeq
    <3>4. wire[3] \in Nat /\ Radix * wire[3] \in Nat
      BY <3>3, Constants DEF Bytes
    <3>5. wire[2] - Radix \in Nat
      BY <2>2, <2>4, Constants
    <3> HIDE DEF d, l
    <3> QED
      BY <3>1, <3>4, <3>5
  <2> QED
    BY <2>3, <2>4
<1> HIDE DEF d, l
<1>4. wire' \in Seq(Bytes)
  <2> DEFINE a == 2 + d + l
  <2>1. a \in Nat /\ a >= 1
    BY <1>3
  <2> HIDE DEF a
  <2>2. \A i \in a..Len(wire) : wire[i] \in Bytes
    BY <1>2, <2>1, ElementOfSeq
  <2>3. SubSeq(wire, a, Len(wire)) \in Seq(Bytes)
    BY <1>2, <2>1, <2>2, SubSeqProperties
  <2> QED
    BY <1>1, <2>3 DEF a
<1> QED
  BY <1>1, <1>4 DEF StreamInv, Sound, Buffers

LEMMA StreamInvHolds == Spec => []StreamInv
<1>1. StreamInv /\ [Next]_vars => StreamInv'
  <2> SUFFICES ASSUME StreamInv, [Next]_vars PROVE StreamInv'
    OBVIOUS
  <2>1. CASE UNCHANGED vars
    BY <2>1 DEF StreamInv, vars, Down, Sound, Buffers
  <2> QED
    BY <2>1, CloudSendsKeeps, RecvCallbackKeeps, BufferSegmentKeeps, TakePacketKeeps, DeviceSendsKeeps,
       CloudReadsKeeps DEF Next
<1> QED
  BY <1>1, InitHolds, PTL DEF Spec

\* Buffers hold bytes and never more of them than they have room for: WriteBytes asks
\* CheckCapacity, whose doublings do not wrap around before they are enough, and
\* WriteRemainlen, which does not ask, writes at most five bytes behind the type.
THEOREM BuffersHold == Spec => []TypeOK
<1>1. StreamInv => TypeOK
  BY DEF StreamInv, TypeOK, Sound, Buffers, Bytes
<1> QED
  BY <1>1, StreamInvHolds, PTL

-----------------------------------------------------------------------------
(* What stands where.                                                        *)

\* The bytes of x stand in d, behind position p.
Stands(d, p, x) ==
  /\ d \in Seq(Bytes) /\ x \in Seq(Bytes)
  /\ p \in Nat /\ p + Len(x) <= Len(d)
  /\ \A j \in 1..Len(x) : d[p + j] = x[j]

\* Where the parts of a sequence stand.
LEMMA StandsSelf == ASSUME NEW d \in Seq(Bytes) PROVE Stands(d, 0, d)
<1>1. Len(d) \in Nat
  BY LenProperties
<1>2. \A j \in 1..Len(d) : 0 + j = j
  BY <1>1
<1> QED
  BY <1>1, <1>2 DEF Stands

LEMMA StandsParts ==
  ASSUME NEW d, NEW p, NEW x \in Seq(Bytes), NEW y \in Seq(Bytes), Stands(d, p, x \o y)
  PROVE  Stands(d, p, x) /\ Stands(d, p + Len(x), y)
<1> DEFINE z == x \o y
<1>1. Len(x) \in Nat /\ Len(y) \in Nat
  BY LenProperties
<1>2. /\ z \in Seq(Bytes) /\ Len(z) = Len(x) + Len(y)
      /\ \A i \in 1..Len(x) + Len(y) : z[i] = IF i <= Len(x) THEN x[i] ELSE y[i - Len(x)]
  BY ConcatProperties
<1>3. Stands(d, p, z)
  OBVIOUS
<1> HIDE DEF z
<1>4. /\ d \in Seq(Bytes) /\ p \in Nat /\ p + (Len(x) + Len(y)) <= Len(d) /\ Len(d) \in Nat
      /\ \A j \in 1..Len(x) + Len(y) : d[p + j] = z[j]
  BY <1>2, <1>3, LenProperties DEF Stands
<1>5. ASSUME NEW j \in 1..Len(x) PROVE d[p + j] = x[j]
  <2>1. j \in 1..Len(x) + Len(y) /\ j <= Len(x)
    BY <1>1
  <2> QED
    BY <1>2, <1>4, <2>1
<1>6. ASSUME NEW j \in 1..Len(y) PROVE d[(p + Len(x)) + j] = y[j]
  <2>1. Len(x) + j \in 1..Len(x) + Len(y) /\ ~(Len(x) + j <= Len(x)) /\ (Len(x) + j) - Len(x) = j
    BY <1>1
  <2>2. d[p + (Len(x) + j)] = y[j]
    BY <1>2, <1>4, <2>1
  <2>3. p + (Len(x) + j) = (p + Len(x)) + j
    BY <1>1, <1>4
  <2> QED
    BY <2>2, <2>3
<1>7. p + Len(x) <= Len(d) /\ p + Len(x) \in Nat /\ (p + Len(x)) + Len(y) <= Len(d)
  BY <1>1, <1>4
<1> QED
  BY <1>4, <1>5, <1>6, <1>7 DEF Stands

\* What stands in a sequence can be cut out of it.
LEMMA StandsCut ==
  ASSUME NEW d, NEW p, NEW x, Stands(d, p, x)
  PROVE  SubSeq(d, p + 1, p + Len(x)) = x
<1> DEFINE s == SubSeq(d, p + 1, p + Len(x))
<1>1. /\ d \in Seq(Bytes) /\ x \in Seq(Bytes) /\ p \in Nat /\ p + Len(x) <= Len(d)
      /\ Len(x) \in Nat /\ Len(d) \in Nat /\ \A j \in 1..Len(x) : d[p + j] = x[j]
  BY LenProperties DEF Stands
<1>2. ASSUME NEW i \in (p + 1)..(p + Len(x)) PROVE d[i] \in Bytes
  <2>1. i \in 1..Len(d)
    BY <1>1
  <2> QED
    BY <1>1, <2>1, ElementOfSeq
<1>3. /\ s \in Seq(Bytes)
      /\ Len(s) = IF p + 1 <= p + Len(x) THEN (p + Len(x)) - (p + 1) + 1 ELSE 0
      /\ \A i \in 1..((p + Len(x)) - (p + 1) + 1) : s[i] = d[(p + 1) + i - 1]
  <2>1. p + 1 \in Int /\ p + Len(x) \in Int
    BY <1>1
  <2> QED
    BY <1>2, <2>1, SubSeqProperties
<1> HIDE DEF s
<1>4. (p + Len(x)) - (p + 1) + 1 = Len(x) /\ (p + 1 <= p + Len(x) <=> Len(x) # 0)
  BY <1>1
<1>5. Len(s) = Len(x) /\ \A i \in 1..Len(x) : s[i] = d[(p + 1) + i - 1]
  BY <1>1, <1>3, <1>4
<1>6. ASSUME NEW i \in 1..Len(x) PROVE s[i] = x[i]
  <2>1. (p + 1) + i - 1 = p + i
    BY <1>1
  <2> QED
    BY <1>1, <1>5, <2>1
<1>7. s = x
  BY <1>1, <1>3, <1>5, <1>6, SeqEqual
<1> QED
  BY <1>7 DEF s

\* What stands in d at the place of x, but further inside.
LEMMA StandsInside ==
  ASSUME NEW d, NEW p, NEW x, Stands(d, p, x), NEW q \in Nat, NEW y, Stands(d, p + q, y), q + Len(y) <= Len(x)
  PROVE  Stands(x, q, y)
<1>1. /\ x \in Seq(Bytes) /\ p \in Nat /\ Len(x) \in Nat
      /\ \A j \in 1..Len(x) : d[p + j] = x[j]
  BY LenProperties DEF Stands
<1>2. y \in Seq(Bytes) /\ Len(y) \in Nat /\ \A j \in 1..Len(y) : d[(p + q) + j] = y[j]
  BY LenProperties DEF Stands
<1>3. ASSUME NEW j \in 1..Len(y) PROVE x[q + j] = y[j]
  <2>1. q + j \in 1..Len(x) /\ p + (q + j) = (p + q) + j
    BY <1>1, <1>2
  <2> QED
    BY <1>1, <1>2, <2>1
<1> QED
  BY <1>1, <1>2, <1>3 DEF Stands

-----------------------------------------------------------------------------
(* Numbers in bytes.                                                         *)

\* Numbers of two digits.
LEMMA Zero == \A d \in Nat \ {0} : 0 \div d = 0 /\ 0 % d = 0
OBVIOUS

\* A number that has two digits of base b.
LEMMA TwoDigits ==
  ASSUME NEW n \in Nat, NEW b \in Nat \ {0}, n < b * b
  PROVE  /\ n \div b \in 0..b - 1 /\ n % b \in 0..b - 1
         /\ (n \div b) % b = n \div b /\ b * (n \div b) + (n % b) = n
         /\ n \div (b * b) = 0 /\ n % (b * b) = n
<1> DEFINE q == n \div b
<1>1. q \in Nat /\ n % b \in 0..b - 1 /\ n = b * q + (n % b)
  BY Quotient, Division
<1>2. q < b
  BY QuotientBelow
<1> HIDE DEF q
<1>3. q \in 0..b - 1
  BY <1>1, <1>2
<1>4. q % b = q
  BY <1>3, NoWrap
<1>5. b * b \in Nat \ {0}
  BY Product
<1>6. n % (b * b) = n
  <2> DEFINE d == b * b
  <2>1. d \in Nat \ {0} /\ n \in 0..d - 1
    BY <1>5
  <2> HIDE DEF d
  <2>2. n % d = n
    BY <2>1, NoWrap
  <2> QED
    BY <2>2 DEF d
<1>7. n \div (b * b) = 0
  <2> DEFINE d == b * b
             k == n \div d
  <2>1. d \in Nat \ {0} /\ n < d
    BY <1>5
  <2>2. k \in Nat /\ n = d * k + (n % d) /\ n % d = n
    <3> HIDE DEF k, d
    <3>1. n \div d \in Nat /\ n = d * (n \div d) + (n % d)
      BY <2>1, Quotient, Division
    <3> QED
      BY <1>6, <3>1 DEF d, k
  <2> HIDE DEF k, d
  <2>3. d * k = 0
    BY <2>1, <2>2
  <2>4. k = 0
    BY <2>1, <2>2, <2>3, Product
  <2> QED
    BY <2>4 DEF k, d
<1> QED
  BY <1>1, <1>3, <1>4, <1>6, <1>7 DEF q

LEMMA PowerIs == Power[0] = 1 /\ Power[1] = Radix /\ Power[2] = Radix * Radix
<1>1. PICK g : Powers(g, Radix, 5)
  BY PowersExist
<1> DEFINE Is(f) == f = [k \in 0..5 |-> IF k = 0 THEN 1 ELSE Radix * f[k - 1]]
<1>2. Power = CHOOSE f : Is(f)
  BY DEF Power
<1>3. Is(g)
  BY <1>1 DEF Powers
<1>4. Is(Power)
  <2> HIDE DEF Is
  <2> QED
    BY <1>2, <1>3
<1>5. \A k \in 0..5 : Power[k] = IF k = 0 THEN 1 ELSE Radix * Power[k - 1]
  BY <1>4
<1> HIDE DEF Is
<1>6. Power[0] = 1
  BY <1>5
<1>7. Power[1] = Radix * Power[0] /\ Power[2] = Radix * Power[1]
  BY <1>5
<1>8. Radix * 1 = Radix
  BY Constants
<1> QED
  BY <1>6, <1>7, <1>8

LEMMA BasePowerIs ==
  BasePower[0] = 1 /\ BasePower[1] = Base /\ BasePower[2] = Base * Base /\ BasePower[3] = Base * (Base * Base)
<1>1. PICK g : Powers(g, Base, 3)
  BY PowersExist
<1> DEFINE Is(f) == f = [k \in 0..3 |-> IF k = 0 THEN 1 ELSE Base * f[k - 1]]
<1>2. BasePower = CHOOSE f : Is(f)
  BY DEF BasePower
<1>3. Is(g)
  BY <1>1 DEF Powers
<1>4. Is(BasePower)
  <2> HIDE DEF Is
  <2> QED
    BY <1>2, <1>3
<1>5. \A k \in 0..3 : BasePower[k] = IF k = 0 THEN 1 ELSE Base * BasePower[k - 1]
  BY <1>4
<1> HIDE DEF Is
<1>6. BasePower[0] = 1
  BY <1>5
<1>7. BasePower[1] = Base * BasePower[0] /\ BasePower[2] = Base * BasePower[1] /\ BasePower[3] = Base * BasePower[2]
  BY <1>5
<1>8. Base * 1 = Base
  BY Constants
<1> QED
  BY <1>6, <1>7, <1>8

\* Numbers that two bytes hold.
Lengths == 0..(Base * Base) - 1

LEMMA LengthParts ==
  ASSUME NEW n \in Lengths
  PROVE  /\ n \in Nat /\ n \div Base \in Bytes /\ n % Base \in Bytes
         /\ (n \div Base) % Base = n \div Base /\ Base * (n \div Base) + (n % Base) = n
         /\ n \div (Base * Base) = 0 /\ n % (Base * Base) = n
<1>1. Base \in Nat \ {0} /\ n \in Nat /\ n < Base * Base
  BY Constants DEF Lengths
<1> QED
  BY <1>1, TwoDigits DEF Bytes

\* A length in two bytes and in four, by EdpCodec's definitions and by the reference ones.
LEMMA Uint16Is ==
  ASSUME NEW n \in Lengths
  PROVE  Uint16(n) = <<n \div Base, n % Base>> /\ Big(n, 2) = Uint16(n)
<1>1. Uint16(n) = <<n \div Base, n % Base>>
  BY LengthParts DEF Uint16
<1>2. n \in Nat /\ n \div 1 = n
  BY LengthParts
<1>3. Big(n, 2) = [k \in 1..2 |-> (n \div BasePower[2 - k]) % Base]
  BY DEF Big
<1>4. BasePower[2 - 1] = Base /\ BasePower[2 - 2] = 1
  <2>1. 2 - 1 = 1 /\ 2 - 2 = 0
    OBVIOUS
  <2> QED
    BY <2>1, BasePowerIs
<1>5. Big(n, 2) = <<(n \div Base) % Base, (n \div 1) % Base>>
  <2> DEFINE f(k) == (n \div BasePower[2 - k]) % Base
  <2>1. f(1) = (n \div Base) % Base /\ f(2) = (n \div 1) % Base
    BY <1>4
  <2>2. Big(n, 2) = [k \in 1..2 |-> f(k)]
    BY <1>3
  <2> HIDE DEF f
  <2>3. [k \in 1..2 |-> f(k)] = <<f(1), f(2)>>
    OBVIOUS
  <2> QED
    BY <2>1, <2>2, <2>3
<1>6. Big(n, 2) = <<n \div Base, n % Base>>
  BY <1>2, <1>5, LengthParts
<1> QED
  BY <1>1, <1>6

LEMMA DivisionOnce ==
  ASSUME NEW n \in Lengths
  PROVE  n \div (Base * (Base * Base)) = 0
<1> DEFINE c == Base * Base
           d == Base * c
           k == n \div d
<1>1. c \in Nat \ {0} /\ n \in Nat /\ n < c /\ Base \in Nat \ {0}
  <2>1. c \in Nat \ {0}
    BY Constants, Product
  <2> QED
    BY <2>1, Constants DEF Lengths
<1>2. d \in Nat \ {0} /\ d >= c
  <2> HIDE DEF c
  <2>1. (Base - 1) * c \in Nat /\ d = c + (Base - 1) * c
    BY <1>1
  <2> HIDE DEF d
  <2> QED
    BY <1>1, <2>1
<1> HIDE DEF c, d
<1>3. k \in Nat /\ n = d * k + (n % d) /\ n % d = n
  <2> HIDE DEF k
  <2>1. n \div d \in Nat /\ n = d * (n \div d) + (n % d)
    BY <1>1, <1>2, Quotient, Division
  <2>2. n \in 0..d - 1
    BY <1>1, <1>2
  <2>3. n % d = n
    BY <1>2, <2>2, NoWrap
  <2> QED
    BY <2>1, <2>3 DEF k
<1> HIDE DEF k
<1>4. d * k = 0
  <2>1. d * k \in Nat
    BY <1>2, <1>3, Product
  <2> QED
    BY <1>1, <1>3, <2>1
<1>5. k = 0
  BY <1>2, <1>3, <1>4, Product
<1> QED
  BY <1>5 DEF c, d, k

LEMMA Uint32Is ==
  ASSUME NEW n \in Lengths
  PROVE  Uint32(n) = <<0, 0, n \div Base, n % Base>> /\ Big(n, 4) = Uint32(n)
<1>1. n \div (Base * Base) = 0 /\ n % (Base * Base) = n
  BY LengthParts
<1>2. 0 \in Lengths
  <2>1. Base * Base \in Nat \ {0}
    BY Constants, Product
  <2> HIDE DEF Base
  <2> QED
    BY <2>1 DEF Lengths
<1>3. 0 \div Base = 0 /\ 0 % Base = 0 /\ Base \in Nat \ {0}
  BY Constants, Zero
<1>4. Uint16(0) = <<0, 0>>
  BY <1>2, <1>3, Uint16Is
<1>5. Uint32(n) = <<0, 0>> \o Uint16(n)
  BY <1>1, <1>4 DEF Uint32
<1>6. Uint32(n) = <<0, 0, n \div Base, n % Base>>
  <2>1. Uint16(n) = <<n \div Base, n % Base>>
    BY Uint16Is
  <2>2. \A a, b \in Bytes : <<0, 0>> \o <<a, b>> = <<0, 0, a, b>>
    <3> SUFFICES ASSUME NEW a \in Bytes, NEW b \in Bytes PROVE <<0, 0>> \o <<a, b>> = <<0, 0, a, b>>
      OBVIOUS
    <3> DEFINE x == <<0, 0>>
               y == <<a, b>>
               z == <<0, 0, a, b>>
               w == x \o y
    <3>0. 0 \in Bytes
      BY Constants DEF Bytes
    <3>1. /\ x \in Seq(Bytes) /\ y \in Seq(Bytes) /\ z \in Seq(Bytes) /\ Len(x) = 2 /\ Len(y) = 2 /\ Len(z) = 4
          /\ x[1] = 0 /\ x[2] = 0 /\ y[1] = a /\ y[2] = b /\ z[1] = 0 /\ z[2] = 0 /\ z[3] = a /\ z[4] = b
      BY <3>0
    <3> HIDE DEF x, y, z
    <3>2. /\ w \in Seq(Bytes) /\ Len(w) = 4
          /\ \A i \in 1..4 : w[i] = IF i <= 2 THEN x[i] ELSE y[i - 2]
      <4>1. /\ w \in Seq(Bytes) /\ Len(w) = Len(x) + Len(y)
            /\ \A i \in 1..Len(x) + Len(y) : w[i] = IF i <= Len(x) THEN x[i] ELSE y[i - Len(x)]
        BY <3>1, ConcatProperties
      <4> HIDE DEF w
      <4>2. Len(x) + Len(y) = 4
        BY <3>1
      <4> QED
        BY <3>1, <4>1, <4>2
    <3> HIDE DEF w
    <3>3. w[1] = x[1] /\ w[2] = x[2] /\ w[3] = y[3 - 2] /\ w[4] = y[4 - 2]
      BY <3>2
    <3>4. \A i \in 1..4 : w[i] = z[i]
      <4>1. 3 - 2 = 1 /\ 4 - 2 = 2 /\ \A i \in 1..4 : i = 1 \/ i = 2 \/ i = 3 \/ i = 4
        OBVIOUS
      <4> QED
        BY <3>1, <3>3, <4>1
    <3>5. w = z
      BY <3>1, <3>2, <3>4, SeqEqual
    <3> QED
      BY <3>5 DEF w, x, y, z
  <2> QED
    BY <1>5, <2>1, <2>2, LengthParts
<1>7. n \in Nat /\ n \div 1 = n
  BY LengthParts
<1> DEFINE f(k) == (n \div BasePower[4 - k]) % Base
<1>8. f(1) = 0 /\ f(2) = 0 /\ f(3) = n \div Base /\ f(4) = n % Base
  <2>1. 4 - 1 = 3 /\ 4 - 2 = 2 /\ 4 - 3 = 1 /\ 4 - 4 = 0
    OBVIOUS
  <2>2. /\ BasePower[4 - 1] = Base * (Base * Base) /\ BasePower[4 - 2] = Base * Base
        /\ BasePower[4 - 3] = Base /\ BasePower[4 - 4] = 1
    BY <2>1, BasePowerIs
  <2>3. (n \div Base) % Base = n \div Base
    BY LengthParts
  <2> QED
    BY <1>1, <1>3, <1>7, <2>2, <2>3, DivisionOnce
<1>9. Big(n, 4) = [k \in 1..4 |-> f(k)]
  BY DEF Big
<1>10. Big(n, 4) = <<f(1), f(2), f(3), f(4)>>
  <2> HIDE DEF f
  <2> QED
    BY <1>9
<1> QED
  BY <1>6, <1>8, <1>10

\* Reading numbers the cloud's way.
LEMMA SmallIs ==
  /\ \A a, b \in Bytes : Small(<<a, b>>) = Base * a + b
  /\ \A a, b, c, d \in Bytes : Small(<<a, b, c, d>>) = Base * (Base * (Base * a + b) + c) + d
<1>1. ASSUME NEW bytes, NEW n \in {2, 4}, Len(bytes) = n, NEW w,
             w = [k \in 0..n |-> IF k = 0 THEN 0 ELSE Base * w[k - 1] + bytes[k]]
      PROVE  \E g : /\ Small(bytes) = g[n] /\ g[0] = 0
                    /\ \A k \in 1..n : g[k] = Base * g[k - 1] + bytes[k]
  <2> DEFINE Is(f) == f = [k \in 0..n |-> IF k = 0 THEN 0 ELSE Base * f[k - 1] + bytes[k]]
             g == CHOOSE f : Is(f)
  <2>1. Small(bytes) = g[n]
    BY <1>1 DEF Small
  <2>2. Is(g)
    <3>1. Is(w)
      BY <1>1
    <3> HIDE DEF Is
    <3> QED
      BY <3>1
  <2> HIDE DEF g
  <2>3. \A k \in 0..n : g[k] = IF k = 0 THEN 0 ELSE Base * g[k - 1] + bytes[k]
    BY <2>2
  <2>4. g[0] = 0 /\ \A k \in 1..n : g[k] = Base * g[k - 1] + bytes[k]
    BY <2>3
  <2> QED
    BY <2>1, <2>4
<1>2. ASSUME NEW a \in Bytes, NEW b \in Bytes PROVE Small(<<a, b>>) = Base * a + b
  <2> DEFINE s == <<a, b>>
             w == [k \in 0..2 |-> CASE k = 0 -> 0 [] k = 1 -> Base * 0 + a [] OTHER -> Base * (Base * 0 + a) + b]
  <2>1. w[0] = 0 /\ w[1] = Base * 0 + a /\ w[2] = Base * (Base * 0 + a) + b
    OBVIOUS
  <2>2. w = [k \in 0..2 |-> w[k]]
    OBVIOUS
  <2>3. s[1] = a /\ s[2] = b /\ Len(s) = 2
    OBVIOUS
  <2> HIDE DEF w, s
  <2>4. \A k \in 0..2 : w[k] = IF k = 0 THEN 0 ELSE Base * w[k - 1] + s[k]
    <3>1. w[1] = Base * w[1 - 1] + s[1] /\ w[2] = Base * w[2 - 1] + s[2]
      BY <2>1, <2>3, 1 - 1 = 0, 2 - 1 = 1
    <3>2. \A k \in 0..2 : k = 0 \/ k = 1 \/ k = 2
      OBVIOUS
    <3> QED
      BY <2>1, <3>1, <3>2
  <2>5. w = [k \in 0..2 |-> IF k = 0 THEN 0 ELSE Base * w[k - 1] + s[k]]
    BY <2>2, <2>4
  <2>6. PICK g : Small(s) = g[2] /\ g[0] = 0 /\ \A k \in 1..2 : g[k] = Base * g[k - 1] + s[k]
    BY <1>1, <2>3, <2>5
  <2>7. g[1] = Base * g[0] + a /\ g[2] = Base * g[1] + b
    <3>1. g[1] = Base * g[1 - 1] + s[1] /\ g[2] = Base * g[2 - 1] + s[2]
      BY <2>6
    <3> QED
      BY <2>3, <3>1, 1 - 1 = 0, 2 - 1 = 1
  <2>8. a \in Nat /\ Base * 0 + a = a
    BY Constants DEF Bytes
  <2> QED
    BY <2>6, <2>7, <2>8 DEF s
<1>3. ASSUME NEW a \in Bytes, NEW b \in Bytes, NEW c \in Bytes, NEW d \in Bytes
      PROVE  Small(<<a, b, c, d>>) = Base * (Base * (Base * a + b) + c) + d
  <2> DEFINE s == <<a, b, c, d>>
             w == [k \in 0..4 |-> CASE k = 0 -> 0 [] k = 1 -> Base * 0 + a [] k = 2 -> Base * (Base * 0 + a) + b
                                    [] k = 3 -> Base * (Base * (Base * 0 + a) + b) + c
                                    [] OTHER -> Base * (Base * (Base * (Base * 0 + a) + b) + c) + d]
  <2>1. /\ w[0] = 0 /\ w[1] = Base * 0 + a /\ w[2] = Base * (Base * 0 + a) + b
        /\ w[3] = Base * (Base * (Base * 0 + a) + b) + c
        /\ w[4] = Base * (Base * (Base * (Base * 0 + a) + b) + c) + d
    OBVIOUS
  <2>2. w = [k \in 0..4 |-> w[k]]
    OBVIOUS
  <2>3. s[1] = a /\ s[2] = b /\ s[3] = c /\ s[4] = d /\ Len(s) = 4
    OBVIOUS
  <2> HIDE DEF w, s
  <2>4. \A k \in 0..4 : w[k] = IF k = 0 THEN 0 ELSE Base * w[k - 1] + s[k]
    <3>1. /\ w[1] = Base * w[1 - 1] + s[1] /\ w[2] = Base * w[2 - 1] + s[2]
          /\ w[3] = Base * w[3 - 1] + s[3] /\ w[4] = Base * w[4 - 1] + s[4]
      BY <2>1, <2>3, 1 - 1 = 0, 2 - 1 = 1, 3 - 1 = 2, 4 - 1 = 3
    <3>2. \A k \in 0..4 : k = 0 \/ k = 1 \/ k = 2 \/ k = 3 \/ k = 4
      OBVIOUS
    <3> QED
      BY <2>1, <3>1, <3>2
  <2>5. w = [k \in 0..4 |-> IF k = 0 THEN 0 ELSE Base * w[k - 1] + s[k]]
    BY <2>2, <2>4
  <2>6. PICK g : Small(s) = g[4] /\ g[0] = 0 /\ \A k \in 1..4 : g[k] = Base * g[k - 1] + s[k]
    BY <1>1, <2>3, <2>5
  <2>7. /\ g[1] = Base * g[0] + a /\ g[2] = Base * g[1] + b
        /\ g[3] = Base * g[2] + c /\ g[4] = Base * g[3] + d
    <3>1. /\ g[1] = Base * g[1 - 1] + s[1] /\ g[2] = Base * g[2 - 1] + s[2]
          /\ g[3] = Base * g[3 - 1] + s[3] /\ g[4] = Base * g[4 - 1] + s[4]
      BY <2>6
    <3> QED
      BY <2>3, <3>1, 1 - 1 = 0, 2 - 1 = 1, 3 - 1 = 2, 4 - 1 = 3
  <2>8. a \in Nat /\ Base * 0 + a = a
    BY Constants DEF Bytes
  <2> QED
    BY <2>6, <2>7, <2>8 DEF s
<1> QED
  BY <1>2, <1>3

\* What is read of a length that was written.
LEMMA SmallOfLengths ==
  ASSUME NEW n \in Lengths
  PROVE  Small(Uint16(n)) = n /\ Small(Uint32(n)) = n
<1> DEFINE q == n \div Base
           r == n % Base
<1>1. q \in Bytes /\ r \in Bytes /\ Base * q + r = n /\ 0 \in Bytes
  BY LengthParts, Constants DEF Bytes
<1>2. Uint16(n) = <<q, r>> /\ Uint32(n) = <<0, 0, q, r>>
  BY Uint16Is, Uint32Is
<1> HIDE DEF q, r
<1>3. Small(<<q, r>>) = Base * q + r
  BY <1>1, SmallIs
<1>4. Small(<<0, 0, q, r>>) = Base * (Base * (Base * 0 + 0) + q) + r
  BY <1>1, SmallIs
<1>5. Base * 0 + 0 = 0 /\ q \in Nat /\ 0 + q = q
  BY <1>1, Constants DEF Bytes
<1>6. Base * (Base * 0 + 0) + q = q
  <2>1. Base * 0 = 0
    BY Constants
  <2> QED
    BY <1>5, <2>1
<1> QED
  BY <1>1, <1>2, <1>3, <1>4, <1>6

-----------------------------------------------------------------------------
(* Readers.                                                                  *)

\* A reader of d at position p that has just read v.
Behind(d, p, v) == [data |-> d, pos |-> p, rc |-> TRUE, val |-> v]

\* Reading what stands where the reader is.
LEMMA ReadBytesAt ==
  ASSUME NEW d, NEW p, NEW v, NEW x, Stands(d, p, x)
  PROVE  ReadBytes(Behind(d, p, v), Len(x)) = Behind(d, p + Len(x), x)
<1> DEFINE r == Behind(d, p, v)
           n == Len(x)
<1>1. p + n <= Len(d)
  BY DEF Stands
<1>2. SubSeq(d, p + 1, p + n) = x
  BY StandsCut
<1> HIDE DEF n
<1>3. CanRead(r, n) /\ r.data = d /\ r.pos = p
  BY <1>1 DEF CanRead, Behind
<1>4. ReadBytes(r, n) = [r EXCEPT !.pos = @ + n, !.val = SubSeq(r.data, r.pos + 1, r.pos + n)]
  BY <1>3 DEF ReadBytes
<1>5. ReadBytes(r, n) = [r EXCEPT !.pos = p + n, !.val = x]
  BY <1>2, <1>3, <1>4
<1> QED
  BY <1>5 DEF Behind, n

LEMMA ReadByteAt ==
  ASSUME NEW d, NEW p, NEW v, NEW b, Stands(d, p, <<b>>)
  PROVE  ReadByte(Behind(d, p, v)) = Behind(d, p + 1, <<b>>)
<1>1. Len(<<b>>) = 1
  OBVIOUS
<1> QED
  BY <1>1, ReadBytesAt DEF ReadByte

LEMMA ReadUint16At ==
  ASSUME NEW d, NEW p, NEW v, NEW n \in Lengths, Stands(d, p, Uint16(n))
  PROVE  ReadUint16(Behind(d, p, v)) = Behind(d, p + 2, <<n>>)
<1> DEFINE q == n \div Base
           t == n % Base
<1>1. Uint16(n) = <<q, t>> /\ Base * q + t = n
  BY Uint16Is, LengthParts
<1> HIDE DEF q, t
<1> DEFINE r == Behind(d, p, v)
           x == <<q, t>>
           b == ReadBytes(r, 2)
<1>2. Len(x) = 2 /\ x[1] = q /\ x[2] = t
  OBVIOUS
<1>3. b = Behind(d, p + 2, x)
  <2>1. Stands(d, p, x)
    BY <1>1
  <2> HIDE DEF x
  <2>2. ReadBytes(Behind(d, p, v), Len(x)) = Behind(d, p + Len(x), x)
    BY <2>1, ReadBytesAt
  <2> QED
    BY <1>2, <2>2
<1> HIDE DEF x
<1>4. ReadUint16(r) = IF b.rc THEN [b EXCEPT !.val = <<Base * b.val[1] + b.val[2]>>] ELSE b
  BY DEF ReadUint16
<1> HIDE DEF b, r
<1>5. b.rc /\ b.val = x
  BY <1>3 DEF Behind
<1>6. ReadUint16(r) = [b EXCEPT !.val = <<n>>]
  BY <1>1, <1>2, <1>4, <1>5
<1>7. ReadUint16(r) = Behind(d, p + 2, <<n>>)
  BY <1>3, <1>6 DEF Behind
<1> QED
  BY <1>7 DEF r

LEMMA ReadUint32At ==
  ASSUME NEW d, NEW p, NEW v, NEW n \in Lengths, Stands(d, p, Uint32(n))
  PROVE  ReadUint32(Behind(d, p, v)) = Behind(d, p + 4, <<n>>)
<1> DEFINE q == n \div Base
           t == n % Base
<1>1. Uint32(n) = <<0, 0, q, t>> /\ Base * q + t = n /\ q \in Bytes
  BY Uint32Is, LengthParts
<1> HIDE DEF q, t
<1> DEFINE r == Behind(d, p, v)
           x == <<0, 0, q, t>>
           b == ReadBytes(r, 4)
<1>2. Len(x) = 4 /\ x[1] = 0 /\ x[2] = 0 /\ x[3] = q /\ x[4] = t
  OBVIOUS
<1>3. b = Behind(d, p + 4, x)
  <2>1. Stands(d, p, x)
    BY <1>1
  <2> HIDE DEF x
  <2>2. ReadBytes(Behind(d, p, v), Len(x)) = Behind(d, p + Len(x), x)
    BY <2>1, ReadBytesAt
  <2> QED
    BY <1>2, <2>2
<1> HIDE DEF x
<1>4. ReadUint32(r) =
        IF b.rc THEN [b EXCEPT !.val = <<Base * (Base * (Base * b.val[1] + b.val[2]) + b.val[3]) + b.val[4]>>] ELSE b
  BY DEF ReadUint32
<1> HIDE DEF b, r
<1>5. b.rc /\ b.val = x
  BY <1>3 DEF Behind
<1>6. Base * (Base * (Base * 0 + 0) + q) + t = n
  <2>1. Base * 0 = 0 /\ q \in Nat
    BY <1>1, Constants DEF Bytes
  <2>2. Base * (Base * 0 + 0) + q = q
    BY <2>1
  <2> QED
    BY <1>1, <2>2
<1>7. ReadUint32(r) = [b EXCEPT !.val = <<n>>]
  BY <1>2, <1>4, <1>5, <1>6
<1>8. ReadUint32(r) = Behind(d, p + 4, <<n>>)
  BY <1>3, <1>7 DEF Behind
<1> QED
  BY <1>8 DEF r

\* Strings whose length two bytes hold.
Short16(s) == s \in Seq(Bytes) /\ Len(s) \in Lengths

LEMMA Uint16Bytes ==
  ASSUME NEW n \in Lengths
  PROVE  /\ Uint16(n) \in Seq(Bytes) /\ Len(Uint16(n)) = 2
         /\ Uint32(n) \in Seq(Bytes) /\ Len(Uint32(n)) = 4
<1>1. n \in Nat
  BY LengthParts
<1> QED
  BY <1>1, Uint16Typed, Uint32Typed

\* A string is its length and its bytes.
LEMMA StrParts ==
  ASSUME NEW d, NEW p, NEW s, Short16(s), Stands(d, p, Str(s))
  PROVE  Stands(d, p, Uint16(Len(s))) /\ Stands(d, p + 2, s) /\ Len(s) \in Nat /\ p \in Nat
<1> DEFINE u == Uint16(Len(s))
<1>1. u \in Seq(Bytes) /\ Len(u) = 2 /\ s \in Seq(Bytes) /\ Len(s) \in Nat
  BY Uint16Bytes, LenProperties DEF Short16
<1>2. Stands(d, p, u \o s)
  BY DEF Str
<1>3. p \in Nat
  BY DEF Stands
<1> HIDE DEF u
<1>4. Stands(d, p, u) /\ Stands(d, p + 2, s)
  BY <1>1, <1>2, StandsParts
<1> QED
  BY <1>1, <1>3, <1>4 DEF u

LEMMA ReadStrAt ==
  ASSUME NEW d, NEW p, NEW v, NEW s, Short16(s), Stands(d, p, Str(s))
  PROVE  ReadStr(Behind(d, p, v)) = Behind(d, (p + 2) + Len(s), s)
<1> DEFINE r == Behind(d, p, v)
           l == ReadUint16(r)
           n == Len(s)
<1>1. Stands(d, p, Uint16(n)) /\ Stands(d, p + 2, s)
  BY StrParts
<1>2. l = Behind(d, p + 2, <<n>>)
  BY <1>1, ReadUint16At DEF Short16
<1>3. ReadStr(r) = IF l.rc THEN ReadBytes(l, l.val[1]) ELSE l
  BY DEF ReadStr
<1> HIDE DEF l, r
<1>4. l.rc /\ l.val[1] = n
  BY <1>2 DEF Behind
<1>5. ReadStr(r) = ReadBytes(Behind(d, p + 2, <<n>>), n)
  BY <1>2, <1>3, <1>4
<1>6. ReadBytes(Behind(d, p + 2, <<n>>), n) = Behind(d, (p + 2) + n, s)
  BY <1>1, ReadBytesAt
<1> QED
  BY <1>5, <1>6 DEF r

-----------------------------------------------------------------------------
(* The remaining length.                                                     *)

\* Lengths of one or two digits.
Remains == 0..(Radix * Radix) - 1

\* The remaining length in one digit or in two.
LEMMA RemainParts ==
  ASSUME NEW n \in Remains
  PROVE  /\ n \in Nat /\ n \div Radix \in 0..Radix - 1 /\ n % Radix \in 0..Radix - 1
         /\ (n \div Radix) % Radix = n \div Radix /\ Radix * (n \div Radix) + (n % Radix) = n
         /\ n \div (Radix * Radix) = 0
<1>1. Radix \in Nat \ {0} /\ n \in Nat /\ n < Radix * Radix
  BY Constants DEF Remains
<1> QED
  BY <1>1, TwoDigits

\* Its digits: the last is below Radix, one before it is not.
LEMMA LengthBytesAre ==
  ASSUME NEW n \in Remains
  PROVE  LET c == CloudLength(n)
         IN /\ c \in Seq(Bytes) /\ Len(c) \in {1, 2}
            /\ Len(c) = 1 => c[1] = n /\ n < Radix
            /\ Len(c) = 2 => /\ ~(n < Radix) /\ c[1] \in Nat /\ c[1] >= Radix /\ c[1] % Radix = n % Radix
                             /\ c[1] - Radix = n % Radix /\ c[2] = n \div Radix /\ c[2] < Radix
<1> DEFINE q == n \div Radix
           r == n % Radix
<1>1. n \in Nat /\ q \in 0..Radix - 1 /\ r \in 0..Radix - 1
  BY RemainParts
<1>2. CASE n < Radix
  <2>1. n \in Bytes /\ CloudLength(n) = <<n>>
    BY <1>1, <1>2, Constants DEF Bytes, CloudLength
  <2> QED
    BY <1>2, <2>1
<1>3. CASE ~(n < Radix)
  <2>1. CloudLength(n) = <<Radix + r, q>>
    BY <1>3 DEF CloudLength
  <2> HIDE DEF q, r
  <2>2. Radix + r \in Bytes /\ q \in Bytes /\ Radix + r \in Nat /\ Radix + r >= Radix /\ q < Radix
        /\ (Radix + r) - Radix = r
    BY <1>1, Constants DEF Bytes
  <2>3. (Radix + r) % Radix = r
    <3>1. (r + Radix) % Radix = r
      BY <1>1, Constants, NoWrap
    <3>2. r + Radix = Radix + r
      BY <1>1, Constants
    <3> QED
      BY <3>1, <3>2
  <2> DEFINE c == <<Radix + r, q>>
  <2>4. c \in Seq(Bytes) /\ Len(c) = 2 /\ c[1] = Radix + r /\ c[2] = q
    BY <2>2
  <2> HIDE DEF c
  <2>5. CloudLength(n) = c
    BY <2>1 DEF c
  <2> QED
    BY <1>3, <2>2, <2>3, <2>4, <2>5 DEF q, r
<1> QED
  BY <1>2, <1>3

\* WriteRemainlen writes the same digits.
LEMMA RemainBytesAre ==
  ASSUME NEW n \in Remains
  PROVE  RemainBytes(n) = CloudLength(n)
<1> DEFINE q == n \div Radix
           r == n % Radix
           S == {5} \cup {k \in 1..4 : n \div Power[k] = 0}
<1>1. n \in Nat /\ q \in 0..Radix - 1 /\ r \in 0..Radix - 1 /\ q % Radix = q /\ n = Radix * q + r
      /\ n \div (Radix * Radix) = 0
  BY RemainParts
<1>2. n \div Power[0] = n /\ n \div Power[1] = q /\ n \div Power[2] = 0
  <2>1. n \div 1 = n
    BY <1>1
  <2> QED
    BY <1>1, <2>1, PowerIs
<1>3. q = 0 <=> n < Radix
  <2> HIDE DEF q, r
  <2>1. CASE q = 0
    BY <1>1, <2>1, Constants
  <2>2. CASE q # 0
    <3>1. q - 1 \in Nat /\ Radix * (q - 1) \in Nat /\ Radix * q = Radix + Radix * (q - 1)
      BY <1>1, <2>2, Constants
    <3> QED
      BY <1>1, <2>2, <3>1, Constants
  <2> QED
    BY <2>1, <2>2
<1>4. S \in SUBSET Nat /\ 2 \in S /\ (1 \in S <=> q = 0)
  BY <1>2
<1>5. DigitCount(n) = IF n < Radix THEN 1 ELSE 2
  <2>1. DigitCount(n) = Least(S)
    BY DEF DigitCount
  <2>2. \A k \in S : k >= 1
    OBVIOUS
  <2> HIDE DEF S
  <2>3. Least(S) \in S /\ \A k \in S : Least(S) <= k
    BY <1>4, LeastIs
  <2>4. Least(S) \in Nat /\ Least(S) >= 1 /\ Least(S) <= 2
    BY <1>4, <2>2, <2>3
  <2>5. CASE n < Radix
    <3>1. Least(S) <= 1
      BY <1>3, <1>4, <2>3, <2>5
    <3> QED
      BY <2>1, <2>4, <2>5, <3>1
  <2>6. CASE ~(n < Radix)
    <3>1. Least(S) # 1
      BY <1>3, <1>4, <2>3, <2>6
    <3> QED
      BY <2>1, <2>4, <2>6, <3>1
  <2> QED
    BY <2>5, <2>6
<1> HIDE DEF S
<1>6. Digit(n, 1) = r /\ Digit(n, 2) = q
  <2>1. 1 - 1 = 0 /\ 2 - 1 = 1
    OBVIOUS
  <2> QED
    BY <1>1, <1>2, <2>1 DEF Digit
<1> DEFINE e(k) == Digit(n, k) + (IF n \div Power[k] > 0 THEN Radix ELSE 0)
<1>7. e(1) = r + (IF q > 0 THEN Radix ELSE 0) /\ e(2) = q + 0
  BY <1>2, <1>6
<1>8. RemainBytes(n) = [k \in 1..DigitCount(n) |-> e(k)]
  BY DEF RemainBytes
<1> HIDE DEF e
<1>9. CASE n < Radix
  <2>1. RemainBytes(n) = <<e(1)>>
    BY <1>5, <1>8, <1>9
  <2>2. q = 0
    BY <1>3, <1>9
  <2> HIDE DEF q, r
  <2>3. e(1) = n
    BY <1>1, <1>7, <2>2, Constants
  <2> QED
    BY <1>9, <2>1, <2>3 DEF CloudLength
<1>10. CASE ~(n < Radix)
  <2>1. RemainBytes(n) = <<e(1), e(2)>>
    BY <1>5, <1>8, <1>10
  <2>2. q # 0
    BY <1>3, <1>10
  <2>3. CloudLength(n) = <<Radix + r, q>>
    BY <1>10 DEF CloudLength
  <2> HIDE DEF q, r
  <2>4. e(1) = Radix + r /\ e(2) = q
    BY <1>1, <1>7, <2>2, Constants
  <2> QED
    BY <2>1, <2>3, <2>4
<1> QED
  BY <1>9, <1>10

\* Both sides read them as what they are.
LEMMA DigitsAt ==
  ASSUME NEW n \in Remains, NEW d, NEW p, Stands(d, p, CloudLength(n))
  PROVE  Digits(d, p) = Len(CloudLength(n)) /\ DigitSum(d, p, Digits(d, p)) = n
<1> DEFINE c == CloudLength(n)
           ends == {k \in 1..4 : p + k <= Len(d) /\ d[p + k] < Radix}
<1>1. /\ c \in Seq(Bytes) /\ Len(c) \in {1, 2}
      /\ Len(c) = 1 => c[1] = n /\ n < Radix
      /\ Len(c) = 2 => /\ ~(n < Radix) /\ c[1] \in Nat /\ c[1] >= Radix /\ c[1] % Radix = n % Radix
                       /\ c[2] = n \div Radix /\ c[2] < Radix
  BY LengthBytesAre
<1>2. /\ p \in Nat /\ p + Len(c) <= Len(d) /\ Len(d) \in Nat
      /\ \A j \in 1..Len(c) : d[p + j] = c[j]
  <2>1. Stands(d, p, c)
    OBVIOUS
  <2> HIDE DEF c
  <2> QED
    BY <2>1, LenProperties DEF Stands
<1> HIDE DEF c
<1>3. ends \in SUBSET Nat /\ Digits(d, p) = IF ends = {} THEN 0 ELSE Least(ends)
  BY DEF Digits
<1>4. n \in Nat /\ n % Radix \in Nat /\ n \div Radix \in Nat /\ (n \div Radix) % Radix = n \div Radix
      /\ n = Radix * (n \div Radix) + (n % Radix) /\ Radix \in Nat
  BY RemainParts, Constants
<1> DEFINE at(j, k) == IF j <= k THEN (d[p + j] % Radix) * Power[j - 1] ELSE 0
<1>5. \A k : DigitSum(d, p, k) = at(1, k) + at(2, k) + at(3, k) + at(4, k)
  BY DEF DigitSum
<1>6. CASE Len(c) = 1
  <2>1. d[p + 1] = n /\ n < Radix /\ p + 1 <= Len(d)
    BY <1>1, <1>2, <1>6
  <2>2. 1 \in ends
    BY <2>1
  <2>3. \A k \in ends : 1 <= k
    OBVIOUS
  <2> HIDE DEF ends
  <2>4. Least(ends) \in ends /\ Least(ends) <= 1
    BY <1>3, <2>2, LeastIs
  <2>5. Digits(d, p) = 1
    <3>1. Least(ends) \in Nat /\ Least(ends) >= 1 /\ Least(ends) <= 1
      BY <1>3, <2>3, <2>4
    <3>2. Least(ends) = 1
      BY <3>1
    <3>3. ends # {}
      BY <2>2
    <3> QED
      BY <1>3, <3>2, <3>3
  <2>6. n % Radix = n
    BY <1>4, <2>1, Constants, NoWrap
  <2>7. at(1, 1) = n /\ at(2, 1) = 0 /\ at(3, 1) = 0 /\ at(4, 1) = 0
    <3>1. Power[1 - 1] = 1 /\ n * 1 = n
      BY <1>4, PowerIs, 1 - 1 = 0
    <3> QED
      BY <2>1, <2>6, <3>1
  <2> HIDE DEF at
  <2> QED
    BY <1>4, <1>5, <1>6, <2>5, <2>7 DEF c
<1>7. CASE Len(c) = 2
  <2>1. d[p + 1] = c[1] /\ d[p + 2] = c[2] /\ p + 2 <= Len(d)
    BY <1>2, <1>7
  <2>2. 2 \in ends /\ 1 \notin ends
    BY <1>1, <1>4, <1>7, <2>1
  <2>3. \A k \in ends : 2 <= k
    <3>1. \A k \in ends : 1 <= k /\ k # 1 /\ k \in Nat
      BY <2>2
    <3> HIDE DEF ends
    <3> QED
      BY <3>1
  <2> HIDE DEF ends
  <2>4. Least(ends) \in ends /\ Least(ends) <= 2
    BY <1>3, <2>2, LeastIs
  <2>5. Digits(d, p) = 2
    <3>1. Least(ends) \in Nat /\ Least(ends) >= 2 /\ Least(ends) <= 2
      BY <1>3, <2>3, <2>4
    <3>2. Least(ends) = 2
      BY <3>1
    <3>3. ends # {}
      BY <2>2
    <3> QED
      BY <1>3, <3>2, <3>3
  <2>6. at(1, 2) = n % Radix /\ at(2, 2) = Radix * (n \div Radix) /\ at(3, 2) = 0 /\ at(4, 2) = 0
    <3>1. Power[1 - 1] = 1 /\ Power[2 - 1] = Radix
      BY PowerIs, 1 - 1 = 0, 2 - 1 = 1
    <3>2. c[1] % Radix = n % Radix /\ c[2] % Radix = n \div Radix
      BY <1>1, <1>4, <1>7
    <3> DEFINE q == n \div Radix
               r == n % Radix
    <3>3. r \in Nat /\ q \in Nat
      BY <1>4
    <3> HIDE DEF q, r
    <3>4. r * 1 = r /\ q * Radix = Radix * q
      BY <1>4, <3>3
    <3>5. at(1, 2) = r * 1 /\ at(2, 2) = q * Radix /\ at(3, 2) = 0 /\ at(4, 2) = 0
      BY <2>1, <3>1, <3>2 DEF q, r
    <3> QED
      BY <3>4, <3>5 DEF q, r
  <2> HIDE DEF at
  <2>7. DigitSum(d, p, 2) = (n % Radix) + Radix * (n \div Radix) + 0 + 0
    BY <1>5, <2>6
  <2> DEFINE q == n \div Radix
             r == n % Radix
  <2>8. DigitSum(d, p, 2) = r + Radix * q + 0 + 0 /\ n = Radix * q + r /\ q \in Nat /\ r \in Nat
    BY <1>4, <2>7
  <2> HIDE DEF q, r
  <2>9. Radix * q \in Nat
    BY <1>4, <2>8
  <2>10. DigitSum(d, p, 2) = n
    BY <2>8, <2>9
  <2> QED
    BY <1>7, <2>5, <2>10 DEF c
<1> QED
  BY <1>1, <1>6, <1>7

LEMMA ReadRemainlenAt ==
  ASSUME NEW n \in Remains, NEW d, NEW p, NEW v, Stands(d, p, CloudLength(n))
  PROVE  ReadRemainlen(Behind(d, p, v)) = Behind(d, p + Len(CloudLength(n)), <<n>>)
<1> DEFINE k == Digits(d, p)
           r == Behind(d, p, v)
<1>1. k = Len(CloudLength(n)) /\ DigitSum(d, p, k) = n
  BY DigitsAt
<1>2. k # 0
  BY <1>1, LengthBytesAre
<1>3. r.data = d /\ r.pos = p
  BY DEF Behind
<1>4. ReadRemainlen(r) = IF Digits(r.data, r.pos) = 0 THEN [r EXCEPT !.rc = FALSE]
                         ELSE [r EXCEPT !.pos = @ + Digits(r.data, r.pos),
                                        !.val = <<DigitSum(r.data, r.pos, Digits(r.data, r.pos))>>]
  BY DEF ReadRemainlen
<1> HIDE DEF k
<1>5. ReadRemainlen(r) = [r EXCEPT !.pos = p + k, !.val = <<n>>]
  BY <1>1, <1>2, <1>3, <1>4 DEF k
<1> QED
  BY <1>1, <1>5 DEF Behind

LEMMA LengthAt ==
  ASSUME NEW n \in Remains, NEW d, Stands(d, 1, CloudLength(n))
  PROVE  LengthDigits(d) = Len(CloudLength(n)) /\ LengthOf(d) = n
<1> DEFINE c == CloudLength(n)
<1>1. /\ c \in Seq(Bytes) /\ Len(c) \in {1, 2}
      /\ Len(c) = 1 => c[1] = n /\ n < Radix
      /\ Len(c) = 2 => /\ ~(n < Radix) /\ c[1] \in Nat /\ c[1] >= Radix
                       /\ c[1] - Radix = n % Radix /\ c[2] = n \div Radix
  BY LengthBytesAre
<1>2. \A j \in 1..Len(c) : d[1 + j] = c[j]
  BY DEF Stands
<1> HIDE DEF c
<1>3. n = Radix * (n \div Radix) + (n % Radix) /\ Radix \in Nat /\ n % Radix \in Nat /\ n \div Radix \in Nat
  BY RemainParts, Constants
<1>4. CASE Len(c) = 1
  <2>1. d[1 + 1] = c[1]
    BY <1>2, <1>4
  <2>2. d[2] = n /\ n < Radix
    BY <1>1, <1>4, <2>1, 1 + 1 = 2
  <2> QED
    BY <1>4, <2>2 DEF LengthDigits, LengthOf, c
<1>5. CASE Len(c) = 2
  <2>1. d[1 + 1] = c[1] /\ d[1 + 2] = c[2]
    BY <1>2, <1>5
  <2>2. d[2] = c[1] /\ d[3] = c[2] /\ ~(c[1] < Radix)
    BY <1>1, <1>3, <1>5, <2>1, 1 + 1 = 2, 1 + 2 = 3
  <2>3. LengthDigits(d) = 2 /\ LengthOf(d) = (n % Radix) + Radix * (n \div Radix)
    BY <1>1, <1>5, <2>2 DEF LengthDigits, LengthOf
  <2> DEFINE q == n \div Radix
             r == n % Radix
  <2>4. LengthOf(d) = r + Radix * q /\ n = Radix * q + r /\ q \in Nat /\ r \in Nat
    BY <1>3, <2>3
  <2> HIDE DEF q, r
  <2>5. Radix * q \in Nat
    BY <1>3, <2>4
  <2> QED
    BY <1>5, <2>3, <2>4, <2>5 DEF c
<1> QED
  BY <1>1, <1>4, <1>5

-----------------------------------------------------------------------------
(* Cutting a packet into fields.                                             *)

\* The reference definitions cut a field out where it stands.
LEMMA PieceIs ==
  ASSUME NEW d, NEW p, NEW x, Stands(d, p, x)
  PROVE  Piece(d, p, Len(x)) = x
<1>1. p \in Nat /\ Len(x) \in Nat /\ Len(d) \in Nat /\ p + Len(x) <= Len(d)
  BY LenProperties DEF Stands
<1>2. ~(p + Len(x) > Len(d))
  BY <1>1
<1>3. Piece(d, p, Len(x)) = SubSeq(d, p + 1, p + Len(x))
  BY <1>2 DEF Piece
<1> QED
  BY <1>3, StandsCut

\* A field as its width wants it, behind position p of rest.
Proper(rest, p, width, value) ==
  /\ value \in Seq(Bytes)
  /\ \/ width \in {Str2, Data4} /\ Short16(value)
     \/ width = Rest /\ p + Len(value) = Len(rest)
     \/ width \in Nat /\ Len(value) = width

LEMMA Widths == Str2 \notin Nat /\ Data4 \notin Nat /\ Rest \notin Nat /\ Str2 # Data4 /\ Str2 # Rest /\ Data4 # Rest
BY DEF Str2, Data4, Rest

LEMMA FieldIs ==
  ASSUME NEW value
  PROVE  /\ Short16(value) => Field(Str2, value) = Str(value)
         /\ Short16(value) => Field(Data4, value) = Uint32(Len(value)) \o value
         /\ Field(Rest, value) = value
         /\ \A w \in Nat : Field(w, value) = value
<1>1. Short16(value) => Big(Len(value), 2) = Uint16(Len(value)) /\ Big(Len(value), 4) = Uint32(Len(value))
  BY Uint16Is, Uint32Is DEF Short16
<1> QED
  BY <1>1, Widths DEF Field, Str

\* The length and the bytes of a field that stands behind p.
LEMMA FieldCut ==
  ASSUME NEW rest, NEW p, NEW width, NEW value, Proper(rest, p, width, value),
         Stands(rest, p, Field(width, value))
  PROVE  LET h == LengthBytes(width)
             n == FieldBytes(rest, p, width)
         IN p + h + n = p + Len(Field(width, value)) /\ Piece(rest, p + h, n) = value
<1>1. p \in Nat /\ value \in Seq(Bytes) /\ Len(value) \in Nat /\ Len(rest) \in Nat
  BY LenProperties DEF Stands, Proper
<1>2. CASE width = Str2 /\ Short16(value)
  <2>1. Stands(rest, p, Str(value)) /\ Field(width, value) = Str(value)
    BY <1>2, FieldIs
  <2>2. Stands(rest, p, Uint16(Len(value))) /\ Stands(rest, p + 2, value)
    BY <1>2, <2>1, StrParts
  <2>3. Len(Str(value)) = 2 + Len(value)
    BY <1>1, StrTyped
  <2>4. LengthBytes(width) = 2 /\ FieldBytes(rest, p, width) = Small(Piece(rest, p, 2))
    BY <1>2, Widths DEF LengthBytes, FieldBytes
  <2>5. Piece(rest, p, 2) = Uint16(Len(value))
    <3>1. Len(value) \in Lengths
      BY <1>2 DEF Short16
    <3>2. Len(Uint16(Len(value))) = 2
      BY <3>1, Uint16Bytes
    <3>3. Piece(rest, p, Len(Uint16(Len(value)))) = Uint16(Len(value))
      BY <2>2, PieceIs
    <3> QED
      BY <3>2, <3>3
  <2>6. FieldBytes(rest, p, width) = Len(value)
    BY <1>2, <2>4, <2>5, SmallOfLengths DEF Short16
  <2>7. Piece(rest, p + 2, Len(value)) = value
    BY <2>2, PieceIs
  <2>8. p + 2 + Len(value) = p + (2 + Len(value))
    BY <1>1
  <2> QED
    BY <2>1, <2>3, <2>4, <2>6, <2>7, <2>8
<1>3. CASE width = Data4 /\ Short16(value)
  <2> DEFINE u == Uint32(Len(value))
  <2>0. Len(value) \in Lengths
    BY <1>3 DEF Short16
  <2>1. u \in Seq(Bytes) /\ Len(u) = 4 /\ Small(u) = Len(value)
    BY <2>0, Uint16Bytes, SmallOfLengths
  <2>2. Stands(rest, p, u \o value) /\ Field(width, value) = u \o value
    BY <1>3, FieldIs
  <2> HIDE DEF u
  <2>3. Stands(rest, p, u) /\ Stands(rest, p + 4, value)
    BY <1>1, <2>1, <2>2, StandsParts
  <2>4. Len(u \o value) = 4 + Len(value)
    <3>1. Len(u \o value) = Len(u) + Len(value)
      BY <1>1, <2>1, ConcatProperties
    <3> QED
      BY <2>1, <3>1
  <2>5. LengthBytes(width) = 4 /\ FieldBytes(rest, p, width) = Small(Piece(rest, p, 4))
    BY <1>3, Widths DEF LengthBytes, FieldBytes
  <2>6. Piece(rest, p, 4) = u
    BY <2>1, <2>3, PieceIs
  <2>7. FieldBytes(rest, p, width) = Len(value)
    BY <2>1, <2>5, <2>6
  <2>8. Piece(rest, p + 4, Len(value)) = value
    BY <2>3, PieceIs
  <2>9. p + 4 + Len(value) = p + (4 + Len(value))
    BY <1>1
  <2> QED
    BY <2>2, <2>4, <2>5, <2>7, <2>8, <2>9
<1>4. CASE width = Rest /\ p + Len(value) = Len(rest)
  <2>1. Field(width, value) = value
    BY <1>4, FieldIs
  <2>2. LengthBytes(width) = 0 /\ FieldBytes(rest, p, width) = Len(rest) - p
    BY <1>4, Widths DEF LengthBytes, FieldBytes
  <2>3. Len(rest) - p = Len(value) /\ p + 0 = p
    BY <1>1, <1>4
  <2>4. Piece(rest, p, Len(value)) = value
    BY <2>1, PieceIs
  <2> QED
    BY <2>1, <2>2, <2>3, <2>4
<1>5. CASE width \in Nat /\ Len(value) = width
  <2>1. Field(width, value) = value
    BY <1>5, FieldIs
  <2>2. LengthBytes(width) = 0 /\ FieldBytes(rest, p, width) = width
    BY <1>5, Widths DEF LengthBytes, FieldBytes
  <2>3. p + 0 = p
    BY <1>1
  <2>4. Piece(rest, p, Len(value)) = value
    BY <2>1, PieceIs
  <2> QED
    BY <1>5, <2>1, <2>2, <2>3, <2>4
<1> QED
  BY <1>2, <1>3, <1>4, <1>5 DEF Proper

\* The n fields stand in rest, the ith behind position at[i - 1].
StandInTurn(rest, n, widths, fields, at) ==
  /\ n \in Nat /\ Len(widths) = n /\ fields = [i \in 1..n |-> fields[i]] /\ at[0] = 0
  /\ \A i \in 1..n : /\ Proper(rest, at[i - 1], widths[i], fields[i])
                      /\ Stands(rest, at[i - 1], Field(widths[i], fields[i]))
                      /\ at[i] = at[i - 1] + Len(Field(widths[i], fields[i]))

\* What stands field by field is cut into these fields.
LEMMA SplitIs ==
  ASSUME NEW rest, NEW n, NEW widths, NEW fields, NEW at, StandInTurn(rest, n, widths, fields, at)
  PROVE  Split(rest, widths) = fields
<1> /\ n \in Nat /\ Len(widths) = n /\ fields = [i \in 1..n |-> fields[i]] /\ at[0] = 0
    /\ \A i \in 1..n : /\ Proper(rest, at[i - 1], widths[i], fields[i])
                        /\ Stands(rest, at[i - 1], Field(widths[i], fields[i]))
                        /\ at[i] = at[i - 1] + Len(Field(widths[i], fields[i]))
  BY Zenon DEF StandInTurn
<1> DEFINE Next1(p, i) == p + LengthBytes(widths[i]) + FieldBytes(rest, p, widths[i])
           Cut1(p, i) == Piece(rest, p + LengthBytes(widths[i]), FieldBytes(rest, p, widths[i]))
<1>1. ASSUME NEW i \in 1..n PROVE Next1(at[i - 1], i) = at[i] /\ Cut1(at[i - 1], i) = fields[i]
  <2> DEFINE p == at[i - 1]
             w == widths[i]
             v == fields[i]
  <2>1. Proper(rest, p, w, v) /\ Stands(rest, p, Field(w, v)) /\ at[i] = p + Len(Field(w, v))
    OBVIOUS
  <2> HIDE DEF p, w, v
  <2>2. /\ p + LengthBytes(w) + FieldBytes(rest, p, w) = p + Len(Field(w, v))
        /\ Piece(rest, p + LengthBytes(w), FieldBytes(rest, p, w)) = v
    BY <2>1, FieldCut
  <2>3. /\ p + LengthBytes(w) + FieldBytes(rest, p, w) = at[i]
        /\ Piece(rest, p + LengthBytes(w), FieldBytes(rest, p, w)) = v
    BY <2>1, <2>2
  <2> QED
    BY <2>3 DEF p, w, v
<1> DEFINE Is(f) == f = [i \in 0..n |-> IF i = 0 THEN 0
                                         ELSE f[i - 1] + LengthBytes(widths[i]) + FieldBytes(rest, f[i - 1], widths[i])]
           g == CHOOSE f : Is(f)
<1>2. FieldEnds(rest, widths) = g
  BY DEF FieldEnds
<1>3. \E f : Is(f)
  <2> DEFINE h == [i \in 0..n |-> at[i]]
  <2>1. ASSUME NEW i \in 0..n PROVE h[i] = IF i = 0 THEN 0 ELSE Next1(h[i - 1], i)
    <3>1. CASE i = 0
      BY <3>1
    <3>2. CASE i # 0
      <4>1. i \in 1..n /\ i - 1 \in 0..n
        BY <3>2
      <4>2. h[i] = at[i] /\ h[i - 1] = at[i - 1]
        BY <4>1
      <4> HIDE DEF h, Next1
      <4> QED
        BY <1>1, <3>2, <4>1, <4>2
    <3> QED
      BY <3>1, <3>2
  <2>2. h = [i \in 0..n |-> h[i]]
    OBVIOUS
  <2> HIDE DEF h
  <2>3. h = [i \in 0..n |-> IF i = 0 THEN 0 ELSE Next1(h[i - 1], i)]
    <3> HIDE DEF Next1
    <3> QED
      BY <2>1, <2>2
  <2>4. Is(h)
    BY <2>3
  <2> HIDE DEF Is
  <2> QED
    BY <2>4
<1>4. Is(g)
  <2> HIDE DEF Is
  <2> QED
    BY <1>3
<1> HIDE DEF g
<1>5. \A i \in 0..n : g[i] = IF i = 0 THEN 0 ELSE Next1(g[i - 1], i)
  BY <1>4
<1> HIDE DEF Is
<1>6. \A i \in Nat : i <= n => g[i] = at[i]
  <2> DEFINE S == {i \in Nat : i <= n => g[i] = at[i]}
  <2>1. 0 \in S
    BY <1>5
  <2>2. ASSUME NEW i \in S PROVE i + 1 \in S
    <3> SUFFICES ASSUME i + 1 <= n PROVE g[i + 1] = at[i + 1]
      OBVIOUS
    <3>1. i + 1 \in 1..n /\ (i + 1) - 1 = i /\ i + 1 # 0 /\ i <= n /\ i + 1 \in 0..n
      OBVIOUS
    <3>2. g[i] = at[i]
      BY <3>1
    <3> HIDE DEF Next1
    <3>3. g[i + 1] = Next1(g[i], i + 1)
      BY <1>5, <3>1
    <3>4. Next1(at[i], i + 1) = at[i + 1]
      BY <1>1, <3>1
    <3> QED
      BY <3>2, <3>3, <3>4
  <2>3. S \in SUBSET Nat
    OBVIOUS
  <2> HIDE DEF S
  <2>4. S = Nat
    BY <2>1, <2>2, <2>3, AllNumbers
  <2> QED
    BY <2>4 DEF S
<1>7. Split(rest, widths) = [i \in 1..n |-> Cut1(g[i - 1], i)]
  BY <1>2 DEF Split
<1>8. ASSUME NEW i \in 1..n PROVE Cut1(g[i - 1], i) = fields[i]
  <2>1. i - 1 \in Nat /\ i - 1 <= n
    OBVIOUS
  <2>2. g[i - 1] = at[i - 1]
    BY <1>6, <2>1
  <2> HIDE DEF Cut1
  <2> QED
    BY <1>1, <2>2
<1> HIDE DEF Cut1
<1> QED
  BY <1>7, <1>8

-----------------------------------------------------------------------------
(* Packets in a stream of bytes.                                             *)

\* data begins with a packet of this type and these bytes behind its header.
Starts(data, type, rest) ==
  /\ data \in Seq(Bytes) /\ rest \in Seq(Bytes) /\ Len(rest) \in Remains
  /\ Stands(data, 0, <<type>>)
  /\ Stands(data, 1, CloudLength(Len(rest)))
  /\ Stands(data, 1 + Len(CloudLength(Len(rest))), rest)

Packed(type, rest) == (<<type>> \o CloudLength(Len(rest))) \o rest
PackedLen(rest) == 1 + Len(CloudLength(Len(rest))) + Len(rest)

\* Data that begin with a packet: its type, its length and its rest are found by both
\* definitions.
LEMMA PackedStarts ==
  ASSUME NEW type \in Bytes, NEW rest \in Seq(Bytes), Len(rest) \in Remains,
         NEW data, Stands(data, 0, Packed(type, rest))
  PROVE  Starts(data, type, rest)
<1> DEFINE c == CloudLength(Len(rest))
           h == <<type>>
           a == h \o c
<1>1. h \in Seq(Bytes) /\ Len(h) = 1 /\ c \in Seq(Bytes) /\ Len(c) \in Nat
  BY LengthBytesAre, LenProperties
<1>2. Stands(data, 0, a \o rest)
  BY DEF Packed
<1> HIDE DEF c, h
<1>3. a \in Seq(Bytes) /\ Len(a) = 1 + Len(c)
  BY <1>1, ConcatProperties
<1> DEFINE l == Len(a)
<1>4. Stands(data, 0, a) /\ Stands(data, 0 + l, rest)
  <2> HIDE DEF a
  <2> QED
    BY <1>2, <1>3, StandsParts
<1>5. Stands(data, 0, h) /\ Stands(data, 0 + 1, c)
  BY <1>1, <1>4, StandsParts
<1> HIDE DEF a
<1>6. 0 + l = 1 + Len(c) /\ 0 + 1 = 1
  BY <1>1, <1>3
<1>7. data \in Seq(Bytes)
  BY <1>5 DEF Stands
<1> QED
  BY <1>4, <1>5, <1>6, <1>7 DEF Starts, h, c

LEMMA PackedTyped ==
  ASSUME NEW type \in Bytes, NEW rest \in Seq(Bytes), Len(rest) \in Remains
  PROVE  /\ Packed(type, rest) \in Seq(Bytes) /\ Len(Packed(type, rest)) = PackedLen(rest)
         /\ PackedLen(rest) \in Nat /\ PackedLen(rest) > 1
<1> DEFINE c == CloudLength(Len(rest))
           h == <<type>>
           a == h \o c
<1>1. h \in Seq(Bytes) /\ Len(h) = 1 /\ c \in Seq(Bytes) /\ Len(c) \in Nat /\ Len(c) >= 1 /\ Len(rest) \in Nat
  <2>1. c \in Seq(Bytes) /\ Len(c) \in {1, 2}
    BY LengthBytesAre
  <2>2. h \in Seq(Bytes) /\ Len(h) = 1
    OBVIOUS
  <2>3. Len(rest) \in Nat
    BY LenProperties
  <2>4. \A z \in {1, 2} : z \in Nat /\ z >= 1
    OBVIOUS
  <2> HIDE DEF c, h
  <2>5. Len(c) \in Nat /\ Len(c) >= 1
    BY <2>1, <2>4
  <2> QED
    BY <2>1, <2>2, <2>3, <2>5
<1> HIDE DEF c, h
<1>3. a \in Seq(Bytes) /\ Len(a) = 1 + Len(c)
  BY <1>1, ConcatProperties
<1> HIDE DEF a
<1>4. a \o rest \in Seq(Bytes) /\ Len(a \o rest) = Len(a) + Len(rest)
  BY <1>3, ConcatProperties
<1>5. PackedLen(rest) = 1 + Len(c) + Len(rest) /\ Packed(type, rest) = a \o rest
  BY DEF PackedLen, Packed, a, h, c
<1> QED
  BY <1>1, <1>3, <1>4, <1>5

LEMMA StartIs ==
  ASSUME NEW data, NEW type, NEW rest, Starts(data, type, rest)
  PROVE  /\ data[1] = type /\ Whole(data)
         /\ 1 + LengthDigits(data) + LengthOf(data) = PackedLen(rest)
         /\ PackedLen(rest) \in 2..Len(data) /\ Len(data) \in Nat
         /\ SubSeq(data, 2 + LengthDigits(data), 1 + LengthDigits(data) + LengthOf(data)) = rest
         /\ IsPkgComplete(data) = PackedLen(rest)
<1> DEFINE n == Len(rest)
           c == CloudLength(n)
           k == Len(c)
<1>1. n \in Remains /\ Stands(data, 1, c) /\ Stands(data, 1 + k, rest) /\ Stands(data, 0, <<type>>)
  BY DEF Starts
<1>2. LengthDigits(data) = k /\ LengthOf(data) = n /\ Digits(data, 1) = k /\ DigitSum(data, 1, k) = n
  BY <1>1, LengthAt, DigitsAt
<1>3. k \in {1, 2} /\ n \in Nat
  BY <1>1, LengthBytesAre, RemainParts
<1>4. Len(data) \in Nat /\ (1 + k) + n <= Len(data)
  BY <1>1, LenProperties DEF Stands
<1>5. data[1] = type
  <2>1. Len(<<type>>) = 1 /\ <<type>>[1] = type /\ 0 + 1 = 1
    OBVIOUS
  <2>2. \A j \in 1..Len(<<type>>) : data[0 + j] = <<type>>[j]
    BY <1>1 DEF Stands
  <2>3. data[0 + 1] = <<type>>[1]
    BY <2>1, <2>2
  <2> QED
    BY <2>1, <2>3
<1>6. SubSeq(data, (1 + k) + 1, (1 + k) + n) = rest
  BY <1>1, StandsCut
<1>7. PackedLen(rest) = 1 + k + n
  BY DEF PackedLen
<1> HIDE DEF k, c, n
<1>8. (1 + k) + 1 = 2 + k /\ (1 + k) + n = 1 + k + n /\ 1 + k + n \in 2..Len(data) /\ Len(data) >= 2 /\ Len(data) >= 1 + k
  BY <1>3, <1>4
<1>9. Whole(data)
  BY <1>2, <1>3, <1>4, <1>8 DEF Whole
<1>10. IsPkgComplete(data) = 1 + k + n
  <2>1. k > 0 /\ 1 + k + n <= Len(data)
    BY <1>3, <1>4
  <2> DEFINE j == Digits(data, 1)
             total == 1 + j + DigitSum(data, 1, j)
  <2>2. j = k /\ total = 1 + k + n
    BY <1>2
  <2>3. IsPkgComplete(data) = CASE j > 0 /\ total <= Len(data) -> total
                                [] j = 0 /\ Len(data) > 4 -> -1
                                [] OTHER -> 0
    BY DEF IsPkgComplete
  <2>4. ~(j = 0 /\ Len(data) > 4)
    BY <1>3, <2>2
  <2> HIDE DEF j, total
  <2> QED
    BY <2>1, <2>2, <2>3, <2>4
<1> QED
  BY <1>2, <1>5, <1>6, <1>7, <1>8, <1>9, <1>10

\* Of a packet of which only the beginning is there IsPkgComplete does not say that it is.
LEMMA NotBefore ==
  ASSUME NEW data, NEW type, NEW rest, Starts(data, type, rest),
         NEW got, Stands(data, 0, got), IsPkgComplete(got) > 0
  PROVE  IsPkgComplete(got) = PackedLen(rest) /\ PackedLen(rest) <= Len(got) /\ Len(got) \in Nat
<1> DEFINE n == Len(rest)
           c == CloudLength(n)
           k == Len(c)
           j == Digits(got, 1)
           total == 1 + j + DigitSum(got, 1, j)
<1>1. n \in Remains /\ Stands(data, 1, c)
  BY DEF Starts
<1>2. /\ c \in Seq(Bytes) /\ k \in {1, 2} /\ n \in Nat
      /\ k = 2 => c[1] \in Nat /\ c[1] >= Radix
  BY <1>1, LengthBytesAre, RemainParts
<1>3. /\ got \in Seq(Bytes) /\ Len(got) \in Nat
      /\ \A i \in 1..Len(got) : data[0 + i] = got[i]
  BY LenProperties DEF Stands
<1>4. IsPkgComplete(got) = CASE j > 0 /\ total <= Len(got) -> total
                             [] j = 0 /\ Len(got) > 4 -> -1
                             [] OTHER -> 0
  BY DEF IsPkgComplete
<1>5. j > 0 /\ total <= Len(got) /\ IsPkgComplete(got) = total
  <2> HIDE DEF j, total
  <2>1. CASE j > 0 /\ total <= Len(got)
    <3>1. ~(j = 0 /\ Len(got) > 4)
      BY <2>1
    <3> QED
      BY <1>4, <2>1, <3>1
  <2>2. CASE ~(j > 0 /\ total <= Len(got))
    <3>1. IsPkgComplete(got) = -1 \/ IsPkgComplete(got) = 0
      BY <1>4, <2>2
    <3> QED
      BY <3>1
  <2> QED
    BY <2>1, <2>2
<1>6. CASE 1 + k <= Len(got)
  <2>1. Stands(data, 0 + 1, c) /\ 1 \in Nat /\ 0 + 1 = 1
    BY <1>1
  <2>2. Stands(got, 1, c)
    <3> HIDE DEF c
    <3> QED
      BY <1>6, <2>1, StandsInside
  <2>3. j = k /\ DigitSum(got, 1, j) = n
    BY <1>1, <2>2, DigitsAt
  <2>4. total = 1 + k + n
    BY <2>3
  <2> HIDE DEF total, j
  <2> QED
    BY <1>3, <1>5, <2>4 DEF PackedLen, k, c, n
<1>7. CASE ~(1 + k <= Len(got))
  <2> DEFINE ends == {i \in 1..4 : 1 + i <= Len(got) /\ got[1 + i] < Radix}
  <2>1. ASSUME NEW i \in ends PROVE FALSE
    <3>1. i \in 1..4 /\ 1 + i <= Len(got) /\ got[1 + i] < Radix
      OBVIOUS
    <3> HIDE DEF k, ends
    <3>2. i = 1 /\ k = 2
      BY <1>2, <1>3, <1>7, <3>1
    <3>3. got[2] < Radix /\ 2 \in 1..Len(got)
      BY <1>3, <3>1, <3>2
    <3>4. data[0 + 2] = got[2]
      BY <1>3, <3>3
    <3>5. data[1 + 1] = c[1]
      <4>1. \A m \in 1..Len(c) : data[1 + m] = c[m]
        BY <1>1 DEF Stands
      <4>2. 1 \in 1..Len(c)
        BY <3>2 DEF k
      <4> QED
        BY <4>1, <4>2
    <3>6. 0 + 2 = 2 /\ 1 + 1 = 2
      OBVIOUS
    <3>7. c[1] < Radix
      BY <3>3, <3>4, <3>5, <3>6
    <3> QED
      BY <1>2, <3>2, <3>7, Constants
  <2>2. ends = {}
    BY <2>1
  <2>3. j = 0
    BY <2>2 DEF Digits
  <2> HIDE DEF j
  <2> QED
    BY <1>5, <2>3
<1> QED
  BY <1>6, <1>7

-----------------------------------------------------------------------------
(* What the cloud writes.                                                    *)

\* Fields one behind the other.
LEMMA FlatIs ==
  ASSUME NEW fs, NEW n \in Nat \ {0}, Len(fs) = n
  PROVE  \E g : FlattenSeq(fs) = g[n] /\ g[1] = fs[1] /\ \A i \in 2..n : g[i] = g[i - 1] \o fs[i]
<1>0. PICK w : Flat(w, fs, n)
  BY FlatExists
<1> DEFINE Is(f) == f = [i \in 1..n |-> IF i = 1 THEN fs[i] ELSE f[i - 1] \o fs[i]]
           g == CHOOSE f : Is(f)
<1>1. FlattenSeq(fs) = g[n]
  <2>1. Len(fs) # 0
    OBVIOUS
  <2>2. FlattenSeq(fs) = LET flatten[i \in 1..Len(fs)] == IF i = 1 THEN fs[i] ELSE flatten[i-1] \o fs[i]
                         IN flatten[Len(fs)]
    BY <2>1 DEF FlattenSeq
  <2> QED
    BY <2>2
<1>2. Is(g)
  <2>1. Is(w)
    BY <1>0 DEF Flat
  <2> HIDE DEF Is
  <2> QED
    BY <2>1
<1> HIDE DEF g
<1>3. \A i \in 1..n : g[i] = IF i = 1 THEN fs[i] ELSE g[i - 1] \o fs[i]
  BY <1>2
<1> HIDE DEF Is
<1>4. g[1] = fs[1]
  BY <1>3
<1>5. ASSUME NEW i \in 2..n PROVE g[i] = g[i - 1] \o fs[i]
  <2>1. i \in 1..n /\ i # 1
    OBVIOUS
  <2> QED
    BY <1>3, <2>1
<1> QED
  BY <1>1, <1>4, <1>5

LEMMA Flat1 ==
  ASSUME NEW a
  PROVE  FlattenSeq(<<a>>) = a
<1> DEFINE fs == <<a>>
<1>1. 1 \in Nat \ {0}
  OBVIOUS
<1>2. Len(fs) = 1 /\ fs[1] = a
  OBVIOUS
<1> HIDE DEF fs
<1>3. PICK g : FlattenSeq(fs) = g[1] /\ g[1] = fs[1] /\ \A i \in 2..1 : g[i] = g[i - 1] \o fs[i]
  BY <1>1, <1>2, FlatIs, Zenon
<1> QED
  BY <1>2, <1>3, Zenon DEF fs

LEMMA Flat2 ==
  ASSUME NEW a, NEW b
  PROVE  FlattenSeq(<<a, b>>) = a \o b
<1> DEFINE fs == <<a, b>>
<1>1. 2 \in Nat \ {0} /\ 2 \in 2..2 /\ 2 - 1 = 1
  OBVIOUS
<1>2. Len(fs) = 2 /\ fs[1] = a /\ fs[2] = b
  OBVIOUS
<1> HIDE DEF fs
<1>3. PICK g : FlattenSeq(fs) = g[2] /\ g[1] = fs[1] /\ \A i \in 2..2 : g[i] = g[i - 1] \o fs[i]
  BY <1>1, <1>2, FlatIs, Zenon
<1>4. g[2] = a \o b
  <2>1. g[2] = g[2 - 1] \o fs[2]
    BY <1>1, <1>3, Zenon
  <2> QED
    BY <2>1, <1>1, <1>2, <1>3, Zenon
<1> QED
  BY <1>2, <1>3, <1>4, Zenon DEF fs

LEMMA Flat3 ==
  ASSUME NEW a, NEW b, NEW c,
         NEW all, all = (a \o b) \o c
  PROVE  FlattenSeq(<<a, b, c>>) = all
<1> DEFINE fs == <<a, b, c>>
<1>1. 3 \in Nat \ {0} /\ 2 \in 2..3 /\ 3 \in 2..3 /\ 2 - 1 = 1 /\ 3 - 1 = 2
  OBVIOUS
<1>2. Len(fs) = 3 /\ fs[1] = a /\ fs[2] = b /\ fs[3] = c
  OBVIOUS
<1> HIDE DEF fs
<1>3. PICK g : FlattenSeq(fs) = g[3] /\ g[1] = fs[1] /\ \A i \in 2..3 : g[i] = g[i - 1] \o fs[i]
  BY <1>1, <1>2, FlatIs, Zenon
<1>4. g[2] = a \o b
  <2>1. g[2] = g[2 - 1] \o fs[2]
    BY <1>1, <1>3, Zenon
  <2> QED
    BY <2>1, <1>1, <1>2, <1>3, Zenon
<1>5. g[3] = (a \o b) \o c
  <2>1. g[3] = g[3 - 1] \o fs[3]
    BY <1>1, <1>3, Zenon
  <2> QED
    BY <1>4, <2>1, <1>1, <1>2, <1>3, Zenon
<1> QED
  BY <1>2, <1>3, <1>5, Zenon DEF fs

LEMMA Flat5 ==
  ASSUME NEW a, NEW b, NEW c, NEW d, NEW e,
         NEW all, all = (((a \o b) \o c) \o d) \o e
  PROVE  FlattenSeq(<<a, b, c, d, e>>) = all
<1> DEFINE fs == <<a, b, c, d, e>>
<1>1. 5 \in Nat \ {0} /\ 2 \in 2..5 /\ 3 \in 2..5 /\ 4 \in 2..5 /\ 5 \in 2..5 /\ 2 - 1 = 1 /\ 3 - 1 = 2 /\ 4 - 1 = 3 /\ 5 - 1 = 4
  OBVIOUS
<1>2. Len(fs) = 5 /\ fs[1] = a /\ fs[2] = b /\ fs[3] = c /\ fs[4] = d /\ fs[5] = e
  OBVIOUS
<1> HIDE DEF fs
<1>3. PICK g : FlattenSeq(fs) = g[5] /\ g[1] = fs[1] /\ \A i \in 2..5 : g[i] = g[i - 1] \o fs[i]
  BY <1>1, <1>2, FlatIs, Zenon
<1>4. g[2] = a \o b
  <2>1. g[2] = g[2 - 1] \o fs[2]
    BY <1>1, <1>3, Zenon
  <2> QED
    BY <2>1, <1>1, <1>2, <1>3, Zenon
<1>5. g[3] = (a \o b) \o c
  <2>1. g[3] = g[3 - 1] \o fs[3]
    BY <1>1, <1>3, Zenon
  <2> QED
    BY <1>4, <2>1, <1>1, <1>2, <1>3, Zenon
<1>6. g[4] = ((a \o b) \o c) \o d
  <2>1. g[4] = g[4 - 1] \o fs[4]
    BY <1>1, <1>3, Zenon
  <2> QED
    BY <1>5, <2>1, <1>1, <1>2, <1>3, Zenon
<1>7. g[5] = (((a \o b) \o c) \o d) \o e
  <2>1. g[5] = g[5 - 1] \o fs[5]
    BY <1>1, <1>3, Zenon
  <2> QED
    BY <1>6, <2>1, <1>1, <1>2, <1>3, Zenon
<1> QED
  BY <1>2, <1>3, <1>7, Zenon DEF fs

\* fs are the n fields as these widths want them.
Wide(fs, ws, fields, n) ==
  fs = [i \in 1..n |-> fs[i]] /\ \A i \in 1..n : fs[i] = Field(ws[i], fields[i])

\* What the cloud sends, in parts.
LEMMA JoinIs ==
  ASSUME NEW type, NEW ws, NEW fields, NEW n \in Nat, Len(fields) = n, NEW fs, Wide(fs, ws, fields, n)
  PROVE  Join(type, ws, fields) = Packed(type, FlattenSeq(fs))
<1> DEFINE all == [i \in 1..n |-> Field(ws[i], fields[i])]
<1>1. all = fs
  BY DEF Wide
<1>2. Join(type, ws, fields) = Packed(type, FlattenSeq(all))
  BY DEF Join, Packed
<1> HIDE DEF all
<1> QED
  BY <1>1, <1>2

\* The packets of the cloud, by their number of fields.
LEMMA Join0 ==
  ASSUME NEW t, NEW ws
  PROVE  Join(t, ws, <<>>) = Packed(t, <<>>)
<1> DEFINE fs == <<>>
           fields == <<>>
<1>1. Len(fields) = 0 /\ 0 \in Nat /\ Len(fs) = 0 /\ fs = <<>>
  OBVIOUS
<1>2. Wide(fs, ws, fields, 0)
  BY DEF Wide
<1> HIDE DEF fs, fields
<1>3. FlattenSeq(fs) = <<>>
  BY <1>1 DEF FlattenSeq
<1>4. Join(t, ws, fields) = Packed(t, FlattenSeq(fs))
  BY <1>1, <1>2, JoinIs
<1> QED
  BY <1>3, <1>4 DEF fields

LEMMA Join1 ==
  ASSUME NEW t, NEW v, NEW a
  PROVE  Join(t, <<v>>, <<a>>) =
           Packed(t, Field(v, a))
<1> DEFINE ws == <<v>>
           fields == <<a>>
           fs == <<Field(v, a)>>
<1>1. Len(fields) = 1 /\ 1 \in Nat /\ fs = [i \in 1..1 |-> fs[i]]
  OBVIOUS
<1>2. /\ ws[1] = v /\ fields[1] = a /\ fs[1] = Field(v, a)
  OBVIOUS
<1>3. FlattenSeq(fs) = Field(v, a)
  BY Flat1, Zenon
<1> HIDE DEF ws, fields, fs
<1>4. \A i \in 1..1 : fs[i] = Field(ws[i], fields[i])
  <2>1. \A i \in 1..1 : i = 1
    OBVIOUS
  <2> QED
    BY <1>2, <2>1, Zenon
<1>5. Wide(fs, ws, fields, 1)
  BY <1>1, <1>4 DEF Wide
<1>6. Join(t, ws, fields) = Packed(t, FlattenSeq(fs))
  BY <1>1, <1>5, JoinIs, Zenon
<1> QED
  BY <1>3, <1>6, Zenon DEF ws, fields

LEMMA Join2 ==
  ASSUME NEW t, NEW v, NEW w, NEW a, NEW b,
         NEW all, all = Packed(t, Field(v, a) \o Field(w, b))
  PROVE  Join(t, <<v, w>>, <<a, b>>) = all
<1> DEFINE ws == <<v, w>>
           fields == <<a, b>>
           fs == <<Field(v, a), Field(w, b)>>
<1>1. Len(fields) = 2 /\ 2 \in Nat /\ fs = [i \in 1..2 |-> fs[i]]
  OBVIOUS
<1>2. /\ ws[1] = v /\ fields[1] = a /\ fs[1] = Field(v, a)
      /\ ws[2] = w /\ fields[2] = b /\ fs[2] = Field(w, b)
  OBVIOUS
<1>3. FlattenSeq(fs) = Field(v, a) \o Field(w, b)
  BY Flat2, Zenon
<1> HIDE DEF ws, fields, fs
<1>4. \A i \in 1..2 : fs[i] = Field(ws[i], fields[i])
  <2>1. \A i \in 1..2 : i = 1 \/ i = 2
    OBVIOUS
  <2> QED
    BY <1>2, <2>1, Zenon
<1>5. Wide(fs, ws, fields, 2)
  BY <1>1, <1>4 DEF Wide
<1>6. Join(t, ws, fields) = Packed(t, FlattenSeq(fs))
  BY <1>1, <1>5, JoinIs, Zenon
<1>7. Packed(t, FlattenSeq(fs)) = all
  BY <1>3
<1> QED
  BY <1>6, <1>7, Zenon DEF ws, fields

LEMMA Join3 ==
  ASSUME NEW t, NEW v, NEW w, NEW x, NEW a, NEW b, NEW c,
         NEW all, all = Packed(t, (Field(v, a) \o Field(w, b)) \o Field(x, c))
  PROVE  Join(t, <<v, w, x>>, <<a, b, c>>) = all
<1> DEFINE ws == <<v, w, x>>
           fields == <<a, b, c>>
           fs == <<Field(v, a), Field(w, b), Field(x, c)>>
<1>1. Len(fields) = 3 /\ 3 \in Nat /\ fs = [i \in 1..3 |-> fs[i]]
  OBVIOUS
<1>2. /\ ws[1] = v /\ fields[1] = a /\ fs[1] = Field(v, a)
      /\ ws[2] = w /\ fields[2] = b /\ fs[2] = Field(w, b)
      /\ ws[3] = x /\ fields[3] = c /\ fs[3] = Field(x, c)
  OBVIOUS
<1>3. FlattenSeq(fs) = (Field(v, a) \o Field(w, b)) \o Field(x, c)
  <2> DEFINE A1 == Field(v, a)
             A2 == Field(w, b)
             A3 == Field(x, c)
  <2>1. fs = <<A1, A2, A3>>
    OBVIOUS
  <2> HIDE DEF fs, A1, A2, A3
  <2> DEFINE glued == (A1 \o A2) \o A3
  <2>2. glued = (A1 \o A2) \o A3
    OBVIOUS
  <2> HIDE DEF glued
  <2>3. FlattenSeq(<<A1, A2, A3>>) = glued
    BY <2>2, Flat3, Zenon
  <2>4. FlattenSeq(fs) = glued
    BY <2>1, <2>3
  <2> QED
    BY <2>4 DEF glued, A1, A2, A3
<1> HIDE DEF ws, fields, fs
<1>4. \A i \in 1..3 : fs[i] = Field(ws[i], fields[i])
  <2>1. \A i \in 1..3 : i = 1 \/ i = 2 \/ i = 3
    OBVIOUS
  <2> QED
    BY <1>2, <2>1, Zenon
<1>5. Wide(fs, ws, fields, 3)
  BY <1>1, <1>4 DEF Wide
<1>6. Join(t, ws, fields) = Packed(t, FlattenSeq(fs))
  BY <1>1, <1>5, JoinIs, Zenon
<1>7. Packed(t, FlattenSeq(fs)) = all
  BY <1>3
<1> QED
  BY <1>6, <1>7, Zenon DEF ws, fields

LEMMA Join5 ==
  ASSUME NEW t, NEW v, NEW w, NEW x, NEW y, NEW z, NEW a, NEW b, NEW c, NEW d, NEW e,
         NEW all, all = Packed(t, (((Field(v, a) \o Field(w, b)) \o Field(x, c)) \o Field(y, d)) \o Field(z, e))
  PROVE  Join(t, <<v, w, x, y, z>>, <<a, b, c, d, e>>) = all
<1> DEFINE ws == <<v, w, x, y, z>>
           fields == <<a, b, c, d, e>>
           fs == <<Field(v, a), Field(w, b), Field(x, c), Field(y, d), Field(z, e)>>
<1>1. Len(fields) = 5 /\ 5 \in Nat /\ fs = [i \in 1..5 |-> fs[i]]
  OBVIOUS
<1>2. /\ ws[1] = v /\ fields[1] = a /\ fs[1] = Field(v, a)
      /\ ws[2] = w /\ fields[2] = b /\ fs[2] = Field(w, b)
      /\ ws[3] = x /\ fields[3] = c /\ fs[3] = Field(x, c)
      /\ ws[4] = y /\ fields[4] = d /\ fs[4] = Field(y, d)
      /\ ws[5] = z /\ fields[5] = e /\ fs[5] = Field(z, e)
  OBVIOUS
<1>3. FlattenSeq(fs) = (((Field(v, a) \o Field(w, b)) \o Field(x, c)) \o Field(y, d)) \o Field(z, e)
  <2> DEFINE A1 == Field(v, a)
             A2 == Field(w, b)
             A3 == Field(x, c)
             A4 == Field(y, d)
             A5 == Field(z, e)
  <2>1. fs = <<A1, A2, A3, A4, A5>>
    OBVIOUS
  <2> HIDE DEF fs, A1, A2, A3, A4, A5
  <2> DEFINE glued == (((A1 \o A2) \o A3) \o A4) \o A5
  <2>2. glued = (((A1 \o A2) \o A3) \o A4) \o A5
    OBVIOUS
  <2> HIDE DEF glued
  <2>3. FlattenSeq(<<A1, A2, A3, A4, A5>>) = glued
    BY <2>2, Flat5, Zenon
  <2>4. FlattenSeq(fs) = glued
    BY <2>1, <2>3
  <2> QED
    BY <2>4 DEF glued, A1, A2, A3, A4, A5
<1> HIDE DEF ws, fields, fs
<1>4. \A i \in 1..5 : fs[i] = Field(ws[i], fields[i])
  <2>1. \A i \in 1..5 : i = 1 \/ i = 2 \/ i = 3 \/ i = 4 \/ i = 5
    OBVIOUS
  <2> QED
    BY <1>2, <2>1, Zenon
<1>5. Wide(fs, ws, fields, 5)
  BY <1>1, <1>4 DEF Wide
<1>6. Join(t, ws, fields) = Packed(t, FlattenSeq(fs))
  BY <1>1, <1>5, JoinIs, Zenon
<1>7. Packed(t, FlattenSeq(fs)) = all
  BY <1>3
<1> QED
  BY <1>6, <1>7, Zenon DEF ws, fields

-----------------------------------------------------------------------------
(* Types and layouts.                                                        *)

\* The types and the flags are multiples of a sixteenth of a byte.
LEMMA TypeBytes ==
  \E q \in Nat \ {0} :
    /\ Radix = 8 * q /\ Base = 16 * q /\ Base \div 4 = 4 * q
    /\ CONNREQ = 1 * q /\ CONNRESP = 2 * q /\ PUSHDATA = 3 * q /\ CONNCLOSE = 4 * q /\ SAVEDATA = 8 * q
    /\ SAVEACK = 9 * q /\ CMDREQ = 10 * q /\ CMDRESP = 11 * q /\ PINGREQ = 12 * q /\ PINGRESP = 13 * q
<1>1. PICK q \in Nat : Radix = 8 * q /\ q > 0
  <2>1. Radix = 8 * (Radix \div 8) + (Radix % 8) /\ Radix \div 8 \in Nat
    BY Constants
  <2> QED
    BY <2>1, CodecAssumption
<1>2. Base \div 16 = q /\ Base = 16 * q /\ Base \div 4 = 4 * q
  BY <1>1 DEF Base
<1> QED
  BY <1>1, <1>2 DEF TypeByte, CONNREQ, CONNRESP, PUSHDATA, CONNCLOSE, SAVEDATA, SAVEACK, CMDREQ, CMDRESP, PINGREQ, PINGRESP

LEMMA TypesDiffer ==
  /\ CONNREQ \notin {CONNRESP, PUSHDATA, CONNCLOSE, SAVEDATA, SAVEACK, CMDREQ, CMDRESP, PINGREQ, PINGRESP}
  /\ CONNRESP \notin {PUSHDATA, CONNCLOSE, SAVEDATA, SAVEACK, CMDREQ, CMDRESP, PINGREQ, PINGRESP}
  /\ PUSHDATA \notin {CONNCLOSE, SAVEDATA, SAVEACK, CMDREQ, CMDRESP, PINGREQ, PINGRESP}
  /\ CONNCLOSE \notin {SAVEDATA, SAVEACK, CMDREQ, CMDRESP, PINGREQ, PINGRESP}
  /\ SAVEDATA \notin {SAVEACK, CMDREQ, CMDRESP, PINGREQ, PINGRESP}
  /\ SAVEACK \notin {CMDREQ, CMDRESP, PINGREQ, PINGRESP}
  /\ CMDREQ \notin {CMDRESP, PINGREQ, PINGRESP}
  /\ CMDRESP \notin {PINGREQ, PINGRESP}
  /\ PINGREQ # PINGRESP
<1>1. PICK q \in Nat \ {0} :
        /\ CONNREQ = 1 * q /\ CONNRESP = 2 * q /\ PUSHDATA = 3 * q /\ CONNCLOSE = 4 * q /\ SAVEDATA = 8 * q
        /\ SAVEACK = 9 * q /\ CMDREQ = 10 * q /\ CMDRESP = 11 * q /\ PINGREQ = 12 * q /\ PINGRESP = 13 * q
  BY TypeBytes
<1> QED
  BY <1>1

LEMMA Glued ==
  ASSUME NEW S, NEW x \in Seq(S), NEW y \in Seq(S), NEW z \in Seq(S), Len(z) = Len(x) + Len(y),
         \A i \in 1..Len(x) : z[i] = x[i], \A i \in 1..Len(y) : z[Len(x) + i] = y[i]
  PROVE  x \o y = z
<1>1. /\ x \o y \in Seq(S) /\ Len(x \o y) = Len(x) + Len(y)
      /\ \A i \in 1..Len(x) + Len(y) : (x \o y)[i] = IF i <= Len(x) THEN x[i] ELSE y[i - Len(x)]
  BY ConcatProperties
<1>2. Len(x) \in Nat /\ Len(y) \in Nat
  BY LenProperties
<1>3. ASSUME NEW i \in 1..Len(x) + Len(y) PROVE (x \o y)[i] = z[i]
  <2>1. CASE i <= Len(x)
    <3>1. i \in 1..Len(x)
      BY <1>2, <2>1
    <3> QED
      BY <1>1, <2>1, <3>1
  <2>2. CASE ~(i <= Len(x))
    <3>1. i - Len(x) \in 1..Len(y) /\ Len(x) + (i - Len(x)) = i
      BY <1>2, <2>2
    <3>2. z[Len(x) + (i - Len(x))] = y[i - Len(x)]
      BY <3>1
    <3> QED
      BY <1>1, <2>2, <3>1, <3>2
  <2> QED
    BY <2>1, <2>2
<1> QED
  BY <1>1, <1>3, SeqEqual

\* The layouts of all packets.
LEMMA GluedLayouts ==
  /\ <<1>> \o <<1, Str2>> = <<1, 1, Str2>>
  /\ <<1, Str2>> \o <<1, Str2>> = <<1, Str2, 1, Str2>>
  /\ <<1, Str2, 1, Str2>> \o <<Data4>> = <<1, Str2, 1, Str2, Data4>>
  /\ <<Str2, 1, 1, 2>> \o <<Str2, Str2>> = <<Str2, 1, 1, 2, Str2, Str2>>
  /\ <<Str2, 1, 1, 2>> \o <<2>> = <<Str2, 1, 1, 2, 2>>
  /\ <<Str2, 1, 1, 2, 2>> \o <<Str2, Str2>> = <<Str2, 1, 1, 2, 2, Str2, Str2>>
<1>1. Str2 \in Int /\ Data4 \in Int
  BY DEF Str2, Data4
<1>2. <<1>> \o <<1, Str2>> = <<1, 1, Str2>>
  <2> DEFINE x == <<1>>
             y == <<1, Str2>>
             z == <<1, 1, Str2>>
  <2>1. x \in Seq(Int) /\ y \in Seq(Int) /\ z \in Seq(Int) /\ Len(z) = Len(x) + Len(y)
    BY <1>1
  <2>2. \A i \in 1..Len(x) : z[i] = x[i]
    <3>1. Len(x) = 1 /\ \A i \in 1..1 : z[i] = x[i]
      OBVIOUS
    <3> QED
      BY <3>1
  <2>3. \A i \in 1..Len(y) : z[Len(x) + i] = y[i]
    <3>1. Len(x) = 1 /\ Len(y) = 2 /\ \A i \in 1..2 : z[1 + i] = y[i]
      OBVIOUS
    <3> HIDE DEF x, y, z
    <3> QED
      BY <3>1
  <2> HIDE DEF x, y, z
  <2>4. x \o y = z
    BY <2>1, <2>2, <2>3, Glued
  <2> QED
    BY <2>4 DEF x, y, z
<1>3. <<1, Str2>> \o <<1, Str2>> = <<1, Str2, 1, Str2>>
  <2> DEFINE x == <<1, Str2>>
             y == <<1, Str2>>
             z == <<1, Str2, 1, Str2>>
  <2>1. x \in Seq(Int) /\ y \in Seq(Int) /\ z \in Seq(Int) /\ Len(z) = Len(x) + Len(y)
    BY <1>1
  <2>2. \A i \in 1..Len(x) : z[i] = x[i]
    <3>1. Len(x) = 2 /\ \A i \in 1..2 : z[i] = x[i]
      OBVIOUS
    <3> QED
      BY <3>1
  <2>3. \A i \in 1..Len(y) : z[Len(x) + i] = y[i]
    <3>1. Len(x) = 2 /\ Len(y) = 2 /\ \A i \in 1..2 : z[2 + i] = y[i]
      OBVIOUS
    <3> HIDE DEF x, y, z
    <3> QED
      BY <3>1
  <2> HIDE DEF x, y, z
  <2>4. x \o y = z
    BY <2>1, <2>2, <2>3, Glued
  <2> QED
    BY <2>4 DEF x, y, z
<1>4. <<1, Str2, 1, Str2>> \o <<Data4>> = <<1, Str2, 1, Str2, Data4>>
  <2> DEFINE x == <<1, Str2, 1, Str2>>
             y == <<Data4>>
             z == <<1, Str2, 1, Str2, Data4>>
  <2>1. x \in Seq(Int) /\ y \in Seq(Int) /\ z \in Seq(Int) /\ Len(z) = Len(x) + Len(y)
    BY <1>1
  <2>2. \A i \in 1..Len(x) : z[i] = x[i]
    <3>1. Len(x) = 4 /\ \A i \in 1..4 : z[i] = x[i]
      OBVIOUS
    <3> QED
      BY <3>1
  <2>3. \A i \in 1..Len(y) : z[Len(x) + i] = y[i]
    <3>1. Len(x) = 4 /\ Len(y) = 1 /\ \A i \in 1..1 : z[4 + i] = y[i]
      OBVIOUS
    <3> HIDE DEF x, y, z
    <3> QED
      BY <3>1
  <2> HIDE DEF x, y, z
  <2>4. x \o y = z
    BY <2>1, <2>2, <2>3, Glued
  <2> QED
    BY <2>4 DEF x, y, z
<1>5. <<Str2, 1, 1, 2>> \o <<Str2, Str2>> = <<Str2, 1, 1, 2, Str2, Str2>>
  <2> DEFINE x == <<Str2, 1, 1, 2>>
             y == <<Str2, Str2>>
             z == <<Str2, 1, 1, 2, Str2, Str2>>
  <2>1. x \in Seq(Int) /\ y \in Seq(Int) /\ z \in Seq(Int) /\ Len(z) = Len(x) + Len(y)
    BY <1>1
  <2>2. \A i \in 1..Len(x) : z[i] = x[i]
    <3>1. Len(x) = 4 /\ \A i \in 1..4 : z[i] = x[i]
      OBVIOUS
    <3> QED
      BY <3>1
  <2>3. \A i \in 1..Len(y) : z[Len(x) + i] = y[i]
    <3>1. Len(x) = 4 /\ Len(y) = 2 /\ \A i \in 1..2 : z[4 + i] = y[i]
      OBVIOUS
    <3> HIDE DEF x, y, z
    <3> QED
      BY <3>1
  <2> HIDE DEF x, y, z
  <2>4. x \o y = z
    BY <2>1, <2>2, <2>3, Glued
  <2> QED
    BY <2>4 DEF x, y, z
<1>6. <<Str2, 1, 1, 2>> \o <<2>> = <<Str2, 1, 1, 2, 2>>
  <2> DEFINE x == <<Str2, 1, 1, 2>>
             y == <<2>>
             z == <<Str2, 1, 1, 2, 2>>
  <2>1. x \in Seq(Int) /\ y \in Seq(Int) /\ z \in Seq(Int) /\ Len(z) = Len(x) + Len(y)
    BY <1>1
  <2>2. \A i \in 1..Len(x) : z[i] = x[i]
    <3>1. Len(x) = 4 /\ \A i \in 1..4 : z[i] = x[i]
      OBVIOUS
    <3> QED
      BY <3>1
  <2>3. \A i \in 1..Len(y) : z[Len(x) + i] = y[i]
    <3>1. Len(x) = 4 /\ Len(y) = 1 /\ \A i \in 1..1 : z[4 + i] = y[i]
      OBVIOUS
    <3> HIDE DEF x, y, z
    <3> QED
      BY <3>1
  <2> HIDE DEF x, y, z
  <2>4. x \o y = z
    BY <2>1, <2>2, <2>3, Glued
  <2> QED
    BY <2>4 DEF x, y, z
<1>7. <<Str2, 1, 1, 2, 2>> \o <<Str2, Str2>> = <<Str2, 1, 1, 2, 2, Str2, Str2>>
  <2> DEFINE x == <<Str2, 1, 1, 2, 2>>
             y == <<Str2, Str2>>
             z == <<Str2, 1, 1, 2, 2, Str2, Str2>>
  <2>1. x \in Seq(Int) /\ y \in Seq(Int) /\ z \in Seq(Int) /\ Len(z) = Len(x) + Len(y)
    BY <1>1
  <2>2. \A i \in 1..Len(x) : z[i] = x[i]
    <3>1. Len(x) = 5 /\ \A i \in 1..5 : z[i] = x[i]
      OBVIOUS
    <3> QED
      BY <3>1
  <2>3. \A i \in 1..Len(y) : z[Len(x) + i] = y[i]
    <3>1. Len(x) = 5 /\ Len(y) = 2 /\ \A i \in 1..2 : z[5 + i] = y[i]
      OBVIOUS
    <3> HIDE DEF x, y, z
    <3> QED
      BY <3>1
  <2> HIDE DEF x, y, z
  <2>4. x \o y = z
    BY <2>1, <2>2, <2>3, Glued
  <2> QED
    BY <2>4 DEF x, y, z
<1> QED
  BY <1>2, <1>3, <1>4, <1>5, <1>6, <1>7, Zenon

LEMMA LayoutIs ==
  /\ \A f : Layout(PUSHDATA, FALSE, f) = <<Str2, Rest>>
  /\ Layout(SAVEDATA, FALSE, 1) = <<1, 1, Str2>> /\ Layout(SAVEDATA, FALSE, 5) = <<1, 1, Str2>>
  /\ Layout(SAVEDATA, TRUE, 1) = <<1, Str2, 1, Str2>> /\ Layout(SAVEDATA, TRUE, 5) = <<1, Str2, 1, Str2>>
  /\ Layout(SAVEDATA, TRUE, 2) = <<1, Str2, 1, Str2, Data4>>
  /\ Layout(SAVEACK, FALSE, Radix) = <<1, Str2>> /\ Layout(SAVEACK, FALSE, 0) = <<1>>
  /\ \A f : Layout(CMDREQ, FALSE, f) = <<Str2, Data4>> /\ Layout(CMDRESP, FALSE, f) = <<Str2, Data4>>
  /\ \A f : Layout(CONNRESP, FALSE, f) = <<1, 1>>
  /\ \A f : Layout(CONNCLOSE, FALSE, f) = <<1>>
  /\ \A f : Layout(PINGRESP, FALSE, f) = <<>> /\ Layout(PINGREQ, FALSE, f) = <<>>
  /\ Layout(CONNREQ, FALSE, Base \div 4) = <<Str2, 1, 1, 2, Str2, Str2>>
  /\ Layout(CONNREQ, FALSE, 3 * (Base \div 4)) = <<Str2, 1, 1, 2, 2, Str2, Str2>>
<1>1. /\ <<1>> \o <<1, Str2>> \o <<>> = <<1, 1, Str2>>
      /\ <<1, Str2>> \o <<1, Str2>> \o <<>> = <<1, Str2, 1, Str2>>
      /\ <<1, Str2>> \o <<1, Str2>> \o <<Data4>> = <<1, Str2, 1, Str2, Data4>>
      /\ <<Str2, 1, 1, 2>> \o <<>> \o <<Str2, Str2>> = <<Str2, 1, 1, 2, Str2, Str2>>
      /\ <<Str2, 1, 1, 2>> \o <<2>> \o <<Str2, Str2>> = <<Str2, 1, 1, 2, 2, Str2, Str2>>
  <2>1. <<1, 1, Str2>> \o <<>> = <<1, 1, Str2>>
    OBVIOUS
  <2>2. <<1, Str2, 1, Str2>> \o <<>> = <<1, Str2, 1, Str2>>
    OBVIOUS
  <2>3. <<Str2, 1, 1, 2>> \o <<>> = <<Str2, 1, 1, 2>>
    OBVIOUS
  <2> QED
    BY <2>1, <2>2, <2>3, GluedLayouts, Zenon
<1>2. Radix # 0 /\ 3 * (Base \div 4) # Base \div 4
  BY TypeBytes
<1>3. \A f : Layout(PUSHDATA, FALSE, f) = <<Str2, Rest>>
  BY TypesDiffer DEF Layout
<1>4. \A a, f : Layout(SAVEDATA, a, f) = (IF a THEN <<1, Str2>> ELSE <<1>>) \o <<1, Str2>>
                                           \o (IF f = 2 THEN <<Data4>> ELSE <<>>)
  BY TypesDiffer DEF Layout
<1>5. \A f : Layout(SAVEACK, FALSE, f) = IF f = Radix THEN <<1, Str2>> ELSE <<1>>
  BY TypesDiffer DEF Layout
<1>6. \A f : Layout(CMDREQ, FALSE, f) = <<Str2, Data4>> /\ Layout(CMDRESP, FALSE, f) = <<Str2, Data4>>
  BY TypesDiffer DEF Layout
<1>7. \A f : Layout(CONNRESP, FALSE, f) = <<1, 1>>
  BY TypesDiffer DEF Layout
<1>8. \A f : Layout(CONNCLOSE, FALSE, f) = <<1>>
  BY TypesDiffer DEF Layout
<1>9. \A f : Layout(PINGRESP, FALSE, f) = <<>> /\ Layout(PINGREQ, FALSE, f) = <<>>
  BY TypesDiffer DEF Layout
<1>10. \A f : Layout(CONNREQ, FALSE, f) = <<Str2, 1, 1, 2>> \o (IF f = Base \div 4 THEN <<>> ELSE <<2>>) \o <<Str2, Str2>>
  BY TypesDiffer DEF Layout
<1>11. 1 # 2 /\ 5 # 2
  OBVIOUS
<1>12. /\ Layout(SAVEDATA, FALSE, 1) = <<1, 1, Str2>> /\ Layout(SAVEDATA, FALSE, 5) = <<1, 1, Str2>>
       /\ Layout(SAVEDATA, TRUE, 1) = <<1, Str2, 1, Str2>> /\ Layout(SAVEDATA, TRUE, 5) = <<1, Str2, 1, Str2>>
       /\ Layout(SAVEDATA, TRUE, 2) = <<1, Str2, 1, Str2, Data4>>
  BY <1>1, <1>4, <1>11, Zenon
<1>13. /\ Layout(CONNREQ, FALSE, Base \div 4) = <<Str2, 1, 1, 2, Str2, Str2>>
       /\ Layout(CONNREQ, FALSE, 3 * (Base \div 4)) = <<Str2, 1, 1, 2, 2, Str2, Str2>>
  BY <1>1, <1>2, <1>10, Zenon
<1> QED
  BY <1>2, <1>3, <1>5, <1>6, <1>7, <1>8, <1>9, <1>12, <1>13

-----------------------------------------------------------------------------
(* What the device makes of a packet of the cloud.                           *)

\* The bytes behind the header of a packet: of this type, and behind position p.
Header(data, type, rest, p) ==
  /\ data = Packed(type, rest) /\ type \in Bytes /\ rest \in Seq(Bytes) /\ Len(rest) \in Remains
  /\ p = 1 + Len(CloudLength(Len(rest)))

\* What is read of it.
Opened(data, type, rest, p) ==
  /\ EdpPacketType(Reader(data)) = Behind(data, 1, <<type>>)
  /\ IsPkgComplete(data) > 0
  /\ ReadRemainlen(Behind(data, 1, <<type>>)) = Behind(data, p, <<Len(rest)>>)
  /\ Stands(data, p, rest) /\ p \in Nat /\ Len(rest) \in Nat
  /\ Stands(data, 1, CloudLength(Len(rest))) /\ p = 1 + Len(CloudLength(Len(rest)))
  /\ data \in Seq(Bytes) /\ Len(data) = p + Len(rest)

\* The device opens a packet.
LEMMA HeaderRead ==
  ASSUME NEW data, NEW type, NEW rest, NEW p, Header(data, type, rest, p)
  PROVE  Opened(data, type, rest, p)
<1> DEFINE n == Len(rest)
           c == CloudLength(n)
<1>1. data = Packed(type, rest) /\ type \in Bytes /\ rest \in Seq(Bytes) /\ n \in Remains /\ p = 1 + Len(c)
  BY DEF Header
<1>2. data \in Seq(Bytes) /\ Len(data) = PackedLen(rest) /\ PackedLen(rest) > 1 /\ PackedLen(rest) \in Nat
  BY <1>1, PackedTyped
<1>3. Starts(data, type, rest)
  <2>1. Stands(data, 0, data)
    BY <1>2, StandsSelf
  <2> QED
    BY <1>1, <2>1, PackedStarts
<1>4. Stands(data, 0, <<type>>) /\ Stands(data, 1, c) /\ Stands(data, p, rest)
  BY <1>1, <1>3 DEF Starts
<1>5. IsPkgComplete(data) > 0
  BY <1>2, <1>3, StartIs
<1>6. EdpPacketType(Reader(data)) = Behind(data, 1, <<type>>)
  <2>1. Reader(data) = Behind(data, 0, <<>>)
    BY DEF Reader, Behind
  <2>2. ReadByte(Behind(data, 0, <<>>)) = Behind(data, 0 + 1, <<type>>)
    BY <1>4, ReadByteAt
  <2> QED
    BY <2>1, <2>2 DEF EdpPacketType
<1>7. ReadRemainlen(Behind(data, 1, <<type>>)) = Behind(data, p, <<n>>)
  <2> DEFINE v == <<type>>
  <2> HIDE DEF v
  <2>1. ReadRemainlen(Behind(data, 1, v)) = Behind(data, 1 + Len(c), <<n>>)
    BY <1>1, <1>4, ReadRemainlenAt
  <2> QED
    BY <1>1, <2>1 DEF v
<1>8. Len(data) = p + n
  BY <1>1, <1>2 DEF PackedLen
<1>9. p \in Nat /\ n \in Nat
  <2>1. p \in Nat
    BY <1>4 DEF Stands
  <2> QED
    BY <1>1, <2>1, LenProperties
<1> HIDE DEF c, n
<1> QED
  BY <1>1, <1>2, <1>4, <1>5, <1>6, <1>7, <1>8, <1>9 DEF Opened, n, c

\* Which handler gets it.
LEMMA HandlerOf ==
  ASSUME NEW data, NEW type, NEW rest, NEW p, Header(data, type, rest, p)
  PROVE  LET r == Behind(data, 1, <<type>>)
         IN /\ type = CONNRESP => TcpclientRecv(data) = Handed(CONNRESP, UnpackConnectResp(r))
            /\ type = PUSHDATA => TcpclientRecv(data) = Handed(PUSHDATA, UnpackPushdata(r))
            /\ type = CONNCLOSE => TcpclientRecv(data) = ConncloseHandle(r)
            /\ type = SAVEDATA => TcpclientRecv(data) = SavedataHandle(r)
            /\ type = SAVEACK => TcpclientRecv(data) = SaveackHandle(r)
            /\ type = CMDREQ => TcpclientRecv(data) = CmdreqHandle(r)
            /\ type = PINGRESP => TcpclientRecv(data) = Handed(PINGRESP, UnpackPingResp(r))
<1> DEFINE r == Behind(data, 1, <<type>>)
<1>1. ~(IsPkgComplete(data) <= 0)
  <2>1. IsPkgComplete(data) > 0 /\ data \in Seq(Bytes)
    BY HeaderRead DEF Opened
  <2>2. IsPkgComplete(data) \in Int
    BY <2>1, Complete
  <2> QED
    BY <2>1, <2>2
<1>2. EdpPacketType(Reader(data)) = r
  BY HeaderRead DEF Opened
<1>3. r.val[1] = type
  BY DEF Behind
<1> HIDE DEF r
<1>4. TcpclientRecv(data) =
        CASE type = CONNRESP -> Handed(CONNRESP, UnpackConnectResp(r))
          [] type = PUSHDATA -> Handed(PUSHDATA, UnpackPushdata(r))
          [] type = CONNCLOSE -> ConncloseHandle(r)
          [] type = SAVEDATA -> SavedataHandle(r)
          [] type = SAVEACK -> SaveackHandle(r)
          [] type = CMDREQ -> CmdreqHandle(r)
          [] type = PINGRESP -> Handed(PINGRESP, UnpackPingResp(r))
          [] OTHER -> Nothing
  BY <1>1, <1>2, <1>3 DEF TcpclientRecv
<1>5. /\ type = CONNRESP => TcpclientRecv(data) = Handed(CONNRESP, UnpackConnectResp(r))
      /\ type = PUSHDATA => TcpclientRecv(data) = Handed(PUSHDATA, UnpackPushdata(r))
      /\ type = CONNCLOSE => TcpclientRecv(data) = ConncloseHandle(r)
      /\ type = SAVEDATA => TcpclientRecv(data) = SavedataHandle(r)
      /\ type = SAVEACK => TcpclientRecv(data) = SaveackHandle(r)
      /\ type = CMDREQ => TcpclientRecv(data) = CmdreqHandle(r)
      /\ type = PINGRESP => TcpclientRecv(data) = Handed(PINGRESP, UnpackPingResp(r))
  BY <1>4, TypesDiffer
<1> QED
  BY <1>5 DEF r

\* What a handler hands over of a reader that has not failed.
LEMMA HandedAll ==
  ASSUME NEW type, NEW d, NEW p, NEW v, NEW fields
  PROVE  Handed(type, Unpacked(Behind(d, p, v), fields)) = <<Msg(type, fields)>>
BY DEF Handed, Unpacked, Behind

\* Two sequences of bytes, one behind the other.
LEMMA Glue ==
  ASSUME NEW x \in Seq(Bytes), NEW y \in Seq(Bytes)
  PROVE  x \o y \in Seq(Bytes) /\ Len(x \o y) = Len(x) + Len(y) /\ Len(x) \in Nat /\ Len(y) \in Nat
BY ConcatProperties, LenProperties

LEMMA OneByte == ASSUME NEW b \in Bytes PROVE <<b>> \in Seq(Bytes) /\ Len(<<b>>) = 1
OBVIOUS

\* Data with a length of 4 bytes.
LEMMA DataParts ==
  ASSUME NEW d, NEW p, NEW t, Short16(t), Stands(d, p, Uint32(Len(t)) \o t)
  PROVE  Stands(d, p, Uint32(Len(t))) /\ Stands(d, p + 4, t) /\ p \in Nat
<1> DEFINE u == Uint32(Len(t))
<1>1. u \in Seq(Bytes) /\ Len(u) = 4 /\ t \in Seq(Bytes)
  BY Uint16Bytes DEF Short16
<1>2. Stands(d, p, u \o t) /\ p \in Nat
  BY DEF Stands
<1> HIDE DEF u
<1>3. Stands(d, p, u) /\ Stands(d, p + 4, t)
  BY <1>1, <1>2, StandsParts
<1> QED
  BY <1>2, <1>3 DEF u

\* A string and what follows it.
LEMMA StrThen ==
  ASSUME NEW d, NEW p, NEW s, Short16(s), NEW y \in Seq(Bytes), Stands(d, p, Str(s) \o y)
  PROVE  /\ Stands(d, p, Str(s)) /\ Stands(d, (p + 2) + Len(s), y)
         /\ Len(Str(s) \o y) = 2 + Len(s) + Len(y) /\ Len(s) \in Nat /\ Len(y) \in Nat
<1> DEFINE u == Str(s)
<1>1. u \in Seq(Bytes) /\ Len(u) = 2 + Len(s) /\ Len(s) \in Nat
  BY StrTyped, LenProperties DEF Short16
<1>2. Stands(d, p, u \o y) /\ p \in Nat
  BY DEF Stands
<1> HIDE DEF u
<1>3. Stands(d, p, u) /\ Stands(d, p + Len(u), y)
  BY <1>1, <1>2, StandsParts
<1>4. p + Len(u) = (p + 2) + Len(s)
  BY <1>1, <1>2
<1>5. Len(u \o y) = 2 + Len(s) + Len(y) /\ Len(y) \in Nat
  BY <1>1, Glue
<1> QED
  BY <1>1, <1>3, <1>4, <1>5 DEF u

\* What follows a byte.
LEMMA ByteThen ==
  ASSUME NEW d, NEW p, NEW b \in Bytes, NEW y \in Seq(Bytes), Stands(d, p, <<b>> \o y)
  PROVE  Stands(d, p, <<b>>) /\ Stands(d, p + 1, y)
<1> DEFINE x == <<b>>
<1>1. x \in Seq(Bytes) /\ Len(x) = 1
  BY OneByte
<1> HIDE DEF x
<1>2. Stands(d, p, x \o y)
  BY DEF x
<1>3. Stands(d, p, x) /\ Stands(d, p + 1, y)
  BY <1>1, <1>2, StandsParts
<1> QED
  BY <1>3 DEF x

\* What tcpclient_recv makes of each kind of packet.
LEMMA ConnrespReceived ==
  ASSUME NEW a \in Bytes, NEW c \in Bytes, NEW rest, rest = <<a>> \o <<c>>,
         NEW data, NEW p, Header(data, CONNRESP, rest, p)
  PROVE  TcpclientRecv(data) = <<Msg(CONNRESP, <<<<c>>>>)>>
<1> DEFINE r == Behind(data, 1, <<CONNRESP>>)
<1>0. Opened(data, CONNRESP, rest, p)
  BY HeaderRead
<1>1. ReadRemainlen(r) = Behind(data, p, <<Len(rest)>>) /\ Stands(data, p, rest)
  BY <1>0 DEF Opened
<1>2. Stands(data, p, <<a>>) /\ Stands(data, p + 1, <<c>>)
  BY <1>1, OneByte, ByteThen
<1>3. ReadByte(ReadByte(ReadRemainlen(r))) = Behind(data, (p + 1) + 1, <<c>>)
  <2> DEFINE n == <<Len(rest)>>
  <2> HIDE DEF n
  <2>1. ReadByte(Behind(data, p, n)) = Behind(data, p + 1, <<a>>)
    BY <1>2, ReadByteAt
  <2>2. ReadByte(Behind(data, p + 1, <<a>>)) = Behind(data, (p + 1) + 1, <<c>>)
    BY <1>2, ReadByteAt
  <2> QED
    BY <1>1, <2>1, <2>2 DEF n
<1>4. TcpclientRecv(data) = Handed(CONNRESP, UnpackConnectResp(r))
  BY HandlerOf
<1> HIDE DEF r
<1> DEFINE b == Behind(data, (p + 1) + 1, <<c>>)
<1>5. UnpackConnectResp(r) = Unpacked(b, <<<<c>>>>)
  <2>1. b.val = <<c>>
    BY DEF Behind
  <2> HIDE DEF b
  <2> QED
    BY <1>3, <2>1 DEF UnpackConnectResp, b
<1> QED
  BY <1>4, <1>5, HandedAll

LEMMA PushdataReceived ==
  ASSUME NEW s, Short16(s), NEW t \in Seq(Bytes), NEW rest, rest = Str(s) \o t,
         NEW data, NEW p, Header(data, PUSHDATA, rest, p)
  PROVE  TcpclientRecv(data) = <<Msg(PUSHDATA, <<s, t>>)>>
<1> DEFINE r == Behind(data, 1, <<PUSHDATA>>)
           n == ReadRemainlen(r)
           src == ReadStr(n)
           body == IF src.rc THEN ReadBytes(src, n.val[1] - (2 + Len(src.val))) ELSE src
           at == (p + 2) + Len(s)
<1>0. Opened(data, PUSHDATA, rest, p)
  BY HeaderRead
<1>1. n = Behind(data, p, <<Len(rest)>>) /\ Stands(data, p, rest)
  BY <1>0 DEF Opened
<1>2. Stands(data, p, Str(s)) /\ Stands(data, at, t) /\ Len(rest) = 2 + Len(s) + Len(t) /\ Len(s) \in Nat /\ Len(t) \in Nat
  BY <1>1, StrThen
<1>3. src = Behind(data, at, s)
  BY <1>1, <1>2, ReadStrAt
<1>4. TcpclientRecv(data) = Handed(PUSHDATA, UnpackPushdata(r))
  BY HandlerOf
<1>5. UnpackPushdata(r) = Unpacked(body, <<src.val, body.val>>)
  BY DEF UnpackPushdata
<1> HIDE DEF r, n, src, at
<1>6. n.val[1] = Len(rest) /\ src.rc /\ src.val = s
  BY <1>1, <1>3 DEF Behind
<1>7. body = Behind(data, at + Len(t), t)
  <2>1. n.val[1] - (2 + Len(src.val)) = Len(t)
    BY <1>2, <1>6
  <2>2. ReadBytes(Behind(data, at, s), Len(t)) = Behind(data, at + Len(t), t)
    BY <1>2, ReadBytesAt
  <2> QED
    BY <1>3, <1>6, <2>1, <2>2
<1> HIDE DEF body
<1>8. body.val = t
  BY <1>7 DEF Behind
<1>9. UnpackPushdata(r) = Unpacked(Behind(data, at + Len(t), t), <<s, t>>)
  BY <1>5, <1>6, <1>7, <1>8
<1> QED
  BY <1>4, <1>9, HandedAll

\* The code is the second byte behind the type, because the length of the rest is one.
LEMMA ConncloseReceived ==
  ASSUME NEW c \in Bytes, NEW rest, rest = <<c>>, NEW data, NEW p, Header(data, CONNCLOSE, rest, p)
  PROVE  TcpclientRecv(data) = <<Msg(CONNCLOSE, <<<<c>>>>)>>
<1> DEFINE r == Behind(data, 1, <<CONNCLOSE>>)
<1>0. Opened(data, CONNCLOSE, rest, p)
  BY HeaderRead
<1>1. Stands(data, p, rest) /\ Stands(data, 1, CloudLength(Len(rest))) /\ p = 1 + Len(CloudLength(Len(rest)))
  BY <1>0 DEF Opened
<1>2. CloudLength(Len(rest)) = <<1>> /\ Len(<<1>>) = 1
  <2>1. Len(rest) = 1 /\ 1 < Radix
    BY Constants
  <2> QED
    BY <2>1 DEF CloudLength
<1>3. p = 1 + 1 /\ Stands(data, 1, <<1>>) /\ Stands(data, 1 + 1, <<c>>)
  BY <1>1, <1>2
<1>4. ReadByte(r) = Behind(data, 1 + 1, <<1>>)
  BY <1>3, ReadByteAt
<1>5. ReadByte(ReadByte(r)) = Behind(data, (1 + 1) + 1, <<c>>)
  <2>1. ReadByte(Behind(data, 1 + 1, <<1>>)) = Behind(data, (1 + 1) + 1, <<c>>)
    BY <1>3, ReadByteAt
  <2> QED
    BY <1>4, <2>1
<1>6. TcpclientRecv(data) = ConncloseHandle(r)
  BY HandlerOf
<1> DEFINE b == Behind(data, (1 + 1) + 1, <<c>>)
<1>7. b.val = <<c>>
  BY DEF Behind
<1> HIDE DEF r
<1>8. ConncloseHandle(r) = Handed(CONNCLOSE, Unpacked(b, <<<<c>>>>))
  <2> HIDE DEF b
  <2>1. ConncloseHandle(r) = Handed(CONNCLOSE, Unpacked(ReadByte(ReadByte(r)), <<ReadByte(ReadByte(r)).val>>))
    BY DEF ConncloseHandle
  <2> QED
    BY <1>5, <1>7, <2>1 DEF b
<1> QED
  BY <1>6, <1>8, HandedAll

\* Joining tuples.
LEMMA Pairs ==
  /\ \A a, b : <<a>> \o <<b>> = <<a, b>>
  /\ \A a, b, c : <<a>> \o <<b, c>> = <<a, b, c>>
  /\ \A a, b, c, d : <<a, b>> \o <<c, d>> = <<a, b, c, d>>
  /\ \A a, b, c, d, e, f : <<a, b, c, d>> \o <<e, f>> = <<a, b, c, d, e, f>>
  /\ \A a, b, c, d, e, f, g : <<a, b, c, d>> \o <<e, f, g>> = <<a, b, c, d, e, f, g>>
<1>1. ASSUME NEW a, NEW b PROVE <<a>> \o <<b>> = <<a, b>>
  <2> DEFINE S == {a, b}
             x == <<a>>
             y == <<b>>
             z == <<a, b>>
  <2>1. x \in Seq(S) /\ y \in Seq(S) /\ z \in Seq(S) /\ Len(z) = Len(x) + Len(y)
    OBVIOUS
  <2>2. \A i \in 1..Len(x) : z[i] = x[i]
    <3>1. Len(x) = 1 /\ \A i \in 1..1 : z[i] = x[i]
      OBVIOUS
    <3> QED
      BY <3>1
  <2>3. \A i \in 1..Len(y) : z[Len(x) + i] = y[i]
    <3>1. Len(x) = 1 /\ Len(y) = 1 /\ \A i \in 1..1 : z[1 + i] = y[i]
      OBVIOUS
    <3> HIDE DEF x, y, z
    <3> QED
      BY <3>1
  <2> HIDE DEF x, y, z, S
  <2>4. x \o y = z
    BY <2>1, <2>2, <2>3, Glued
  <2> QED
    BY <2>4 DEF x, y, z
<1>2. ASSUME NEW a, NEW b, NEW c PROVE <<a>> \o <<b, c>> = <<a, b, c>>
  <2> DEFINE S == {a, b, c}
             x == <<a>>
             y == <<b, c>>
             z == <<a, b, c>>
  <2>1. x \in Seq(S) /\ y \in Seq(S) /\ z \in Seq(S) /\ Len(z) = Len(x) + Len(y)
    OBVIOUS
  <2>2. \A i \in 1..Len(x) : z[i] = x[i]
    <3>1. Len(x) = 1 /\ \A i \in 1..1 : z[i] = x[i]
      OBVIOUS
    <3> QED
      BY <3>1
  <2>3. \A i \in 1..Len(y) : z[Len(x) + i] = y[i]
    <3>1. Len(x) = 1 /\ Len(y) = 2 /\ \A i \in 1..2 : z[1 + i] = y[i]
      OBVIOUS
    <3> HIDE DEF x, y, z
    <3> QED
      BY <3>1
  <2> HIDE DEF x, y, z, S
  <2>4. x \o y = z
    BY <2>1, <2>2, <2>3, Glued
  <2> QED
    BY <2>4 DEF x, y, z
<1>3. ASSUME NEW a, NEW b, NEW c, NEW d PROVE <<a, b>> \o <<c, d>> = <<a, b, c, d>>
  <2> DEFINE S == {a, b, c, d}
             x == <<a, b>>
             y == <<c, d>>
             z == <<a, b, c, d>>
  <2>1. x \in Seq(S) /\ y \in Seq(S) /\ z \in Seq(S) /\ Len(z) = Len(x) + Len(y)
    OBVIOUS
  <2>2. \A i \in 1..Len(x) : z[i] = x[i]
    <3>1. Len(x) = 2 /\ \A i \in 1..2 : z[i] = x[i]
      OBVIOUS
    <3> QED
      BY <3>1
  <2>3. \A i \in 1..Len(y) : z[Len(x) + i] = y[i]
    <3>1. Len(x) = 2 /\ Len(y) = 2 /\ \A i \in 1..2 : z[2 + i] = y[i]
      OBVIOUS
    <3> HIDE DEF x, y, z
    <3> QED
      BY <3>1
  <2> HIDE DEF x, y, z, S
  <2>4. x \o y = z
    BY <2>1, <2>2, <2>3, Glued
  <2> QED
    BY <2>4 DEF x, y, z
<1>4. ASSUME NEW a, NEW b, NEW c, NEW d, NEW e, NEW f PROVE <<a, b, c, d>> \o <<e, f>> = <<a, b, c, d, e, f>>
  <2> DEFINE S == {a, b, c, d, e, f}
             x == <<a, b, c, d>>
             y == <<e, f>>
             z == <<a, b, c, d, e, f>>
  <2>1. x \in Seq(S) /\ y \in Seq(S) /\ z \in Seq(S) /\ Len(z) = Len(x) + Len(y)
    OBVIOUS
  <2>2. \A i \in 1..Len(x) : z[i] = x[i]
    <3>1. Len(x) = 4 /\ \A i \in 1..4 : z[i] = x[i]
      OBVIOUS
    <3> QED
      BY <3>1
  <2>3. \A i \in 1..Len(y) : z[Len(x) + i] = y[i]
    <3>1. Len(x) = 4 /\ Len(y) = 2 /\ \A i \in 1..2 : z[4 + i] = y[i]
      OBVIOUS
    <3> HIDE DEF x, y, z
    <3> QED
      BY <3>1
  <2> HIDE DEF x, y, z, S
  <2>4. x \o y = z
    BY <2>1, <2>2, <2>3, Glued
  <2> QED
    BY <2>4 DEF x, y, z
<1>5. ASSUME NEW a, NEW b, NEW c, NEW d, NEW e, NEW f, NEW g PROVE <<a, b, c, d>> \o <<e, f, g>> = <<a, b, c, d, e, f, g>>
  <2> DEFINE S == {a, b, c, d, e, f, g}
             x == <<a, b, c, d>>
             y == <<e, f, g>>
             z == <<a, b, c, d, e, f, g>>
  <2>1. x \in Seq(S) /\ y \in Seq(S) /\ z \in Seq(S) /\ Len(z) = Len(x) + Len(y)
    OBVIOUS
  <2>2. \A i \in 1..Len(x) : z[i] = x[i]
    <3>1. Len(x) = 4 /\ \A i \in 1..4 : z[i] = x[i]
      OBVIOUS
    <3> QED
      BY <3>1
  <2>3. \A i \in 1..Len(y) : z[Len(x) + i] = y[i]
    <3>1. Len(x) = 4 /\ Len(y) = 3 /\ \A i \in 1..3 : z[4 + i] = y[i]
      OBVIOUS
    <3> HIDE DEF x, y, z
    <3> QED
      BY <3>1
  <2> HIDE DEF x, y, z, S
  <2>4. x \o y = z
    BY <2>1, <2>2, <2>3, Glued
  <2> QED
    BY <2>4 DEF x, y, z
<1> QED
  BY <1>1, <1>2, <1>3, <1>4, <1>5, Zenon

LEMMA FieldsSet ==
  ASSUME NEW j, NEW c, NEW y, j = [rc |-> TRUE, fields |-> y]
  PROVE  [j EXCEPT !.fields = c] = [rc |-> TRUE, fields |-> c]
OBVIOUS

LEMMA SavedataJsonReceived ==
  ASSUME NEW k \in {1, 5}, NEW s, Short16(s), NEW rest, rest = (<< 0 >> \o <<k>>) \o Str(s),
         NEW data, NEW p, Header(data, SAVEDATA, rest, p)
  PROVE  TcpclientRecv(data) = <<Msg(SAVEDATA, <<<<k>>, s>>)>>
<1> DEFINE r == Behind(data, 1, <<SAVEDATA>>)
           n == ReadRemainlen(r)
           ta == ReadByte(n)
           src == IF ta.val = <<Translated>> THEN ReadStr(ta) ELSE [ta EXCEPT !.val = <<>>]
           flag == ReadByte(src)
           u == UnpackSavedata(r)
           at == (p + 1) + 1
           str == ReadStr(flag)
<1>0. Opened(data, SAVEDATA, rest, p)
  BY HeaderRead
<1>1. n = Behind(data, p, <<Len(rest)>>) /\ Stands(data, p, rest) /\ p \in Nat
  BY <1>0 DEF Opened
<1>2. Stands(data, p, <<0>>) /\ Stands(data, p + 1, <<k>>) /\ Stands(data, at, Str(s))
  <2>1. 0 \in Bytes /\ k \in Bytes
    BY Constants DEF Bytes
  <2> DEFINE x == <<0>> \o <<k>>
  <2>2. <<0>> \in Seq(Bytes) /\ <<k>> \in Seq(Bytes) /\ Len(<<0>>) = 1 /\ Len(<<k>>) = 1
    BY <2>1, OneByte
  <2>3. x \in Seq(Bytes) /\ Len(x) = 2
    BY <2>2, Glue
  <2>4. Str(s) \in Seq(Bytes)
    BY StrTyped DEF Short16
  <2>5. Stands(data, p, x \o Str(s))
    BY <1>1
  <2> HIDE DEF x
  <2>6. Stands(data, p, x) /\ Stands(data, p + 2, Str(s))
    BY <2>3, <2>4, <2>5, StandsParts
  <2>7. Stands(data, p, <<0>>) /\ Stands(data, p + 1, <<k>>)
    BY <2>1, <2>2, <2>6, ByteThen DEF x
  <2>8. p + 2 = at
    BY <1>1
  <2> QED
    BY <2>6, <2>7, <2>8
<1>3. TcpclientRecv(data) = SavedataHandle(r)
  BY HandlerOf
<1>4. u = [reader |-> flag, src_devid |-> src.val, flag |-> flag.val]
  BY DEF UnpackSavedata
<1>5. SavedataHandle(r) =
        LET body == CASE u.flag \in {<<1>>, <<3>>, <<4>>, <<5>>} -> UnpackSavedataJson(u.reader)
                      [] u.flag = <<2>> -> UnpackSavedataBin(u.reader)
                      [] OTHER -> Unpacked([rc |-> FALSE], <<>>)
        IN IF ~u.reader.rc THEN Nothing ELSE Handed(SAVEDATA, [body EXCEPT !.fields = <<u.flag>> \o @])
  BY DEF SavedataHandle
<1> HIDE DEF r, u, at
<1>6. ta = Behind(data, p + 1, <<0>>)
  <2> DEFINE v == <<Len(rest)>>
  <2> HIDE DEF v
  <2>1. ReadByte(Behind(data, p, v)) = Behind(data, p + 1, <<0>>)
    BY <1>2, ReadByteAt
  <2> QED
    BY <1>1, <2>1 DEF v
<1> HIDE DEF n, ta
<1>7. src = Behind(data, p + 1, <<>>)
  <2>1. ta.val = <<0>> /\ <<0>> # <<Translated>>
    <3>1. 0 # Translated
      BY Constants DEF Translated
    <3> QED
      BY <1>6, <3>1 DEF Behind
  <2>2. src = [ta EXCEPT !.val = <<>>]
    BY <2>1
  <2> QED
    BY <1>6, <2>2 DEF Behind
<1> HIDE DEF src
<1>8. flag = Behind(data, at, <<k>>)
  <2>1. ReadByte(Behind(data, p + 1, <<>>)) = Behind(data, at, <<k>>)
    BY <1>2, ReadByteAt DEF at
  <2> QED
    BY <1>7, <2>1
<1> HIDE DEF flag
<1>9. str = Behind(data, (at + 2) + Len(s), s)
  <2> DEFINE v == <<k>>
  <2> HIDE DEF v
  <2>1. ReadStr(Behind(data, at, v)) = Behind(data, (at + 2) + Len(s), s)
    BY <1>2, ReadStrAt
  <2> QED
    BY <1>8, <2>1 DEF v
<1>10. UnpackSavedataJson(flag) = [rc |-> TRUE, fields |-> <<s>>]
  <2>1. UnpackSavedataJson(flag) = Unpacked(str, <<str.val>>)
    BY DEF UnpackSavedataJson
  <2> HIDE DEF str
  <2>2. str.val = s /\ str.rc
    BY <1>9 DEF Behind
  <2> QED
    BY <2>1, <2>2 DEF Unpacked
<1> HIDE DEF str
<1>11. u.reader = flag /\ u.flag = <<k>> /\ flag.rc
  <2>1. u.reader = flag /\ u.flag = flag.val
    BY <1>4
  <2> QED
    BY <1>8, <2>1 DEF Behind
<1>12. SavedataHandle(r) = Handed(SAVEDATA, [UnpackSavedataJson(flag) EXCEPT !.fields = <<<<k>>>> \o @])
  <2>1. <<k>> \in {<<1>>, <<3>>, <<4>>, <<5>>} /\ <<k>> # <<2>>
    OBVIOUS
  <2> DEFINE v == <<k>>
  <2> HIDE DEF v
  <2>2. u.flag \in {<<1>>, <<3>>, <<4>>, <<5>>} /\ u.flag # <<2>> /\ u.flag = v
    BY <1>11, <2>1 DEF v
  <2>3. SavedataHandle(r) = Handed(SAVEDATA, [UnpackSavedataJson(flag) EXCEPT !.fields = <<v>> \o @])
    BY <1>5, <1>11, <2>2
  <2> QED
    BY <2>3 DEF v
<1>13. [UnpackSavedataJson(flag) EXCEPT !.fields = <<<<k>>>> \o @] = [rc |-> TRUE, fields |-> <<<<k>>, s>>]
  <2> DEFINE v == <<k>>
             w == <<v>>
             y == <<s>>
             j == UnpackSavedataJson(flag)
  <2>1. w \o y = <<v, s>>
    BY Pairs, Zenon
  <2>2. j = [rc |-> TRUE, fields |-> y]
    BY <1>10
  <2> HIDE DEF w, y, j
  <2>3. [j EXCEPT !.fields = w \o @] = [rc |-> TRUE, fields |-> w \o y]
    <3>1. w \o j.fields = w \o y
      BY <2>2
    <3> DEFINE c == w \o j.fields
    <3> HIDE DEF c
    <3>2. [j EXCEPT !.fields = c] = [rc |-> TRUE, fields |-> c]
      BY <2>2, FieldsSet, Zenon
    <3> QED
      BY <3>1, <3>2, Zenon DEF c
  <2>4. [j EXCEPT !.fields = w \o @] = [rc |-> TRUE, fields |-> <<v, s>>]
    BY <2>1, <2>3
  <2> QED
    BY <2>4 DEF w, j
<1>14. SavedataHandle(r) = <<Msg(SAVEDATA, <<<<k>>, s>>)>>
  BY <1>12, <1>13 DEF Handed
<1> QED
  BY <1>3, <1>14

\* Five parts one behind the other.
LEMMA FiveParts ==
  ASSUME NEW d, NEW p, NEW a \in Seq(Bytes), NEW b \in Seq(Bytes), NEW c \in Seq(Bytes),
         NEW e \in Seq(Bytes), NEW f \in Seq(Bytes), Stands(d, p, (((a \o b) \o c) \o e) \o f)
  PROVE  /\ Stands(d, p, a) /\ Stands(d, p + Len(a), b) /\ Stands(d, (p + Len(a)) + Len(b), c)
         /\ Stands(d, ((p + Len(a)) + Len(b)) + Len(c), e)
         /\ Stands(d, (((p + Len(a)) + Len(b)) + Len(c)) + Len(e), f)
<1> DEFINE ab == a \o b
           abc == ab \o c
           abce == abc \o e
<1>1. ab \in Seq(Bytes) /\ Len(ab) = Len(a) + Len(b) /\ Len(a) \in Nat /\ Len(b) \in Nat
  BY Glue
<1>2. Stands(d, p, abce \o f) /\ p \in Nat
  BY DEF Stands
<1> HIDE DEF ab
<1>3. abc \in Seq(Bytes) /\ Len(abc) = Len(ab) + Len(c) /\ Len(c) \in Nat
  BY <1>1, Glue
<1> HIDE DEF abc
<1>4. abce \in Seq(Bytes) /\ Len(abce) = Len(abc) + Len(e) /\ Len(e) \in Nat
  BY <1>3, Glue
<1> HIDE DEF abce
<1>5. Stands(d, p, abce) /\ Stands(d, p + Len(abce), f)
  BY <1>2, <1>4, StandsParts
<1>6. Stands(d, p, abc) /\ Stands(d, p + Len(abc), e)
  BY <1>3, <1>5, StandsParts DEF abce
<1>7. Stands(d, p, ab) /\ Stands(d, p + Len(ab), c)
  BY <1>1, <1>6, StandsParts DEF abc
<1>8. Stands(d, p, a) /\ Stands(d, p + Len(a), b)
  BY <1>7, StandsParts DEF ab
<1>9. /\ p + Len(ab) = (p + Len(a)) + Len(b)
      /\ p + Len(abc) = ((p + Len(a)) + Len(b)) + Len(c)
      /\ p + Len(abce) = (((p + Len(a)) + Len(b)) + Len(c)) + Len(e)
  BY <1>1, <1>2, <1>3, <1>4
<1> QED
  BY <1>5, <1>6, <1>7, <1>8, <1>9

LEMMA SavedataBinReceived ==
  ASSUME NEW s, Short16(s), NEW t, Short16(t), NEW rest,
         rest = (((<<Radix>> \o Str(s)) \o << 2 >>) \o Str(s)) \o (Uint32(Len(t)) \o t),
         NEW data, NEW p, Header(data, SAVEDATA, rest, p)
  PROVE  TcpclientRecv(data) = <<Msg(SAVEDATA, <<<<2>>, s, t>>)>>
<1> DEFINE r == Behind(data, 1, <<SAVEDATA>>)
           n == ReadRemainlen(r)
           ta == ReadByte(n)
           src == IF ta.val = <<Translated>> THEN ReadStr(ta) ELSE [ta EXCEPT !.val = <<>>]
           flag == ReadByte(src)
           u == UnpackSavedata(r)
           p1 == p + 1
           p2 == (p1 + 2) + Len(s)
           p3 == p2 + 1
           p4 == (p3 + 2) + Len(s)
           str == ReadStr(flag)
           len == ReadUint32(str)
           bin == IF len.rc THEN ReadBytes(len, len.val[1]) ELSE len
           w == Uint32(Len(t)) \o t
<1>0. Opened(data, SAVEDATA, rest, p)
  BY HeaderRead
<1>1. n = Behind(data, p, <<Len(rest)>>) /\ Stands(data, p, rest) /\ p \in Nat
  BY <1>0 DEF Opened
<1>2. Stands(data, p, <<Radix>>) /\ Stands(data, p1, Str(s)) /\ Stands(data, p2, <<2>>) /\ Stands(data, p3, Str(s))
      /\ Stands(data, p4, w)
  <2> DEFINE x == <<Radix>>
             y == Str(s)
             z == <<2>>
  <2>1. Radix \in Bytes /\ 2 \in Bytes
    BY Constants DEF Bytes
  <2>2. x \in Seq(Bytes) /\ Len(x) = 1 /\ z \in Seq(Bytes) /\ Len(z) = 1
    BY <2>1, OneByte
  <2>3. y \in Seq(Bytes) /\ Len(y) = 2 + Len(s) /\ Len(s) \in Nat
    BY StrTyped, LenProperties DEF Short16
  <2>4. w \in Seq(Bytes)
    BY Uint16Bytes, Glue DEF Short16
  <2>5. Stands(data, p, (((x \o y) \o z) \o y) \o w)
    BY <1>1
  <2> HIDE DEF x, y, z, w
  <2>6. /\ Stands(data, p, x) /\ Stands(data, p + Len(x), y) /\ Stands(data, (p + Len(x)) + Len(y), z)
        /\ Stands(data, ((p + Len(x)) + Len(y)) + Len(z), y)
        /\ Stands(data, (((p + Len(x)) + Len(y)) + Len(z)) + Len(y), w)
    BY <2>2, <2>3, <2>4, <2>5, FiveParts
  <2>7. /\ p + Len(x) = p1 /\ (p + Len(x)) + Len(y) = p2 /\ ((p + Len(x)) + Len(y)) + Len(z) = p3
        /\ (((p + Len(x)) + Len(y)) + Len(z)) + Len(y) = p4
    BY <1>1, <2>2, <2>3
  <2> QED
    BY <2>6, <2>7 DEF x, y, z
<1>3. Stands(data, p4, Uint32(Len(t))) /\ Stands(data, p4 + 4, t)
  BY <1>2, DataParts
<1>4. TcpclientRecv(data) = SavedataHandle(r)
  BY HandlerOf
<1>5. u = [reader |-> flag, src_devid |-> src.val, flag |-> flag.val]
  BY DEF UnpackSavedata
<1>6. SavedataHandle(r) =
        LET body == CASE u.flag \in {<<1>>, <<3>>, <<4>>, <<5>>} -> UnpackSavedataJson(u.reader)
                      [] u.flag = <<2>> -> UnpackSavedataBin(u.reader)
                      [] OTHER -> Unpacked([rc |-> FALSE], <<>>)
        IN IF ~u.reader.rc THEN Nothing ELSE Handed(SAVEDATA, [body EXCEPT !.fields = <<u.flag>> \o @])
  BY DEF SavedataHandle
<1> HIDE DEF r, u, p1, p2, p3, p4, w
<1>7. ta = Behind(data, p1, <<Radix>>)
  <2> DEFINE v == <<Len(rest)>>
  <2> HIDE DEF v
  <2>1. ReadByte(Behind(data, p, v)) = Behind(data, p1, <<Radix>>)
    BY <1>2, ReadByteAt DEF p1
  <2> QED
    BY <1>1, <2>1 DEF v
<1> HIDE DEF n, ta
<1>8. src = Behind(data, p2, s)
  <2> DEFINE v == <<Radix>>
  <2>1. ta.val = v /\ v = <<Translated>>
    BY <1>7 DEF Behind, Translated
  <2>2. src = ReadStr(ta)
    BY <2>1
  <2> HIDE DEF v
  <2>3. ReadStr(Behind(data, p1, v)) = Behind(data, p2, s)
    BY <1>2, ReadStrAt DEF p2
  <2> QED
    BY <1>7, <2>2, <2>3 DEF v
<1> HIDE DEF src
<1>9. flag = Behind(data, p3, <<2>>)
  <2>1. ReadByte(Behind(data, p2, s)) = Behind(data, p3, <<2>>)
    BY <1>2, ReadByteAt DEF p3
  <2> QED
    BY <1>8, <2>1
<1> HIDE DEF flag
<1>10. str = Behind(data, p4, s)
  <2> DEFINE v == <<2>>
  <2> HIDE DEF v
  <2>1. ReadStr(Behind(data, p3, v)) = Behind(data, p4, s)
    BY <1>2, ReadStrAt DEF p4
  <2> QED
    BY <1>9, <2>1 DEF v
<1>11. UnpackSavedataBin(flag) = Unpacked(bin, <<str.val, bin.val>>)
  BY DEF UnpackSavedataBin
<1> HIDE DEF str
<1>12. len = Behind(data, p4 + 4, <<Len(t)>>)
  <2>1. ReadUint32(Behind(data, p4, s)) = Behind(data, p4 + 4, <<Len(t)>>)
    BY <1>3, ReadUint32At DEF Short16
  <2> QED
    BY <1>10, <2>1
<1> HIDE DEF len
<1>13. bin = Behind(data, (p4 + 4) + Len(t), t)
  <2>1. len.rc /\ len.val[1] = Len(t)
    BY <1>12 DEF Behind
  <2> DEFINE v == <<Len(t)>>
  <2> HIDE DEF v
  <2>2. ReadBytes(Behind(data, p4 + 4, v), Len(t)) = Behind(data, (p4 + 4) + Len(t), t)
    BY <1>3, ReadBytesAt
  <2> QED
    BY <1>12, <2>1, <2>2 DEF v
<1> HIDE DEF bin
<1>14. UnpackSavedataBin(flag) = [rc |-> TRUE, fields |-> <<s, t>>]
  <2>1. str.val = s /\ bin.val = t /\ bin.rc
    BY <1>10, <1>13 DEF Behind
  <2> QED
    BY <1>11, <2>1 DEF Unpacked
<1>15. u.reader = flag /\ u.flag = <<2>> /\ flag.rc
  <2>1. u.reader = flag /\ u.flag = flag.val
    BY <1>5
  <2> QED
    BY <1>9, <2>1 DEF Behind
<1>16. SavedataHandle(r) = Handed(SAVEDATA, [UnpackSavedataBin(flag) EXCEPT !.fields = <<<<2>>>> \o @])
  <2>1. <<2>> \notin {<<1>>, <<3>>, <<4>>, <<5>>}
    OBVIOUS
  <2> DEFINE v == <<2>>
  <2> HIDE DEF v
  <2>2. u.flag \notin {<<1>>, <<3>>, <<4>>, <<5>>} /\ u.flag = <<2>> /\ u.flag = v
    BY <1>15, <2>1 DEF v
  <2>3. SavedataHandle(r) = Handed(SAVEDATA, [UnpackSavedataBin(flag) EXCEPT !.fields = <<v>> \o @])
    BY <1>6, <1>15, <2>2
  <2> QED
    BY <2>3 DEF v
<1>17. [UnpackSavedataBin(flag) EXCEPT !.fields = <<<<2>>>> \o @] = [rc |-> TRUE, fields |-> <<<<2>>, s, t>>]
  <2> DEFINE v == <<2>>
             x == <<v>>
             y == <<s, t>>
             j == UnpackSavedataBin(flag)
             c == x \o j.fields
  <2>1. x \o y = <<v, s, t>>
    BY Pairs, Zenon
  <2>2. j = [rc |-> TRUE, fields |-> y]
    BY <1>14
  <2> HIDE DEF x, y, j
  <2>3. c = x \o y
    BY <2>2
  <2> HIDE DEF c
  <2>4. [j EXCEPT !.fields = c] = [rc |-> TRUE, fields |-> c]
    BY <2>2, FieldsSet, Zenon
  <2>5. [j EXCEPT !.fields = c] = [rc |-> TRUE, fields |-> <<v, s, t>>]
    BY <2>1, <2>3, <2>4, Zenon
  <2> QED
    BY <2>5 DEF x, j, c
<1>18. SavedataHandle(r) = <<Msg(SAVEDATA, <<<<2>>, s, t>>)>>
  BY <1>16, <1>17 DEF Handed
<1> QED
  BY <1>4, <1>18

LEMMA SaveackReceived ==
  ASSUME NEW s, Short16(s), NEW rest, rest = <<Radix>> \o Str(s),
         NEW data, NEW p, Header(data, SAVEACK, rest, p)
  PROVE  TcpclientRecv(data) = <<Msg(SAVEACK, <<s>>)>>
<1> DEFINE r == Behind(data, 1, <<SAVEACK>>)
           n == ReadRemainlen(r)
           b == ReadByte(n)
           str == ReadStr(b)
           at == ((p + 1) + 2) + Len(s)
<1>0. Opened(data, SAVEACK, rest, p)
  BY HeaderRead
<1>1. n = Behind(data, p, <<Len(rest)>>) /\ Stands(data, p, rest)
  BY <1>0 DEF Opened
<1>2. Stands(data, p, <<Radix>>) /\ Stands(data, p + 1, Str(s))
  <2>1. Radix \in Bytes
    BY Constants DEF Bytes
  <2>2. Str(s) \in Seq(Bytes)
    BY StrTyped DEF Short16
  <2> QED
    BY <1>1, <2>1, <2>2, ByteThen
<1>3. TcpclientRecv(data) = SaveackHandle(r)
  BY HandlerOf
<1>4. SaveackHandle(r) = IF b.val[1] >= Radix THEN Handed(SAVEACK, Unpacked(str, <<str.val>>))
                         ELSE Handed(SAVEACK, Unpacked(b, <<>>))
  BY DEF SaveackHandle
<1> HIDE DEF r, at
<1>5. b = Behind(data, p + 1, <<Radix>>)
  <2> DEFINE v == <<Len(rest)>>
  <2> HIDE DEF v
  <2>1. ReadByte(Behind(data, p, v)) = Behind(data, p + 1, <<Radix>>)
    BY <1>2, ReadByteAt
  <2> QED
    BY <1>1, <2>1 DEF v
<1> HIDE DEF n, b
<1>6. str = Behind(data, at, s)
  <2> DEFINE v == <<Radix>>
  <2> HIDE DEF v
  <2>1. ReadStr(Behind(data, p + 1, v)) = Behind(data, at, s)
    BY <1>2, ReadStrAt DEF at
  <2> QED
    BY <1>5, <2>1 DEF v
<1> HIDE DEF str
<1>7. b.val[1] >= Radix /\ str.val = s
  <2>1. b.val = <<Radix>> /\ str.val = s
    BY <1>5, <1>6 DEF Behind
  <2> QED
    BY <2>1, Constants
<1>8. SaveackHandle(r) = Handed(SAVEACK, Unpacked(Behind(data, at, s), <<s>>))
  BY <1>4, <1>6, <1>7
<1> QED
  BY <1>3, <1>8, HandedAll

LEMMA SaveackEmptyReceived ==
  ASSUME NEW rest, rest = << 0 >>, NEW data, NEW p, Header(data, SAVEACK, rest, p)
  PROVE  TcpclientRecv(data) = <<Msg(SAVEACK, <<>>)>>
<1> DEFINE r == Behind(data, 1, <<SAVEACK>>)
           n == ReadRemainlen(r)
           b == ReadByte(n)
           str == ReadStr(b)
<1>0. Opened(data, SAVEACK, rest, p)
  BY HeaderRead
<1>1. n = Behind(data, p, <<Len(rest)>>) /\ Stands(data, p, <<0>>)
  BY <1>0 DEF Opened
<1>3. TcpclientRecv(data) = SaveackHandle(r)
  BY HandlerOf
<1>4. SaveackHandle(r) = IF b.val[1] >= Radix THEN Handed(SAVEACK, Unpacked(str, <<str.val>>))
                         ELSE Handed(SAVEACK, Unpacked(b, <<>>))
  BY DEF SaveackHandle
<1> HIDE DEF r
<1>5. b = Behind(data, p + 1, <<0>>)
  <2> DEFINE v == <<Len(rest)>>
  <2> HIDE DEF v
  <2>1. ReadByte(Behind(data, p, v)) = Behind(data, p + 1, <<0>>)
    BY <1>1, ReadByteAt
  <2> QED
    BY <1>1, <2>1 DEF v
<1> HIDE DEF n, b, str
<1>7. ~(b.val[1] >= Radix)
  <2>1. b.val = <<0>>
    BY <1>5 DEF Behind
  <2> QED
    BY <2>1, Constants
<1>8. SaveackHandle(r) = Handed(SAVEACK, Unpacked(Behind(data, p + 1, <<0>>), <<>>))
  BY <1>4, <1>5, <1>7
<1> QED
  BY <1>3, <1>8, HandedAll

LEMMA CmdreqReceived ==
  ASSUME NEW s, Short16(s), NEW t, Short16(t), NEW rest, rest = Str(s) \o (Uint32(Len(t)) \o t),
         NEW data, NEW p, Header(data, CMDREQ, rest, p)
  PROVE  TcpclientRecv(data) = <<Msg(CMDREQ, <<s, t>>)>>
<1> DEFINE r == Behind(data, 1, <<CMDREQ>>)
           l == ReadRemainlen(r)
           cmdid == ReadStr(l)
           n == ReadUint32(cmdid)
           at == (p + 2) + Len(s)
           w == Uint32(Len(t)) \o t
<1>0. Opened(data, CMDREQ, rest, p)
  BY HeaderRead
<1>1. l = Behind(data, p, <<Len(rest)>>) /\ Stands(data, p, rest)
  BY <1>0 DEF Opened
<1>2. Stands(data, p, Str(s)) /\ Stands(data, at, w)
  <2>1. w \in Seq(Bytes)
    BY Uint16Bytes, Glue DEF Short16
  <2>2. Stands(data, p, Str(s) \o w)
    BY <1>1
  <2> HIDE DEF w
  <2> QED
    BY <2>1, <2>2, StrThen
<1>3. Stands(data, at, Uint32(Len(t))) /\ Stands(data, at + 4, t)
  BY <1>2, DataParts
<1>4. TcpclientRecv(data) = CmdreqHandle(r)
  BY HandlerOf
<1>5. CmdreqHandle(r) = Handed(CMDREQ, Unpacked(n, <<cmdid.val, SubSeq(n.data, n.pos + 1, n.pos + n.val[1])>>))
  BY DEF CmdreqHandle
<1> HIDE DEF r, at, w
<1>6. cmdid = Behind(data, at, s)
  <2> DEFINE v == <<Len(rest)>>
  <2> HIDE DEF v
  <2>1. ReadStr(Behind(data, p, v)) = Behind(data, at, s)
    BY <1>2, ReadStrAt DEF at
  <2> QED
    BY <1>1, <2>1 DEF v
<1> HIDE DEF l, cmdid
<1>7. n = Behind(data, at + 4, <<Len(t)>>)
  <2>1. ReadUint32(Behind(data, at, s)) = Behind(data, at + 4, <<Len(t)>>)
    BY <1>3, ReadUint32At DEF Short16
  <2> QED
    BY <1>6, <2>1
<1> HIDE DEF n
<1>8. SubSeq(n.data, n.pos + 1, n.pos + n.val[1]) = t
  <2>1. n.data = data /\ n.pos = at + 4 /\ n.val[1] = Len(t)
    BY <1>7 DEF Behind
  <2>2. SubSeq(data, (at + 4) + 1, (at + 4) + Len(t)) = t
    BY <1>3, StandsCut
  <2> QED
    BY <2>1, <2>2
<1>9. cmdid.val = s
  BY <1>6 DEF Behind
<1>10. CmdreqHandle(r) = Handed(CMDREQ, Unpacked(Behind(data, at + 4, <<Len(t)>>), <<s, t>>))
  BY <1>5, <1>7, <1>8, <1>9
<1> QED
  BY <1>4, <1>10, HandedAll

LEMMA PingrespReceived ==
  ASSUME NEW rest, rest = <<>>, NEW data, NEW p, Header(data, PINGRESP, rest, p)
  PROVE  TcpclientRecv(data) = <<Msg(PINGRESP, <<>>)>>
<1> DEFINE r == Behind(data, 1, <<PINGRESP>>)
           n == ReadRemainlen(r)
<1>0. Opened(data, PINGRESP, rest, p)
  BY HeaderRead
<1>1. n = Behind(data, p, <<Len(rest)>>)
  BY <1>0 DEF Opened
<1>2. TcpclientRecv(data) = Handed(PINGRESP, UnpackPingResp(r))
  BY HandlerOf
<1>3. UnpackPingResp(r) = Unpacked(n, <<>>)
  BY DEF UnpackPingResp
<1> HIDE DEF r, n
<1>4. UnpackPingResp(r) = Unpacked(Behind(data, p, <<Len(rest)>>), <<>>)
  BY <1>1, <1>3
<1> QED
  BY <1>2, <1>4, HandedAll

\* A packet of this type with these bytes behind its header.
Packet(bytes, type, rest) ==
  bytes = Packed(type, rest) /\ type \in Bytes /\ rest \in Seq(Bytes) /\ Len(rest) \in Remains

\* The device gets of it what it is meant to get.
Arrives(bytes, meant) == (\E type, rest : Packet(bytes, type, rest)) /\ TcpclientRecv(bytes) = <<meant>>

\* Packets with two strings are short enough for two digits.
LEMMA StringsFit ==
  ASSUME NEW s \in Strings, NEW t \in Strings
  PROVE  /\ Short16(s) /\ Short16(t) /\ Len(s) \in Nat /\ Len(t) \in Nat
         /\ \A n \in Nat : n <= 42 + 2 * Len(s) + 2 * Len(t) => n \in Remains
<1> DEFINE R == Radix * Radix
<1>1. /\ s \in Seq(Bytes) /\ Len(s) \in Nat /\ 42 + 5 * Len(s) < R
      /\ t \in Seq(Bytes) /\ Len(t) \in Nat /\ 42 + 5 * Len(t) < R
  BY StringIs
<1>2. R \in Nat /\ Base * Base = 4 * R
  BY Constants
<1> HIDE DEF R
<1>3. Len(s) < 4 * R /\ Len(t) < 4 * R /\ 42 + 2 * Len(s) + 2 * Len(t) < R
  BY <1>1, <1>2
<1>4. Len(s) \in Lengths /\ Len(t) \in Lengths
  BY <1>1, <1>2, <1>3 DEF Lengths
<1>5. \A n \in Nat : n <= 42 + 2 * Len(s) + 2 * Len(t) => n \in Remains
  <2>1. Remains = 0..R - 1
    BY DEF Remains, R
  <2> QED
    BY <1>1, <1>2, <1>3, <2>1
<1> QED
  BY <1>1, <1>4, <1>5 DEF Short16

LEMMA FewBytes == \A n \in 0..42 : n \in Remains
<1>1. Radix * Radix > 42
  <2>1. Radix * Radix \in Nat /\ 42 + 5 * Len(<<>>) < Radix * Radix
    BY StringIs, Constants
  <2> QED
    BY <2>1
<1> QED
  BY <1>1, Constants DEF Remains

LEMMA PacketOf ==
  ASSUME NEW type \in Bytes, NEW rest \in Seq(Bytes), Len(rest) \in Remains
  PROVE  /\ Packet(Packed(type, rest), type, rest)
         /\ Header(Packed(type, rest), type, rest, 1 + Len(CloudLength(Len(rest))))
BY DEF Packet, Header

LEMMA CloudBytes ==
  ASSUME NEW type, NEW addressed, NEW flag, NEW fields, NEW meant
  PROVE  /\ FromCloud(type, addressed, flag, fields, meant).bytes = Join(type, Layout(type, addressed, flag), fields)
         /\ FromCloud(type, addressed, flag, fields, meant).meant = Msg(type, meant)
BY DEF FromCloud

\* Each of the cloud's packets arrives as it was meant.
LEMMA ConnrespArrives ==
  ASSUME NEW a \in Bytes, NEW c \in Bytes
  PROVE  Arrives(Join(CONNRESP, Layout(CONNRESP, FALSE, 0), <<<<a>>, <<c>>>>), Msg(CONNRESP, <<<<c>>>>))
<1> DEFINE x == <<a>>
           y == <<c>>
           rest == x \o y
           data == Packed(CONNRESP, rest)
<1>1. x \in Seq(Bytes) /\ Len(x) = 1 /\ y \in Seq(Bytes) /\ Len(y) = 1
  BY OneByte
<1>2. rest \in Seq(Bytes) /\ Len(rest) \in Remains
  BY <1>1, Glue, FewBytes
<1>3. Packet(data, CONNRESP, rest) /\ Header(data, CONNRESP, rest, 1 + Len(CloudLength(Len(rest))))
  <2> HIDE DEF rest
  <2> QED
    BY <1>2, PacketOf, TypesAreBytes
<1>4. TcpclientRecv(data) = <<Msg(CONNRESP, <<y>>)>>
  <2> HIDE DEF data
  <2> QED
    BY <1>3, ConnrespReceived
<1> HIDE DEF x, y
<1>5. Join(CONNRESP, Layout(CONNRESP, FALSE, 0), <<x, y>>) = data
  <2>1. Join(CONNRESP, <<1, 1>>, <<x, y>>) = Packed(CONNRESP, Field(1, x) \o Field(1, y))
    <3> DEFINE q == Packed(CONNRESP, Field(1, x) \o Field(1, y))
    <3>1. q = Packed(CONNRESP, Field(1, x) \o Field(1, y))
      OBVIOUS
    <3> HIDE DEF q
    <3>2. Join(CONNRESP, <<1, 1>>, <<x, y>>) = q
      BY <3>1, Join2, Zenon
    <3> QED
      BY <3>1, <3>2
  <2>2. Field(1, x) = x /\ Field(1, y) = y
    BY FieldIs, 1 \in Nat
  <2>3. Layout(CONNRESP, FALSE, 0) = <<1, 1>>
    BY LayoutIs
  <2> QED
    BY <2>1, <2>2, <2>3, Zenon
<1> HIDE DEF data, rest
<1>6. Arrives(data, Msg(CONNRESP, <<y>>))
  BY <1>3, <1>4 DEF Arrives
<1> QED
  BY <1>5, <1>6, Zenon DEF x, y

LEMMA PushdataArrives ==
  ASSUME NEW s \in Strings, NEW t \in Strings
  PROVE  Arrives(Join(PUSHDATA, Layout(PUSHDATA, FALSE, 0), <<s, t>>), Msg(PUSHDATA, <<s, t>>))
<1> DEFINE rest == Str(s) \o t
           data == Packed(PUSHDATA, rest)
<1>1. Short16(s) /\ Short16(t) /\ s \in Seq(Bytes) /\ t \in Seq(Bytes) /\ Len(s) \in Nat /\ Len(t) \in Nat
      /\ \A n \in Nat : n <= 42 + 2 * Len(s) + 2 * Len(t) => n \in Remains
  BY StringsFit, StringIs
<1>2. rest \in Seq(Bytes) /\ Len(rest) \in Remains
  <2>1. Str(s) \in Seq(Bytes) /\ Len(Str(s)) = 2 + Len(s)
    BY <1>1, StrTyped
  <2>2. rest \in Seq(Bytes) /\ Len(rest) = (2 + Len(s)) + Len(t)
    BY <1>1, <2>1, Glue
  <2> HIDE DEF rest
  <2> QED
    BY <1>1, <2>2
<1>3. Packet(data, PUSHDATA, rest) /\ Header(data, PUSHDATA, rest, 1 + Len(CloudLength(Len(rest))))
  <2> HIDE DEF rest
  <2> QED
    BY <1>2, PacketOf, TypesAreBytes
<1>4. TcpclientRecv(data) = <<Msg(PUSHDATA, <<s, t>>)>>
  <2> HIDE DEF data
  <2> QED
    BY <1>1, <1>3, PushdataReceived
<1>5. Join(PUSHDATA, Layout(PUSHDATA, FALSE, 0), <<s, t>>) = data
  <2>1. Join(PUSHDATA, <<Str2, Rest>>, <<s, t>>) = Packed(PUSHDATA, Field(Str2, s) \o Field(Rest, t))
    <3> DEFINE q == Packed(PUSHDATA, Field(Str2, s) \o Field(Rest, t))
    <3>1. q = Packed(PUSHDATA, Field(Str2, s) \o Field(Rest, t))
      OBVIOUS
    <3> HIDE DEF q
    <3>2. Join(PUSHDATA, <<Str2, Rest>>, <<s, t>>) = q
      BY <3>1, Join2, Zenon
    <3> QED
      BY <3>1, <3>2
  <2>2. Field(Str2, s) = Str(s) /\ Field(Rest, t) = t
    BY <1>1, FieldIs
  <2>3. Layout(PUSHDATA, FALSE, 0) = <<Str2, Rest>>
    BY LayoutIs
  <2> QED
    BY <2>1, <2>2, <2>3, Zenon
<1> HIDE DEF data, rest
<1>6. Arrives(data, Msg(PUSHDATA, <<s, t>>))
  BY <1>3, <1>4 DEF Arrives
<1> QED
  BY <1>5, <1>6, Zenon

LEMMA ConncloseArrives ==
  ASSUME NEW c \in Bytes
  PROVE  Arrives(Join(CONNCLOSE, Layout(CONNCLOSE, FALSE, 0), <<<<c>>>>), Msg(CONNCLOSE, <<<<c>>>>))
<1> DEFINE rest == <<c>>
           data == Packed(CONNCLOSE, rest)
<1>2. rest \in Seq(Bytes) /\ Len(rest) \in Remains
  BY OneByte, FewBytes
<1>3. Packet(data, CONNCLOSE, rest) /\ Header(data, CONNCLOSE, rest, 1 + Len(CloudLength(Len(rest))))
  <2> HIDE DEF rest
  <2> QED
    BY <1>2, PacketOf, TypesAreBytes
<1>4. TcpclientRecv(data) = <<Msg(CONNCLOSE, <<rest>>)>>
  <2> HIDE DEF data
  <2> QED
    BY <1>3, ConncloseReceived
<1> HIDE DEF rest
<1>5. Join(CONNCLOSE, Layout(CONNCLOSE, FALSE, 0), <<rest>>) = data
  <2>1. Join(CONNCLOSE, <<1>>, <<rest>>) = Packed(CONNCLOSE, Field(1, rest))
    BY Join1, Zenon
  <2>2. Field(1, rest) = rest
    BY FieldIs, 1 \in Nat
  <2>3. Layout(CONNCLOSE, FALSE, 0) = <<1>>
    BY LayoutIs
  <2> QED
    BY <2>1, <2>2, <2>3, Zenon
<1> HIDE DEF data
<1>6. Arrives(data, Msg(CONNCLOSE, <<rest>>))
  BY <1>3, <1>4 DEF Arrives
<1> QED
  BY <1>5, <1>6, Zenon DEF rest

LEMMA SavedataJsonArrives ==
  ASSUME NEW k \in {1, 5}, NEW s \in Strings
  PROVE  Arrives(Join(SAVEDATA, Layout(SAVEDATA, FALSE, k), <<<<0>>, <<k>>, s>>), Msg(SAVEDATA, <<<<k>>, s>>))
<1> DEFINE x == <<0>>
           y == <<k>>
           xy == x \o y
           rest == xy \o Str(s)
           data == Packed(SAVEDATA, rest)
<1>1. Short16(s) /\ s \in Seq(Bytes) /\ Len(s) \in Nat
      /\ \A n \in Nat : n <= 42 + 2 * Len(s) + 2 * Len(s) => n \in Remains
  BY StringsFit, StringIs
<1>2. rest \in Seq(Bytes) /\ Len(rest) \in Remains
  <2>1. Str(s) \in Seq(Bytes) /\ Len(Str(s)) = 2 + Len(s)
    BY <1>1, StrTyped
  <2>2. 0 \in Bytes /\ k \in Bytes
    BY Constants DEF Bytes
  <2>3. x \in Seq(Bytes) /\ Len(x) = 1 /\ y \in Seq(Bytes) /\ Len(y) = 1
    BY <2>2, OneByte
  <2> HIDE DEF x, y
  <2>4. xy \in Seq(Bytes) /\ Len(xy) = 1 + 1
    BY <2>3, Glue
  <2> HIDE DEF xy
  <2>5. rest \in Seq(Bytes) /\ Len(rest) = (1 + 1) + (2 + Len(s))
    BY <2>1, <2>4, Glue
  <2> HIDE DEF rest
  <2> QED
    BY <1>1, <2>5
<1>3. Packet(data, SAVEDATA, rest) /\ Header(data, SAVEDATA, rest, 1 + Len(CloudLength(Len(rest))))
  <2> HIDE DEF rest
  <2> QED
    BY <1>2, PacketOf, TypesAreBytes
<1>4. TcpclientRecv(data) = <<Msg(SAVEDATA, <<y, s>>)>>
  <2> HIDE DEF data
  <2> QED
    BY <1>1, <1>3, SavedataJsonReceived
<1>5. Layout(SAVEDATA, FALSE, k) = <<1, 1, Str2>>
  BY LayoutIs
<1> HIDE DEF x, y
<1>6. Join(SAVEDATA, Layout(SAVEDATA, FALSE, k), <<x, y, s>>) = data
  <2>1. Join(SAVEDATA, <<1, 1, Str2>>, <<x, y, s>>) = Packed(SAVEDATA, (Field(1, x) \o Field(1, y)) \o Field(Str2, s))
    <3> DEFINE q == Packed(SAVEDATA, (Field(1, x) \o Field(1, y)) \o Field(Str2, s))
    <3>1. q = Packed(SAVEDATA, (Field(1, x) \o Field(1, y)) \o Field(Str2, s))
      OBVIOUS
    <3> HIDE DEF q
    <3>2. Join(SAVEDATA, <<1, 1, Str2>>, <<x, y, s>>) = q
      BY <3>1, Join3, Zenon
    <3> QED
      BY <3>1, <3>2
  <2>2. Field(1, x) = x /\ Field(1, y) = y /\ Field(Str2, s) = Str(s)
    BY <1>1, FieldIs, 1 \in Nat
  <2> QED
    BY <1>5, <2>1, <2>2, Zenon
<1> HIDE DEF data, rest
<1>7. Arrives(data, Msg(SAVEDATA, <<y, s>>))
  BY <1>3, <1>4 DEF Arrives
<1> QED
  BY <1>6, <1>7, Zenon DEF x, y

LEMMA SavedataBinArrives ==
  ASSUME NEW s \in Strings, NEW t \in Strings
  PROVE  Arrives(Join(SAVEDATA, Layout(SAVEDATA, TRUE, 2), <<<<Radix>>, s, <<2>>, s, t>>), Msg(SAVEDATA, <<<<2>>, s, t>>))
<1> DEFINE x == <<Radix>>
           y == <<2>>
           z == Str(s)
           w == Uint32(Len(t)) \o t
           xz == x \o z
           xzy == xz \o y
           xzyz == xzy \o z
           rest == xzyz \o w
           data == Packed(SAVEDATA, rest)
<1>1. Short16(s) /\ s \in Seq(Bytes) /\ Len(s) \in Nat /\ Short16(t) /\ t \in Seq(Bytes) /\ Len(t) \in Nat
      /\ Len(t) \in Lengths
      /\ \A n \in Nat : n <= 42 + 2 * Len(s) + 2 * Len(t) => n \in Remains
  BY StringsFit, StringIs DEF Short16
<1>2. rest \in Seq(Bytes) /\ Len(rest) \in Remains
  <2>1. z \in Seq(Bytes) /\ Len(z) = 2 + Len(s)
    BY <1>1, StrTyped
  <2>2. Radix \in Bytes /\ 2 \in Bytes
    BY Constants DEF Bytes
  <2>3. x \in Seq(Bytes) /\ Len(x) = 1 /\ y \in Seq(Bytes) /\ Len(y) = 1
    BY <2>2, OneByte
  <2>4. w \in Seq(Bytes) /\ Len(w) = 4 + Len(t)
    BY <1>1, Uint16Bytes, Glue
  <2> HIDE DEF x, y, z, w
  <2>5. xz \in Seq(Bytes) /\ Len(xz) = 1 + (2 + Len(s))
    BY <2>1, <2>3, Glue
  <2> HIDE DEF xz
  <2>6. xzy \in Seq(Bytes) /\ Len(xzy) = (1 + (2 + Len(s))) + 1
    BY <2>3, <2>5, Glue
  <2> HIDE DEF xzy
  <2>7. xzyz \in Seq(Bytes) /\ Len(xzyz) = ((1 + (2 + Len(s))) + 1) + (2 + Len(s))
    BY <2>1, <2>6, Glue
  <2> HIDE DEF xzyz
  <2>8. rest \in Seq(Bytes) /\ Len(rest) = (((1 + (2 + Len(s))) + 1) + (2 + Len(s))) + (4 + Len(t))
    BY <2>4, <2>7, Glue
  <2> HIDE DEF rest
  <2> QED
    BY <1>1, <2>8
<1>3. Packet(data, SAVEDATA, rest) /\ Header(data, SAVEDATA, rest, 1 + Len(CloudLength(Len(rest))))
  <2> HIDE DEF rest
  <2> QED
    BY <1>2, PacketOf, TypesAreBytes
<1>4. TcpclientRecv(data) = <<Msg(SAVEDATA, <<y, s, t>>)>>
  <2>1. rest = (((x \o Str(s)) \o y) \o Str(s)) \o (Uint32(Len(t)) \o t)
    OBVIOUS
  <2> HIDE DEF data, rest
  <2> QED
    BY <1>1, <1>3, <2>1, SavedataBinReceived
<1>5. Layout(SAVEDATA, TRUE, 2) = <<1, Str2, 1, Str2, Data4>>
  BY LayoutIs
<1> HIDE DEF x, y
<1>6. Join(SAVEDATA, Layout(SAVEDATA, TRUE, 2), <<x, s, y, s, t>>) = data
  <2>1. Join(SAVEDATA, <<1, Str2, 1, Str2, Data4>>, <<x, s, y, s, t>>) =
          Packed(SAVEDATA, (((Field(1, x) \o Field(Str2, s)) \o Field(1, y)) \o Field(Str2, s)) \o Field(Data4, t))
    <3> DEFINE q == Packed(SAVEDATA, (((Field(1, x) \o Field(Str2, s)) \o Field(1, y)) \o Field(Str2, s)) \o Field(Data4, t))
    <3>1. q =
          Packed(SAVEDATA, (((Field(1, x) \o Field(Str2, s)) \o Field(1, y)) \o Field(Str2, s)) \o Field(Data4, t))
      OBVIOUS
    <3> HIDE DEF q
    <3>2. Join(SAVEDATA, <<1, Str2, 1, Str2, Data4>>, <<x, s, y, s, t>>) = q
      BY <3>1, Join5, Zenon
    <3> QED
      BY <3>1, <3>2
  <2>2. Field(1, x) = x /\ Field(1, y) = y /\ Field(Str2, s) = z /\ Field(Data4, t) = w
    BY <1>1, FieldIs, 1 \in Nat
  <2> HIDE DEF z, w
  <2> QED
    BY <1>5, <2>1, <2>2, Zenon
<1> HIDE DEF data, rest
<1>7. Arrives(data, Msg(SAVEDATA, <<y, s, t>>))
  BY <1>3, <1>4 DEF Arrives
<1> QED
  BY <1>6, <1>7, Zenon DEF x, y

LEMMA SaveackArrives ==
  ASSUME NEW s \in Strings
  PROVE  Arrives(Join(SAVEACK, Layout(SAVEACK, FALSE, Radix), <<<<Radix>>, s>>), Msg(SAVEACK, <<s>>))
<1> DEFINE x == <<Radix>>
           rest == x \o Str(s)
           data == Packed(SAVEACK, rest)
<1>1. Short16(s) /\ s \in Seq(Bytes) /\ Len(s) \in Nat
      /\ \A n \in Nat : n <= 42 + 2 * Len(s) + 2 * Len(s) => n \in Remains
  BY StringsFit, StringIs
<1>2. rest \in Seq(Bytes) /\ Len(rest) \in Remains
  <2>1. Str(s) \in Seq(Bytes) /\ Len(Str(s)) = 2 + Len(s)
    BY <1>1, StrTyped
  <2>2. Radix \in Bytes
    BY Constants DEF Bytes
  <2>3. x \in Seq(Bytes) /\ Len(x) = 1
    BY <2>2, OneByte
  <2> HIDE DEF x
  <2>5. rest \in Seq(Bytes) /\ Len(rest) = 1 + (2 + Len(s))
    BY <2>1, <2>3, Glue
  <2> HIDE DEF rest
  <2> QED
    BY <1>1, <2>5
<1>3. Packet(data, SAVEACK, rest) /\ Header(data, SAVEACK, rest, 1 + Len(CloudLength(Len(rest))))
  <2> HIDE DEF rest
  <2> QED
    BY <1>2, PacketOf, TypesAreBytes
<1>4. TcpclientRecv(data) = <<Msg(SAVEACK, <<s>>)>>
  <2> HIDE DEF data
  <2> QED
    BY <1>1, <1>3, SaveackReceived
<1>5. Layout(SAVEACK, FALSE, Radix) = <<1, Str2>>
  BY LayoutIs
<1> HIDE DEF x
<1>6. Join(SAVEACK, Layout(SAVEACK, FALSE, Radix), <<x, s>>) = data
  <2>1. Join(SAVEACK, <<1, Str2>>, <<x, s>>) = Packed(SAVEACK, Field(1, x) \o Field(Str2, s))
    <3> DEFINE q == Packed(SAVEACK, Field(1, x) \o Field(Str2, s))
    <3>1. q = Packed(SAVEACK, Field(1, x) \o Field(Str2, s))
      OBVIOUS
    <3> HIDE DEF q
    <3>2. Join(SAVEACK, <<1, Str2>>, <<x, s>>) = q
      BY <3>1, Join2, Zenon
    <3> QED
      BY <3>1, <3>2
  <2>2. Field(1, x) = x /\ Field(Str2, s) = Str(s)
    BY <1>1, FieldIs, 1 \in Nat
  <2> QED
    BY <1>5, <2>1, <2>2, Zenon
<1> HIDE DEF data, rest
<1>7. Arrives(data, Msg(SAVEACK, <<s>>))
  BY <1>3, <1>4 DEF Arrives
<1> QED
  BY <1>6, <1>7, Zenon DEF x

LEMMA SaveackEmptyArrives == Arrives(Join(SAVEACK, Layout(SAVEACK, FALSE, 0), <<<<0>>>>), Msg(SAVEACK, <<>>))
<1> DEFINE rest == <<0>>
           data == Packed(SAVEACK, rest)
<1>2. rest \in Seq(Bytes) /\ Len(rest) \in Remains
  <2>1. 0 \in Bytes
    BY Constants DEF Bytes
  <2> QED
    BY <2>1, OneByte, FewBytes
<1>3. Packet(data, SAVEACK, rest) /\ Header(data, SAVEACK, rest, 1 + Len(CloudLength(Len(rest))))
  <2> HIDE DEF rest
  <2> QED
    BY <1>2, PacketOf, TypesAreBytes
<1>4. TcpclientRecv(data) = <<Msg(SAVEACK, <<>>)>>
  <2> HIDE DEF data
  <2> QED
    BY <1>3, SaveackEmptyReceived
<1> HIDE DEF rest
<1>5. Join(SAVEACK, Layout(SAVEACK, FALSE, 0), <<rest>>) = data
  <2>1. Join(SAVEACK, <<1>>, <<rest>>) = Packed(SAVEACK, Field(1, rest))
    BY Join1, Zenon
  <2>2. Field(1, rest) = rest
    BY FieldIs, 1 \in Nat
  <2>3. Layout(SAVEACK, FALSE, 0) = <<1>>
    BY LayoutIs
  <2> QED
    BY <2>1, <2>2, <2>3, Zenon
<1> HIDE DEF data
<1>6. Arrives(data, Msg(SAVEACK, <<>>))
  BY <1>3, <1>4 DEF Arrives
<1> QED
  BY <1>5, <1>6, Zenon DEF rest

LEMMA CmdreqArrives ==
  ASSUME NEW s \in Strings, NEW t \in Strings
  PROVE  Arrives(Join(CMDREQ, Layout(CMDREQ, FALSE, 0), <<s, t>>), Msg(CMDREQ, <<s, t>>))
<1> DEFINE w == Uint32(Len(t)) \o t
           rest == Str(s) \o w
           data == Packed(CMDREQ, rest)
<1>1. Short16(s) /\ Short16(t) /\ s \in Seq(Bytes) /\ t \in Seq(Bytes) /\ Len(s) \in Nat /\ Len(t) \in Nat
      /\ Len(t) \in Lengths
      /\ \A n \in Nat : n <= 42 + 2 * Len(s) + 2 * Len(t) => n \in Remains
  BY StringsFit, StringIs DEF Short16
<1>2. rest \in Seq(Bytes) /\ Len(rest) \in Remains
  <2>1. Str(s) \in Seq(Bytes) /\ Len(Str(s)) = 2 + Len(s)
    BY <1>1, StrTyped
  <2>2. w \in Seq(Bytes) /\ Len(w) = 4 + Len(t)
    BY <1>1, Uint16Bytes, Glue
  <2> HIDE DEF w
  <2>3. rest \in Seq(Bytes) /\ Len(rest) = (2 + Len(s)) + (4 + Len(t))
    BY <2>1, <2>2, Glue
  <2> HIDE DEF rest
  <2> QED
    BY <1>1, <2>3
<1>3. Packet(data, CMDREQ, rest) /\ Header(data, CMDREQ, rest, 1 + Len(CloudLength(Len(rest))))
  <2> HIDE DEF rest
  <2> QED
    BY <1>2, PacketOf, TypesAreBytes
<1>4. TcpclientRecv(data) = <<Msg(CMDREQ, <<s, t>>)>>
  <2>1. rest = Str(s) \o (Uint32(Len(t)) \o t)
    OBVIOUS
  <2> HIDE DEF data, rest
  <2> QED
    BY <1>1, <1>3, <2>1, CmdreqReceived
<1>5. Join(CMDREQ, Layout(CMDREQ, FALSE, 0), <<s, t>>) = data
  <2>1. Join(CMDREQ, <<Str2, Data4>>, <<s, t>>) = Packed(CMDREQ, Field(Str2, s) \o Field(Data4, t))
    <3> DEFINE q == Packed(CMDREQ, Field(Str2, s) \o Field(Data4, t))
    <3>1. q = Packed(CMDREQ, Field(Str2, s) \o Field(Data4, t))
      OBVIOUS
    <3> HIDE DEF q
    <3>2. Join(CMDREQ, <<Str2, Data4>>, <<s, t>>) = q
      BY <3>1, Join2, Zenon
    <3> QED
      BY <3>1, <3>2
  <2>2. Field(Str2, s) = Str(s) /\ Field(Data4, t) = w
    BY <1>1, FieldIs
  <2>3. Layout(CMDREQ, FALSE, 0) = <<Str2, Data4>>
    BY LayoutIs
  <2> HIDE DEF w
  <2> QED
    BY <2>1, <2>2, <2>3, Zenon
<1> HIDE DEF data, rest
<1>6. Arrives(data, Msg(CMDREQ, <<s, t>>))
  BY <1>3, <1>4 DEF Arrives
<1> QED
  BY <1>5, <1>6, Zenon

LEMMA PingrespArrives == Arrives(Join(PINGRESP, Layout(PINGRESP, FALSE, 0), <<>>), Msg(PINGRESP, <<>>))
<1> DEFINE rest == <<>>
           data == Packed(PINGRESP, rest)
<1>2. rest \in Seq(Bytes) /\ Len(rest) \in Remains
  BY EmptySeq, FewBytes
<1>3. Packet(data, PINGRESP, rest) /\ Header(data, PINGRESP, rest, 1 + Len(CloudLength(Len(rest))))
  <2> HIDE DEF rest
  <2> QED
    BY <1>2, PacketOf, TypesAreBytes
<1>4. TcpclientRecv(data) = <<Msg(PINGRESP, <<>>)>>
  <2> HIDE DEF data
  <2> QED
    BY <1>3, PingrespReceived
<1>5. Join(PINGRESP, Layout(PINGRESP, FALSE, 0), <<>>) = data
  BY Join0, Zenon
<1> HIDE DEF data, rest
<1>6. Arrives(data, Msg(PINGRESP, <<>>))
  BY <1>3, <1>4 DEF Arrives
<1> QED
  BY <1>5, <1>6, Zenon

\* The kinds of packets that the cloud may send.
LEMMA CloudKinds ==
  ASSUME NEW p \in CloudPackets
  PROVE  \/ \E c \in {0, 4} : p = FromCloud(CONNRESP, FALSE, 0, <<<<0>>, <<c>>>>, <<<<c>>>>)
         \/ \E s, t \in Strings : p = FromCloud(PUSHDATA, FALSE, 0, <<s, t>>, <<s, t>>)
         \/ p = FromCloud(CONNCLOSE, FALSE, 0, <<<<3>>>>, <<<<3>>>>)
         \/ \E k \in {1, 5}, s \in Strings : p = FromCloud(SAVEDATA, FALSE, k, <<<<0>>, <<k>>, s>>, <<<<k>>, s>>)
         \/ \E s, t \in Strings :
              p = FromCloud(SAVEDATA, TRUE, 2, <<<<Radix>>, s, <<2>>, s, t>>, <<<<2>>, s, t>>)
         \/ \E s \in Strings : p = FromCloud(SAVEACK, FALSE, Radix, <<<<Radix>>, s>>, <<s>>)
         \/ p = FromCloud(SAVEACK, FALSE, 0, <<<<0>>>>, <<>>)
         \/ \E s, t \in Strings : p = FromCloud(CMDREQ, FALSE, 0, <<s, t>>, <<s, t>>)
         \/ p = FromCloud(PINGRESP, FALSE, 0, <<>>, <<>>)
<1>1. CASE p \in {FromCloud(PUSHDATA, FALSE, 0, st, st) : st \in Strings \X Strings}
  <2>1. PICK st \in Strings \X Strings : p = FromCloud(PUSHDATA, FALSE, 0, st, st)
    BY <1>1
  <2>2. st = <<st[1], st[2]>> /\ st[1] \in Strings /\ st[2] \in Strings
    OBVIOUS
  <2>3. \E s, t \in Strings : p = FromCloud(PUSHDATA, FALSE, 0, <<s, t>>, <<s, t>>)
    BY <2>1, <2>2
  <2> QED
    BY <2>3
<1>2. CASE p \in {FromCloud(SAVEDATA, FALSE, ks[1][1], <<<<0>>, ks[1], ks[2]>>, ks) : ks \in {<<1>>, <<5>>} \X Strings}
  <2>1. PICK ks \in {<<1>>, <<5>>} \X Strings :
          p = FromCloud(SAVEDATA, FALSE, ks[1][1], <<<<0>>, ks[1], ks[2]>>, ks)
    BY <1>2
  <2>2. ks = <<ks[1], ks[2]>> /\ ks[2] \in Strings /\ ks[1] \in {<<1>>, <<5>>}
    OBVIOUS
  <2>3. PICK k \in {1, 5} : ks[1] = <<k>>
    BY <2>2
  <2>4. ks[1][1] = k
    BY <2>3
  <2>5. \E j \in {1, 5}, s \in Strings : p = FromCloud(SAVEDATA, FALSE, j, <<<<0>>, <<j>>, s>>, <<<<j>>, s>>)
    BY <2>1, <2>2, <2>3, <2>4
  <2> QED
    BY <2>5
<1>3. CASE p \in {FromCloud(SAVEDATA, TRUE, 2, <<<<Radix>>, st[1], <<2>>, st[1], st[2]>>, <<<<2>>, st[1], st[2]>>) :
                     st \in Strings \X Strings}
  <2>1. PICK st \in Strings \X Strings :
          p = FromCloud(SAVEDATA, TRUE, 2, <<<<Radix>>, st[1], <<2>>, st[1], st[2]>>, <<<<2>>, st[1], st[2]>>)
    BY <1>3
  <2>2. st[1] \in Strings /\ st[2] \in Strings
    OBVIOUS
  <2>3. \E s, t \in Strings :
          p = FromCloud(SAVEDATA, TRUE, 2, <<<<Radix>>, s, <<2>>, s, t>>, <<<<2>>, s, t>>)
    BY <2>1, <2>2
  <2> QED
    BY <2>3
<1>4. CASE p \in {FromCloud(CMDREQ, FALSE, 0, st, st) : st \in Strings \X Strings}
  <2>1. PICK st \in Strings \X Strings : p = FromCloud(CMDREQ, FALSE, 0, st, st)
    BY <1>4
  <2>2. st = <<st[1], st[2]>> /\ st[1] \in Strings /\ st[2] \in Strings
    OBVIOUS
  <2>3. \E s, t \in Strings : p = FromCloud(CMDREQ, FALSE, 0, <<s, t>>, <<s, t>>)
    BY <2>1, <2>2
  <2> QED
    BY <2>3
<1>5. CASE p \in {FromCloud(CONNRESP, FALSE, 0, <<<<0>>, <<c>>>>, <<<<c>>>>) : c \in {0, 4}}
  BY <1>5
<1>6. CASE p \in {FromCloud(SAVEACK, FALSE, Radix, <<<<Radix>>, s>>, <<s>>) : s \in Strings}
  BY <1>6
<1> QED
  BY <1>1, <1>2, <1>3, <1>4, <1>5, <1>6 DEF CloudPackets

\* Every packet of the cloud arrives, if it is all that the device is given.
LEMMA CloudPacketArrives == ASSUME NEW p \in CloudPackets PROVE Arrives(p.bytes, p.meant)
<1>1. ASSUME NEW c \in {0, 4}, p = FromCloud(CONNRESP, FALSE, 0, <<<< 0 >>, <<c>>>>, <<<<c>>>>)
      PROVE  Arrives(p.bytes, p.meant)
  <2>0. c \in Bytes /\ 0 \in Bytes
    BY Constants DEF Bytes
  <2>1. /\ p.bytes = Join(CONNRESP, Layout(CONNRESP, FALSE, 0), <<<<0>>, <<c>>>>)
        /\ p.meant = Msg(CONNRESP, <<<<c>>>>)
    BY <1>1 DEF FromCloud
  <2>2. Arrives(Join(CONNRESP, Layout(CONNRESP, FALSE, 0), <<<<0>>, <<c>>>>), Msg(CONNRESP, <<<<c>>>>))
    BY <2>0, ConnrespArrives
  <2> QED
    BY <2>1, <2>2, Zenon
<1>2. ASSUME NEW s \in Strings, NEW t \in Strings, p = FromCloud(PUSHDATA, FALSE, 0, <<s, t>>, <<s, t>>)
      PROVE  Arrives(p.bytes, p.meant)
  <2>1. /\ p.bytes = Join(PUSHDATA, Layout(PUSHDATA, FALSE, 0), <<s, t>>)
        /\ p.meant = Msg(PUSHDATA, <<s, t>>)
    BY <1>2 DEF FromCloud
  <2>2. Arrives(Join(PUSHDATA, Layout(PUSHDATA, FALSE, 0), <<s, t>>), Msg(PUSHDATA, <<s, t>>))
    BY PushdataArrives
  <2> QED
    BY <2>1, <2>2, Zenon
<1>3. ASSUME p = FromCloud(CONNCLOSE, FALSE, 0, <<<< 3 >>>>, <<<< 3 >>>>)
      PROVE  Arrives(p.bytes, p.meant)
  <2>0. 3 \in Bytes
    BY Constants DEF Bytes
  <2>1. /\ p.bytes = Join(CONNCLOSE, Layout(CONNCLOSE, FALSE, 0), <<<<3>>>>)
        /\ p.meant = Msg(CONNCLOSE, <<<<3>>>>)
    BY <1>3 DEF FromCloud
  <2>2. Arrives(Join(CONNCLOSE, Layout(CONNCLOSE, FALSE, 0), <<<<3>>>>), Msg(CONNCLOSE, <<<<3>>>>))
    BY <2>0, ConncloseArrives
  <2> QED
    BY <2>1, <2>2, Zenon
<1>4. ASSUME NEW k \in {1, 5}, NEW s \in Strings, p = FromCloud(SAVEDATA, FALSE, k, <<<< 0 >>, <<k>>, s>>, <<<<k>>, s>>)
      PROVE  Arrives(p.bytes, p.meant)
  <2>1. /\ p.bytes = Join(SAVEDATA, Layout(SAVEDATA, FALSE, k), <<<<0>>, <<k>>, s>>)
        /\ p.meant = Msg(SAVEDATA, <<<<k>>, s>>)
    BY <1>4 DEF FromCloud
  <2>2. Arrives(Join(SAVEDATA, Layout(SAVEDATA, FALSE, k), <<<<0>>, <<k>>, s>>), Msg(SAVEDATA, <<<<k>>, s>>))
    BY SavedataJsonArrives
  <2> QED
    BY <2>1, <2>2, Zenon
<1>5. ASSUME NEW s \in Strings, NEW t \in Strings,
             p = FromCloud(SAVEDATA, TRUE, 2, <<<<Radix>>, s, << 2 >>, s, t>>, <<<< 2 >>, s, t>>)
      PROVE  Arrives(p.bytes, p.meant)
  <2>1. /\ p.bytes = Join(SAVEDATA, Layout(SAVEDATA, TRUE, 2), <<<<Radix>>, s, <<2>>, s, t>>)
        /\ p.meant = Msg(SAVEDATA, <<<<2>>, s, t>>)
    BY <1>5 DEF FromCloud
  <2>2. Arrives(Join(SAVEDATA, Layout(SAVEDATA, TRUE, 2), <<<<Radix>>, s, <<2>>, s, t>>), Msg(SAVEDATA, <<<<2>>, s, t>>))
    BY SavedataBinArrives
  <2> QED
    BY <2>1, <2>2, Zenon
<1>6. ASSUME NEW s \in Strings, p = FromCloud(SAVEACK, FALSE, Radix, <<<<Radix>>, s>>, <<s>>)
      PROVE  Arrives(p.bytes, p.meant)
  <2>1. /\ p.bytes = Join(SAVEACK, Layout(SAVEACK, FALSE, Radix), <<<<Radix>>, s>>)
        /\ p.meant = Msg(SAVEACK, <<s>>)
    BY <1>6 DEF FromCloud
  <2>2. Arrives(Join(SAVEACK, Layout(SAVEACK, FALSE, Radix), <<<<Radix>>, s>>), Msg(SAVEACK, <<s>>))
    BY SaveackArrives
  <2> QED
    BY <2>1, <2>2, Zenon
<1>7. ASSUME p = FromCloud(SAVEACK, FALSE, 0, <<<< 0 >>>>, <<>>)
      PROVE  Arrives(p.bytes, p.meant)
  <2>1. /\ p.bytes = Join(SAVEACK, Layout(SAVEACK, FALSE, 0), <<<<0>>>>)
        /\ p.meant = Msg(SAVEACK, <<>>)
    BY <1>7 DEF FromCloud
  <2>2. Arrives(Join(SAVEACK, Layout(SAVEACK, FALSE, 0), <<<<0>>>>), Msg(SAVEACK, <<>>))
    BY SaveackEmptyArrives
  <2> QED
    BY <2>1, <2>2, Zenon
<1>8. ASSUME NEW s \in Strings, NEW t \in Strings, p = FromCloud(CMDREQ, FALSE, 0, <<s, t>>, <<s, t>>)
      PROVE  Arrives(p.bytes, p.meant)
  <2>1. /\ p.bytes = Join(CMDREQ, Layout(CMDREQ, FALSE, 0), <<s, t>>)
        /\ p.meant = Msg(CMDREQ, <<s, t>>)
    BY <1>8 DEF FromCloud
  <2>2. Arrives(Join(CMDREQ, Layout(CMDREQ, FALSE, 0), <<s, t>>), Msg(CMDREQ, <<s, t>>))
    BY CmdreqArrives
  <2> QED
    BY <2>1, <2>2, Zenon
<1>9. ASSUME p = FromCloud(PINGRESP, FALSE, 0, <<>>, <<>>)
      PROVE  Arrives(p.bytes, p.meant)
  <2>1. /\ p.bytes = Join(PINGRESP, Layout(PINGRESP, FALSE, 0), <<>>)
        /\ p.meant = Msg(PINGRESP, <<>>)
    BY <1>9 DEF FromCloud
  <2>2. Arrives(Join(PINGRESP, Layout(PINGRESP, FALSE, 0), <<>>), Msg(PINGRESP, <<>>))
    BY PingrespArrives
  <2> QED
    BY <2>1, <2>2, Zenon
<1> QED
  BY <1>1, <1>2, <1>3, <1>4, <1>5, <1>6, <1>7, <1>8, <1>9, CloudKinds, Zenon

-----------------------------------------------------------------------------
(* What the device packs.                                                    *)

\* Thirty-two doublings are enough.
LEMMA SixteenFold ==
  ASSUME NEW a \in Nat, NEW b \in Nat, NEW c \in Nat, NEW d \in Nat, NEW e \in Nat,
         b = 16 * a, c = 16 * b, d = 16 * c, e = 16 * d
  PROVE  e = 65536 * a
<1>1. c = 256 * a
  BY SMT
<1>2. d = 4096 * a
  BY <1>1, SMT
<1> QED
  BY <1>2, SMT

\* Doubling a capacity 32 times is always enough, because a position has 32 bits.
LEMMA AlwaysRoom ==
  ASSUME NEW b, Sound(b), NEW len \in Nat, 2 * (Len(b.data) + len) <= Word
  PROVE  Enough(b, len) # {}
<1> SUFFICES ASSUME Enough(b, len) = {} PROVE FALSE
  OBVIOUS
<1> DEFINE d == Doublings(b.capacity)
<1>1. /\ b.capacity \in Nat /\ b.capacity >= 6 /\ Len(b.data) \in Nat /\ Len(b.data) <= b.capacity
      /\ b.capacity < Word /\ Word \in Nat
  BY Constants DEF Sound, Buffers
<1>2. d[0] = b.capacity /\ \A k \in 1..32 : d[k] = (2 * d[k - 1]) % Word
  BY DoublingsIs
<1>3. ASSUME NEW k \in 0..32 PROVE d[k] \in b.capacity..Word - 1
  <2>1. \A j \in 0..k - 1 : j \notin Enough(b, len)
    OBVIOUS
  <2> QED
    BY <2>1, DoublingsGrow
<1>4. \A k \in 0..32 : ~((d[k] + Word - Len(b.data)) % Word >= len)
  BY DEF Enough
<1> HIDE DEF d
<1>6. ASSUME NEW k \in 0..32 PROVE d[k] \in Nat /\ b.capacity <= d[k] /\ d[k] < Word
  <2>1. d[k] \in b.capacity..Word - 1
    BY <1>3
  <2> QED
    BY <1>1, <2>1
<1>5. ASSUME NEW k \in 0..31 PROVE d[k + 1] = 2 * d[k]
  <2> DEFINE x == d[k] - Len(b.data)
  <2>1. k \in 0..32 /\ k + 1 \in 1..32 /\ (k + 1) - 1 = k
    OBVIOUS
  <2>2. d[k] \in Nat /\ x \in Nat /\ x < Word
    <3>1. d[k] \in Nat /\ b.capacity <= d[k] /\ d[k] < Word
      BY <1>6, <2>1
    <3> QED
      BY <1>1, <3>1
  <2>3. (d[k] + Word - Len(b.data)) % Word = x
    <3>1. d[k] + Word - Len(b.data) = x + Word
      BY <1>1, <2>2
    <3>2. (x + Word) % Word = x
      BY <1>1, <2>2, NoWrap
    <3> QED
      BY <3>1, <3>2
  <2>4. x < len
    <3>1. ~((d[k] + Word - Len(b.data)) % Word >= len)
      BY <1>4, <2>1
    <3>2. ~(x >= len)
      BY <2>3, <3>1
    <3> HIDE DEF x
    <3> QED
      BY <2>2, <3>2
  <2>5. 2 * d[k] \in 0..Word - 1 /\ Word \in Nat \ {0}
    BY <1>1, <2>2, <2>4
  <2>6. (2 * d[k]) % Word = 2 * d[k]
    BY <2>5, NoWrap
  <2>7. d[k + 1] = (2 * d[(k + 1) - 1]) % Word
    BY <1>2, <2>1
  <2> QED
    BY <2>1, <2>6, <2>7
<1>7. ASSUME NEW k \in 0..28 PROVE d[k + 4] = 16 * d[k]
  <2>1. /\ k \in 0..31 /\ k + 1 \in 0..31 /\ k + 2 \in 0..31 /\ k + 3 \in 0..31
        /\ (k + 1) + 1 = k + 2 /\ (k + 2) + 1 = k + 3 /\ (k + 3) + 1 = k + 4
    OBVIOUS
  <2>2. d[k + 1] = 2 * d[k] /\ d[k + 2] = 2 * d[k + 1] /\ d[k + 3] = 2 * d[k + 2] /\ d[k + 4] = 2 * d[k + 3]
    <3>1. \A j \in 0..31 : d[j + 1] = 2 * d[j]
      BY <1>5
    <3>2. d[k + 1] = 2 * d[k] /\ d[(k + 1) + 1] = 2 * d[k + 1] /\ d[(k + 2) + 1] = 2 * d[k + 2] /\ d[(k + 3) + 1] = 2 * d[k + 3]
      BY <2>1, <3>1, Zenon
    <3> QED
      BY <2>1, <3>2
  <2>3. d[k] \in Nat
    <3>1. k \in 0..32
      OBVIOUS
    <3> QED
      BY <1>6, <3>1
  <2> QED
    BY <2>2, <2>3
<1>8. /\ d[4] = 16 * d[0] /\ d[8] = 16 * d[4] /\ d[12] = 16 * d[8] /\ d[16] = 16 * d[12]
      /\ d[20] = 16 * d[16] /\ d[24] = 16 * d[20] /\ d[28] = 16 * d[24] /\ d[32] = 16 * d[28]
  <2>1. \A k \in 0..28 : d[k + 4] = 16 * d[k]
    BY <1>7
  <2>2. /\ d[0 + 4] = 16 * d[0] /\ d[4 + 4] = 16 * d[4] /\ d[8 + 4] = 16 * d[8] /\ d[12 + 4] = 16 * d[12]
        /\ d[16 + 4] = 16 * d[16] /\ d[20 + 4] = 16 * d[20] /\ d[24 + 4] = 16 * d[24] /\ d[28 + 4] = 16 * d[28]
    BY <2>1
  <2> QED
    BY <2>2
<1>9. d[32] = 65536 * (65536 * b.capacity)
  <2>1. /\ d[0] \in Nat /\ d[4] \in Nat /\ d[8] \in Nat /\ d[12] \in Nat
        /\ d[16] \in Nat /\ d[20] \in Nat /\ d[24] \in Nat /\ d[28] \in Nat /\ d[32] \in Nat
    BY <1>6, SMT
  <2>2. d[16] = 65536 * d[0]
    <3> DEFINE p == d[0]
               q == d[4]
               r == d[8]
               s == d[12]
               t == d[16]
    <3>1. /\ p \in Nat /\ q \in Nat /\ r \in Nat /\ s \in Nat /\ t \in Nat
          /\ q = 16 * p /\ r = 16 * q /\ s = 16 * r /\ t = 16 * s
      BY <1>8, <2>1
    <3> HIDE DEF p, q, r, s, t
    <3>2. t = 65536 * p
      BY <3>1, SixteenFold, SMT
    <3> QED
      BY <3>2, SMT DEF t, p
  <2>3. d[32] = 65536 * d[16]
    <3> DEFINE p == d[16]
               q == d[20]
               r == d[24]
               s == d[28]
               t == d[32]
    <3>1. /\ p \in Nat /\ q \in Nat /\ r \in Nat /\ s \in Nat /\ t \in Nat
          /\ q = 16 * p /\ r = 16 * q /\ s = 16 * r /\ t = 16 * s
      BY <1>8, <2>1
    <3> HIDE DEF p, q, r, s, t
    <3>2. t = 65536 * p
      BY <3>1, SixteenFold, SMT
    <3> QED
      BY <3>2, SMT DEF t, p
  <2> QED
    BY <1>2, <2>2, <2>3, SMT
<1>10. d[32] < Word
  BY <1>6, 32 \in 0..32
<1>11. Word < 65536 * 65537
  <2> DEFINE q == Word \div 65536
  <2>1. q \in Nat /\ Word % 65536 \in 0..65535 /\ Word = 65536 * q + (Word % 65536)
    <3>1. Word \in Nat
      BY <1>1
    <3> QED
      BY <3>1, SMT
  <2>2. q <= 65536
    BY CodecAssumption, SMT
  <2> HIDE DEF q
  <2> QED
    BY <1>1, <2>1, <2>2, SMT
<1> QED
  BY <1>1, <1>9, <1>10, <1>11, SMT

\* A write appends what it is given.
LEMMA WriteBytesIs ==
  ASSUME NEW b, Sound(b), NEW bytes \in Seq(Bytes), 2 * (Len(b.data) + Len(bytes)) <= Word
  PROVE  LET w == WriteBytes(b, bytes)
         IN Sound(w) /\ w.data = b.data \o bytes
<1> DEFINE room == CheckCapacity(b, Len(bytes))
           w == WriteBytes(b, bytes)
           all == b.data \o bytes
<1>1. Len(bytes) \in Nat /\ Len(b.data) \in Nat /\ b.data \in Seq(Bytes)
  BY DEF Sound, Buffers
<1>2. Enough(b, Len(bytes)) # {}
  BY <1>1, AlwaysRoom
<1>3. room.ok
  BY <1>2 DEF CheckCapacity
<1>4. Sound(room.buf) /\ room.buf.data = b.data
  BY <1>1, <1>3, CheckCapacityMakesRoom
<1>5. Sound(w)
  BY WriteBytesSound
<1>6. w = [room.buf EXCEPT !.data = all]
  BY <1>3, <1>4 DEF WriteBytes
<1> HIDE DEF room, all
<1>7. w.data = all
  BY <1>4, <1>6 DEF Sound, Buffers
<1> QED
  BY <1>5, <1>7 DEF all

\* The type and the length that Pack writes.
LEMMA HeaderIs ==
  ASSUME NEW type \in Bytes, NEW n \in Remains
  PROVE  WriteRemainlen(WriteBytes(NewBuffer, <<type>>), n).data = <<type>> \o CloudLength(n)
<1> DEFINE t == <<type>>
           w == WriteBytes(NewBuffer, t)
           all == w.data \o RemainBytes(n)
<1>1. t \in Seq(Bytes) /\ Len(t) = 1
  BY OneByte
<1>2. Sound(NewBuffer) /\ NewBuffer.data = <<>> /\ Len(NewBuffer.data) = 0
  BY NewIsSound
<1> HIDE DEF t
<1>3. 2 * (Len(NewBuffer.data) + Len(t)) <= Word
  BY <1>1, <1>2, Constants
<1>4. Sound(w) /\ w.data = NewBuffer.data \o t
  BY <1>1, <1>2, <1>3, WriteBytesIs
<1>5. w.data = t
  <2>1. <<>> \o t = t
    BY <1>1, ConcatEmptySeq
  <2> QED
    BY <1>2, <1>4, <2>1
<1> HIDE DEF w
<1>6. WriteRemainlen(w, n) = [w EXCEPT !.data = all]
  BY DEF WriteRemainlen
<1>7. all = t \o CloudLength(n)
  BY <1>5, RemainBytesAre
<1> HIDE DEF all
<1>8. WriteRemainlen(w, n).data = all
  BY <1>4, <1>6 DEF Sound, Buffers
<1> QED
  BY <1>7, <1>8 DEF w, t

\* Gluing is associative.
LEMMA Regroup ==
  ASSUME NEW x \in Seq(Bytes), NEW y \in Seq(Bytes), NEW z \in Seq(Bytes)
  PROVE  (x \o y) \o z = x \o (y \o z)
BY ConcatAssociative

\* Packing writes the packet that these fields make, if the length declared is theirs.
LEMMA PackIs ==
  ASSUME MaxPackets > 0, NEW type \in Bytes, NEW n \in Remains, NEW m \in Strings \cup {<<>>},
         NEW fields, Fields(fields, 4, 9 + Len(m)), Len(fields) > 0, n = Len(FlattenSeq(fields))
  PROVE  Pack(type, n, fields).data = Packed(type, FlattenSeq(fields))
<1> DEFINE base == WriteRemainlen(WriteBytes(NewBuffer, <<type>>), n)
           L == 9 + Len(m)
           k == Len(fields)
           h == <<type>> \o CloudLength(n)
<1>1. Sound(base) /\ Len(base.data) <= 6 /\ base.data = h /\ h \in Seq(Bytes) /\ Len(h) <= 6 /\ Len(h) \in Nat
  <2>1. n \in Nat
    BY RemainParts
  <2>2. Sound(base) /\ Len(base.data) <= 6 /\ base.data = h
    BY <2>1, HeaderSound, HeaderIs
  <2> HIDE DEF base, h
  <2> QED
    BY <2>2, LenProperties DEF Sound, Buffers
<1>2. Pack(type, n, fields) = AllWritten(base, fields)
  BY DEF Pack, AllWritten
<1>3. Len(m) \in Nat /\ 2 * (42 + 5 * Len(m)) <= Word
  BY StringIs
<1>4. L \in Nat /\ 2 * (6 + 4 * L) <= Word
  BY <1>3, Constants
<1>5. /\ fields \in Seq(Seq(Bytes)) /\ k \in 1..4 /\ DOMAIN fields = 1..k
      /\ \A i \in 1..k : fields[i] \in Seq(Bytes) /\ Len(fields[i]) <= L /\ Len(fields[i]) \in Nat
  <2>1. fields \in Seq(Seq(Bytes)) /\ Len(fields) <= 4 /\ \A i \in 1..k : Len(fields[i]) <= L
    BY DEF Fields
  <2>2. Len(fields) \in Nat /\ DOMAIN fields = 1..k
    BY <2>1, LenProperties
  <2>3. \A i \in 1..k : fields[i] \in Seq(Bytes)
    BY <2>1, ElementOfSeq
  <2>4. \A i \in 1..k : Len(fields[i]) \in Nat
    BY <2>3, LenProperties
  <2>5. k \in 1..4
    <3>1. \A j \in Nat : j > 0 /\ j <= 4 => j \in 1..4
      OBVIOUS
    <3> QED
      BY <2>1, <2>2, <3>1
  <2> QED
    BY <2>1, <2>2, <2>3, <2>4, <2>5
<1> HIDE DEF base, h, L, k
<1> k \in Nat /\ k \in Nat \ {0}
  BY <1>5
<1>6. PICK g : InTurn(g, base, fields, k)
  BY <1>5, FoldIs
<1>7. PICK f : FlattenSeq(fields) = f[k] /\ f[1] = fields[1] /\ \A i \in 2..k : f[i] = f[i - 1] \o fields[i]
  BY <1>5, FlatIs DEF k
<1> DEFINE Ok(j) == /\ Sound(g[1..j]) /\ g[1..j].data = h \o f[j]
                    /\ f[j] \in Seq(Bytes) /\ Len(f[j]) \in Nat /\ Len(f[j]) <= j * L
<1>8. Ok(1)
  <2> DEFINE x == fields[1]
             w == WriteBytes(base, x)
  <2>1. 0 \in 0..(k - 1) /\ 0 + 1 = 1 /\ 1 \in 1..k
    BY <1>5
  <2>2. g[1..(0 + 1)] = WriteBytes(g[1..0], fields[0 + 1]) /\ g[1..0] = base
    BY <1>6, <2>1 DEF InTurn
  <2>3. g[1..1] = w
    BY <2>1, <2>2
  <2>4. x \in Seq(Bytes) /\ Len(x) <= L /\ Len(x) \in Nat
    BY <1>5, <2>1
  <2> HIDE DEF x
  <2>5. 2 * (Len(base.data) + Len(x)) <= Word
    BY <1>1, <1>4, <2>4, Constants
  <2>6. Sound(w) /\ w.data = base.data \o x
    BY <1>1, <2>4, <2>5, WriteBytesIs
  <2> HIDE DEF w
  <2>7. 1 * L = L
    BY <1>4
  <2> QED
    BY <1>1, <1>7, <2>3, <2>4, <2>6, <2>7 DEF x
<1>9. ASSUME NEW j \in 1..3, j + 1 <= k, Ok(j) PROVE Ok(j + 1)
  <2> DEFINE b == g[1..j]
             x == fields[j + 1]
             a == f[j]
             w == WriteBytes(b, x)
  <2>1. j \in 0..(k - 1) /\ j + 1 \in 1..k /\ j + 1 \in 2..k /\ (j + 1) - 1 = j
    BY <1>5, <1>9
  <2>2. x \in Seq(Bytes) /\ Len(x) <= L /\ Len(x) \in Nat
    BY <1>5, <2>1
  <2>3. Sound(b) /\ b.data = h \o a /\ a \in Seq(Bytes) /\ Len(a) \in Nat /\ Len(a) <= j * L
    BY <1>9
  <2>4. g[1..(j + 1)] = w
    BY <1>6, <2>1 DEF InTurn
  <2>5. f[j + 1] = a \o x
    BY <1>7, <2>1
  <2> HIDE DEF b, x, a, w
  <2>6. Len(b.data) = Len(h) + Len(a) /\ a \o x \in Seq(Bytes) /\ Len(a \o x) = Len(a) + Len(x)
    BY <1>1, <2>2, <2>3, Glue
  <2>7. (j + 1) * L = j * L + L /\ j * L \in Nat /\ j * L + L <= 4 * L
    BY <1>4
  <2>8. 2 * (Len(b.data) + Len(x)) <= Word
    BY <1>1, <1>4, <2>2, <2>3, <2>6, <2>7, Constants
  <2>9. Sound(w) /\ w.data = b.data \o x
    BY <2>2, <2>3, <2>8, WriteBytesIs DEF w
  <2>10. w.data = h \o (a \o x)
    <3>1. (h \o a) \o x = h \o (a \o x)
      BY <1>1, <2>2, <2>3, Regroup
    <3> QED
      BY <2>3, <2>9, <3>1
  <2>11. Len(a \o x) \in Nat /\ Len(a \o x) <= (j + 1) * L
    <3>1. Len(a \o x) = Len(a) + Len(x)
      BY <2>6
    <3>2. Len(a) \in Nat /\ Len(x) \in Nat /\ Len(a) <= j * L /\ Len(x) <= L /\ L \in Nat
      BY <1>4, <2>2, <2>3
    <3> QED
      BY <2>7, <3>1, <3>2
  <2> QED
    BY <2>4, <2>5, <2>6, <2>9, <2>10, <2>11
<1> HIDE DEF Ok
<1>10. k >= 2 => Ok(2)
  BY <1>5, <1>8, <1>9, 1 + 1 = 2
<1>11. k >= 3 => Ok(3)
  BY <1>5, <1>10, <1>9, 2 + 1 = 3
<1>12. k >= 4 => Ok(4)
  BY <1>5, <1>11, <1>9, 3 + 1 = 4
<1>13. Ok(k)
  BY <1>5, <1>8, <1>10, <1>11, <1>12
<1>14. AllWritten(base, fields).data = h \o f[k]
  BY <1>6, <1>13 DEF Ok, InTurn
<1>15. Packed(type, FlattenSeq(fields)) = h \o f[k]
  BY <1>7 DEF Packed, h
<1> QED
  BY <1>2, <1>14, <1>15

\* The packet without fields.
LEMMA PackNothingIs ==
  ASSUME NEW type \in Bytes
  PROVE  Pack(type, 0, <<>>).data = Packed(type, <<>>)
<1> DEFINE base == WriteRemainlen(WriteBytes(NewBuffer, <<type>>), 0)
           h == <<type>> \o CloudLength(0)
           none == <<>>
<1>1. 0 \in Remains
  BY FewBytes
<1>2. base.data = h /\ Sound(base)
  BY <1>1, HeaderIs, HeaderSound
<1>3. Len(none) = 0 /\ DOMAIN none = 1..0 /\ 0 \in Nat
  OBVIOUS
<1>4. Pack(type, 0, none) = AllWritten(base, none)
  BY DEF Pack, AllWritten
<1>5. Packed(type, none) = h \o none
  BY <1>3 DEF Packed
<1> HIDE DEF base, h, none
<1>6. PICK g : InTurn(g, base, none, 0)
  BY <1>3, FoldIs
<1>7. AllWritten(base, none) = base
  BY <1>6 DEF InTurn
<1>8. h \o none = h
  <2>1. h \in Seq(Bytes)
    BY <1>2 DEF Sound, Buffers
  <2> QED
    BY <2>1, ConcatEmptySeq DEF none
<1> QED
  BY <1>2, <1>4, <1>5, <1>7, <1>8 DEF none

-----------------------------------------------------------------------------
(* What the cloud reads.                                                     *)

\* A value for a field of this width, in the last field of a packet too if last.
Suits(width, value) ==
  /\ value \in Seq(Bytes)
  /\ \/ width \in {Str2, Data4} /\ Short16(value)
     \/ width \in Nat /\ Len(value) = width
SuitsLast(width, value) == Suits(width, value) \/ (width = Rest /\ value \in Seq(Bytes))

\* g has what is there after each of the n fields.
Joined(n, widths, fields, g) ==
  /\ n \in Nat \ {0} /\ Len(widths) = n /\ fields = [i \in 1..n |-> fields[i]]
  /\ \A i \in 1..n - 1 : Suits(widths[i], fields[i])
  /\ SuitsLast(widths[n], fields[n])
  /\ g[1] = Field(widths[1], fields[1])
  /\ \A i \in 2..n : g[i] = g[i - 1] \o Field(widths[i], fields[i])

\* Joining fields one by one, and cutting the result into fields again.
LEMMA SplitParts ==
  ASSUME NEW n, NEW widths, NEW fields, NEW g, Joined(n, widths, fields, g)
  PROVE  g[n] \in Seq(Bytes) /\ Split(g[n], widths) = fields
<1> /\ n \in Nat \ {0} /\ Len(widths) = n /\ fields = [i \in 1..n |-> fields[i]]
    /\ \A i \in 1..n - 1 : Suits(widths[i], fields[i])
    /\ SuitsLast(widths[n], fields[n])
    /\ g[1] = Field(widths[1], fields[1])
    /\ \A i \in 2..n : g[i] = g[i - 1] \o Field(widths[i], fields[i])
  BY Zenon DEF Joined
<1> DEFINE f(i) == Field(widths[i], fields[i])
           rest == g[n]
           at == [i \in 0..n |-> IF i = 0 THEN 0 ELSE Len(g[i])]
<1>1. ASSUME NEW i \in 1..n PROVE fields[i] \in Seq(Bytes) /\ f(i) \in Seq(Bytes) /\ Len(f(i)) \in Nat
  <2>1. fields[i] \in Seq(Bytes)
    <3>1. CASE i = n
      BY <3>1 DEF SuitsLast, Suits
    <3>2. CASE i # n
      <4>1. i \in 1..n - 1
        BY <3>2
      <4> QED
        BY <4>1 DEF Suits
    <3> QED
      BY <3>1, <3>2
  <2>2. f(i) \in Seq(Bytes)
    BY <2>1, FieldTyped
  <2> HIDE DEF f
  <2> QED
    BY <2>1, <2>2, LenProperties
<1>2. g[1] = f(1) /\ 1 \in 1..n
  OBVIOUS
<1>3. \A i \in 2..n : g[i] = g[i - 1] \o f(i)
  OBVIOUS
<1> HIDE DEF f
<1>4. ASSUME NEW i \in 1..n PROVE g[i] \in Seq(Bytes)
  <2> DEFINE S == {m \in Nat : m + 1 <= n => g[m + 1] \in Seq(Bytes)}
  <2>1. 0 \in S
    <3>1. 0 + 1 = 1 /\ g[1] \in Seq(Bytes)
      BY <1>1, <1>2
    <3> QED
      BY <3>1
  <2>2. ASSUME NEW m \in S PROVE m + 1 \in S
    <3> SUFFICES ASSUME (m + 1) + 1 <= n PROVE g[(m + 1) + 1] \in Seq(Bytes)
      OBVIOUS
    <3> DEFINE j == (m + 1) + 1
    <3>1. j \in 2..n /\ j \in 1..n /\ j - 1 = m + 1 /\ m + 1 <= n
      OBVIOUS
    <3>2. g[m + 1] \in Seq(Bytes)
      BY <3>1
    <3> HIDE DEF j
    <3>3. g[j] = g[m + 1] \o f(j) /\ f(j) \in Seq(Bytes)
      BY <1>1, <1>3, <3>1
    <3>4. g[j] \in Seq(Bytes)
      BY <3>2, <3>3, Glue
    <3> QED
      BY <3>4 DEF j
  <2>3. S = Nat
    <3>1. S \in SUBSET Nat
      OBVIOUS
    <3> HIDE DEF S
    <3> QED
      BY <2>1, <2>2, <3>1, AllNumbers
  <2>4. i - 1 \in S /\ (i - 1) + 1 = i
    <3>1. i - 1 \in Nat /\ (i - 1) + 1 = i
      OBVIOUS
    <3> HIDE DEF S
    <3> QED
      BY <2>3, <3>1
  <2> QED
    BY <2>4
<1>5. ASSUME NEW i \in 1..n PROVE Stands(rest, 0, g[i])
  <2> DEFINE S == {m \in Nat : m <= n - 1 => Stands(rest, 0, g[n - m])}
  <2>1. 0 \in S
    <3>1. rest \in Seq(Bytes) /\ n - 0 = n
      BY <1>4
    <3>2. Stands(rest, 0, rest)
      BY <3>1, StandsSelf
    <3> QED
      BY <3>1, <3>2
  <2>2. ASSUME NEW m \in S PROVE m + 1 \in S
    <3> SUFFICES ASSUME m + 1 <= n - 1 PROVE Stands(rest, 0, g[n - (m + 1)])
      OBVIOUS
    <3> DEFINE j == n - m
    <3>1. j \in 2..n /\ j \in 1..n /\ j - 1 \in 1..n /\ j - 1 = n - (m + 1) /\ m <= n - 1
      OBVIOUS
    <3>2. Stands(rest, 0, g[j])
      BY <3>1
    <3> HIDE DEF j, rest
    <3>3. g[j] = g[j - 1] \o f(j) /\ f(j) \in Seq(Bytes) /\ g[j - 1] \in Seq(Bytes)
      BY <1>1, <1>3, <1>4, <3>1
    <3>4. Stands(rest, 0, g[j - 1])
      BY <3>2, <3>3, StandsParts
    <3> QED
      BY <3>1, <3>4
  <2>3. S = Nat
    <3>1. S \in SUBSET Nat
      OBVIOUS
    <3> HIDE DEF S
    <3> QED
      BY <2>1, <2>2, <3>1, AllNumbers
  <2>4. n - i \in S /\ n - (n - i) = i /\ n - i <= n - 1
    <3>1. n - i \in Nat /\ n - (n - i) = i /\ n - i <= n - 1
      OBVIOUS
    <3> HIDE DEF S
    <3> QED
      BY <2>3, <3>1
  <2> QED
    BY <2>4
<1>6. ASSUME NEW i \in 1..n PROVE Stands(rest, at[i - 1], f(i)) /\ at[i] = at[i - 1] + Len(f(i))
  <2>1. at[i] = Len(g[i])
    OBVIOUS
  <2>2. CASE i = 1
    <3>1. at[i - 1] = 0 /\ g[i] = f(i)
      BY <1>2, <2>2
    <3>2. Stands(rest, 0, f(i)) /\ Len(f(i)) \in Nat
      BY <1>1, <1>5, <3>1
    <3> HIDE DEF at
    <3> QED
      BY <2>1, <3>1, <3>2
  <2>3. CASE i # 1
    <3>1. i \in 2..n /\ i - 1 \in 1..n /\ i - 1 # 0 /\ i - 1 \in 0..n
      BY <2>3
    <3>2. at[i - 1] = Len(g[i - 1])
      BY <3>1
    <3> HIDE DEF at, rest
    <3>3. g[i] = g[i - 1] \o f(i) /\ f(i) \in Seq(Bytes) /\ g[i - 1] \in Seq(Bytes) /\ Stands(rest, 0, g[i])
      BY <1>1, <1>3, <1>4, <1>5, <3>1
    <3> DEFINE x == g[i - 1]
               y == f(i)
    <3>4. Stands(rest, 0 + Len(x), y) /\ Len(g[i]) = Len(x) + Len(y) /\ Len(x) \in Nat
      <4>1. x \in Seq(Bytes) /\ y \in Seq(Bytes) /\ g[i] = x \o y /\ Stands(rest, 0, x \o y)
        BY <3>3
      <4> HIDE DEF x, y
      <4> QED
        BY <4>1, StandsParts, Glue
    <3>5. 0 + Len(g[i - 1]) = Len(g[i - 1])
      BY <3>4
    <3> QED
      BY <2>1, <3>2, <3>4, <3>5
  <2> QED
    BY <2>2, <2>3
<1>7. at[0] = 0 /\ at[n] = Len(rest) /\ n \in 1..n
  OBVIOUS
<1> HIDE DEF at, rest
<1>8. ASSUME NEW i \in 1..n PROVE Proper(rest, at[i - 1], widths[i], fields[i])
  <2>1. CASE i # n
    <3>1. i \in 1..n - 1
      BY <2>1
    <3> QED
      BY <3>1 DEF Proper, Suits
  <2>2. CASE i = n /\ Suits(widths[n], fields[n])
    BY <2>2 DEF Proper, Suits
  <2>3. CASE i = n /\ widths[n] = Rest /\ fields[n] \in Seq(Bytes)
    <3>1. f(n) = fields[n]
      BY <2>3, FieldIs DEF f
    <3>2. at[n] = at[n - 1] + Len(f(n))
      BY <1>6, <1>7
    <3> QED
      BY <1>7, <2>3, <3>1, <3>2 DEF Proper
  <2> QED
    BY <2>1, <2>2, <2>3 DEF SuitsLast
<1>9. Split(rest, widths) = fields
  <2>1. n \in Nat /\ Len(widths) = n /\ fields = [i \in 1..n |-> fields[i]]
    OBVIOUS
  <2>2. StandInTurn(rest, n, widths, fields, at)
    BY <1>6, <1>7, <1>8, <2>1 DEF StandInTurn, f
  <2> QED
    BY <2>2, SplitIs
<1>10. g[n] \in Seq(Bytes)
  BY <1>4, <1>7
<1> QED
  BY <1>9, <1>10 DEF rest

\* The layouts of the device's packets, by their number of fields.
LEMMA Split0 == \A rest : Split(rest, <<>>) = <<>>
<1> TAKE rest
<1>1. Split(rest, <<>>) = [i \in 1..0 |->
        LET p == FieldEnds(rest, <<>>)[i - 1]
        IN Piece(rest, p + LengthBytes(<<>>[i]), FieldBytes(rest, p, <<>>[i]))]
  BY DEF Split
<1> QED
  BY <1>1

LEMMA Split2 ==
  ASSUME NEW w1, NEW w2,
         NEW v1, NEW v2,
         NEW all, NEW widths, NEW fields,
         Suits(w1, v1), SuitsLast(w2, v2),
         all = Field(w1, v1) \o Field(w2, v2),
         widths = <<w1, w2>>, fields = <<v1, v2>>
  PROVE  Split(all, widths) = fields
<1> DEFINE ws == <<w1, w2>>
           vs == <<v1, v2>>
           g == <<Field(w1, v1), all>>
           n == 2
<1>1. /\ Len(ws) = n /\ n \in Nat \ {0} /\ vs = [i \in 1..n |-> vs[i]] /\ \A i \in 2..n : i = 2
      /\ \A i \in 1..n - 1 : i = 1
      /\ ws[1] = w1 /\ ws[2] = w2
      /\ vs[1] = v1 /\ vs[2] = v2
      /\ g[1] = Field(w1, v1) /\ g[2] = all
      /\ 2 - 1 = 1
  <2>1. Len(ws) = n /\ n \in Nat \ {0}
    OBVIOUS
  <2>2. vs = [i \in 1..n |-> vs[i]]
    OBVIOUS
  <2>3. (\A i \in 2..n : i = 2) /\ (\A i \in 1..n - 1 : i = 1)
    OBVIOUS
  <2>4. ws[1] = w1 /\ ws[2] = w2
    OBVIOUS
  <2>5. vs[1] = v1 /\ vs[2] = v2
    OBVIOUS
  <2>6. g[1] = Field(w1, v1) /\ g[2] = all
    OBVIOUS
  <2>7. 2 - 1 = 1
    OBVIOUS
  <2> HIDE DEF ws, vs, g, n
  <2> QED
    BY <2>1, <2>2, <2>3, <2>4, <2>5, <2>6, <2>7, Zenon
<1> HIDE DEF ws, vs, g
<1>2. \A i \in 1..n - 1 : Suits(ws[i], vs[i])
  BY <1>1
<1>3. \A i \in 2..n : g[i] = g[i - 1] \o Field(ws[i], vs[i])
  BY <1>1
<1>4. SuitsLast(ws[n], vs[n]) /\ g[1] = Field(ws[1], vs[1]) /\ g[n] = all
  BY <1>1
<1> HIDE DEF n
<1>5. Joined(n, ws, vs, g)
  BY <1>1, <1>2, <1>3, <1>4, Zenon DEF Joined
<1>6. all \in Seq(Bytes) /\ Split(all, ws) = vs
  <2>1. g[n] \in Seq(Bytes) /\ Split(g[n], ws) = vs
    BY <1>5, SplitParts, Zenon
  <2> QED
    BY <1>4, <2>1, Zenon
<1> QED
  BY <1>6, Zenon DEF ws, vs

LEMMA Split3 ==
  ASSUME NEW w1, NEW w2, NEW w3,
         NEW v1, NEW v2, NEW v3,
         NEW g2, NEW all, NEW widths, NEW fields,
         Suits(w1, v1), Suits(w2, v2), SuitsLast(w3, v3),
         g2 = Field(w1, v1) \o Field(w2, v2),
         all = g2 \o Field(w3, v3),
         widths = <<w1, w2, w3>>, fields = <<v1, v2, v3>>
  PROVE  Split(all, widths) = fields
<1> DEFINE ws == <<w1, w2, w3>>
           vs == <<v1, v2, v3>>
           g == <<Field(w1, v1), g2, all>>
           n == 3
<1>1. /\ Len(ws) = n /\ n \in Nat \ {0} /\ vs = [i \in 1..n |-> vs[i]] /\ \A i \in 2..n : i = 2 \/ i = 3
      /\ \A i \in 1..n - 1 : i = 1 \/ i = 2
      /\ ws[1] = w1 /\ ws[2] = w2 /\ ws[3] = w3
      /\ vs[1] = v1 /\ vs[2] = v2 /\ vs[3] = v3
      /\ g[1] = Field(w1, v1) /\ g[2] = g2 /\ g[3] = all
      /\ 2 - 1 = 1 /\ 3 - 1 = 2
  <2>1. Len(ws) = n /\ n \in Nat \ {0}
    OBVIOUS
  <2>2. vs = [i \in 1..n |-> vs[i]]
    OBVIOUS
  <2>3. (\A i \in 2..n : i = 2 \/ i = 3) /\ (\A i \in 1..n - 1 : i = 1 \/ i = 2)
    OBVIOUS
  <2>4. ws[1] = w1 /\ ws[2] = w2 /\ ws[3] = w3
    OBVIOUS
  <2>5. vs[1] = v1 /\ vs[2] = v2 /\ vs[3] = v3
    OBVIOUS
  <2>6. g[1] = Field(w1, v1) /\ g[2] = g2 /\ g[3] = all
    OBVIOUS
  <2>7. 2 - 1 = 1 /\ 3 - 1 = 2
    OBVIOUS
  <2> HIDE DEF ws, vs, g, n
  <2> QED
    BY <2>1, <2>2, <2>3, <2>4, <2>5, <2>6, <2>7, Zenon
<1> HIDE DEF ws, vs, g
<1>2. \A i \in 1..n - 1 : Suits(ws[i], vs[i])
  BY <1>1
<1>3. \A i \in 2..n : g[i] = g[i - 1] \o Field(ws[i], vs[i])
  BY <1>1
<1>4. SuitsLast(ws[n], vs[n]) /\ g[1] = Field(ws[1], vs[1]) /\ g[n] = all
  BY <1>1
<1> HIDE DEF n
<1>5. Joined(n, ws, vs, g)
  BY <1>1, <1>2, <1>3, <1>4, Zenon DEF Joined
<1>6. all \in Seq(Bytes) /\ Split(all, ws) = vs
  <2>1. g[n] \in Seq(Bytes) /\ Split(g[n], ws) = vs
    BY <1>5, SplitParts, Zenon
  <2> QED
    BY <1>4, <2>1, Zenon
<1> QED
  BY <1>6, Zenon DEF ws, vs

LEMMA Split4 ==
  ASSUME NEW w1, NEW w2, NEW w3, NEW w4,
         NEW v1, NEW v2, NEW v3, NEW v4,
         NEW g2, NEW g3, NEW all, NEW widths, NEW fields,
         Suits(w1, v1), Suits(w2, v2), Suits(w3, v3), SuitsLast(w4, v4),
         g2 = Field(w1, v1) \o Field(w2, v2),
         g3 = g2 \o Field(w3, v3),
         all = g3 \o Field(w4, v4),
         widths = <<w1, w2, w3, w4>>, fields = <<v1, v2, v3, v4>>
  PROVE  Split(all, widths) = fields
<1> DEFINE ws == <<w1, w2, w3, w4>>
           vs == <<v1, v2, v3, v4>>
           g == <<Field(w1, v1), g2, g3, all>>
           n == 4
<1>1. /\ Len(ws) = n /\ n \in Nat \ {0} /\ vs = [i \in 1..n |-> vs[i]] /\ \A i \in 2..n : i = 2 \/ i = 3 \/ i = 4
      /\ \A i \in 1..n - 1 : i = 1 \/ i = 2 \/ i = 3
      /\ ws[1] = w1 /\ ws[2] = w2 /\ ws[3] = w3 /\ ws[4] = w4
      /\ vs[1] = v1 /\ vs[2] = v2 /\ vs[3] = v3 /\ vs[4] = v4
      /\ g[1] = Field(w1, v1) /\ g[2] = g2 /\ g[3] = g3 /\ g[4] = all
      /\ 2 - 1 = 1 /\ 3 - 1 = 2 /\ 4 - 1 = 3
  <2>1. Len(ws) = n /\ n \in Nat \ {0}
    OBVIOUS
  <2>2. vs = [i \in 1..n |-> vs[i]]
    OBVIOUS
  <2>3. (\A i \in 2..n : i = 2 \/ i = 3 \/ i = 4) /\ (\A i \in 1..n - 1 : i = 1 \/ i = 2 \/ i = 3)
    OBVIOUS
  <2>4. ws[1] = w1 /\ ws[2] = w2 /\ ws[3] = w3 /\ ws[4] = w4
    OBVIOUS
  <2>5. vs[1] = v1 /\ vs[2] = v2 /\ vs[3] = v3 /\ vs[4] = v4
    OBVIOUS
  <2>6. g[1] = Field(w1, v1) /\ g[2] = g2 /\ g[3] = g3 /\ g[4] = all
    OBVIOUS
  <2>7. 2 - 1 = 1 /\ 3 - 1 = 2 /\ 4 - 1 = 3
    OBVIOUS
  <2> HIDE DEF ws, vs, g, n
  <2> QED
    BY <2>1, <2>2, <2>3, <2>4, <2>5, <2>6, <2>7, Zenon
<1> HIDE DEF ws, vs, g
<1>2. \A i \in 1..n - 1 : Suits(ws[i], vs[i])
  BY <1>1
<1>3. \A i \in 2..n : g[i] = g[i - 1] \o Field(ws[i], vs[i])
  BY <1>1
<1>4. SuitsLast(ws[n], vs[n]) /\ g[1] = Field(ws[1], vs[1]) /\ g[n] = all
  BY <1>1
<1> HIDE DEF n
<1>5. Joined(n, ws, vs, g)
  BY <1>1, <1>2, <1>3, <1>4, Zenon DEF Joined
<1>6. all \in Seq(Bytes) /\ Split(all, ws) = vs
  <2>1. g[n] \in Seq(Bytes) /\ Split(g[n], ws) = vs
    BY <1>5, SplitParts, Zenon
  <2> QED
    BY <1>4, <2>1, Zenon
<1> QED
  BY <1>6, Zenon DEF ws, vs

Six(all, widths, fields, w1, w2, w3, w4, w5, w6,
    v1, v2, v3, v4, v5, v6, g2, g3, g4, g5) ==
  /\ Suits(w1, v1) /\ Suits(w2, v2) /\ Suits(w3, v3) /\ Suits(w4, v4) /\ Suits(w5, v5) /\ SuitsLast(w6, v6)
  /\ g2 = Field(w1, v1) \o Field(w2, v2) /\ g3 = g2 \o Field(w3, v3)
  /\ g4 = g3 \o Field(w4, v4) /\ g5 = g4 \o Field(w5, v5)
  /\ all = g5 \o Field(w6, v6)
  /\ widths = <<w1, w2, w3, w4, w5, w6>> /\ fields = <<v1, v2, v3, v4, v5, v6>>

LEMMA Split6 ==
  ASSUME NEW all, NEW widths, NEW fields, NEW w1, NEW w2, NEW w3, NEW w4, NEW w5, NEW w6,
         NEW v1, NEW v2, NEW v3, NEW v4, NEW v5, NEW v6, NEW g2, NEW g3, NEW g4, NEW g5,
         Six(all, widths, fields, w1, w2, w3, w4, w5, w6,
             v1, v2, v3, v4, v5, v6, g2, g3, g4, g5)
  PROVE  Split(all, widths) = fields
<1> /\ Suits(w1, v1) /\ Suits(w2, v2) /\ Suits(w3, v3) /\ Suits(w4, v4) /\ Suits(w5, v5) /\ SuitsLast(w6, v6)
    /\ g2 = Field(w1, v1) \o Field(w2, v2) /\ g3 = g2 \o Field(w3, v3)
    /\ g4 = g3 \o Field(w4, v4) /\ g5 = g4 \o Field(w5, v5)
    /\ all = g5 \o Field(w6, v6)
    /\ widths = <<w1, w2, w3, w4, w5, w6>> /\ fields = <<v1, v2, v3, v4, v5, v6>>
  BY Zenon DEF Six
<1> DEFINE ws == <<w1, w2, w3, w4, w5, w6>>
           vs == <<v1, v2, v3, v4, v5, v6>>
           g == <<Field(w1, v1), g2, g3, g4, g5, all>>
           n == 6
<1>1. /\ Len(ws) = n /\ n \in Nat \ {0} /\ vs = [i \in 1..n |-> vs[i]]
      /\ \A i \in 2..n : i = 2 \/ i = 3 \/ i = 4 \/ i = 5 \/ i = 6
      /\ \A i \in 1..n - 1 : i = 1 \/ i = 2 \/ i = 3 \/ i = 4 \/ i = 5
      /\ ws[1] = w1 /\ ws[2] = w2 /\ ws[3] = w3 /\ ws[4] = w4 /\ ws[5] = w5 /\ ws[6] = w6
      /\ vs[1] = v1 /\ vs[2] = v2 /\ vs[3] = v3 /\ vs[4] = v4 /\ vs[5] = v5 /\ vs[6] = v6
      /\ g[1] = Field(w1, v1) /\ g[2] = g2 /\ g[3] = g3 /\ g[4] = g4 /\ g[5] = g5 /\ g[6] = all
      /\ 2 - 1 = 1 /\ 3 - 1 = 2 /\ 4 - 1 = 3 /\ 5 - 1 = 4 /\ 6 - 1 = 5
  <2>1. Len(ws) = n /\ n \in Nat \ {0}
    OBVIOUS
  <2>2. vs = [i \in 1..n |-> vs[i]]
    OBVIOUS
  <2>3. /\ \A i \in 2..n : i = 2 \/ i = 3 \/ i = 4 \/ i = 5 \/ i = 6
        /\ \A i \in 1..n - 1 : i = 1 \/ i = 2 \/ i = 3 \/ i = 4 \/ i = 5
    OBVIOUS
  <2>4. ws[1] = w1 /\ ws[2] = w2 /\ ws[3] = w3 /\ ws[4] = w4 /\ ws[5] = w5 /\ ws[6] = w6
    OBVIOUS
  <2>5. vs[1] = v1 /\ vs[2] = v2 /\ vs[3] = v3 /\ vs[4] = v4 /\ vs[5] = v5 /\ vs[6] = v6
    OBVIOUS
  <2>6. g[1] = Field(w1, v1) /\ g[2] = g2 /\ g[3] = g3 /\ g[4] = g4 /\ g[5] = g5 /\ g[6] = all
    OBVIOUS
  <2>7. 2 - 1 = 1 /\ 3 - 1 = 2 /\ 4 - 1 = 3 /\ 5 - 1 = 4 /\ 6 - 1 = 5
    OBVIOUS
  <2> HIDE DEF ws, vs, g, n
  <2> QED
    BY <2>1, <2>2, <2>3, <2>4, <2>5, <2>6, <2>7, Zenon
<1> HIDE DEF ws, vs, g
<1>2. \A i \in 1..n - 1 : Suits(ws[i], vs[i])
  BY <1>1
<1>3. \A i \in 2..n : g[i] = g[i - 1] \o Field(ws[i], vs[i])
  BY <1>1
<1>4. SuitsLast(ws[n], vs[n]) /\ g[1] = Field(ws[1], vs[1]) /\ g[n] = all
  BY <1>1
<1> HIDE DEF n
<1>5. Joined(n, ws, vs, g)
  BY <1>1, <1>2, <1>3, <1>4, Zenon DEF Joined
<1>6. all \in Seq(Bytes) /\ Split(all, ws) = vs
  <2>1. g[n] \in Seq(Bytes) /\ Split(g[n], ws) = vs
    BY <1>5, SplitParts, Zenon
  <2> QED
    BY <1>4, <2>1, Zenon
<1> QED
  BY <1>6, Zenon DEF ws, vs

Seven(all, widths, fields, w1, w2, w3, w4, w5, w6, w7,
      v1, v2, v3, v4, v5, v6, v7, g2, g3, g4, g5, g6) ==
  /\ Suits(w1, v1) /\ Suits(w2, v2) /\ Suits(w3, v3) /\ Suits(w4, v4) /\ Suits(w5, v5) /\ Suits(w6, v6) /\ SuitsLast(w7, v7)
  /\ g2 = Field(w1, v1) \o Field(w2, v2) /\ g3 = g2 \o Field(w3, v3)
  /\ g4 = g3 \o Field(w4, v4) /\ g5 = g4 \o Field(w5, v5)
  /\ g6 = g5 \o Field(w6, v6) /\ all = g6 \o Field(w7, v7)
  /\ widths = <<w1, w2, w3, w4, w5, w6, w7>> /\ fields = <<v1, v2, v3, v4, v5, v6, v7>>

LEMMA Split7 ==
  ASSUME NEW all, NEW widths, NEW fields, NEW w1, NEW w2, NEW w3, NEW w4, NEW w5, NEW w6, NEW w7,
         NEW v1, NEW v2, NEW v3, NEW v4, NEW v5, NEW v6, NEW v7, NEW g2, NEW g3, NEW g4, NEW g5, NEW g6,
         Seven(all, widths, fields, w1, w2, w3, w4, w5, w6, w7,
               v1, v2, v3, v4, v5, v6, v7, g2, g3, g4, g5, g6)
  PROVE  Split(all, widths) = fields
<1> /\ Suits(w1, v1) /\ Suits(w2, v2) /\ Suits(w3, v3) /\ Suits(w4, v4) /\ Suits(w5, v5)
    /\ Suits(w6, v6) /\ SuitsLast(w7, v7)
    /\ g2 = Field(w1, v1) \o Field(w2, v2) /\ g3 = g2 \o Field(w3, v3)
    /\ g4 = g3 \o Field(w4, v4) /\ g5 = g4 \o Field(w5, v5)
    /\ g6 = g5 \o Field(w6, v6) /\ all = g6 \o Field(w7, v7)
    /\ widths = <<w1, w2, w3, w4, w5, w6, w7>> /\ fields = <<v1, v2, v3, v4, v5, v6, v7>>
  BY Zenon DEF Seven
<1> DEFINE ws == <<w1, w2, w3, w4, w5, w6, w7>>
           vs == <<v1, v2, v3, v4, v5, v6, v7>>
           g == <<Field(w1, v1), g2, g3, g4, g5, g6, all>>
           n == 7
<1>1. /\ Len(ws) = n /\ n \in Nat \ {0} /\ vs = [i \in 1..n |-> vs[i]]
      /\ \A i \in 2..n : i = 2 \/ i = 3 \/ i = 4 \/ i = 5 \/ i = 6 \/ i = 7
      /\ \A i \in 1..n - 1 : i = 1 \/ i = 2 \/ i = 3 \/ i = 4 \/ i = 5 \/ i = 6
      /\ ws[1] = w1 /\ ws[2] = w2 /\ ws[3] = w3 /\ ws[4] = w4 /\ ws[5] = w5 /\ ws[6] = w6 /\ ws[7] = w7
      /\ vs[1] = v1 /\ vs[2] = v2 /\ vs[3] = v3 /\ vs[4] = v4 /\ vs[5] = v5 /\ vs[6] = v6 /\ vs[7] = v7
      /\ g[1] = Field(w1, v1) /\ g[2] = g2 /\ g[3] = g3 /\ g[4] = g4 /\ g[5] = g5 /\ g[6] = g6 /\ g[7] = all
      /\ 2 - 1 = 1 /\ 3 - 1 = 2 /\ 4 - 1 = 3 /\ 5 - 1 = 4 /\ 6 - 1 = 5 /\ 7 - 1 = 6
  <2>1. Len(ws) = n /\ n \in Nat \ {0}
    OBVIOUS
  <2>2. vs = [i \in 1..n |-> vs[i]]
    OBVIOUS
  <2>3. /\ \A i \in 2..n : i = 2 \/ i = 3 \/ i = 4 \/ i = 5 \/ i = 6 \/ i = 7
        /\ \A i \in 1..n - 1 : i = 1 \/ i = 2 \/ i = 3 \/ i = 4 \/ i = 5 \/ i = 6
    OBVIOUS
  <2>4. ws[1] = w1 /\ ws[2] = w2 /\ ws[3] = w3 /\ ws[4] = w4 /\ ws[5] = w5 /\ ws[6] = w6 /\ ws[7] = w7
    OBVIOUS
  <2>5. vs[1] = v1 /\ vs[2] = v2 /\ vs[3] = v3 /\ vs[4] = v4 /\ vs[5] = v5 /\ vs[6] = v6 /\ vs[7] = v7
    OBVIOUS
  <2>6. g[1] = Field(w1, v1) /\ g[2] = g2 /\ g[3] = g3 /\ g[4] = g4 /\ g[5] = g5 /\ g[6] = g6 /\ g[7] = all
    OBVIOUS
  <2>7. 2 - 1 = 1 /\ 3 - 1 = 2 /\ 4 - 1 = 3 /\ 5 - 1 = 4 /\ 6 - 1 = 5 /\ 7 - 1 = 6
    OBVIOUS
  <2> HIDE DEF ws, vs, g, n
  <2> QED
    BY <2>1, <2>2, <2>3, <2>4, <2>5, <2>6, <2>7, Zenon
<1> HIDE DEF ws, vs, g
<1>2. \A i \in 1..n - 1 : Suits(ws[i], vs[i])
  BY <1>1
<1>3. \A i \in 2..n : g[i] = g[i - 1] \o Field(ws[i], vs[i])
  BY <1>1
<1>4. SuitsLast(ws[n], vs[n]) /\ g[1] = Field(ws[1], vs[1]) /\ g[n] = all
  BY <1>1
<1> HIDE DEF n
<1>5. Joined(n, ws, vs, g)
  BY <1>1, <1>2, <1>3, <1>4, Zenon DEF Joined
<1>6. all \in Seq(Bytes) /\ Split(all, ws) = vs
  <2>1. g[n] \in Seq(Bytes) /\ Split(g[n], ws) = vs
    BY <1>5, SplitParts, Zenon
  <2> QED
    BY <1>4, <2>1, Zenon
<1> QED
  BY <1>6, Zenon DEF ws, vs

\* The cloud reads this message wherever the stream begins with these bytes.
Understood(bytes, meant) ==
  /\ \E type, rest : Packet(bytes, type, rest)
  /\ \A data : Stands(data, 0, bytes) => CloudReading(data) = meant

\* Four fields.
LEMMA Flat4 ==
  ASSUME NEW a, NEW b, NEW c, NEW d,
         NEW all, all = ((a \o b) \o c) \o d
  PROVE  FlattenSeq(<<a, b, c, d>>) = all
<1> DEFINE fs == <<a, b, c, d>>
<1>1. 4 \in Nat \ {0} /\ 2 \in 2..4 /\ 3 \in 2..4 /\ 4 \in 2..4 /\ 2 - 1 = 1 /\ 3 - 1 = 2 /\ 4 - 1 = 3
  OBVIOUS
<1>2. Len(fs) = 4 /\ fs[1] = a /\ fs[2] = b /\ fs[3] = c /\ fs[4] = d
  OBVIOUS
<1> HIDE DEF fs
<1>3. PICK g : FlattenSeq(fs) = g[4] /\ g[1] = fs[1] /\ \A i \in 2..4 : g[i] = g[i - 1] \o fs[i]
  BY <1>1, <1>2, FlatIs, Zenon
<1>4. g[2] = a \o b
  <2>1. g[2] = g[2 - 1] \o fs[2]
    BY <1>1, <1>3, Zenon
  <2> QED
    BY <2>1, <1>1, <1>2, <1>3, Zenon
<1>5. g[3] = (a \o b) \o c
  <2>1. g[3] = g[3 - 1] \o fs[3]
    BY <1>1, <1>3, Zenon
  <2> QED
    BY <1>4, <2>1, <1>1, <1>2, <1>3, Zenon
<1>6. g[4] = ((a \o b) \o c) \o d
  <2>1. g[4] = g[4 - 1] \o fs[4]
    BY <1>1, <1>3, Zenon
  <2> QED
    BY <1>5, <2>1, <1>1, <1>2, <1>3, Zenon
<1> QED
  BY <1>2, <1>3, <1>6, Zenon DEF fs

\* The byte that stands behind p.
LEMMA ByteStands ==
  ASSUME NEW d, NEW p, NEW b, Stands(d, p, <<b>>)
  PROVE  d[p + 1] = b
<1>1. Len(<<b>>) = 1 /\ <<b>>[1] = b /\ 1 \in 1..1
  OBVIOUS
<1>2. \A j \in 1..Len(<<b>>) : d[p + j] = <<b>>[j]
  BY DEF Stands
<1> QED
  BY <1>1, <1>2

\* How the cloud finds the layout of a packet.
LEMMA ReadingIs ==
  ASSUME NEW data, NEW type, NEW rest, Starts(data, type, rest)
  PROVE  /\ type # CONNREQ /\ type # SAVEDATA => CloudReading(data) = Msg(type, Split(rest, Layout(type, FALSE, 0)))
         /\ type = CONNREQ => CloudReading(data) = Msg(type, Split(rest, Layout(type, FALSE, rest[7])))
         /\ type = SAVEDATA /\ rest[1] # Radix =>
              CloudReading(data) = Msg(type, Split(rest, Layout(type, FALSE, rest[2])))
         /\ type = SAVEDATA /\ rest[1] = Radix =>
              CloudReading(data) = Msg(type, Split(rest, Layout(type, TRUE, rest[4 + Small(<<rest[2], rest[3]>>)])))
<1> DEFINE d == LengthDigits(data)
           r == SubSeq(data, 2 + d, 1 + d + LengthOf(data))
           addressed == data[1] = SAVEDATA /\ r[1] = Radix
           flag == CASE data[1] = CONNREQ -> r[7]
                     [] data[1] = SAVEDATA -> IF addressed THEN r[4 + Small(<<r[2], r[3]>>)] ELSE r[2]
                     [] OTHER -> 0
<1>1. data[1] = type /\ r = rest
  BY StartIs
<1>2. CloudReading(data) = Msg(data[1], Split(r, Layout(data[1], addressed, flag)))
  BY DEF CloudReading
<1> HIDE DEF r
<1>3. CONNREQ # SAVEDATA
  BY TypesDiffer
<1>4. addressed = (type = SAVEDATA /\ rest[1] = Radix)
  BY <1>1
<1>5. /\ type # CONNREQ /\ type # SAVEDATA => flag = 0
      /\ type = CONNREQ => flag = rest[7]
      /\ type = SAVEDATA => flag = IF addressed THEN rest[4 + Small(<<rest[2], rest[3]>>)] ELSE rest[2]
  <2> HIDE DEF addressed
  <2> QED
    BY <1>1, <1>3
<1> HIDE DEF flag, addressed
<1>6. CloudReading(data) = Msg(type, Split(rest, Layout(type, addressed, flag)))
  BY <1>1, <1>2
<1>7. CASE addressed = FALSE
  BY <1>3, <1>4, <1>5, <1>6, <1>7
<1>8. CASE addressed = TRUE
  BY <1>3, <1>4, <1>5, <1>6, <1>8
<1> QED
  BY <1>4, <1>7, <1>8

\* A packet is understood if the cloud reads it so wherever data begin with it.
LEMMA UnderstoodIs ==
  ASSUME NEW type \in Bytes, NEW rest \in Seq(Bytes), Len(rest) \in Remains, NEW bytes, bytes = Packed(type, rest),
         NEW meant, \A data : Starts(data, type, rest) => CloudReading(data) = meant
  PROVE  Understood(bytes, meant)
<1>1. Packet(bytes, type, rest)
  BY DEF Packet
<1>2. \A data : Stands(data, 0, bytes) => Starts(data, type, rest)
  BY PackedStarts
<1> QED
  BY <1>1, <1>2 DEF Understood

\* Strings are values for the fields of strings and of data.
LEMMA StringSuits ==
  ASSUME NEW s \in Strings
  PROVE  /\ Suits(Str2, s) /\ Suits(Data4, s) /\ SuitsLast(Str2, s) /\ SuitsLast(Data4, s) /\ SuitsLast(Rest, s)
         /\ Field(Str2, s) = Str(s) /\ Field(Data4, s) = Uint32(Len(s)) \o s /\ Field(Rest, s) = s
<1>1. Short16(s) /\ s \in Seq(Bytes)
  BY StringsFit, StringIs
<1>2. Field(Str2, s) = Str(s) /\ Field(Data4, s) = Uint32(Len(s)) \o s /\ Field(Rest, s) = s
  BY <1>1, FieldIs, Zenon
<1>3. Suits(Str2, s) /\ Suits(Data4, s)
  <2>1. Str2 \in {Str2, Data4} /\ Data4 \in {Str2, Data4}
    OBVIOUS
  <2> QED
    BY <1>1, <2>1, Zenon DEF Suits
<1>4. SuitsLast(Str2, s) /\ SuitsLast(Data4, s) /\ SuitsLast(Rest, s)
  BY <1>1, <1>3 DEF SuitsLast
<1> QED
  BY <1>2, <1>3, <1>4

\* Each of the device's packets is understood as it was meant.
LEMMA PushdataUnderstood ==
  ASSUME MaxPackets > 0, NEW s \in Strings, NEW t \in Strings
  PROVE  Understood(PacketPushdata(s, t).data, Msg(PUSHDATA, <<s, t>>))
<1> DEFINE fs == <<Str(s), t>>
           n == (2 + Len(s)) + Len(t)
           rest == Str(s) \o t
<1>1. PICK m \in Strings : Len(s) <= Len(m) /\ Len(t) <= Len(m)
  BY LongerOfTwo
<1>2. m \in Strings \cup {<<>>} /\ Fits(Str(s), m) /\ Fits(t, m) /\ PUSHDATA \in Bytes
  BY <1>1, StrFits, TypesAreBytes
<1>3. /\ s \in Seq(Bytes) /\ t \in Seq(Bytes) /\ Len(s) \in Nat /\ Len(t) \in Nat
      /\ \A k \in Nat : k <= 42 + 2 * Len(s) + 2 * Len(t) => k \in Remains
  BY StringsFit, StringIs
<1>4. rest \in Seq(Bytes) /\ Len(rest) = n /\ n \in Remains
  <2>1. Str(s) \in Seq(Bytes) /\ Len(Str(s)) = 2 + Len(s)
    BY <1>3, StrTyped
  <2>2. rest \in Seq(Bytes) /\ Len(rest) = (2 + Len(s)) + Len(t)
    BY <1>3, <2>1, Glue
  <2> HIDE DEF rest
  <2> QED
    BY <1>3, <2>2
<1>5. Fields(fs, 4, 9 + Len(m)) /\ Len(fs) > 0
  BY <1>2, FieldsFit
<1>6. FlattenSeq(fs) = rest
  BY Flat2
<1>7. PacketPushdata(s, t) = Pack(PUSHDATA, n, fs)
  BY DEF PacketPushdata
<1> DEFINE vs == <<s, t>>
<1>8. Split(rest, Layout(PUSHDATA, FALSE, 0)) = vs
  <2>1. /\ Suits(Str2, s) /\ SuitsLast(Rest, t) /\ Field(Str2, s) = Str(s) /\ Field(Rest, t) = t
    BY StringSuits
  <2>2. rest = Field(Str2, s) \o Field(Rest, t)
    BY <2>1
  <2>3. Layout(PUSHDATA, FALSE, 0) = <<Str2, Rest>>
    BY LayoutIs
  <2> DEFINE ws == <<Str2, Rest>>
  <2>4. Suits(Str2, s) /\ SuitsLast(Rest, t) /\ vs = <<s, t>> /\ ws = <<Str2, Rest>>
    BY <2>1
  <2> HIDE DEF rest, vs, ws
  <2>5. Split(rest, ws) = vs
    BY <2>2, <2>4, Split2, Zenon
  <2> QED
    BY <2>3, <2>4, <2>5, Zenon
<1>9. PUSHDATA # CONNREQ /\ PUSHDATA # SAVEDATA
  BY TypesDiffer
<1> HIDE DEF fs, n, rest, vs
<1>10. Pack(PUSHDATA, n, fs).data = Packed(PUSHDATA, rest)
  BY <1>2, <1>4, <1>5, <1>6, PackIs
<1>11. \A data : Starts(data, PUSHDATA, rest) => CloudReading(data) = Msg(PUSHDATA, vs)
  BY <1>8, <1>9, ReadingIs
<1>12. Understood(PacketPushdata(s, t).data, Msg(PUSHDATA, vs))
  BY <1>2, <1>4, <1>7, <1>10, <1>11, UnderstoodIs
<1> QED
  BY <1>12 DEF vs

LEMMA PingUnderstood == Understood(PacketPing.data, Msg(PINGREQ, <<>>))
<1> DEFINE rest == <<>>
<1>1. rest \in Seq(Bytes) /\ Len(rest) \in Remains /\ PINGREQ \in Bytes
  BY EmptySeq, FewBytes, TypesAreBytes
<1>2. PacketPing.data = Packed(PINGREQ, rest)
  BY <1>1, PackNothingIs DEF PacketPing
<1>3. Split(rest, Layout(PINGREQ, FALSE, 0)) = rest
  BY LayoutIs, Split0
<1>4. PINGREQ # CONNREQ /\ PINGREQ # SAVEDATA
  BY TypesDiffer
<1> HIDE DEF rest
<1>5. \A data : Starts(data, PINGREQ, rest) => CloudReading(data) = Msg(PINGREQ, rest)
  BY <1>3, <1>4, ReadingIs
<1>6. Understood(PacketPing.data, Msg(PINGREQ, rest))
  BY <1>1, <1>2, <1>5, UnderstoodIs
<1> QED
  BY <1>6 DEF rest

LEMMA CmdrespUnderstood ==
  ASSUME MaxPackets > 0, NEW id \in Strings, NEW body \in Strings
  PROVE  Understood(PacketCmdresp(id, body).data, Msg(CMDRESP, <<id, body>>))
<1> DEFINE u == Uint32(Len(body))
           fs == <<Str(id), u, body>>
           n == 2 + Len(id) + 4 + Len(body)
           w == u \o body
           rest == Str(id) \o w
<1>1. PICK m \in Strings : Len(id) <= Len(m) /\ Len(body) <= Len(m)
  BY LongerOfTwo
<1>2. m \in Strings \cup {<<>>} /\ Fits(Str(id), m) /\ Fits(body, m) /\ CMDRESP \in Bytes
  BY <1>1, StrFits, TypesAreBytes
<1>3. /\ id \in Seq(Bytes) /\ body \in Seq(Bytes) /\ Len(id) \in Nat /\ Len(body) \in Nat /\ Len(body) \in Lengths
      /\ \A k \in Nat : k <= 42 + 2 * Len(id) + 2 * Len(body) => k \in Remains
  BY StringsFit, StringIs DEF Short16
<1>4. u \in Seq(Bytes) /\ Len(u) = 4 /\ Fits(u, m) /\ Str(id) \in Seq(Bytes) /\ Len(Str(id)) = 2 + Len(id)
  BY <1>2, <1>3, LengthFits, Uint16Bytes, StrTyped
<1> DEFINE vs == <<id, body>>
<1>8. Split(rest, Layout(CMDRESP, FALSE, 0)) = vs
  <2>1. /\ Suits(Str2, id) /\ SuitsLast(Data4, body) /\ Field(Str2, id) = Str(id) /\ Field(Data4, body) = w
    BY StringSuits
  <2>2. rest = Field(Str2, id) \o Field(Data4, body)
    BY <2>1
  <2>3. Layout(CMDRESP, FALSE, 0) = <<Str2, Data4>>
    BY LayoutIs
  <2> HIDE DEF w
  <2> DEFINE ws == <<Str2, Data4>>
  <2>4. Suits(Str2, id) /\ SuitsLast(Data4, body) /\ vs = <<id, body>> /\ ws = <<Str2, Data4>>
    BY <2>1
  <2> HIDE DEF rest, vs, ws
  <2>5. Split(rest, ws) = vs
    BY <2>2, <2>4, Split2, Zenon
  <2> QED
    BY <2>3, <2>4, <2>5, Zenon
<1>7. PacketCmdresp(id, body) = Pack(CMDRESP, n, fs)
  BY DEF PacketCmdresp
<1> HIDE DEF u
<1>5. rest \in Seq(Bytes) /\ Len(rest) = n /\ n \in Remains
  <2>1. w \in Seq(Bytes) /\ Len(w) = 4 + Len(body)
    <3>1. w \in Seq(Bytes) /\ Len(w) = Len(u) + Len(body)
      BY <1>3, <1>4, Glue, Zenon
    <3> QED
      BY <1>4, <3>1, Zenon
  <2> HIDE DEF w
  <2>2. rest \in Seq(Bytes) /\ Len(rest) = (2 + Len(id)) + (4 + Len(body))
    BY <1>4, <2>1, Glue
  <2> HIDE DEF rest
  <2> QED
    BY <1>3, <2>2
<1>6. FlattenSeq(fs) = rest
  <2>1. (Str(id) \o u) \o body = rest
    BY <1>3, <1>4, Regroup
  <2> HIDE DEF rest
  <2> QED
    BY <2>1, Flat3, Zenon
<1>10. Fields(fs, 4, 9 + Len(m)) /\ Len(fs) > 0
  BY <1>2, <1>4, FieldsFit
<1>9. CMDRESP # CONNREQ /\ CMDRESP # SAVEDATA
  BY TypesDiffer
<1> HIDE DEF fs, n, rest, vs
<1>12. Pack(CMDRESP, n, fs).data = Packed(CMDRESP, rest)
  BY <1>2, <1>5, <1>6, <1>10, PackIs
<1>13. \A data : Starts(data, CMDRESP, rest) => CloudReading(data) = Msg(CMDRESP, vs)
  BY <1>8, <1>9, ReadingIs
<1>14. Understood(PacketCmdresp(id, body).data, Msg(CMDRESP, vs))
  BY <1>2, <1>5, <1>7, <1>12, <1>13, UnderstoodIs
<1> QED
  BY <1>14 DEF vs

\* Bytes are values for fields of one byte.
LEMMA ByteSuits ==
  ASSUME NEW b \in Bytes
  PROVE  <<b>> \in Seq(Bytes) /\ Len(<<b>>) = 1 /\ Suits(1, <<b>>) /\ Field(1, <<b>>) = <<b>>
<1>1. <<b>> \in Seq(Bytes) /\ Len(<<b>>) = 1
  BY OneByte
<1>2. Field(1, <<b>>) = <<b>>
  <2>1. 1 \in Nat
    OBVIOUS
  <2> QED
    BY <2>1, FieldIs, Zenon
<1> QED
  BY <1>1, <1>2 DEF Suits

\* A SAVEDATA packet without an address, and one with.
LEMMA PlainSavedataRead ==
  ASSUME NEW k \in {1, 5}, NEW s \in Strings, NEW rest, rest = (<< 0 >> \o <<k>>) \o Str(s),
         NEW data, Starts(data, SAVEDATA, rest)
  PROVE  CloudReading(data) = Msg(SAVEDATA, <<<<0>>, <<k>>, s>>)
<1> DEFINE f == <<k>>
           z == <<0>>
           g2 == z \o f
           ws == <<1, 1, Str2>>
           vs == <<z, f, s>>
<1>1. 0 \in Bytes /\ k \in Bytes /\ Radix # 0
  BY Constants DEF Bytes
<1>2. /\ z \in Seq(Bytes) /\ Len(z) = 1 /\ Suits(1, z) /\ Field(1, z) = z
      /\ f \in Seq(Bytes) /\ Len(f) = 1 /\ Suits(1, f) /\ Field(1, f) = f
  BY <1>1, ByteSuits
<1>3. Suits(Str2, s) /\ SuitsLast(Str2, s) /\ Field(Str2, s) = Str(s) /\ Str(s) \in Seq(Bytes)
  BY StringSuits, StringIs, StrTyped
<1>4. rest[1] = 0 /\ rest[2] = k
  <2> HIDE DEF z, f
  <2>1. g2 \in Seq(Bytes)
    BY <1>2, Glue
  <2> HIDE DEF g2
  <2>2. rest = g2 \o Str(s) /\ rest \in Seq(Bytes)
    BY <1>3, <2>1, Glue DEF g2, z, f
  <2>3. Stands(rest, 0, g2)
    BY <1>3, <2>1, <2>2, StandsSelf, StandsParts
  <2>4. Stands(rest, 0, z) /\ Stands(rest, 0 + Len(z), f)
    BY <1>2, <2>3, StandsParts DEF g2
  <2>5. Stands(rest, 0, <<0>>) /\ Stands(rest, 1, <<k>>)
    BY <1>2, <2>4 DEF z, f
  <2>6. rest[0 + 1] = 0 /\ rest[1 + 1] = k
    BY <2>5, ByteStands
  <2> QED
    BY <2>6
<1>5. Layout(SAVEDATA, FALSE, k) = <<1, 1, Str2>>
  BY LayoutIs
<1>6. CloudReading(data) = Msg(SAVEDATA, Split(rest, Layout(SAVEDATA, FALSE, k)))
  BY <1>1, <1>4, ReadingIs
<1>7. rest = g2 \o Field(Str2, s) /\ g2 = Field(1, z) \o Field(1, f)
  BY <1>2, <1>3
<1>8. ws = <<1, 1, Str2>> /\ vs = <<z, f, s>>
  OBVIOUS
<1> HIDE DEF z, f, g2, ws, vs
<1>9. Split(rest, ws) = vs
  BY <1>2, <1>3, <1>7, <1>8, Split3, Zenon
<1> QED
  BY <1>5, <1>6, <1>8, <1>9 DEF z, f

AddressedRest(rest, d, k, s) == rest = ((<<Radix>> \o Str(d)) \o <<k>>) \o Str(s)
LEMMA AddressedSavedataRead ==
  ASSUME NEW k \in {1, 5}, NEW d \in Strings, NEW s \in Strings, NEW rest, AddressedRest(rest, d, k, s),
         NEW data, Starts(data, SAVEDATA, rest)
  PROVE  CloudReading(data) = Msg(SAVEDATA, <<<<Radix>>, d, <<k>>, s>>)
<1> DEFINE f == <<k>>
           z == <<Radix>>
           g2 == z \o Str(d)
           g3 == g2 \o f
           ws == <<1, Str2, 1, Str2>>
           vs == <<z, d, f, s>>
<1>1. Radix \in Bytes /\ k \in Bytes
  BY Constants DEF Bytes
<1>2. /\ z \in Seq(Bytes) /\ Len(z) = 1 /\ Suits(1, z) /\ Field(1, z) = z
      /\ f \in Seq(Bytes) /\ Len(f) = 1 /\ Suits(1, f) /\ Field(1, f) = f
  BY <1>1, ByteSuits
<1>3. /\ Suits(Str2, s) /\ SuitsLast(Str2, s) /\ Field(Str2, s) = Str(s) /\ Str(s) \in Seq(Bytes)
      /\ Suits(Str2, d) /\ Field(Str2, d) = Str(d) /\ Str(d) \in Seq(Bytes) /\ Short16(d)
      /\ Len(Str(d)) = 2 + Len(d) /\ Len(d) \in Nat /\ Len(d) \in Lengths
  BY StringSuits, StringIs, StrTyped, StringsFit DEF Short16
<1>4. rest[1] = Radix /\ Small(<<rest[2], rest[3]>>) = Len(d) /\ rest[4 + Len(d)] = k
  <2> HIDE DEF z, f
  <2>1. g2 \in Seq(Bytes) /\ Len(g2) = 1 + (2 + Len(d))
    BY <1>2, <1>3, Glue
  <2> HIDE DEF g2
  <2>2. g3 \in Seq(Bytes)
    BY <1>2, <2>1, Glue
  <2> HIDE DEF g3
  <2>3. rest = g3 \o Str(s) /\ rest \in Seq(Bytes)
    BY <1>3, <2>2, Glue DEF AddressedRest, g3, g2, z, f
  <2>4. Stands(rest, 0, g3)
    BY <1>3, <2>2, <2>3, StandsSelf, StandsParts
  <2>5. Stands(rest, 0, g2) /\ Stands(rest, 0 + Len(g2), f)
    BY <1>2, <2>1, <2>4, StandsParts DEF g3
  <2>6. Stands(rest, 0, z) /\ Stands(rest, 0 + Len(z), Str(d))
    BY <1>2, <1>3, <2>5, StandsParts DEF g2
  <2>7. 0 + Len(z) = 1 /\ 0 + Len(g2) = 3 + Len(d) /\ (3 + Len(d)) + 1 = 4 + Len(d)
    BY <1>2, <1>3, <2>1
  <2>8. Stands(rest, 0, <<Radix>>) /\ Stands(rest, 3 + Len(d), <<k>>)
    BY <2>5, <2>6, <2>7 DEF z, f
  <2>9. rest[0 + 1] = Radix /\ rest[(3 + Len(d)) + 1] = k
    BY <2>8, ByteStands
  <2>10. Stands(rest, 1, Uint16(Len(d)))
    BY <1>3, <2>6, <2>7, StrParts
  <2>11. <<rest[2], rest[3]>> = Uint16(Len(d))
    <3> DEFINE a == Len(d) \div Base
               b == Len(d) % Base
    <3>1. Uint16(Len(d)) = <<a, b>>
      BY <1>3, Uint16Is
    <3> HIDE DEF a, b
    <3>2. Len(<<a, b>>) = 2 /\ <<a, b>>[1] = a /\ <<a, b>>[2] = b /\ 1 \in 1..2 /\ 2 \in 1..2 /\ 1 + 1 = 2 /\ 1 + 2 = 3
      OBVIOUS
    <3>3. \A j \in 1..Len(<<a, b>>) : rest[1 + j] = <<a, b>>[j]
      BY <2>10, <3>1 DEF Stands
    <3>4. rest[1 + 1] = a /\ rest[1 + 2] = b
      BY <3>2, <3>3
    <3> QED
      BY <3>1, <3>2, <3>4
  <2>12. Small(<<rest[2], rest[3]>>) = Len(d)
    BY <1>3, <2>11, SmallOfLengths
  <2>13. 0 + 1 = 1 /\ (3 + Len(d)) + 1 = 4 + Len(d)
    BY <2>7
  <2> QED
    BY <2>9, <2>12, <2>13, Zenon
<1>5. Layout(SAVEDATA, TRUE, k) = <<1, Str2, 1, Str2>>
  BY LayoutIs
<1>6. CloudReading(data) = Msg(SAVEDATA, Split(rest, Layout(SAVEDATA, TRUE, k)))
  <2>1. CloudReading(data) = Msg(SAVEDATA, Split(rest, Layout(SAVEDATA, TRUE, rest[4 + Small(<<rest[2], rest[3]>>)])))
    BY <1>4, ReadingIs
  <2> QED
    BY <1>4, <2>1
<1>7. rest = g3 \o Field(Str2, s) /\ g3 = g2 \o Field(1, f) /\ g2 = Field(1, z) \o Field(Str2, d)
  BY <1>2, <1>3 DEF AddressedRest
<1>8. ws = <<1, Str2, 1, Str2>> /\ vs = <<z, d, f, s>>
  OBVIOUS
<1> HIDE DEF z, f, g2, g3, ws, vs
<1>9. Split(rest, ws) = vs
  BY <1>2, <1>3, <1>7, <1>8, Split4, Zenon
<1> QED
  BY <1>5, <1>6, <1>8, <1>9 DEF z, f

\* A packet without an address, and one with.
LEMMA AddressIs ==
  ASSUME NEW dst \in Destinations
  PROVE  \/ /\ dst = <<>> /\ Address(dst) = <<0>> /\ AddressLen(dst) = 1 /\ AddressFields(dst) = <<<<0>>>>
         \/ \E d \in Strings : /\ dst = <<d>> /\ Address(dst) = <<Radix>> \o Str(d) /\ AddressLen(dst) = 1 + (2 + Len(d))
                               /\ AddressFields(dst) = <<<<Radix>>, d>>
<1>1. CASE dst = <<>>
  BY <1>1 DEF Address, AddressLen, AddressFields
<1>2. CASE dst # <<>>
  <2>1. PICK d \in Strings : dst = <<d>>
    BY <1>2 DEF Destinations
  <2>2. dst[1] = d
    BY <2>1
  <2> QED
    BY <1>2, <2>1, <2>2, Zenon DEF Address, AddressLen, AddressFields, Translated
<1> QED
  BY <1>1, <1>2

\* PacketSaveField and PacketSaveJson are this for a k of 5 and 1.
LEMMA SaveUnderstood ==
  ASSUME MaxPackets > 0, NEW dst \in Destinations, NEW s \in Strings, NEW k \in {1, 5}
  PROVE  Understood(Pack(SAVEDATA, AddressLen(dst) + 1 + (2 + Len(s)), <<Address(dst), <<k>>, Str(s)>>).data,
                    Msg(SAVEDATA, AddressFields(dst) \o <<<<k>>, s>>))
<1> DEFINE a == Address(dst)
           f == <<k>>
           n == AddressLen(dst) + 1 + (2 + Len(s))
           fs == <<a, f, Str(s)>>
           rest == (a \o f) \o Str(s)
           meant == Msg(SAVEDATA, AddressFields(dst) \o <<<<k>>, s>>)
<1>1. PICK m \in Strings : Len(s) <= Len(m) /\ \A d \in Strings : dst = <<d>> => Len(d) <= Len(m)
  BY LongerOfThree
<1>2. m \in Strings \cup {<<>>} /\ Fits(Str(s), m) /\ Fits(a, m) /\ SAVEDATA \in Bytes
  BY <1>1, StrFits, AddressFits, TypesAreBytes
<1>3. k \in Bytes
  BY Constants DEF Bytes
<1>4. Fits(f, m) /\ f \in Seq(Bytes) /\ Len(f) = 1
  BY <1>2, <1>3, ByteFits, OneByte
<1>5. Fields(fs, 4, 9 + Len(m)) /\ Len(fs) > 0
  <2> HIDE DEF a, f
  <2>1. Fields(fs, 4, 9 + Len(m))
    BY <1>2, <1>4, FieldsFit
  <2> QED
    BY <2>1
<1>6. /\ s \in Seq(Bytes) /\ Str(s) \in Seq(Bytes) /\ Len(Str(s)) = 2 + Len(s) /\ Len(s) \in Nat
      /\ a \in Seq(Bytes) /\ Len(a) = AddressLen(dst)
      /\ AddressLen(dst) + 1 + (2 + Len(s)) \in Remains
  <2>1. s \in Seq(Bytes) /\ Str(s) \in Seq(Bytes) /\ Len(Str(s)) = 2 + Len(s) /\ Len(s) \in Nat
    BY StringIs, StrTyped
  <2>2. CASE dst = <<>> /\ Address(dst) = <<0>> /\ AddressLen(dst) = 1
    <3>1. 0 \in Bytes
      BY Constants DEF Bytes
    <3>2. a \in Seq(Bytes) /\ Len(a) = 1
      BY <2>2, <3>1, OneByte
    <3>3. 1 + 1 + (2 + Len(s)) \in Remains
      <4>1. 1 + 1 + (2 + Len(s)) \in Nat /\ 1 + 1 + (2 + Len(s)) <= 42 + 2 * Len(s) + 2 * Len(s)
        BY <2>1
      <4> QED
        BY <4>1, StringsFit
    <3> QED
      BY <2>1, <2>2, <3>2, <3>3
  <2>3. ASSUME NEW d \in Strings, dst = <<d>>, Address(dst) = <<Radix>> \o Str(d), AddressLen(dst) = 1 + (2 + Len(d))
        PROVE  a \in Seq(Bytes) /\ Len(a) = AddressLen(dst) /\ AddressLen(dst) + 1 + (2 + Len(s)) \in Remains
    <3>1. Radix \in Bytes
      BY Constants DEF Bytes
    <3>2. Str(d) \in Seq(Bytes) /\ Len(Str(d)) = 2 + Len(d) /\ Len(d) \in Nat
      BY StringIs, StrTyped
    <3> DEFINE z == <<Radix>>
    <3>3. z \in Seq(Bytes) /\ Len(z) = 1 /\ a = z \o Str(d)
      BY <2>3, <3>1, OneByte
    <3> HIDE DEF a, z
    <3>4. a \in Seq(Bytes) /\ Len(a) = 1 + (2 + Len(d))
      BY <3>2, <3>3, Glue
    <3>5. 1 + (2 + Len(d)) + 1 + (2 + Len(s)) \in Remains
      <4>1. /\ 1 + (2 + Len(d)) + 1 + (2 + Len(s)) \in Nat
            /\ 1 + (2 + Len(d)) + 1 + (2 + Len(s)) <= 42 + 2 * Len(d) + 2 * Len(s)
        BY <2>1, <3>2
      <4> QED
        BY <4>1, StringsFit
    <3> QED
      BY <2>3, <3>4, <3>5
  <2> QED
    BY <2>1, <2>2, <2>3, AddressIs
<1>7. rest \in Seq(Bytes) /\ Len(rest) = n /\ n \in Remains
  <2> HIDE DEF a, f
  <2>1. a \o f \in Seq(Bytes) /\ Len(a \o f) = AddressLen(dst) + 1
    BY <1>4, <1>6, Glue
  <2> DEFINE g == a \o f
  <2>2. g \in Seq(Bytes) /\ Len(g) = AddressLen(dst) + 1 /\ rest = g \o Str(s)
    BY <2>1
  <2> HIDE DEF g, rest
  <2>3. rest \in Seq(Bytes) /\ Len(rest) = (AddressLen(dst) + 1) + (2 + Len(s))
    BY <1>6, <2>2, Glue
  <2> QED
    BY <1>6, <2>3
<1>8. FlattenSeq(fs) = rest
  <2> HIDE DEF a, f
  <2> DEFINE r == rest
  <2>1. r = (a \o f) \o Str(s)
    OBVIOUS
  <2> HIDE DEF rest, r
  <2>2. FlattenSeq(<<a, f, Str(s)>>) = r
    BY <2>1, Flat3, Zenon
  <2> QED
    BY <2>2 DEF r
<1>9. \A data : Starts(data, SAVEDATA, rest) => CloudReading(data) = meant
  <2> SUFFICES ASSUME NEW data, Starts(data, SAVEDATA, rest) PROVE CloudReading(data) = meant
    OBVIOUS
  <2>1. CASE dst = <<>> /\ Address(dst) = <<0>> /\ AddressFields(dst) = <<<<0>>>>
    <3>1. rest = (<<0>> \o <<k>>) \o Str(s)
      BY <2>1
    <3>2. AddressFields(dst) \o <<<<k>>, s>> = <<<<0>>, <<k>>, s>>
      BY <2>1, Pairs, Zenon
    <3> HIDE DEF rest
    <3>3. CloudReading(data) = Msg(SAVEDATA, <<<<0>>, <<k>>, s>>)
      BY <3>1, PlainSavedataRead
    <3> QED
      BY <3>2, <3>3
  <2>2. ASSUME NEW d \in Strings, Address(dst) = <<Radix>> \o Str(d), AddressFields(dst) = <<<<Radix>>, d>>
        PROVE  CloudReading(data) = meant
    <3>1. AddressedRest(rest, d, k, s)
      BY <2>2 DEF AddressedRest
    <3>2. AddressFields(dst) \o <<<<k>>, s>> = <<<<Radix>>, d, <<k>>, s>>
      <4> DEFINE z == <<Radix>>
      <4> HIDE DEF z, f
      <4>1. <<z, d>> \o <<f, s>> = <<z, d, f, s>>
        BY Pairs
      <4> QED
        BY <2>2, <4>1 DEF z, f
    <3> HIDE DEF rest
    <3>3. CloudReading(data) = Msg(SAVEDATA, <<<<Radix>>, d, <<k>>, s>>)
      BY <3>1, AddressedSavedataRead
    <3> QED
      BY <3>2, <3>3
  <2> QED
    BY <2>1, <2>2, AddressIs
<1> HIDE DEF fs, n, rest, meant
<1>10. Pack(SAVEDATA, n, fs).data = Packed(SAVEDATA, rest)
  BY <1>2, <1>5, <1>7, <1>8, PackIs
<1>11. Understood(Pack(SAVEDATA, n, fs).data, meant)
  BY <1>2, <1>7, <1>9, <1>10, UnderstoodIs
<1> QED
  BY <1>11 DEF fs, n, meant

LEMMA SaveFieldUnderstood ==
  ASSUME MaxPackets > 0, NEW dst \in Destinations, NEW s \in Strings
  PROVE  /\ Understood(PacketSaveField(dst, s).data, Msg(SAVEDATA, AddressFields(dst) \o <<<<5>>, s>>))
         /\ Understood(PacketSaveJson(dst, s).data, Msg(SAVEDATA, AddressFields(dst) \o <<<<1>>, s>>))
  BY SaveUnderstood DEF PacketSaveField, PacketSaveJson

\* The fields of the protocol's name, version and keep-alive time.
Magic == <<1, 2, 3>>
One == <<1>>
Alive == <<0, Base \div 2>>

LEMMA TwoBytesSuit ==
  ASSUME NEW a \in Bytes, NEW b \in Bytes
  PROVE  <<a, b>> \in Seq(Bytes) /\ Len(<<a, b>>) = 2 /\ Suits(2, <<a, b>>) /\ Field(2, <<a, b>>) = <<a, b>>
<1> DEFINE v == <<a, b>>
<1>1. v \in Seq(Bytes) /\ Len(v) = 2
  OBVIOUS
<1>2. 2 \in Nat
  OBVIOUS
<1> HIDE DEF v
<1>3. Field(2, v) = v
  BY <1>2, FieldIs, Zenon
<1>4. Suits(2, v)
  BY <1>1, <1>2 DEF Suits
<1> QED
  BY <1>1, <1>3, <1>4 DEF v

\* The first fields of CONNREQ.
LEMMA ProtocolParts ==
  /\ Suits(Str2, Magic) /\ Field(Str2, Magic) = Str(Magic) /\ Str(Magic) \in Seq(Bytes) /\ Len(Str(Magic)) = 5
  /\ Suits(1, One) /\ Field(1, One) = One /\ One \in Seq(Bytes) /\ Len(One) = 1
  /\ Suits(2, Alive) /\ Field(2, Alive) = Alive /\ Alive \in Seq(Bytes) /\ Len(Alive) = 2
<1>1. 0 \in Bytes /\ 1 \in Bytes /\ 2 \in Bytes /\ 3 \in Bytes /\ Base \div 2 \in Bytes
  BY Constants DEF Bytes
<1>2. One \in Seq(Bytes) /\ Len(One) = 1 /\ Suits(1, One) /\ Field(1, One) = One
  BY <1>1, ByteSuits DEF One
<1>3. Alive \in Seq(Bytes) /\ Len(Alive) = 2 /\ Suits(2, Alive) /\ Field(2, Alive) = Alive
  BY <1>1, TwoBytesSuit DEF Alive
<1>4. Magic \in Seq(Bytes) /\ Len(Magic) = 3
  BY <1>1 DEF Magic
<1>5. 3 \in Lengths
  <2>1. Base * Base >= 16
    BY Constants
  <2>2. Base * Base \in Int
    BY Constants
  <2> DEFINE bb == Base * Base
  <2> HIDE DEF bb
  <2> QED
    BY <2>1, <2>2 DEF Lengths, bb
<1>6. Short16(Magic)
  BY <1>4, <1>5 DEF Short16
<1>7. Field(Str2, Magic) = Str(Magic)
  BY <1>6, FieldIs, Zenon
<1>8. Suits(Str2, Magic)
  BY <1>4, <1>6 DEF Suits
<1>9. Str(Magic) \in Seq(Bytes) /\ Len(Str(Magic)) = 5
  <2>1. Str(Magic) \in Seq(Bytes) /\ Len(Str(Magic)) = 2 + Len(Magic)
    BY <1>4, StrTyped
  <2> QED
    BY <1>4, <2>1
<1> QED
  BY <1>2, <1>3, <1>7, <1>8, <1>9

LEMMA ProtocolIs ==
  ASSUME NEW flag \in Bytes
  PROVE  /\ Protocol(flag) = ((Str(Magic) \o One) \o <<flag>>) \o Alive
         /\ Protocol(flag) \in Seq(Bytes) /\ Len(Protocol(flag)) = 9
         /\ \A d : Stands(d, 0, Protocol(flag)) => d[7] = flag
<1> DEFINE f == <<flag>>
           g2 == Str(Magic) \o One
           g3 == g2 \o f
           g4 == g3 \o Alive
<1>1. f \in Seq(Bytes) /\ Len(f) = 1
  BY OneByte
<1>2. <<1, flag>> = One \o f
  BY Pairs DEF One
<1>3. Uint16(Base \div 2) = Alive
  <2>1. (Base \div 2) \div Base = 0 /\ 0 % Base = 0 /\ (Base \div 2) % Base = Base \div 2
    BY Constants
  <2> QED
    BY <2>1 DEF Uint16, Alive
<1>4. Protocol(flag) = (Str(Magic) \o <<1, flag>>) \o Uint16(Base \div 2)
  BY DEF Protocol, Magic
<1> HIDE DEF f
<1>5. Str(Magic) \o (One \o f) = g3
  BY <1>1, ProtocolParts, Regroup
<1>6. Protocol(flag) = g4
  BY <1>2, <1>3, <1>4, <1>5
<1>7. g2 \in Seq(Bytes) /\ Len(g2) = 6
  <2>1. g2 \in Seq(Bytes) /\ Len(g2) = 5 + 1
    BY ProtocolParts, Glue
  <2> QED
    BY <2>1
<1> HIDE DEF g2
<1>8. g3 \in Seq(Bytes) /\ Len(g3) = 7
  <2>1. g3 \in Seq(Bytes) /\ Len(g3) = 6 + 1
    BY <1>1, <1>7, Glue
  <2> QED
    BY <2>1
<1> HIDE DEF g3
<1>9. g4 \in Seq(Bytes) /\ Len(g4) = 9
  <2>1. g4 \in Seq(Bytes) /\ Len(g4) = 7 + 2
    BY <1>8, ProtocolParts, Glue
  <2> QED
    BY <2>1
<1>10. ASSUME NEW d, Stands(d, 0, g4) PROVE d[7] = flag
  <2>1. Stands(d, 0, g3)
    BY <1>8, <1>10, ProtocolParts, StandsParts
  <2>2. Stands(d, 0 + Len(g2), f)
    BY <1>1, <1>7, <2>1, StandsParts DEF g3
  <2>3. Stands(d, 6, <<flag>>)
    BY <1>7, <2>2 DEF f
  <2>4. d[6 + 1] = flag
    BY <2>3, ByteStands
  <2> QED
    BY <2>4
<1> HIDE DEF g4
<1>11. Protocol(flag) \in Seq(Bytes) /\ Len(Protocol(flag)) = 9 /\ \A d : Stands(d, 0, Protocol(flag)) => d[7] = flag
  BY <1>6, <1>9, <1>10
<1> QED
  BY <1>6, <1>11 DEF g4, g3, g2, f

LEMMA FlagsAreBytes == Base \div 4 \in Bytes /\ 3 * (Base \div 4) \in Bytes /\ Base \div 4 # 3 * (Base \div 4)
<1>1. PICK q \in Nat \ {0} : Base = 16 * q /\ Base \div 4 = 4 * q
  BY TypeBytes
<1> QED
  BY <1>1 DEF Bytes

LEMMA Connect1Understood ==
  ASSUME MaxPackets > 0, NEW id \in Strings, NEW auth \in Strings
  PROVE  Understood(PacketConnect1(id, auth).data, Msg(CONNREQ, ProtocolFields(Base \div 4) \o <<id, auth>>))
<1> DEFINE flag == Base \div 4
           f == <<flag>>
           g2 == Str(Magic) \o One
           g3 == g2 \o f
           g4 == g3 \o Alive
           g5 == g4 \o Str(id)
           rest == g5 \o Str(auth)
           fs == <<Protocol(flag), Str(id), Str(auth)>>
           n == (2 + 3) + 1 + 1 + 2 + (2 + Len(id)) + (2 + Len(auth))
           ws == <<Str2, 1, 1, 2, Str2, Str2>>
           vs == <<Magic, One, f, Alive, id, auth>>
<1>1. PICK m \in Strings : Len(id) <= Len(m) /\ Len(auth) <= Len(m)
  BY LongerOfTwo
<1>2. flag \in Bytes /\ CONNREQ \in Bytes /\ m \in Strings \cup {<<>>}
  BY FlagsAreBytes, TypesAreBytes
<1>3. Layout(CONNREQ, FALSE, flag) = ws
  BY LayoutIs
<1>4. ProtocolFields(flag) \o <<id, auth>> = vs
  <2>1. ProtocolFields(flag) = <<Magic, One, f, Alive>>
    BY DEF ProtocolFields, Magic, One, Alive
  <2> HIDE DEF f
  <2>2. <<Magic, One, f, Alive>> \o <<id, auth>> = <<Magic, One, f, Alive, id, auth>>
    BY Pairs
  <2> QED
    BY <2>1, <2>2
<1>5. PacketConnect1(id, auth) = Pack(CONNREQ, n, fs)
  BY DEF PacketConnect1
<1>6. Suits(1, f) /\ Field(1, f) = f
  BY <1>2, ByteSuits
<1> HIDE DEF flag
<1>7. Protocol(flag) = g4 /\ g4 \in Seq(Bytes) /\ Len(g4) = 9 /\ \A d : Stands(d, 0, g4) => d[7] = flag
  BY <1>2, ProtocolIs
<1>8. /\ Suits(Str2, id) /\ Field(Str2, id) = Str(id) /\ Str(id) \in Seq(Bytes)
      /\ Len(Str(id)) = 2 + Len(id) /\ Len(id) \in Nat
      /\ SuitsLast(Str2, auth) /\ Field(Str2, auth) = Str(auth) /\ Str(auth) \in Seq(Bytes)
      /\ Len(Str(auth)) = 2 + Len(auth) /\ Len(auth) \in Nat
  BY StringSuits, StringIs, StrTyped
<1>9. fs = <<g4, Str(id), Str(auth)>> /\ Fits(g4, m) /\ Fits(Str(id), m) /\ Fits(Str(auth), m)
  BY <1>1, <1>2, <1>7, StrFits, ProtocolFits
<1>10. /\ g2 = Field(Str2, Magic) \o Field(1, One) /\ g3 = g2 \o Field(1, f) /\ g4 = g3 \o Field(2, Alive)
       /\ g5 = g4 \o Field(Str2, id) /\ rest = g5 \o Field(Str2, auth)
  BY <1>6, <1>8, ProtocolParts
<1>11. ws = <<Str2, 1, 1, 2, Str2, Str2>> /\ vs = <<Magic, One, f, Alive, id, auth>>
  OBVIOUS
<1> HIDE DEF f, g2, g3, g4, ws, vs
<1>12. g5 \in Seq(Bytes) /\ Len(g5) = 9 + (2 + Len(id)) /\ g5 = g4 \o Str(id)
  BY <1>7, <1>8, Glue
<1>13. rest = (g4 \o Str(id)) \o Str(auth) /\ rest = g5 \o Str(auth)
  OBVIOUS
<1> HIDE DEF g5
<1>14. rest \in Seq(Bytes) /\ Len(rest) = n /\ n \in Remains
  <2>1. rest \in Seq(Bytes) /\ Len(rest) = (9 + (2 + Len(id))) + (2 + Len(auth))
    BY <1>8, <1>12, Glue
  <2>2. n \in Nat /\ n <= 42 + 2 * Len(id) + 2 * Len(auth)
    BY <1>8
  <2> HIDE DEF rest
  <2> QED
    BY <1>8, <2>1, <2>2, StringsFit
<1> HIDE DEF rest
<1>15. Fields(fs, 4, 9 + Len(m)) /\ Len(fs) > 0
  <2>1. Fields(<<g4, Str(id), Str(auth)>>, 4, 9 + Len(m)) /\ Len(<<g4, Str(id), Str(auth)>>) > 0
    BY <1>9, FieldsFit
  <2> QED
    BY <1>9, <2>1, Zenon
<1>16. FlattenSeq(fs) = rest
  <2>1. fs = <<g4, Str(id), Str(auth)>>
    BY <1>9
  <2> HIDE DEF fs
  <2>2. FlattenSeq(<<g4, Str(id), Str(auth)>>) = rest
    BY <1>13, Flat3, ZenonT(60)
  <2> QED
    BY <2>1, <2>2, Zenon
<1>17. Split(rest, ws) = vs
  <2>1. /\ Suits(Str2, Magic) /\ Suits(1, One) /\ Suits(1, f) /\ Suits(2, Alive) /\ Suits(Str2, id)
        /\ SuitsLast(Str2, auth)
    BY <1>6, <1>8, ProtocolParts
  <2>2. Six(rest, ws, vs, Str2, 1, 1, 2, Str2, Str2, Magic, One, f, Alive, id, auth, g2, g3, g4, g5)
    BY <2>1, <1>10, <1>11, Zenon DEF Six
  <2> QED
    BY <2>2, Split6, Zenon
<1>18. rest[7] = flag
  <2>1. Stands(rest, 0, g5)
    BY <1>8, <1>12, <1>13, <1>14, StandsSelf, StandsParts
  <2>2. Stands(rest, 0, g4)
    BY <1>7, <1>8, <1>12, <2>1, StandsParts
  <2> QED
    BY <1>7, <2>2
<1> HIDE DEF fs, n
<1>19. \A data : Starts(data, CONNREQ, rest) => CloudReading(data) = Msg(CONNREQ, vs)
  BY <1>3, <1>17, <1>18, ReadingIs
<1>20. Pack(CONNREQ, n, fs).data = Packed(CONNREQ, rest)
  BY <1>2, <1>14, <1>15, <1>16, PackIs
<1>21. Understood(PacketConnect1(id, auth).data, Msg(CONNREQ, vs))
  BY <1>2, <1>5, <1>14, <1>19, <1>20, UnderstoodIs
<1> QED
  BY <1>4, <1>21 DEF flag

LEMMA Connect2Understood ==
  ASSUME MaxPackets > 0, NEW id \in Strings, NEW auth \in Strings
  PROVE  Understood(PacketConnect2(id, auth).data,
                    Msg(CONNREQ, ProtocolFields(3 * (Base \div 4)) \o <<<<0, 0>>, id, auth>>))
<1> DEFINE flag == 3 * (Base \div 4)
           f == <<flag>>
           z == <<0, 0>>
           g2 == Str(Magic) \o One
           g3 == g2 \o f
           g4 == g3 \o Alive
           g5 == g4 \o z
           g6 == g5 \o Str(id)
           rest == g6 \o Str(auth)
           fs == <<Protocol(flag), z, Str(id), Str(auth)>>
           n == (2 + 3) + 1 + 1 + 2 + 2 + (2 + Len(id)) + (2 + Len(auth))
           ws == <<Str2, 1, 1, 2, 2, Str2, Str2>>
           vs == <<Magic, One, f, Alive, z, id, auth>>
<1>1. PICK m \in Strings : Len(id) <= Len(m) /\ Len(auth) <= Len(m)
  BY LongerOfTwo
<1>2. flag \in Bytes /\ CONNREQ \in Bytes /\ m \in Strings \cup {<<>>} /\ 0 \in Bytes
  BY FlagsAreBytes, TypesAreBytes, Constants DEF Bytes
<1>3. Layout(CONNREQ, FALSE, flag) = ws
  BY LayoutIs
<1>4. ProtocolFields(flag) \o <<z, id, auth>> = vs
  <2>1. ProtocolFields(flag) = <<Magic, One, f, Alive>>
    BY DEF ProtocolFields, Magic, One, Alive
  <2> HIDE DEF f, z
  <2>2. <<Magic, One, f, Alive>> \o <<z, id, auth>> = <<Magic, One, f, Alive, z, id, auth>>
    BY Pairs
  <2> QED
    BY <2>1, <2>2
<1>5. PacketConnect2(id, auth) = Pack(CONNREQ, n, fs)
  BY DEF PacketConnect2
<1>6. /\ Suits(1, f) /\ Field(1, f) = f
      /\ Suits(2, z) /\ Field(2, z) = z /\ z \in Seq(Bytes) /\ Len(z) = 2 /\ Fits(z, m)
  BY <1>2, ByteSuits, TwoBytesSuit, ByteFits
<1> HIDE DEF flag
<1>7. Protocol(flag) = g4 /\ g4 \in Seq(Bytes) /\ Len(g4) = 9 /\ \A d : Stands(d, 0, g4) => d[7] = flag
  BY <1>2, ProtocolIs
<1>8. /\ Suits(Str2, id) /\ Field(Str2, id) = Str(id) /\ Str(id) \in Seq(Bytes)
      /\ Len(Str(id)) = 2 + Len(id) /\ Len(id) \in Nat
      /\ SuitsLast(Str2, auth) /\ Field(Str2, auth) = Str(auth) /\ Str(auth) \in Seq(Bytes)
      /\ Len(Str(auth)) = 2 + Len(auth) /\ Len(auth) \in Nat
  BY StringSuits, StringIs, StrTyped
<1> HIDE DEF z
<1>9. fs = <<g4, z, Str(id), Str(auth)>> /\ Fits(g4, m) /\ Fits(Str(id), m) /\ Fits(Str(auth), m)
  BY <1>1, <1>2, <1>7, StrFits, ProtocolFits
<1>10. /\ g2 = Field(Str2, Magic) \o Field(1, One) /\ g3 = g2 \o Field(1, f) /\ g4 = g3 \o Field(2, Alive)
       /\ g5 = g4 \o Field(2, z) /\ g6 = g5 \o Field(Str2, id) /\ rest = g6 \o Field(Str2, auth)
  BY <1>6, <1>8, ProtocolParts
<1>11. ws = <<Str2, 1, 1, 2, 2, Str2, Str2>> /\ vs = <<Magic, One, f, Alive, z, id, auth>>
  OBVIOUS
<1> HIDE DEF f, g2, g3, g4, ws, vs
<1>12. g5 \in Seq(Bytes) /\ Len(g5) = 9 + 2 /\ g5 = g4 \o z
  BY <1>6, <1>7, Glue
<1>13. rest = ((g4 \o z) \o Str(id)) \o Str(auth) /\ rest = g6 \o Str(auth)
  OBVIOUS
<1> HIDE DEF g5
<1>14. g6 \in Seq(Bytes) /\ Len(g6) = (9 + 2) + (2 + Len(id)) /\ g6 = g5 \o Str(id)
  BY <1>8, <1>12, Glue
<1> HIDE DEF g6
<1>15. rest \in Seq(Bytes) /\ Len(rest) = n /\ n \in Remains
  <2>1. rest \in Seq(Bytes) /\ Len(rest) = ((9 + 2) + (2 + Len(id))) + (2 + Len(auth))
    BY <1>8, <1>14, Glue
  <2>2. n \in Nat /\ n <= 42 + 2 * Len(id) + 2 * Len(auth)
    BY <1>8
  <2> HIDE DEF rest
  <2> QED
    BY <1>8, <2>1, <2>2, StringsFit
<1> HIDE DEF rest
<1>16. Fields(fs, 4, 9 + Len(m)) /\ Len(fs) > 0
  <2>1. Fields(<<g4, z, Str(id), Str(auth)>>, 4, 9 + Len(m)) /\ Len(<<g4, z, Str(id), Str(auth)>>) > 0
    BY <1>6, <1>9, FieldsFit
  <2> QED
    BY <1>9, <2>1, Zenon
<1>17. FlattenSeq(fs) = rest
  <2>1. fs = <<g4, z, Str(id), Str(auth)>>
    BY <1>9
  <2> HIDE DEF fs
  <2>2. FlattenSeq(<<g4, z, Str(id), Str(auth)>>) = rest
    BY <1>13, Flat4, ZenonT(60)
  <2> QED
    BY <2>1, <2>2, Zenon
<1>18. Split(rest, ws) = vs
  <2>1. /\ Suits(Str2, Magic) /\ Suits(1, One) /\ Suits(1, f) /\ Suits(2, Alive) /\ Suits(2, z) /\ Suits(Str2, id)
        /\ SuitsLast(Str2, auth)
    BY <1>6, <1>8, ProtocolParts
  <2>2. Seven(rest, ws, vs, Str2, 1, 1, 2, 2, Str2, Str2, Magic, One, f, Alive, z, id, auth, g2, g3, g4, g5, g6)
    BY <2>1, <1>10, <1>11, Zenon DEF Seven
  <2> QED
    BY <2>2, Split7, Zenon
<1>19. rest[7] = flag
  <2>1. Stands(rest, 0, g6)
    BY <1>8, <1>13, <1>14, <1>15, StandsSelf, StandsParts
  <2>2. Stands(rest, 0, g5)
    BY <1>8, <1>12, <1>14, <2>1, StandsParts
  <2>3. Stands(rest, 0, g4)
    BY <1>6, <1>7, <1>12, <2>2, StandsParts
  <2> QED
    BY <1>7, <2>3
<1> HIDE DEF fs, n
<1>20. \A data : Starts(data, CONNREQ, rest) => CloudReading(data) = Msg(CONNREQ, vs)
  BY <1>3, <1>18, <1>19, ReadingIs
<1>21. Pack(CONNREQ, n, fs).data = Packed(CONNREQ, rest)
  BY <1>2, <1>15, <1>16, <1>17, PackIs
<1>22. Understood(PacketConnect2(id, auth).data, Msg(CONNREQ, vs))
  BY <1>2, <1>5, <1>15, <1>20, <1>21, UnderstoodIs
<1> QED
  BY <1>4, <1>22 DEF flag, z

-----------------------------------------------------------------------------
(* What is on its way: the packets of the messages behind the first r.       *)

Carries(kind, bytes, msg) == IF kind = "up" THEN Understood(bytes, msg) ELSE Arrives(bytes, msg)

\* at[i] is how many bytes of the stream the messages up to msgs[i] take.
Cuts(at, kind, stream, msgs, r) ==
  /\ stream \in Seq(Bytes) /\ Len(msgs) \in Nat /\ r \in 0..Len(msgs)
  /\ at[r] = 0 /\ at[Len(msgs)] = Len(stream)
  /\ \A i \in r..Len(msgs) : at[i] \in Nat
  /\ \A i, j \in r..Len(msgs) : i <= j => at[i] <= at[j]
  /\ \A i \in r + 1..Len(msgs) :
       \E b : Carries(kind, b, msgs[i]) /\ Stands(stream, at[i - 1], b) /\ at[i] = at[i - 1] + Len(b)

InOrder(kind, stream, msgs, r) == \E at : Cuts(at, kind, stream, msgs, r)

\* What stands somewhere stands there still when more follows or when what came before is
\* gone.
LEMMA StandsLonger ==
  ASSUME NEW d, NEW p, NEW x, Stands(d, p, x), NEW y \in Seq(Bytes)
  PROVE  Stands(d \o y, p, x)
<1>1. d \in Seq(Bytes) /\ x \in Seq(Bytes) /\ p \in Nat /\ p + Len(x) <= Len(d) /\ \A j \in 1..Len(x) : d[p + j] = x[j]
  BY DEF Stands
<1>2. d \o y \in Seq(Bytes) /\ Len(d \o y) = Len(d) + Len(y) /\ Len(d) \in Nat /\ Len(y) \in Nat /\ Len(x) \in Nat
  BY <1>1, Glue, LenProperties
<1>3. ASSUME NEW j \in 1..Len(x) PROVE (d \o y)[p + j] = x[j]
  <2>1. p + j \in 1..Len(d)
    BY <1>1, <1>2
  <2>2. (d \o y)[p + j] = d[p + j]
    BY <1>1, <2>1, ConcatProperties
  <2> QED
    BY <1>1, <2>2
<1> DEFINE e == d \o y
<1>4. e \in Seq(Bytes) /\ p + Len(x) <= Len(e) /\ \A j \in 1..Len(x) : e[p + j] = x[j]
  BY <1>1, <1>2, <1>3
<1> HIDE DEF e
<1>5. Stands(e, p, x)
  BY <1>1, <1>4 DEF Stands
<1> QED
  BY <1>5 DEF e

LEMMA StandsBehind ==
  ASSUME NEW d \in Seq(Bytes), NEW y \in Seq(Bytes)
  PROVE  Stands(d \o y, Len(d), y)
<1> DEFINE e == d \o y
<1>1. e \in Seq(Bytes) /\ e = d \o y
  BY Glue
<1>2. Stands(e, 0, e) /\ Len(d) \in Nat
  BY <1>1, StandsSelf, LenProperties
<1>3. Stands(e, 0 + Len(d), y)
  BY <1>1, <1>2, StandsParts
<1>4. 0 + Len(d) = Len(d)
  BY <1>2
<1> QED
  BY <1>3, <1>4

LEMMA StandsShifted ==
  ASSUME NEW d, NEW p, NEW x, Stands(d, p, x), NEW k \in Nat, k <= p
  PROVE  LET e == SubSeq(d, k + 1, Len(d))
         IN e \in Seq(Bytes) /\ Len(e) = Len(d) - k /\ Stands(e, p - k, x)
<1> DEFINE e == SubSeq(d, k + 1, Len(d))
<1>1. d \in Seq(Bytes) /\ x \in Seq(Bytes) /\ p \in Nat /\ p + Len(x) <= Len(d) /\ \A j \in 1..Len(x) : d[p + j] = x[j]
  BY DEF Stands
<1>2. Len(d) \in Nat /\ Len(x) \in Nat /\ k <= Len(d)
  BY <1>1, LenProperties
<1>3. e \in Seq(Bytes) /\ Len(e) = Len(d) - k /\ \A j \in 1..Len(d) - k : e[j] = d[k + j]
  BY <1>1, <1>2
<1> HIDE DEF e
<1>4. ASSUME NEW j \in 1..Len(x) PROVE e[(p - k) + j] = x[j]
  <2>1. (p - k) + j \in 1..Len(d) - k /\ k + ((p - k) + j) = p + j
    BY <1>1, <1>2
  <2> QED
    BY <1>1, <1>3, <2>1
<1>5. p - k \in Nat /\ (p - k) + Len(x) <= Len(e)
  BY <1>1, <1>2, <1>3
<1>6. Stands(e, p - k, x)
  BY <1>1, <1>3, <1>4, <1>5 DEF Stands
<1> QED
  BY <1>3, <1>6 DEF e

LEMMA CarriesPacket ==
  ASSUME NEW kind, NEW b, NEW msg, Carries(kind, b, msg)
  PROVE  \E type \in Bytes, rest \in Seq(Bytes) :
           /\ Len(rest) \in Remains /\ b = Packed(type, rest) /\ b \in Seq(Bytes)
           /\ Len(b) = PackedLen(rest) /\ Len(b) \in Nat /\ Len(b) > 1
<1>1. PICK type, rest : Packet(b, type, rest)
  BY DEF Carries, Understood, Arrives
<1>2. type \in Bytes /\ rest \in Seq(Bytes) /\ Len(rest) \in Remains /\ b = Packed(type, rest)
  BY <1>1 DEF Packet
<1>3. b \in Seq(Bytes) /\ Len(b) = PackedLen(rest) /\ Len(b) \in Nat /\ Len(b) > 1
  BY <1>2, PackedTyped
<1> QED
  BY <1>2, <1>3

\* One packet more at the end.
LEMMA OneMore ==
  ASSUME NEW kind, NEW stream, NEW msgs, NEW r, InOrder(kind, stream, msgs, r),
         NEW b, NEW msg, Carries(kind, b, msg),
         NEW more, Len(more) = Len(msgs) + 1, \A i \in 1..Len(msgs) : more[i] = msgs[i], more[Len(msgs) + 1] = msg
  PROVE  InOrder(kind, stream \o b, more, r)
<1>1. PICK at : Cuts(at, kind, stream, msgs, r)
  BY DEF InOrder
<1> DEFINE n == Len(msgs)
           longer == stream \o b
           to == [i \in r..n + 1 |-> IF i = n + 1 THEN at[n] + Len(b) ELSE at[i]]
<1>2. /\ stream \in Seq(Bytes) /\ n \in Nat /\ r \in 0..n
      /\ at[r] = 0 /\ at[n] = Len(stream)
      /\ \A i \in r..n : at[i] \in Nat
      /\ \A i, j \in r..n : i <= j => at[i] <= at[j]
      /\ \A i \in r + 1..n :
           \E c : Carries(kind, c, msgs[i]) /\ Stands(stream, at[i - 1], c) /\ at[i] = at[i - 1] + Len(c)
  BY <1>1 DEF Cuts
<1>3. b \in Seq(Bytes) /\ Len(b) \in Nat /\ Len(b) > 1
  BY CarriesPacket
<1>4. longer \in Seq(Bytes) /\ Len(longer) = Len(stream) + Len(b) /\ Len(more) = n + 1
  BY <1>2, <1>3, Glue
<1>5. /\ \A i \in r..n : to[i] = at[i] /\ to[i] \in Nat /\ to[i] <= at[n]
      /\ to[n + 1] = at[n] + Len(b) /\ r \in r..n /\ n \in r..n
  BY <1>2
<1> HIDE DEF to, n, longer
<1>6. /\ to[r] = 0 /\ to[n + 1] = Len(longer) /\ n + 1 \in Nat /\ r \in 0..n + 1
      /\ \A i \in r..n + 1 : i \in r..n \/ i = n + 1
  BY <1>2, <1>4, <1>5
<1>7. \A i \in r..n + 1 : to[i] \in Nat
  BY <1>2, <1>3, <1>5, <1>6
<1>8. ASSUME NEW i \in r..n + 1, NEW j \in r..n + 1, i <= j PROVE to[i] <= to[j]
  <2>1. CASE i \in r..n /\ j \in r..n
    BY <1>2, <1>5, <1>8, <2>1
  <2>2. CASE i \in r..n /\ j = n + 1
    BY <1>2, <1>3, <1>5, <2>2
  <2>3. CASE i = n + 1 /\ j = n + 1
    BY <1>7, <2>3
  <2> QED
    BY <1>2, <1>6, <1>8, <2>1, <2>2, <2>3
<1>9. ASSUME NEW i \in r + 1..n + 1
      PROVE  \E c : Carries(kind, c, more[i]) /\ Stands(longer, to[i - 1], c) /\ to[i] = to[i - 1] + Len(c)
  <2>1. CASE i \in r + 1..n
    <3>1. i \in 1..n /\ i \in r..n /\ i - 1 \in r..n
      BY <1>2, <2>1
    <3>2. PICK c : Carries(kind, c, msgs[i]) /\ Stands(stream, at[i - 1], c) /\ at[i] = at[i - 1] + Len(c)
      BY <1>2, <2>1
    <3>3. Stands(longer, at[i - 1], c)
      BY <1>3, <3>2, StandsLonger DEF longer
    <3>4. more[i] = msgs[i]
      BY <3>1 DEF n
    <3> QED
      BY <1>5, <3>1, <3>2, <3>3, <3>4
  <2>2. CASE i = n + 1
    <3>1. i - 1 = n /\ to[i - 1] = Len(stream)
      BY <1>2, <1>5, <2>2
    <3>2. Stands(longer, Len(stream), b)
      BY <1>2, <1>3, StandsBehind DEF longer
    <3>3. more[i] = msg
      BY <2>2 DEF n
    <3>4. to[i] = to[i - 1] + Len(b)
      BY <1>2, <1>5, <2>2, <3>1
    <3> QED
      BY <3>1, <3>2, <3>3, <3>4
  <2> QED
    BY <1>2, <2>1, <2>2
<1>10. Cuts(to, kind, longer, more, r)
  BY <1>4, <1>6, <1>7, <1>8, <1>9 DEF Cuts
<1> QED
  BY <1>10 DEF InOrder, longer

\* One packet less at the beginning.
LEMMA OneLess ==
  ASSUME NEW kind, NEW stream, NEW msgs, NEW r, InOrder(kind, stream, msgs, r), r # Len(msgs)
  PROVE  \E b : /\ Carries(kind, b, msgs[r + 1]) /\ Stands(stream, 0, b)
                /\ InOrder(kind, SubSeq(stream, Len(b) + 1, Len(stream)), msgs, r + 1)
<1>1. PICK at : Cuts(at, kind, stream, msgs, r)
  BY DEF InOrder
<1> DEFINE n == Len(msgs)
<1>2. /\ stream \in Seq(Bytes) /\ n \in Nat /\ r \in 0..n
      /\ at[r] = 0 /\ at[n] = Len(stream)
      /\ \A i \in r..n : at[i] \in Nat
      /\ \A i, j \in r..n : i <= j => at[i] <= at[j]
      /\ \A i \in r + 1..n :
           \E c : Carries(kind, c, msgs[i]) /\ Stands(stream, at[i - 1], c) /\ at[i] = at[i - 1] + Len(c)
  BY <1>1 DEF Cuts
<1>3. r + 1 \in r + 1..n /\ (r + 1) - 1 = r /\ r + 1 \in r..n /\ r + 1 \in 0..n /\ n \in r + 1..n /\ n \in r..n
  BY <1>2
<1>4. PICK b : Carries(kind, b, msgs[r + 1]) /\ Stands(stream, at[(r + 1) - 1], b) /\ at[r + 1] = at[(r + 1) - 1] + Len(b)
  BY <1>2, <1>3
<1>5. b \in Seq(Bytes) /\ Len(b) \in Nat
  BY <1>4, CarriesPacket
<1>6. Stands(stream, 0, b) /\ at[r + 1] = Len(b)
  BY <1>2, <1>3, <1>4, <1>5
<1> DEFINE k == Len(b)
           left == SubSeq(stream, k + 1, Len(stream))
           to == [i \in r + 1..n |-> at[i] - k]
<1>7. /\ \A i \in r + 1..n : to[i] = at[i] - k /\ i \in r..n /\ at[i] \in Nat /\ k <= at[i]
      /\ k <= Len(stream) /\ Len(stream) \in Nat
  <2>1. \A i \in r + 1..n : i \in r..n /\ r + 1 <= i
    BY <1>2
  <2> QED
    BY <1>2, <1>3, <1>6, <2>1
<1>8. left \in Seq(Bytes) /\ Len(left) = Len(stream) - k
  BY <1>2, <1>5, <1>7
<1> HIDE DEF to, n, k, left
<1>9. /\ to[r + 1] = 0 /\ to[n] = Len(left)
      /\ \A i \in r + 1..n : to[i] \in Nat
  <2>1. k \in Nat /\ at[r + 1] = k
    BY <1>5, <1>6 DEF k
  <2>2. to[r + 1] = at[r + 1] - k /\ to[n] = at[n] - k
    BY <1>3, <1>7
  <2>3. to[r + 1] = 0
    BY <2>1, <2>2
  <2>4. to[n] = Len(left)
    BY <1>2, <1>8, <2>2
  <2>5. \A i \in r + 1..n : to[i] \in Nat
    BY <1>7, <2>1
  <2> QED
    BY <2>3, <2>4, <2>5
<1>10. \A i, j \in r + 1..n : i <= j => to[i] <= to[j]
  <2> SUFFICES ASSUME NEW i \in r + 1..n, NEW j \in r + 1..n, i <= j PROVE to[i] <= to[j]
    OBVIOUS
  <2>1. at[i] <= at[j]
    BY <1>2, <1>7
  <2> QED
    BY <1>5, <1>7, <2>1 DEF k
<1>11. ASSUME NEW i \in (r + 1) + 1..n
       PROVE  \E c : Carries(kind, c, msgs[i]) /\ Stands(left, to[i - 1], c) /\ to[i] = to[i - 1] + Len(c)
  <2>1. i \in r + 1..n /\ i - 1 \in r + 1..n
    BY <1>2
  <2>2. PICK c : Carries(kind, c, msgs[i]) /\ Stands(stream, at[i - 1], c) /\ at[i] = at[i - 1] + Len(c)
    BY <1>2, <2>1
  <2>3. Stands(left, at[i - 1] - k, c)
    BY <1>5, <1>7, <2>1, <2>2, StandsShifted DEF left, k
  <2>4. Len(c) \in Nat
    BY <2>2, CarriesPacket
  <2>5. to[i] = to[i - 1] + Len(c)
    BY <1>5, <1>7, <2>1, <2>2, <2>4 DEF k
  <2> QED
    BY <1>7, <2>1, <2>2, <2>3, <2>5
<1>12. Cuts(to, kind, left, msgs, r + 1)
  BY <1>2, <1>3, <1>8, <1>9, <1>10, <1>11 DEF Cuts, n
<1>13. InOrder(kind, SubSeq(stream, Len(b) + 1, Len(stream)), msgs, r + 1)
  BY <1>12 DEF InOrder, left, k
<1> QED
  BY <1>4, <1>6, <1>13

\* When all have been received, nothing is on its way.
LEMMA NoneLeft ==
  ASSUME NEW kind, NEW stream, NEW msgs, NEW r, InOrder(kind, stream, msgs, r)
  PROVE  /\ stream \in Seq(Bytes) /\ Len(msgs) \in Nat /\ r \in 0..Len(msgs)
         /\ r = Len(msgs) => Len(stream) = 0
  BY DEF InOrder, Cuts

-----------------------------------------------------------------------------
(* The messages received are the first of those sent, and the packets of the *)
(* others are what is in the buffer and behind it on the wire.               *)

Followed == scenario # "stream" /\ scenario # "bin"
Pending == buf.data \o wire

LinkInv ==
  Followed =>
    /\ InOrder(scenario, Pending, sent, Len(received))
    /\ received = [i \in 1..Len(received) |-> sent[i]]
    /\ scenario # "buffered" => buf.data = <<>>

\* A step of either end, as both properties see it.
Sending(msg) ==
  /\ received' = received /\ sent' = Append(sent, msg) /\ Len(sent') = Len(sent) + 1
  /\ \A i \in 1..Len(sent) : sent'[i] = sent[i]
  /\ sent'[Len(sent) + 1] = msg /\ Len(sent) \in Nat
Receiving ==
  /\ sent' = sent /\ received' = Append(received, sent[Len(received) + 1])
  /\ Len(received) \in 0..Len(sent) /\ Len(received) # Len(sent) /\ Len(sent) \in Nat

LEMMA PendingIs ==
  ASSUME StreamInv, LinkInv, Followed
  PROVE  /\ wire \in Seq(Bytes) /\ Len(wire) \in Nat /\ buf.data \in Seq(Bytes) /\ Len(buf.data) \in Nat
         /\ Pending \in Seq(Bytes) /\ Len(Pending) = Len(buf.data) + Len(wire)
         /\ InOrder(scenario, Pending, sent, Len(received)) /\ Len(received) \in 0..Len(sent) /\ Len(sent) \in Nat
         /\ scenario # "buffered" => Pending = wire /\ buf.data = <<>>
         /\ Len(received) = Len(sent) => Len(Pending) = 0
<1>1. wire \in Seq(Bytes) /\ buf.data \in Seq(Bytes)
  BY DEF StreamInv, Sound, Buffers
<1>2. InOrder(scenario, Pending, sent, Len(received)) /\ (scenario # "buffered" => buf.data = <<>>)
  BY DEF LinkInv
<1>3. Pending \in Seq(Bytes) /\ Len(Pending) = Len(buf.data) + Len(wire) /\ Len(wire) \in Nat /\ Len(buf.data) \in Nat
  BY <1>1, Glue DEF Pending
<1>4. buf.data = <<>> => Pending = wire
  BY <1>1 DEF Pending
<1>5. /\ Len(received) \in 0..Len(sent) /\ Len(sent) \in Nat
      /\ Len(received) = Len(sent) => Len(Pending) = 0
  BY <1>2, NoneLeft
<1> QED
  BY <1>1, <1>2, <1>3, <1>4, <1>5

\* The packet that comes next.
LEMMA NextPacket ==
  ASSUME StreamInv, LinkInv, Followed, Len(received) # Len(sent)
  PROVE  \E b, type, rest :
           /\ Carries(scenario, b, sent[Len(received) + 1])
           /\ Starts(Pending, type, rest) /\ Stands(Pending, 0, b) /\ Len(b) = PackedLen(rest)
           /\ SubSeq(Pending, 1, PackedLen(rest)) = b
           /\ InOrder(scenario, SubSeq(Pending, PackedLen(rest) + 1, Len(Pending)), sent, Len(received) + 1)
<1>1. InOrder(scenario, Pending, sent, Len(received))
  BY PendingIs
<1>2. PICK b : /\ Carries(scenario, b, sent[Len(received) + 1]) /\ Stands(Pending, 0, b)
               /\ InOrder(scenario, SubSeq(Pending, Len(b) + 1, Len(Pending)), sent, Len(received) + 1)
  BY <1>1, OneLess
<1>3. PICK type \in Bytes, rest \in Seq(Bytes) :
        Len(rest) \in Remains /\ b = Packed(type, rest) /\ Len(b) = PackedLen(rest) /\ Len(b) \in Nat
  BY <1>2, CarriesPacket
<1>4. Starts(Pending, type, rest)
  BY <1>2, <1>3, PackedStarts
<1>5. SubSeq(Pending, 0 + 1, 0 + Len(b)) = b
  BY <1>2, StandsCut
<1>6. 0 + 1 = 1 /\ 0 + Len(b) = Len(b)
  BY <1>3
<1>7. SubSeq(Pending, 1, PackedLen(rest)) = b
  BY <1>3, <1>5, <1>6, Zenon
<1> QED
  BY <1>2, <1>3, <1>4, <1>7, Zenon

LEMMA LinkInit == Init => LinkInv
<1> SUFFICES ASSUME Init PROVE LinkInv
  OBVIOUS
<1>1. sent = <<>> /\ received = <<>> /\ wire = <<>> /\ buf.data = <<>>
  BY DEF Init, NewBuffer
<1> DEFINE e == <<>>
           at == [i \in 0..0 |-> 0]
<1>2. /\ e \in Seq(Bytes) /\ Len(e) = 0 /\ 0 \in Nat /\ 0 \in 0..0
      /\ \A i \in 0..0 : at[i] = 0
      /\ \A i \in 0 + 1..0 : FALSE
      /\ e = [i \in 1..0 |-> e[i]] /\ e \o e = e
  OBVIOUS
<1>3. at[0] = 0 /\ (\A i \in 0..0 : at[i] \in Nat) /\ (\A i, j \in 0..0 : i <= j => at[i] <= at[j])
  BY <1>2
<1> HIDE DEF e, at
<1>4. Cuts(at, scenario, e, e, 0)
  BY <1>2, <1>3 DEF Cuts
<1>5. InOrder(scenario, e, e, 0)
  BY <1>4 DEF InOrder
<1>6. Pending = e /\ sent = e /\ received = e /\ Len(received) = 0
  BY <1>1, <1>2 DEF Pending, e
<1>7. received = [i \in 1..Len(received) |-> sent[i]]
  BY <1>2, <1>6
<1> QED
  BY <1>1, <1>5, <1>6, <1>7 DEF LinkInv

LEMMA SendingIs ==
  ASSUME StreamInv, NEW msg, sent' = Append(sent, msg), received' = received
  PROVE  Sending(msg)
<1> DEFINE n == Len(sent)
           more == Append(sent, msg)
<1>1. n \in Nat /\ sent = [i \in 1..n |-> sent[i]]
  BY StreamAssumption DEF StreamInv
<1>2. sent \in Seq({sent[i] : i \in 1..n} \cup {msg})
  BY <1>1
<1>3. Len(more) = n + 1 /\ more[n + 1] = msg /\ \A i \in 1..n : more[i] = sent[i]
  BY <1>2, AppendProperties
<1> HIDE DEF more
<1> QED
  BY <1>1, <1>3 DEF Sending, more

\* Both sides keep the invariant: a message is sent with a packet that carries it, and
\* received with its packet.
LEMMA SendingKeeps ==
  ASSUME StreamInv, LinkInv, NEW msg, Sending(msg), scenario' = scenario, buf' = buf,
         NEW b, Followed => Carries(scenario, b, msg), wire' = wire \o b
  PROVE  LinkInv'
<1> SUFFICES ASSUME Followed PROVE
      /\ InOrder(scenario, Pending', sent', Len(received'))
      /\ received' = [i \in 1..Len(received') |-> sent'[i]]
      /\ scenario # "buffered" => buf'.data = <<>>
  BY DEF LinkInv, Followed, Pending
<1>1. /\ wire \in Seq(Bytes) /\ buf.data \in Seq(Bytes) /\ Pending \in Seq(Bytes)
      /\ InOrder(scenario, Pending, sent, Len(received)) /\ Len(received) \in 0..Len(sent) /\ Len(sent) \in Nat
      /\ scenario # "buffered" => buf.data = <<>>
  BY PendingIs
<1>2. b \in Seq(Bytes)
  BY CarriesPacket
<1>3. Pending' = Pending \o b
  <2>1. (buf.data \o wire) \o b = buf.data \o (wire \o b)
    BY <1>1, <1>2, Regroup
  <2> QED
    BY <2>1 DEF Pending
<1>4. InOrder(scenario, Pending \o b, sent', Len(received))
  BY <1>1, OneMore DEF Sending
<1>5. received' = [i \in 1..Len(received') |-> sent'[i]]
  <2>1. received = [i \in 1..Len(received) |-> sent[i]]
    BY DEF LinkInv
  <2>2. \A i \in 1..Len(received) : i \in 1..Len(sent)
    BY <1>1
  <2>3. \A i \in 1..Len(received) : sent'[i] = sent[i]
    BY <2>2 DEF Sending
  <2>4. received' = received
    BY DEF Sending
  <2> QED
    BY <2>1, <2>3, <2>4
<1>6. received' = received
  BY DEF Sending
<1> QED
  BY <1>1, <1>3, <1>4, <1>5, <1>6

LEMMA ReceivingKeeps ==
  ASSUME StreamInv, LinkInv, Followed, Len(received) # Len(sent), scenario' = scenario, sent' = sent,
         received' = Append(received, sent[Len(received) + 1]),
         InOrder(scenario, Pending', sent, Len(received) + 1),
         scenario # "buffered" => buf'.data = <<>>
  PROVE  LinkInv' /\ Receiving
<1> DEFINE r == Len(received)
           more == Append(received, sent[r + 1])
<1>1. r \in 0..Len(sent) /\ Len(sent) \in Nat
  BY PendingIs
<1>2. received = [i \in 1..r |-> sent[i]]
  BY DEF LinkInv
<1>3. received = [i \in 1..r |-> received[i]] /\ r \in Nat
  BY <1>1, <1>2
<1>4. more = [i \in 1..Len(more) |-> more[i]] /\ Len(more) = r + 1
  BY <1>3, Appended
<1>5. \A i \in 1..r + 1 : more[i] = sent[i]
  <2>1. received \in Seq({received[i] : i \in 1..r} \cup {sent[r + 1]})
    BY <1>3
  <2>2. more[r + 1] = sent[r + 1] /\ \A i \in 1..r : more[i] = received[i]
    BY <2>1, AppendProperties
  <2>3. \A i \in 1..r : received[i] = sent[i]
    BY <1>2
  <2>4. \A i \in 1..r + 1 : i \in 1..r \/ i = r + 1
    BY <1>1
  <2> HIDE DEF more, r
  <2> QED
    BY <2>2, <2>3, <2>4
<1> HIDE DEF more
<1>6. more = [i \in 1..r + 1 |-> sent[i]]
  BY <1>4, <1>5
<1>7. received' = more
  BY DEF more
<1>8. LinkInv'
  BY <1>4, <1>6, <1>7 DEF LinkInv, Followed, Pending
<1> QED
  BY <1>1, <1>8 DEF Receiving

LEMMA ScenarioIs ==
  ASSUME StreamInv, Followed
  PROVE  scenario \in {"packets", "buffered", "up"} /\ (Down <=> scenario # "up")
  BY StreamAssumption DEF StreamInv, Followed, Down, ScenarioKinds

\* The actions, one by one.
LEMMA CloudSendsLinks ==
  ASSUME StreamInv, LinkInv, Followed, CloudSends
  PROVE  LinkInv' /\ \E p \in CloudPackets : Sending(p.meant)
<1>1. PICK p \in CloudPackets : wire' = wire \o p.bytes /\ sent' = Append(sent, p.meant)
  BY DEF CloudSends
<1>2. Down /\ scenario' = scenario /\ buf' = buf /\ received' = received
  BY DEF CloudSends
<1> DEFINE b == p.bytes
           msg == p.meant
<1>3. Arrives(b, msg) /\ wire' = wire \o b /\ sent' = Append(sent, msg)
  BY <1>1, CloudPacketArrives
<1> HIDE DEF b, msg
<1>4. Carries(scenario, b, msg)
  BY <1>2, <1>3, ScenarioIs DEF Carries
<1>5. Sending(msg)
  BY <1>2, <1>3, SendingIs
<1>6. LinkInv'
  BY <1>2, <1>3, <1>4, <1>5, SendingKeeps
<1> QED
  BY <1>5, <1>6 DEF msg

LEMMA EspconnSendLinks ==
  ASSUME StreamInv, LinkInv, Followed, NEW packet, NEW meant, EspconnSend(packet, meant),
         MaxPackets > 0 => Understood(packet.data, meant)
  PROVE  LinkInv' /\ Sending(meant)
<1>1. /\ ~Down /\ Len(sent) < MaxPackets /\ wire' = wire \o packet.data /\ sent' = Append(sent, meant)
      /\ scenario' = scenario /\ buf' = buf /\ received' = received
  BY DEF EspconnSend
<1>2. MaxPackets > 0
  BY <1>1, StreamAssumption DEF StreamInv
<1> DEFINE b == packet.data
<1>3. Understood(b, meant) /\ wire' = wire \o b
  BY <1>1, <1>2
<1> HIDE DEF b
<1>4. Carries(scenario, b, meant)
  BY <1>1, <1>3, ScenarioIs DEF Carries
<1>5. Sending(meant)
  BY <1>1, SendingIs
<1> QED
  BY <1>1, <1>3, <1>4, <1>5, SendingKeeps

Messages == [type : Nat, fields : Seq(Seq(Nat))]
Texts == Seq(Nat)

\* All messages are messages of the channel.
LEMMA FieldLists ==
  /\ <<>> \in Seq(Texts)
  /\ \A a \in Texts : <<a>> \in Seq(Texts)
  /\ \A a, b \in Texts : <<a, b>> \in Seq(Texts)
  /\ \A a, b, c \in Texts : <<a, b, c>> \in Seq(Texts)
  /\ \A a, b, c, d \in Texts : <<a, b, c, d>> \in Seq(Texts)
  /\ \A x, y \in Seq(Texts) : x \o y \in Seq(Texts)
<1> HIDE DEF Texts
<1>1. <<>> \in Seq(Texts)
  OBVIOUS
<1>2. \A a \in Texts : <<a>> \in Seq(Texts)
  OBVIOUS
<1>3. \A a, b \in Texts : <<a, b>> \in Seq(Texts)
  OBVIOUS
<1>4. \A a, b, c \in Texts : <<a, b, c>> \in Seq(Texts)
  OBVIOUS
<1>5. \A a, b, c, d \in Texts : <<a, b, c, d>> \in Seq(Texts)
  OBVIOUS
<1>6. \A x, y \in Seq(Texts) : x \o y \in Seq(Texts)
  BY ConcatProperties
<1> QED
  BY <1>1, <1>2, <1>3, <1>4, <1>5, <1>6

LEMMA TextsAre ==
  /\ \A n \in Nat : <<n>> \in Texts
  /\ \A m, n \in Nat : <<m, n>> \in Texts
  /\ <<1, 2, 3>> \in Texts
  /\ \A s \in Strings : s \in Texts
<1>1. \A s \in Strings : s \in Seq(Nat)
  <2> SUFFICES ASSUME NEW s \in Strings PROVE s \in Seq(Nat)
    OBVIOUS
  <2>1. s \in Seq(Bytes)
    BY StringIs
  <2>2. \A i \in 1..Len(s) : s[i] \in Nat
    BY <2>1, ElementOfSeq, Constants DEF Bytes
  <2>3. Len(s) \in Nat /\ s = [i \in 1..Len(s) |-> s[i]]
    BY <2>1
  <2> QED
    BY <2>2, <2>3
<1>2. (\A n \in Nat : <<n>> \in Seq(Nat)) /\ (\A m, n \in Nat : <<m, n>> \in Seq(Nat)) /\ <<1, 2, 3>> \in Seq(Nat)
  OBVIOUS
<1> QED
  BY <1>1, <1>2 DEF Texts

LEMMA MessageOf ==
  ASSUME NEW type \in Bytes, NEW fields \in Seq(Texts)
  PROVE  Msg(type, fields) \in Messages
<1>1. type \in Nat
  BY Constants DEF Bytes
<1> QED
  BY <1>1 DEF Msg, Messages, Texts

LEMMA CloudMeans == ASSUME NEW p \in CloudPackets PROVE p.meant \in Messages
<1>1. \A type, addressed, flag, fields, meant :
        type \in Bytes /\ meant \in Seq(Texts) => FromCloud(type, addressed, flag, fields, meant).meant \in Messages
  BY CloudBytes, MessageOf
<1>2. CASE \E c \in {0, 4} : p = FromCloud(CONNRESP, FALSE, 0, <<<<0>>, <<c>>>>, <<<<c>>>>)
  <2>1. PICK c \in {0, 4} : p = FromCloud(CONNRESP, FALSE, 0, <<<<0>>, <<c>>>>, <<<<c>>>>)
    BY <1>2
  <2> DEFINE v == <<c>>
             m == <<v>>
  <2>2. v \in Texts
    BY TextsAre
  <2> HIDE DEF v
  <2>3. m \in Seq(Texts)
    BY <2>2, FieldLists
  <2>4. p = FromCloud(CONNRESP, FALSE, 0, <<<<0>>, <<c>>>>, m)
    BY <2>1 DEF v
  <2> HIDE DEF m
  <2> QED
    BY <1>1, <2>3, <2>4, TypesAreBytes
<1>3. ASSUME NEW type \in Bytes, NEW s \in Strings, NEW t \in Strings,
             NEW fields, NEW addressed, NEW flag, p = FromCloud(type, addressed, flag, fields, <<s, t>>)
      PROVE  p.meant \in Messages
  <2> DEFINE m == <<s, t>>
  <2>1. m \in Seq(Texts)
    BY TextsAre, FieldLists
  <2>2. p = FromCloud(type, addressed, flag, fields, m)
    BY <1>3
  <2> HIDE DEF m
  <2> QED
    BY <1>1, <2>1, <2>2
<1>4. CASE p = FromCloud(CONNCLOSE, FALSE, 0, <<<<3>>>>, <<<<3>>>>)
  <2> DEFINE v == <<3>>
             m == <<v>>
  <2>1. v \in Texts
    BY TextsAre
  <2> HIDE DEF v
  <2>2. m \in Seq(Texts)
    BY <2>1, FieldLists
  <2>3. p = FromCloud(CONNCLOSE, FALSE, 0, <<<<3>>>>, m)
    BY <1>4 DEF v
  <2> HIDE DEF m
  <2> QED
    BY <1>1, <2>2, <2>3, TypesAreBytes
<1>5. ASSUME NEW k \in {1, 5}, NEW s \in Strings, NEW fields, p = FromCloud(SAVEDATA, FALSE, k, fields, <<<<k>>, s>>)
      PROVE  p.meant \in Messages
  <2> DEFINE v == <<k>>
             m == <<v, s>>
  <2>1. v \in Texts /\ s \in Texts
    BY TextsAre
  <2> HIDE DEF v
  <2>2. m \in Seq(Texts)
    BY <2>1, FieldLists
  <2>3. p = FromCloud(SAVEDATA, FALSE, k, fields, m)
    BY <1>5 DEF v
  <2> HIDE DEF m
  <2> QED
    BY <1>1, <2>2, <2>3, TypesAreBytes
<1>6. ASSUME NEW s \in Strings, NEW t \in Strings, NEW fields, p = FromCloud(SAVEDATA, TRUE, 2, fields, <<<< 2 >>, s, t>>)
      PROVE  p.meant \in Messages
  <2> DEFINE v == <<2>>
             m == <<v, s, t>>
  <2>1. v \in Texts /\ s \in Texts /\ t \in Texts
    BY TextsAre
  <2> HIDE DEF v
  <2>2. m \in Seq(Texts)
    BY <2>1, FieldLists
  <2>3. p = FromCloud(SAVEDATA, TRUE, 2, fields, m)
    BY <1>6 DEF v
  <2> HIDE DEF m
  <2> QED
    BY <1>1, <2>2, <2>3, TypesAreBytes
<1>7. ASSUME NEW s \in Strings, NEW fields, p = FromCloud(SAVEACK, FALSE, Radix, fields, <<s>>)
      PROVE  p.meant \in Messages
  <2> DEFINE m == <<s>>
  <2>1. m \in Seq(Texts)
    BY TextsAre, FieldLists
  <2>2. p = FromCloud(SAVEACK, FALSE, Radix, fields, m)
    BY <1>7
  <2> HIDE DEF m
  <2> QED
    BY <1>1, <2>1, <2>2, TypesAreBytes
<1>8. ASSUME NEW type \in Bytes, NEW fields, p = FromCloud(type, FALSE, 0, fields, <<>>)
      PROVE  p.meant \in Messages
  <2> DEFINE m == <<>>
  <2>1. m \in Seq(Texts)
    BY FieldLists
  <2>2. p = FromCloud(type, FALSE, 0, fields, m)
    BY <1>8
  <2> HIDE DEF m
  <2> QED
    BY <1>1, <2>1, <2>2
<1>9. CASE \E s, t \in Strings : p = FromCloud(PUSHDATA, FALSE, 0, <<s, t>>, <<s, t>>)
  BY <1>3, <1>9, TypesAreBytes
<1>10. CASE \E s, t \in Strings : p = FromCloud(CMDREQ, FALSE, 0, <<s, t>>, <<s, t>>)
  BY <1>3, <1>10, TypesAreBytes
<1>11. CASE \E k \in {1, 5}, s \in Strings : p = FromCloud(SAVEDATA, FALSE, k, <<<<0>>, <<k>>, s>>, <<<<k>>, s>>)
  BY <1>5, <1>11
<1>12. CASE \E s, t \in Strings : p = FromCloud(SAVEDATA, TRUE, 2, <<<<Radix>>, s, <<2>>, s, t>>, <<<<2>>, s, t>>)
  BY <1>6, <1>12
<1>13. CASE \E s \in Strings : p = FromCloud(SAVEACK, FALSE, Radix, <<<<Radix>>, s>>, <<s>>)
  BY <1>7, <1>13
<1>14. CASE p = FromCloud(SAVEACK, FALSE, 0, <<<<0>>>>, <<>>)
  BY <1>8, <1>14, TypesAreBytes
<1>15. CASE p = FromCloud(PINGRESP, FALSE, 0, <<>>, <<>>)
  BY <1>8, <1>15, TypesAreBytes
<1> QED
  BY CloudKinds, <1>2, <1>4, <1>9, <1>10, <1>11, <1>12, <1>13, <1>14, <1>15

LEMMA LoginMeans ==
  ASSUME NEW id \in Strings, NEW auth \in Strings
  PROVE  /\ Msg(CONNREQ, ProtocolFields(Base \div 4) \o <<id, auth>>) \in Messages
         /\ Msg(CONNREQ, ProtocolFields(3 * (Base \div 4)) \o <<<<0, 0>>, id, auth>>) \in Messages
<1>1. id \in Texts /\ auth \in Texts /\ CONNREQ \in Bytes
  BY TextsAre, TypesAreBytes
<1>2. Base \div 4 \in Nat /\ 3 * (Base \div 4) \in Nat /\ Base \div 2 \in Nat
  BY FlagsAreBytes, Constants DEF Bytes
<1>3. ASSUME NEW n \in Nat PROVE ProtocolFields(n) \in Seq(Texts)
  <2> DEFINE a == <<1, 2, 3>>
             b == <<1>>
             c == <<n>>
             d == <<0, Base \div 2>>
  <2>1. a \in Texts /\ b \in Texts /\ c \in Texts /\ d \in Texts
    BY <1>2, TextsAre
  <2>2. ProtocolFields(n) = <<a, b, c, d>>
    BY DEF ProtocolFields
  <2> HIDE DEF a, b, c, d
  <2> QED
    BY <2>1, <2>2, FieldLists
<1>4. <<id, auth>> \in Seq(Texts)
  BY <1>1, FieldLists
<1>5. <<<<0, 0>>, id, auth>> \in Seq(Texts)
  <2> DEFINE z == <<0, 0>>
  <2>1. z \in Texts
    BY TextsAre
  <2> HIDE DEF z
  <2>2. <<z, id, auth>> \in Seq(Texts)
    BY <1>1, <2>1, FieldLists
  <2> QED
    BY <2>2 DEF z
<1> DEFINE x == ProtocolFields(Base \div 4) \o <<id, auth>>
           y == ProtocolFields(3 * (Base \div 4)) \o <<<<0, 0>>, id, auth>>
<1>6. x \in Seq(Texts)
  BY <1>2, <1>3, <1>4, FieldLists
<1>7. y \in Seq(Texts)
  BY <1>2, <1>3, <1>5, FieldLists
<1> HIDE DEF x, y
<1>8. Msg(CONNREQ, x) \in Messages /\ Msg(CONNREQ, y) \in Messages
  BY <1>1, <1>6, <1>7, MessageOf
<1> QED
  BY <1>8 DEF x, y

LEMMA PairMeans ==
  ASSUME NEW type \in Bytes, NEW s \in Strings, NEW t \in Strings
  PROVE  Msg(type, <<s, t>>) \in Messages
<1>1. s \in Texts /\ t \in Texts
  BY TextsAre
<1>2. <<s, t>> \in Seq(Texts)
  BY <1>1, FieldLists
<1> QED
  BY <1>2, MessageOf

LEMMA SaveMeans ==
  ASSUME NEW dst \in Destinations, NEW k \in Nat, NEW s \in Strings
  PROVE  Msg(SAVEDATA, AddressFields(dst) \o <<<<k>>, s>>) \in Messages
<1>1. s \in Texts /\ SAVEDATA \in Bytes
  BY TextsAre, TypesAreBytes
<1>2. <<<<k>>, s>> \in Seq(Texts)
  <2> DEFINE v == <<k>>
  <2>1. v \in Texts
    BY TextsAre
  <2> HIDE DEF v
  <2>2. <<v, s>> \in Seq(Texts)
    BY <1>1, <2>1, FieldLists
  <2> QED
    BY <2>2 DEF v
<1>3. AddressFields(dst) \in Seq(Texts)
  <2>1. CASE AddressFields(dst) = <<<<0>>>>
    <3> DEFINE z == <<0>>
    <3>1. z \in Texts
      BY TextsAre
    <3> HIDE DEF z
    <3>2. <<z>> \in Seq(Texts)
      BY <3>1, FieldLists
    <3> QED
      BY <2>1, <3>2 DEF z
  <2>2. CASE \E d \in Strings : AddressFields(dst) = <<<<Radix>>, d>>
    <3>1. PICK d \in Strings : AddressFields(dst) = <<<<Radix>>, d>>
      BY <2>2
    <3> DEFINE z == <<Radix>>
    <3>2. z \in Texts /\ d \in Texts
      BY TextsAre, Constants
    <3> HIDE DEF z
    <3>3. <<z, d>> \in Seq(Texts)
      BY <3>2, FieldLists
    <3> QED
      BY <3>1, <3>3 DEF z
  <2> QED
    BY <2>1, <2>2, AddressIs
<1> DEFINE x == AddressFields(dst) \o <<<<k>>, s>>
<1>4. x \in Seq(Texts)
  BY <1>2, <1>3, FieldLists
<1> HIDE DEF x
<1>5. Msg(SAVEDATA, x) \in Messages
  BY <1>1, <1>4, MessageOf
<1> QED
  BY <1>5 DEF x

\* Whatever the device sends.
LEMMA DeviceSendsLinks ==
  ASSUME StreamInv, LinkInv, Followed, EdpLogin \/ EdpHeartbeat \/ EdpPushdata \/ EdpSavedata \/ EdpCmdresp
  PROVE  LinkInv' /\ \E msg \in Messages : Sending(msg)
<1>1. CASE EdpLogin
  <2>1. PICK id \in Strings, auth \in Strings :
      \/ EspconnSend(PacketConnect1(id, auth), Msg(CONNREQ, ProtocolFields(Base \div 4) \o <<id, auth>>))
      \/ EspconnSend(PacketConnect2(id, auth), Msg(CONNREQ, ProtocolFields(3 * (Base \div 4)) \o <<<<0, 0>>, id, auth>>))
    BY <1>1 DEF EdpLogin
  <2> QED
    BY <2>1, EspconnSendLinks, Connect1Understood, Connect2Understood, LoginMeans
<1>2. CASE EdpHeartbeat
  <2>1. EspconnSend(PacketPing, Msg(PINGREQ, <<>>))
    BY <1>2 DEF EdpHeartbeat
  <2>2. Msg(PINGREQ, <<>>) \in Messages
    BY FieldLists, MessageOf, TypesAreBytes
  <2> QED
    BY <2>1, <2>2, EspconnSendLinks, PingUnderstood
<1>3. CASE EdpPushdata
  <2>1. PICK dst \in Strings, data \in Strings : EspconnSend(PacketPushdata(dst, data), Msg(PUSHDATA, <<dst, data>>))
    BY <1>3 DEF EdpPushdata
  <2>2. Msg(PUSHDATA, <<dst, data>>) \in Messages
    BY PairMeans, TypesAreBytes
  <2> QED
    BY <2>1, <2>2, EspconnSendLinks, PushdataUnderstood
<1>4. CASE EdpSavedata
  <2>1. PICK dst \in Destinations, s \in Strings :
      \/ EspconnSend(PacketSaveField(dst, s), Msg(SAVEDATA, AddressFields(dst) \o <<<<5>>, s>>))
      \/ EspconnSend(PacketSaveJson(dst, s), Msg(SAVEDATA, AddressFields(dst) \o <<<<1>>, s>>))
    BY <1>4 DEF EdpSavedata, Followed
  <2>2. /\ Msg(SAVEDATA, AddressFields(dst) \o <<<<5>>, s>>) \in Messages
        /\ Msg(SAVEDATA, AddressFields(dst) \o <<<<1>>, s>>) \in Messages
    BY SaveMeans
  <2> QED
    BY <2>1, <2>2, EspconnSendLinks, SaveFieldUnderstood
<1>5. CASE EdpCmdresp
  <2>1. PICK id \in Strings, body \in Strings : EspconnSend(PacketCmdresp(id, body), Msg(CMDRESP, <<id, body>>))
    BY <1>5 DEF EdpCmdresp
  <2>2. Msg(CMDRESP, <<id, body>>) \in Messages
    BY PairMeans, TypesAreBytes
  <2> QED
    BY <2>1, <2>2, EspconnSendLinks, CmdrespUnderstood
<1> QED
  BY <1>1, <1>2, <1>3, <1>4, <1>5

\* One packet at a time reaches the callback, which makes the next message of it.
LEMMA RecvCallbackLinks ==
  ASSUME StreamInv, LinkInv, Followed, RecvCallback
  PROVE  LinkInv' /\ Receiving
<1> DEFINE r == Len(received)
<1>1. PICK n \in 1..Len(wire) : Segment(n) /\ received' = received \o TcpclientRecv(SubSeq(wire, 1, n))
  BY DEF RecvCallback
<1>2. scenario = "packets" /\ scenario' = scenario /\ sent' = sent /\ buf' = buf
  BY DEF RecvCallback, Followed
<1>3. Pending = wire /\ buf.data = <<>> /\ Len(wire) \in Nat /\ (r = Len(sent) => Len(wire) = 0) /\ r \in Nat
  BY <1>2, PendingIs
<1>4. r # Len(sent)
  BY <1>3
<1>5. PICK b, type, rest :
        /\ Carries(scenario, b, sent[r + 1]) /\ Starts(wire, type, rest) /\ Len(b) = PackedLen(rest)
        /\ SubSeq(wire, 1, PackedLen(rest)) = b
        /\ InOrder(scenario, SubSeq(wire, PackedLen(rest) + 1, Len(wire)), sent, r + 1)
  BY <1>3, <1>4, NextPacket
<1>6. n = PackedLen(rest)
  BY <1>1, <1>2, <1>5, StartIs DEF Segment
<1>7. wire' = SubSeq(wire, PackedLen(rest) + 1, Len(wire))
  BY <1>1, <1>6 DEF Segment
<1>8. Arrives(b, sent[r + 1])
  BY <1>2, <1>5 DEF Carries
<1>9. received' = received \o <<sent[r + 1]>>
  BY <1>1, <1>5, <1>6, <1>8 DEF Arrives
<1>10. received' = Append(received, sent[r + 1])
  <2> DEFINE e == sent[r + 1]
  <2>1. received = [i \in 1..r |-> sent[i]]
    BY DEF LinkInv
  <2>2. received \in Seq({sent[i] : i \in 1..r} \cup {e})
    BY <1>3, <2>1
  <2> HIDE DEF e, r
  <2>3. received \o <<e>> = Append(received, e)
    BY <2>2
  <2> QED
    BY <1>9, <2>3 DEF e
<1>11. Pending' = SubSeq(wire, PackedLen(rest) + 1, Len(wire)) /\ buf'.data = <<>>
  <2>1. wire' \in Seq(Bytes)
    BY <1>1, SegmentTaken
  <2>2. <<>> \o wire' = wire'
    BY <2>1
  <2> QED
    BY <1>2, <1>3, <1>7, <2>2 DEF Pending
<1>12. InOrder(scenario, Pending', sent, r + 1)
  BY <1>5, <1>11
<1> QED
  BY <1>2, <1>4, <1>10, <1>11, <1>12, ReceivingKeeps

LEMMA AppendOne ==
  ASSUME StreamInv, LinkInv, Followed, NEW e
  PROVE  received \o <<e>> = Append(received, e)
<1> DEFINE r == Len(received)
<1>1. received = [i \in 1..r |-> sent[i]]
  BY DEF LinkInv
<1>2. r \in Nat
  BY PendingIs
<1>3. received \in Seq({sent[i] : i \in 1..r} \cup {e})
  BY <1>1, <1>2
<1> QED
  BY <1>3

LEMMA CutJoined ==
  ASSUME NEW w \in Seq(Bytes), NEW n \in 0..Len(w)
  PROVE  SubSeq(w, 1, n) \o SubSeq(w, n + 1, Len(w)) = w
<1> DEFINE a == SubSeq(w, 1, n)
           b == SubSeq(w, n + 1, Len(w))
<1>1. Len(w) \in Nat /\ n \in Nat
  BY LenProperties
<1>2. a \in Seq(Bytes) /\ Len(a) = n /\ \A i \in 1..n : a[i] = w[i]
  BY <1>1
<1>3. b \in Seq(Bytes) /\ Len(b) = Len(w) - n /\ \A i \in 1..Len(w) - n : b[i] = w[n + i]
  BY <1>1
<1>4. Len(w) = Len(a) + Len(b)
  <2> HIDE DEF a, b
  <2> QED
    BY <1>1, <1>2, <1>3
<1>5. (\A i \in 1..Len(a) : w[i] = a[i]) /\ (\A i \in 1..Len(b) : w[Len(a) + i] = b[i])
  BY <1>1, <1>2, <1>3
<1> HIDE DEF a, b
<1>6. a \o b = w
  BY <1>2, <1>3, <1>4, <1>5, Glued
<1> QED
  BY <1>6 DEF a, b

\* Bytes move from the wire to the buffer.
LEMMA BufferSegmentLinks ==
  ASSUME StreamInv, LinkInv, Followed, BufferSegment
  PROVE  LinkInv' /\ UNCHANGED <<sent, received>>
<1>1. PICK n \in 1..Len(wire) : Segment(n) /\ buf' = WriteBytes(buf, SubSeq(wire, 1, n))
  BY DEF BufferSegment
<1>2. Down /\ scenario = "buffered" /\ scenario' = scenario /\ sent' = sent /\ received' = received
  BY DEF BufferSegment, Down
<1> DEFINE s == SubSeq(wire, 1, n)
<1>3. /\ s \in Seq(Bytes) /\ Len(s) = n /\ wire' \in Seq(Bytes) /\ Len(wire) \in Nat /\ n \in Nat
      /\ wire' = SubSeq(wire, n + 1, Len(wire)) /\ wire \in Seq(Bytes)
  BY <1>1, SegmentTaken DEF Segment, StreamInv
<1>4. buf' = WriteBytes(buf, s)
  BY <1>1
<1>5. s \o wire' = wire
  BY <1>3, CutJoined
<1> HIDE DEF s
<1> DEFINE x == Len(sent) * Share
<1>6. x \in Nat /\ 2 * x <= Word /\ Word \in Nat
  BY Shares, Constants DEF StreamInv
<1>7. Len(buf.data) \in Nat /\ buf.data \in Seq(Bytes) /\ Sound(buf) /\ Len(wire) + Len(buf.data) <= x
  BY <1>2 DEF StreamInv, Sound, Buffers
<1> HIDE DEF x
<1>8. 2 * (Len(buf.data) + Len(s)) <= Word
  BY <1>3, <1>6, <1>7
<1>9. buf'.data = buf.data \o s
  BY <1>3, <1>4, <1>7, <1>8, WriteBytesIs
<1>10. Pending' = Pending
  <2>1. (buf.data \o s) \o wire' = buf.data \o (s \o wire')
    BY <1>3, <1>7, Regroup
  <2> QED
    BY <1>5, <1>9, <2>1 DEF Pending
<1> QED
  BY <1>2, <1>10 DEF LinkInv, Followed

\* GetEdpPacket cuts off the packet that comes next, and nothing of what follows.
LEMMA TakePacketLinks ==
  ASSUME StreamInv, LinkInv, Followed, TakePacket
  PROVE  LinkInv' /\ Receiving
<1> DEFINE n == IsPkgComplete(buf.data)
           s == SubSeq(buf.data, 1, n)
           left == SubSeq(buf.data, n + 1, Len(buf.data))
           got == GetEdpPacket(buf)
           r == Len(received)
<1>1. /\ Down /\ scenario = "buffered" /\ scenario' = scenario /\ sent' = sent /\ wire' = wire
      /\ got.pkg # <<>> /\ buf' = got.buf /\ received' = received \o TcpclientRecv(got.pkg[1].data)
  BY DEF TakePacket, Down
<1>2. buf.data \in Seq(Bytes) /\ Len(buf.data) \in Nat /\ buf \in Buffers
  BY DEF StreamInv, Sound, Buffers
<1>3. n \in Int /\ n <= Len(buf.data)
  BY <1>2, Complete
<1>4. n > 0
  <2>1. CASE n <= 0
    <3>1. got = [pkg |-> <<>>, buf |-> buf]
      BY <2>1 DEF GetEdpPacket
    <3> QED
      BY <1>1, <3>1
  <2> HIDE DEF n, got
  <2> QED
    BY <1>3, <2>1
<1>5. got = [pkg |-> <<WriteBytes(NewBuffer, s)>>, buf |-> [buf EXCEPT !.data = left]]
  <2>1. ~(n <= 0)
    <3> HIDE DEF n
    <3> QED
      BY <1>3, <1>4
  <2> QED
    BY <2>1 DEF GetEdpPacket
<1> HIDE DEF got
<1>6. received' = received \o TcpclientRecv(WriteBytes(NewBuffer, s).data) /\ buf'.data = left
  <2>1. got.pkg[1] = WriteBytes(NewBuffer, s) /\ got.buf = [buf EXCEPT !.data = left]
    BY <1>5
  <2>2. [buf EXCEPT !.data = left].data = left
    BY <1>2 DEF Buffers
  <2> QED
    BY <1>1, <2>1, <2>2
<1>7. n \in 1..Len(buf.data) /\ n \in Nat
  <2> HIDE DEF n
  <2> QED
    BY <1>2, <1>3, <1>4
<1>8. /\ s \in Seq(Bytes) /\ Len(s) = n /\ left \in Seq(Bytes) /\ Len(left) = Len(buf.data) - n
      /\ s \o left = buf.data
  <2> HIDE DEF n
  <2> QED
    BY <1>2, <1>7, Cut, CutJoined
<1>9. /\ Len(Pending) = Len(buf.data) + Len(wire) /\ wire \in Seq(Bytes) /\ Len(wire) \in Nat /\ r \in Nat
      /\ (r = Len(sent) => Len(Pending) = 0) /\ Pending \in Seq(Bytes)
  BY PendingIs
<1>10. r # Len(sent)
  <2> HIDE DEF n
  <2> QED
    BY <1>2, <1>7, <1>9
<1>11. PICK b, type, rest :
        /\ Carries(scenario, b, sent[r + 1]) /\ Starts(Pending, type, rest) /\ Len(b) = PackedLen(rest)
        /\ SubSeq(Pending, 1, PackedLen(rest)) = b
        /\ InOrder(scenario, SubSeq(Pending, PackedLen(rest) + 1, Len(Pending)), sent, r + 1)
  BY <1>10, NextPacket
<1>12. Stands(Pending, 0, buf.data)
  BY <1>2, <1>9, StandsSelf, StandsParts DEF Pending
<1>13. n = PackedLen(rest)
  BY <1>4, <1>11, <1>12, NotBefore
<1> HIDE DEF s, left, n
<1>14. Pending = s \o (left \o wire) /\ left \o wire \in Seq(Bytes)
  <2>1. (s \o left) \o wire = s \o (left \o wire)
    BY <1>8, <1>9, Regroup
  <2> QED
    BY <1>8, <1>9, <2>1, Glue DEF Pending
<1>15. s = b /\ left \o wire = SubSeq(Pending, n + 1, Len(Pending))
  <2> DEFINE y == left \o wire
             p == Pending
  <2>1. p = s \o y /\ y \in Seq(Bytes) /\ p \in Seq(Bytes) /\ SubSeq(p, 1, n) = b
    BY <1>9, <1>11, <1>13, <1>14
  <2> HIDE DEF y, p
  <2>2. SubSeq(p, 1, n) = s
    <3>1. Stands(p, 0, s)
      BY <1>8, <2>1, StandsSelf, StandsParts
    <3>2. SubSeq(p, 0 + 1, 0 + Len(s)) = s
      BY <3>1, StandsCut
    <3>3. 0 + 1 = 1 /\ 0 + Len(s) = n
      BY <1>7, <1>8
    <3> QED
      BY <3>2, <3>3, Zenon
  <2>3. SubSeq(p, n + 1, Len(p)) = y
    <3>1. Stands(p, 0 + Len(s), y) /\ Len(p) = n + Len(y)
      BY <1>8, <2>1, StandsSelf, StandsParts, Glue
    <3>2. SubSeq(p, (0 + Len(s)) + 1, (0 + Len(s)) + Len(y)) = y
      BY <3>1, StandsCut
    <3>3. (0 + Len(s)) + 1 = n + 1 /\ (0 + Len(s)) + Len(y) = Len(p)
      BY <1>7, <1>8, <3>1
    <3> QED
      BY <3>2, <3>3, Zenon
  <2> QED
    BY <2>1, <2>2, <2>3 DEF y, p
<1>16. Pending' = SubSeq(Pending, PackedLen(rest) + 1, Len(Pending))
  BY <1>1, <1>6, <1>13, <1>15 DEF Pending
<1>17. WriteBytes(NewBuffer, s).data = s
  <2>1. Sound(NewBuffer) /\ NewBuffer.data = <<>>
    BY NewIsSound
  <2> DEFINE x == Len(sent) * Share
  <2>2. x \in Nat /\ 2 * x <= Word /\ Word \in Nat
    BY Shares, Constants DEF StreamInv
  <2>3. Len(wire) + Len(buf.data) <= x
    BY <1>1 DEF StreamInv
  <2> HIDE DEF x
  <2>4. 2 * (Len(NewBuffer.data) + Len(s)) <= Word
    <3>1. Len(<<>>) = 0 /\ Len(s) <= Len(buf.data)
      BY <1>7, <1>8
    <3> QED
      BY <1>2, <1>7, <1>8, <1>9, <2>1, <2>2, <2>3, <3>1
  <2>5. WriteBytes(NewBuffer, s).data = <<>> \o s
    BY <1>8, <2>1, <2>4, WriteBytesIs
  <2>6. <<>> \o s = s
    BY <1>8
  <2> QED
    BY <2>5, <2>6
<1>18. Arrives(b, sent[r + 1])
  BY <1>1, <1>11 DEF Carries
<1>19. received' = received \o <<sent[r + 1]>>
  BY <1>6, <1>15, <1>17, <1>18 DEF Arrives
<1>20. received' = Append(received, sent[r + 1])
  BY <1>19, AppendOne
<1>21. InOrder(scenario, Pending', sent, r + 1)
  BY <1>11, <1>16
<1> QED
  BY <1>1, <1>10, <1>20, <1>21, ReceivingKeeps

\* The cloud reads the packet that comes next.
LEMMA CloudReadsLinks ==
  ASSUME StreamInv, LinkInv, Followed, CloudReads
  PROVE  LinkInv' /\ Receiving
<1> DEFINE r == Len(received)
           d == LengthDigits(wire)
           l == LengthOf(wire)
<1>1. /\ scenario = "up" /\ scenario' = scenario /\ sent' = sent /\ buf' = buf /\ Whole(wire)
      /\ received' = Append(received, CloudReading(wire)) /\ wire' = SubSeq(wire, 2 + d + l, Len(wire))
  BY DEF CloudReads
<1>2. Pending = wire /\ buf.data = <<>> /\ Len(wire) \in Nat /\ (r = Len(sent) => Len(wire) = 0) /\ r \in Nat
  BY <1>1, PendingIs
<1>3. r # Len(sent)
  BY <1>1, <1>2 DEF Whole
<1>4. PICK b, type, rest :
        /\ Carries(scenario, b, sent[r + 1]) /\ Starts(wire, type, rest) /\ Stands(wire, 0, b)
        /\ InOrder(scenario, SubSeq(wire, PackedLen(rest) + 1, Len(wire)), sent, r + 1)
  BY <1>2, <1>3, NextPacket
<1>5. CloudReading(wire) = sent[r + 1]
  BY <1>1, <1>4 DEF Carries, Understood
<1>6. received' = Append(received, sent[r + 1])
  BY <1>1, <1>5
<1>7. 1 + d + l = PackedLen(rest) /\ PackedLen(rest) \in Nat
  BY <1>4, StartIs
<1> HIDE DEF d, l
<1>8. 2 + d + l = PackedLen(rest) + 1
  <2>1. wire \in Seq(Bytes)
    BY DEF StreamInv
  <2>2. d \in Int /\ l \in Int
    <3>1. d \in {1, 2}
      BY DEF d, LengthDigits
    <3> QED
      BY <1>7, <3>1, <1>4, LengthAt, RemainParts DEF l, Starts
  <2> QED
    BY <1>7, <2>2
<1>9. Pending' = SubSeq(wire, PackedLen(rest) + 1, Len(wire)) /\ buf'.data = <<>>
  <2>1. wire' \in Seq(Bytes)
    BY CloudReadsKeeps DEF StreamInv
  <2>2. <<>> \o wire' = wire'
    BY <2>1
  <2> QED
    BY <1>1, <1>2, <1>8, <2>2 DEF Pending
<1>10. InOrder(scenario, Pending', sent, r + 1)
  BY <1>4, <1>9
<1> QED
  BY <1>1, <1>3, <1>6, <1>9, <1>10, ReceivingKeeps

\* What a step is for the channel.
StepKinds == (\E msg \in Messages : Sending(msg)) \/ Receiving \/ UNCHANGED <<sent, received>>

LEMMA StepLinks ==
  ASSUME StreamInv, LinkInv, [Next]_vars
  PROVE  LinkInv' /\ scenario' = scenario /\ (Followed => StepKinds)
<1>1. scenario' = scenario
  BY DEF Next, vars, CloudSends, RecvCallback, BufferSegment, TakePacket, EdpLogin, EdpHeartbeat, EdpPushdata,
         EdpSavedata, EdpCmdresp, EspconnSend, CloudReads
<1>2. CASE ~Followed
  BY <1>1, <1>2 DEF LinkInv, Followed
<1>3. CASE Followed
  <2>1. CASE UNCHANGED vars
    <3>1. LinkInv'
      BY <2>1 DEF LinkInv, Followed, Pending, vars
    <3> QED
      BY <2>1, <3>1 DEF vars, StepKinds
  <2>2. CASE CloudSends
    BY <1>1, <1>3, <2>2, CloudSendsLinks, CloudMeans DEF StepKinds
  <2>3. CASE EdpLogin \/ EdpHeartbeat \/ EdpPushdata \/ EdpSavedata \/ EdpCmdresp
    BY <1>1, <1>3, <2>3, DeviceSendsLinks DEF StepKinds
  <2>4. CASE RecvCallback
    BY <1>1, <1>3, <2>4, RecvCallbackLinks DEF StepKinds
  <2>5. CASE BufferSegment
    BY <1>1, <1>3, <2>5, BufferSegmentLinks DEF StepKinds
  <2>6. CASE TakePacket
    BY <1>1, <1>3, <2>6, TakePacketLinks DEF StepKinds
  <2>7. CASE CloudReads
    BY <1>1, <1>3, <2>7, CloudReadsLinks DEF StepKinds
  <2> QED
    BY <2>1, <2>2, <2>3, <2>4, <2>5, <2>6, <2>7 DEF Next
<1> QED
  BY <1>2, <1>3

\* No packet is left when the receiver has nothing more to read.
LEMMA QuietMeansAll ==
  ASSUME StreamInv, LinkInv, Followed, Quiet
  PROVE  received = sent
<1> DEFINE r == Len(received)
<1>1. r = Len(sent)
  <2> SUFFICES ASSUME r # Len(sent) PROVE FALSE
    OBVIOUS
  <2>1. PICK type, rest : Starts(Pending, type, rest)
    BY NextPacket
  <2>2. Whole(Pending) /\ PackedLen(rest) \in 2..Len(Pending) /\ IsPkgComplete(Pending) = PackedLen(rest)
    BY <2>1, StartIs
  <2>3. /\ Len(Pending) = Len(buf.data) + Len(wire) /\ Len(buf.data) \in Nat
        /\ (scenario # "buffered" => Pending = wire) /\ buf.data \in Seq(Bytes)
    BY PendingIs
  <2>4. CASE scenario = "packets"
    <3>1. wire = <<>> /\ Pending = wire
      BY <2>3, <2>4 DEF Quiet
    <3>2. Len(Pending) = 0
      BY <3>1
    <3> QED
      BY <2>2, <3>2
  <2>5. CASE scenario = "buffered"
    <3>1. wire = <<>> /\ IsPkgComplete(buf.data) <= 0
      BY <2>5 DEF Quiet
    <3>2. Pending = buf.data
      BY <2>3, <3>1 DEF Pending
    <3> QED
      BY <2>2, <3>1, <3>2
  <2>6. CASE scenario = "up"
    <3>1. ~Whole(wire) /\ Pending = wire
      BY <2>3, <2>6 DEF Quiet
    <3> QED
      BY <2>2, <3>1
  <2> QED
    BY <2>4, <2>5, <2>6, ScenarioIs
<1>2. received = [i \in 1..r |-> sent[i]]
  BY DEF LinkInv
<1>3. sent = [i \in 1..Len(sent) |-> sent[i]]
  BY DEF StreamInv
<1> QED
  BY <1>1, <1>2, <1>3

LEMMA LinkInvHolds == Spec => []LinkInv
<1>1. StreamInv /\ LinkInv /\ [Next]_vars => LinkInv'
  BY StepLinks
<1> QED
  BY <1>1, LinkInit, StreamInvHolds, PTL DEF Spec

\* Whoever reads packet by packet, the device through GetEdpPacket or one packet in each
\* callback, and the cloud, has read every message that was sent, unchanged and in order,
\* once there is nothing more to read.  tcpclient_recv on whatever TCP delivers does not.
THEOREM EverythingArrives ==
  ASSUME "stream" \notin Scenarios
  PROVE  Spec => []NothingLost
<1>1. StreamInv /\ LinkInv => NothingLost
  <2> SUFFICES ASSUME StreamInv, LinkInv, Quiet PROVE Textual(received) = Textual(sent)
    BY DEF NothingLost
  <2>1. CASE scenario = "bin"
    BY <2>1 DEF Textual
  <2>2. CASE scenario # "bin"
    <3>1. Followed
      BY <2>2 DEF StreamInv, Followed
    <3> QED
      BY <3>1, QuietMeansAll
  <2> QED
    BY <2>1, <2>2
<1> QED
  BY <1>1, StreamInvHolds, LinkInvHolds, PTL

\* And until then what has been read are the first of the messages sent: the codec and the
\* two readers implement the channel that a session may expect.
THEOREM ChannelImplemented ==
  ASSUME "stream" \notin Scenarios
  PROVE  Spec => ImplementsChannel
<1>1. Init => Channel!Init
  BY DEF Init, Channel!Init, Textual
<1>2. StreamInv /\ LinkInv /\ [Next]_vars => [Channel!Send \/ Channel!Receive]_(Channel!vars)
  <2> SUFFICES ASSUME StreamInv, LinkInv, [Next]_vars
               PROVE  Channel!Send \/ Channel!Receive \/ UNCHANGED Channel!vars
    OBVIOUS
  <2>1. scenario' = scenario /\ (Followed => StepKinds)
    BY StepLinks
  <2>2. CASE scenario = "bin"
    BY <2>1, <2>2 DEF Channel!vars, Textual
  <2>3. CASE scenario # "bin"
    <3>1. Followed
      BY <2>3 DEF StreamInv, Followed
    <3>2. /\ Textual(sent) = sent /\ Textual(received) = received
          /\ Textual(sent)' = sent' /\ Textual(received)' = received'
      BY <2>1, <2>3 DEF Textual
    <3>3. CASE UNCHANGED <<sent, received>>
      BY <3>2, <3>3 DEF Channel!vars
    <3>4. CASE Receiving
      <4>1. Len(received) < Len(sent)
        BY <3>4 DEF Receiving
      <4> QED
        BY <3>2, <3>4, <4>1 DEF Receiving, Channel!Receive
    <3>5. CASE \E msg \in Messages : Sending(msg)
      <4>1. PICK msg \in Messages : Sending(msg)
        BY <3>5
      <4>2. SubSeq(sent', 1, Len(sent)) = sent
        <5>1. sent = [i \in 1..Len(sent) |-> sent[i]]
          BY DEF StreamInv
        <5>2. \A i \in 1..Len(sent) : sent'[i] = sent[i]
          BY <4>1 DEF Sending
        <5>3. SubSeq(sent', 1, Len(sent)) = [i \in 1..Len(sent) |-> sent'[i]]
          BY <4>1 DEF Sending
        <5> QED
          BY <5>1, <5>2, <5>3
      <4>3. sent'[Len(sent')] \in Messages /\ Len(sent') = Len(sent) + 1 /\ received' = received
        BY <4>1 DEF Sending
      <4> QED
        BY <3>2, <4>2, <4>3 DEF Channel!Send, Messages
    <3> QED
      BY <2>1, <3>1, <3>3, <3>4, <3>5 DEF StepKinds
  <2> QED
    BY <2>2, <2>3
<1> QED
  BY <1>1, <1>2, StreamInvHolds, LinkInvHolds, PTL DEF Spec, ImplementsChannel, Channel!Spec

=============================================================================
