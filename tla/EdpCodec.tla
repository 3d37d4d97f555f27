------------------------------ MODULE EdpCodec ------------------------------
(***************************************************************************)
(* Packets of the EDP protocol, app/onenet/EdpKit.c: what the functions    *)
(* that pack, unpack and delimit a packet compute.  A packet is its type,  *)
(* the length of the rest in digits of 7 bits, least significant first,    *)
(* and the rest.                                                           *)
(*                                                                         *)
(* Bytes are numbers below Base, and strings (which hold no 0) are         *)
(* sequences of them.  Radix is 128 in the source; a smaller one makes     *)
(* lengths of several digits possible in short packets.                    *)
(***************************************************************************)
EXTENDS Integers, Sequences, SequencesExt

CONSTANTS
  Radix,       \* 128
  BUFFER_SIZE, \* capacity of a new buffer, 256
  Word         \* 2^32, or less: buffer positions are uint32

Base == 2 * Radix

ASSUME CodecAssumption ==
  /\ Radix \in Nat /\ Radix % 8 = 0 /\ Radix > 0
  /\ BUFFER_SIZE \in Nat /\ BUFFER_SIZE >= 6
  /\ Word \in Nat /\ Word > BUFFER_SIZE /\ Word \div 65536 <= 65536

\* Message types are multiples of 16 in a byte.
TypeByte(n) == n * (Base \div 16)
CONNREQ == TypeByte(1)
CONNRESP == TypeByte(2)
PUSHDATA == TypeByte(3)
CONNCLOSE == TypeByte(4)
SAVEDATA == TypeByte(8)
SAVEACK == TypeByte(9)
CMDREQ == TypeByte(10)
CMDRESP == TypeByte(11)
PINGREQ == TypeByte(12)
PINGRESP == TypeByte(13)

(***************************************************************************)
(* Buffers.  data holds the bytes below _write_pos, read is _read_pos.     *)
(***************************************************************************)
NewBuffer == [data |-> <<>>, read |-> 0, capacity |-> BUFFER_SIZE]

\* The capacities after 0, 1, ... 32 doublings, and after which of them len more
\* bytes fit.  Both computations wrap around at Word.
Doublings(cap) == LET d[k \in 0..32] == IF k = 0 THEN cap ELSE (2 * d[k - 1]) % Word IN d
Enough(buf, len) == {k \in 0..32 : (Doublings(buf.capacity)[k] + Word - Len(buf.data)) % Word >= len}
Least(S) == CHOOSE k \in S : \A j \in S : k <= j

\* Mutant: the capacity is doubled at most once.
DoubledOnce(buf, len) ==
  LET cap == Doublings(buf.capacity)[IF 0 \in Enough(buf, len) THEN 0 ELSE 1]
  IN IF Enough(buf, len) = {} THEN [ok |-> FALSE, buf |-> buf]
     ELSE [ok |-> TRUE, buf |-> [buf EXCEPT !.capacity = IF cap > @ THEN cap ELSE @]]

CheckCapacity(buf, len) ==
  LET cap == Doublings(buf.capacity)[Least(Enough(buf, len))]
  IN IF Enough(buf, len) = {} THEN [ok |-> FALSE, buf |-> buf]
     ELSE [ok |-> TRUE, buf |-> [buf EXCEPT !.capacity = IF cap > @ THEN cap ELSE @]]

WriteBytes(buf, bytes) ==
  LET room == CheckCapacity(buf, Len(bytes))
  IN IF room.ok THEN [room.buf EXCEPT !.data = @ \o bytes] ELSE buf

(***************************************************************************)
(* The remaining length.                                                   *)
(***************************************************************************)
\* What a 1 in the digit behind k others is worth.
Power[k \in 0..5] == IF k = 0 THEN 1 ELSE Radix * Power[k - 1]

Digit(n, k) == (n \div Power[k - 1]) % Radix
\* At most five digits are written.
DigitCount(n) == Least({5} \cup {k \in 1..4 : n \div Power[k] = 0})

RemainBytes(n) ==
  [k \in 1..DigitCount(n) |-> Digit(n, k) + (IF n \div Power[k] > 0 THEN Radix ELSE 0)]

\* WriteRemainlen does not look at the capacity.
WriteRemainlen(buf, n) == [buf EXCEPT !.data = @ \o RemainBytes(n)]

\* The digits that start behind position pos of data: how many, at most four,
\* and whether the last of them is there.
Digits(data, pos) ==
  LET ends == {k \in 1..4 : pos + k <= Len(data) /\ data[pos + k] < Radix}
  IN IF ends = {} THEN 0 ELSE Least(ends)
DigitSum(data, pos, k) ==
  LET at(j) == IF j <= k THEN (data[pos + j] % Radix) * Power[j - 1] ELSE 0
  IN at(1) + at(2) + at(3) + at(4)

\* > 0: the length of the packet at the start of data; 0: go on receiving;
\* -1: no packet can start like this.
IsPkgComplete(data) ==
  LET k == Digits(data, 1)
      total == 1 + k + DigitSum(data, 1, k)
  IN CASE k > 0 /\ total <= Len(data) -> total
       [] k = 0 /\ Len(data) > 4 -> -1
       [] OTHER -> 0

(***************************************************************************)
(* Packing.  Every function declares a length and then writes its fields;  *)
(* the two are computed apart from each other.                             *)
(***************************************************************************)
Uint16(n) == <<(n \div Base) % Base, n % Base>>
Uint32(n) == Uint16(n \div (Base * Base)) \o Uint16(n % (Base * Base))
Str(s) == Uint16(Len(s)) \o s

Pack(type, remainlen, fields) ==
  FoldLeft(WriteBytes, WriteRemainlen(WriteBytes(NewBuffer, <<type>>), remainlen), fields)

\* "EDP", the protocol version and the keep-alive time
Protocol(flag) == Str(<<1, 2, 3>>) \o <<1, flag>> \o Uint16(Base \div 2)

PacketConnect1(devid, auth_key) ==
  Pack(CONNREQ, (2 + 3) + 1 + 1 + 2 + (2 + Len(devid)) + (2 + Len(auth_key)),
       <<Protocol(Base \div 4), Str(devid), Str(auth_key)>>)

PacketConnect2(userid, auth_info) ==
  Pack(CONNREQ, (2 + 3) + 1 + 1 + 2 + 2 + (2 + Len(userid)) + (2 + Len(auth_info)),
       <<Protocol(3 * (Base \div 4)), <<0, 0>>, Str(userid), Str(auth_info)>>)

PacketPushdata(dst_devid, data) ==
  Pack(PUSHDATA, (2 + Len(dst_devid)) + Len(data), <<Str(dst_devid), data>>)

\* The address flag and, if it is set, the address: dst_devid is <<>> (a null
\* pointer) or <<string>>.
Translated == Radix
Address(dst_devid) == IF dst_devid = <<>> THEN <<0>> ELSE <<Translated>> \o Str(dst_devid[1])
AddressLen(dst_devid) == IF dst_devid = <<>> THEN 1 ELSE 1 + (2 + Len(dst_devid[1]))

PacketSaveField(dst_devid, field) ==
  Pack(SAVEDATA, AddressLen(dst_devid) + 1 + (2 + Len(field)), <<Address(dst_devid), <<5>>, Str(field)>>)

PacketSaveJson(dst_devid, json_str) ==
  Pack(SAVEDATA, AddressLen(dst_devid) + 1 + (2 + Len(json_str)), <<Address(dst_devid), <<1>>, Str(json_str)>>)

\* <<>> is a null pointer.  The binary data are counted but not written: the call
\* that would write them is commented out.
PacketSavedataBin(dst_devid, json_str, bin_data) ==
  IF Len(json_str) > 65536 \/ Len(bin_data) > 3 * 1048576 THEN <<>>
  ELSE <<Pack(SAVEDATA, AddressLen(dst_devid) + 1 + (2 + Len(json_str)) + (4 + Len(bin_data)),
              <<Address(dst_devid), <<2>>, Str(json_str), Uint32(Len(bin_data))>>)>>

\* Mutant: the length of the id is forgotten.
CmdrespShort(cmdid, cmdbody) ==
  Pack(CMDRESP, Len(cmdid) + 4 + Len(cmdbody), <<Str(cmdid), Uint32(Len(cmdbody)), cmdbody>>)

PacketCmdresp(cmdid, cmdbody) ==
  Pack(CMDRESP, 2 + Len(cmdid) + 4 + Len(cmdbody), <<Str(cmdid), Uint32(Len(cmdbody)), cmdbody>>)

PacketPing == Pack(PINGREQ, 0, <<>>)

(***************************************************************************)
(* Unpacking.  A reader is the packet and what was read last; rc is FALSE  *)
(* once a read has failed, and then nothing more is read.                  *)
(***************************************************************************)
Reader(data) == [data |-> data, pos |-> 0, rc |-> TRUE, val |-> <<>>]
CanRead(r, n) == r.rc /\ r.pos + n <= Len(r.data)
ReadBytes(r, n) ==
  IF CanRead(r, n) THEN [r EXCEPT !.pos = @ + n, !.val = SubSeq(r.data, r.pos + 1, r.pos + n)]
  ELSE [r EXCEPT !.rc = FALSE]
ReadByte(r) == ReadBytes(r, 1)
ReadUint16(r) ==
  LET b == ReadBytes(r, 2)
  IN IF b.rc THEN [b EXCEPT !.val = <<Base * @[1] + @[2]>>] ELSE b
ReadUint32(r) ==
  LET b == ReadBytes(r, 4)
  IN IF b.rc THEN [b EXCEPT !.val = <<Base * (Base * (Base * @[1] + @[2]) + @[3]) + @[4]>>] ELSE b
ReadStr(r) ==
  LET l == ReadUint16(r)
  IN IF l.rc THEN ReadBytes(l, l.val[1]) ELSE l

ReadRemainlen(r) ==
  LET k == Digits(r.data, r.pos)
  IN IF k = 0 THEN [r EXCEPT !.rc = FALSE]
     ELSE [r EXCEPT !.pos = @ + k, !.val = <<DigitSum(r.data, r.pos, k)>>]

\* The value of the first byte read, the type, is r.val of the reader given.
EdpPacketType(r) == ReadByte(r)

Unpacked(r, fields) == [rc |-> r.rc, fields |-> IF r.rc THEN fields ELSE <<>>]

UnpackConnectResp(r) ==
  LET rtn == ReadByte(ReadByte(ReadRemainlen(r))) IN Unpacked(rtn, <<rtn.val>>)

\* The length of the data is what the address leaves of the remaining length.
UnpackPushdata(r) ==
  LET n == ReadRemainlen(r)
      src == ReadStr(n)
      data == IF src.rc THEN ReadBytes(src, n.val[1] - (2 + Len(src.val))) ELSE src
  IN Unpacked(data, <<src.val, data.val>>)

UnpackSavedata(r) ==
  LET ta == ReadByte(ReadRemainlen(r))
      src == IF ta.val = <<Translated>> THEN ReadStr(ta) ELSE [ta EXCEPT !.val = <<>>]
      flag == ReadByte(src)
  IN [reader |-> flag, src_devid |-> src.val, flag |-> flag.val]

UnpackSavedataJson(r) == LET s == ReadStr(r) IN Unpacked(s, <<s.val>>)

UnpackSavedataBin(r) ==
  LET s == ReadStr(r)
      n == ReadUint32(s)
      bin == IF n.rc THEN ReadBytes(n, n.val[1]) ELSE n
  IN Unpacked(bin, <<s.val, bin.val>>)

UnpackPingResp(r) == Unpacked(ReadRemainlen(r), <<>>)

(***************************************************************************)
(* GetEdpPacket: cut the first packet off a receive buffer.                *)
(***************************************************************************)
\* Mutant: the buffer is not shrunk by the whole packet.
KeepsLastByte(buf) ==
  LET n == IsPkgComplete(buf.data)
  IN IF n <= 0 THEN [pkg |-> <<>>, buf |-> buf]
     ELSE [pkg |-> <<WriteBytes(NewBuffer, SubSeq(buf.data, 1, n))>>,
           buf |-> [buf EXCEPT !.data = SubSeq(@, n, Len(@))]]

GetEdpPacket(buf) ==
  LET n == IsPkgComplete(buf.data)
  IN IF n <= 0 THEN [pkg |-> <<>>, buf |-> buf]
     ELSE [pkg |-> <<WriteBytes(NewBuffer, SubSeq(buf.data, 1, n))>>,
           buf |-> [buf EXCEPT !.data = SubSeq(@, n + 1, Len(@))]]
=============================================================================
