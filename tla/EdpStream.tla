----------------------------- MODULE EdpStream -----------------------------
(***************************************************************************)
(* Packets between the device and the cloud over TCP, which carries bytes  *)
(* and may cut them anywhere: tcpclient_recv and the edp_* functions of    *)
(* app/onenet/onenet_tcp.c, the callbacks of app/main/onenet_app.c, and    *)
(* GetEdpPacket of EdpKit.c, which nobody calls.                           *)
(*                                                                         *)
(* The cloud is outside src/.  Its packets are well formed, and it reads   *)
(* the device's by the reference definitions below, which know the layout  *)
(* of every packet but share nothing with EdpCodec's own operators.        *)
(***************************************************************************)
EXTENDS EdpCodec

CONSTANTS
  Strings,     \* strings that packets carry
  MaxPackets,  \* how many packets a behaviour sends
  Scenarios    \* which of the ways below a behaviour may take

\* "packets":  tcpclient_recv is called with one packet at a time
\* "stream":   it is called with whatever TCP has
\* "buffered": whatever TCP has goes into a RecvBuffer, and GetEdpPacket takes
\*             packets out of it
\* "up":       the device sends
\* "bin":      the device sends packets with binary data
ScenarioKinds == {"packets", "stream", "buffered", "up", "bin"}

\* No packet with strings no longer than s is longer.
LongestWith(s) == 42 + 5 * Len(s)

\* The reference definitions below know lengths of one digit and of two.  And all that is
\* sent in a behaviour fits into half of the addresses, as what a device has in memory does.
ASSUME StreamAssumption ==
  /\ \A s \in Strings : s \in Seq(1..Base - 1)
  /\ \A s \in Strings \cup {<<>>} :
       LongestWith(s) < Radix * Radix /\ 2 * MaxPackets * LongestWith(s) <= Word
  /\ MaxPackets \in Nat
  /\ Scenarios \subseteq ScenarioKinds

VARIABLES
  scenario,
  sent,      \* the messages sent, by whichever side sends
  received,  \* the messages the other side has made of them
  wire,      \* bytes on their way
  buf,       \* the RecvBuffer
  pkt        \* the buffer of the last packet built or taken

vars == <<scenario, sent, received, wire, buf, pkt>>

Msg(type, fields) == [type |-> type, fields |-> fields]

(***************************************************************************)
(* Reference definitions.  The layout of a packet's rest is a sequence of  *)
(* field widths: a number of bytes, or a string with a length of 2 bytes,  *)
(* data with a length of 4, or all that is left.                           *)
(***************************************************************************)
Str2 == -2
Data4 == -4
Rest == -1

\* `flag' is the flag byte of a CONNREQ or SAVEACK; a SAVEDATA packet may have an
\* address, and is of a kind.
Layout(type, addressed, flag) ==
  CASE type = CONNREQ -> <<Str2, 1, 1, 2>> \o (IF flag = Base \div 4 THEN <<>> ELSE <<2>>) \o <<Str2, Str2>>
    [] type = PUSHDATA -> <<Str2, Rest>>
    [] type = SAVEDATA -> (IF addressed THEN <<1, Str2>> ELSE <<1>>) \o <<1, Str2>>
                            \o (IF flag = 2 THEN <<Data4>> ELSE <<>>)
    [] type = SAVEACK -> IF flag = Radix THEN <<1, Str2>> ELSE <<1>>
    [] type \in {CMDREQ, CMDRESP} -> <<Str2, Data4>>
    [] type = CONNRESP -> <<1, 1>>
    [] type = CONNCLOSE -> <<1>>
    [] OTHER -> <<>>

BasePower[k \in 0..3] == IF k = 0 THEN 1 ELSE Base * BasePower[k - 1]
Big(n, bytes) == [k \in 1..bytes |-> (n \div BasePower[bytes - k]) % Base]
Small(bytes) ==
  LET first[k \in 0..Len(bytes)] == IF k = 0 THEN 0 ELSE Base * first[k - 1] + bytes[k]
  IN first[Len(bytes)]

\* Join fields to a packet, and cut a packet into fields.
Field(width, value) ==
  CASE width = Str2 -> Big(Len(value), 2) \o value
    [] width = Data4 -> Big(Len(value), 4) \o value
    [] OTHER -> value

CloudLength(n) == IF n < Radix THEN <<n>> ELSE <<Radix + (n % Radix), n \div Radix>>

Join(type, widths, fields) ==
  LET rest == FlattenSeq([i \in 1..Len(fields) |-> Field(widths[i], fields[i])])
  IN <<type>> \o CloudLength(Len(rest)) \o rest

\* The n bytes behind position p, or what there is of them.
Piece(bytes, p, n) == SubSeq(bytes, p + 1, IF p + n > Len(bytes) THEN Len(bytes) ELSE p + n)

\* How long the length of a field of this width is, how long the field behind it if its
\* length is behind position p, and the positions behind which the fields begin.
LengthBytes(width) == CASE width = Str2 -> 2 [] width = Data4 -> 4 [] OTHER -> 0
FieldBytes(rest, p, width) ==
  CASE width = Rest -> Len(rest) - p
    [] width \in {Str2, Data4} -> Small(Piece(rest, p, LengthBytes(width)))
    [] OTHER -> width
FieldEnds(rest, widths) ==
  LET at[i \in 0..Len(widths)] ==
        IF i = 0 THEN 0
        ELSE at[i - 1] + LengthBytes(widths[i]) + FieldBytes(rest, at[i - 1], widths[i])
  IN at

Split(rest, widths) ==
  [i \in 1..Len(widths) |->
     LET p == FieldEnds(rest, widths)[i - 1]
     IN Piece(rest, p + LengthBytes(widths[i]), FieldBytes(rest, p, widths[i]))]

\* The bytes of the first packet of data behind its header, or "none".
LengthDigits(data) == IF data[2] < Radix THEN 1 ELSE 2
LengthOf(data) == IF data[2] < Radix THEN data[2] ELSE data[2] - Radix + Radix * data[3]
Whole(data) ==
  /\ Len(data) >= 2 /\ Len(data) >= 1 + LengthDigits(data)
  /\ Len(data) >= 1 + LengthDigits(data) + LengthOf(data)

CloudReading(data) ==
  LET d == LengthDigits(data)
      rest == SubSeq(data, 2 + d, 1 + d + LengthOf(data))
      addressed == data[1] = SAVEDATA /\ rest[1] = Radix
      flag == CASE data[1] = CONNREQ -> rest[7]
                [] data[1] = SAVEDATA -> IF addressed THEN rest[4 + Small(<<rest[2], rest[3]>>)] ELSE rest[2]
                [] OTHER -> 0
  IN Msg(data[1], Split(rest, Layout(data[1], addressed, flag)))

(***************************************************************************)
(* What the cloud may send: the packet, and what of it the device is meant *)
(* to get.                                                                 *)
(***************************************************************************)
FromCloud(type, addressed, flag, fields, meant) ==
  [bytes |-> Join(type, Layout(type, addressed, flag), fields), meant |-> Msg(type, meant)]

CloudPackets ==
  {FromCloud(CONNRESP, FALSE, 0, <<<<0>>, <<c>>>>, <<<<c>>>>) : c \in {0, 4}}
  \cup {FromCloud(PUSHDATA, FALSE, 0, st, st) : st \in Strings \X Strings}
  \cup {FromCloud(CONNCLOSE, FALSE, 0, <<<<3>>>>, <<<<3>>>>)}
  \cup {FromCloud(SAVEDATA, FALSE, ks[1][1], <<<<0>>, ks[1], ks[2]>>, ks) : ks \in {<<1>>, <<5>>} \X Strings}
  \cup {FromCloud(SAVEDATA, TRUE, 2, <<<<Radix>>, st[1], <<2>>, st[1], st[2]>>, <<<<2>>, st[1], st[2]>>)
        : st \in Strings \X Strings}
  \cup {FromCloud(SAVEACK, FALSE, Radix, <<<<Radix>>, s>>, <<s>>) : s \in Strings}
  \cup {FromCloud(SAVEACK, FALSE, 0, <<<<0>>>>, <<>>)}
  \cup {FromCloud(CMDREQ, FALSE, 0, st, st) : st \in Strings \X Strings}
  \cup {FromCloud(PINGRESP, FALSE, 0, <<>>, <<>>)}

(***************************************************************************)
(* tcpclient_recv: what the session and the application's callbacks, all   *)
(* registered by onenet_callback_init before the client is created, are    *)
(* given.  Data that do not begin with a whole packet are dropped, and so  *)
(* is what follows the first one.                                          *)
(***************************************************************************)
Nothing == <<>>
Handed(type, unpacked) == IF unpacked.rc THEN <<Msg(type, unpacked.fields)>> ELSE Nothing

SavedataHandle(r) ==
  LET u == UnpackSavedata(r)
      body == CASE u.flag \in {<<1>>, <<3>>, <<4>>, <<5>>} -> UnpackSavedataJson(u.reader)
                [] u.flag = <<2>> -> UnpackSavedataBin(u.reader)
                [] OTHER -> Unpacked([rc |-> FALSE], <<>>)   \* an unknown kind: no callback
  IN IF ~u.reader.rc THEN Nothing ELSE Handed(SAVEDATA, [body EXCEPT !.fields = <<u.flag>> \o @])

SaveackHandle(r) ==
  LET b == ReadByte(ReadRemainlen(r))
      s == ReadStr(b)
  IN IF b.val[1] >= Radix THEN Handed(SAVEACK, Unpacked(s, <<s.val>>)) ELSE Handed(SAVEACK, Unpacked(b, <<>>))

\* The body is not copied: the callback gets the rest of the segment.
CmdreqHandle(r) ==
  LET cmdid == ReadStr(ReadRemainlen(r))
      n == ReadUint32(cmdid)
  IN Handed(CMDREQ, Unpacked(n, <<cmdid.val, SubSeq(n.data, n.pos + 1, n.pos + n.val[1])>>))

\* The code is taken to be the second byte behind the type.
ConncloseHandle(r) == LET b == ReadByte(ReadByte(r)) IN Handed(CONNCLOSE, Unpacked(b, <<b.val>>))

TcpclientRecv(data) ==
  LET r == EdpPacketType(Reader(data))
  IN IF IsPkgComplete(data) <= 0 THEN Nothing
     ELSE CASE r.val[1] = CONNRESP -> Handed(CONNRESP, UnpackConnectResp(r))
            [] r.val[1] = PUSHDATA -> Handed(PUSHDATA, UnpackPushdata(r))
            [] r.val[1] = CONNCLOSE -> ConncloseHandle(r)
            [] r.val[1] = SAVEDATA -> SavedataHandle(r)
            [] r.val[1] = SAVEACK -> SaveackHandle(r)
            [] r.val[1] = CMDREQ -> CmdreqHandle(r)
            [] r.val[1] = PINGRESP -> Handed(PINGRESP, UnpackPingResp(r))
            [] OTHER -> Nothing

(***************************************************************************)
(* From the cloud to the device.                                           *)
(***************************************************************************)
Init ==
  /\ scenario \in Scenarios
  /\ sent = <<>> /\ received = <<>>
  /\ wire = <<>> /\ buf = NewBuffer /\ pkt = NewBuffer

Down == scenario \in {"packets", "stream", "buffered"}

CloudSends ==
  /\ Down /\ Len(sent) < MaxPackets
  /\ \E p \in CloudPackets : wire' = wire \o p.bytes /\ sent' = Append(sent, p.meant)
  /\ UNCHANGED <<scenario, received, buf, pkt>>

\* One receive callback, with the n oldest bytes.
Segment(n) ==
  /\ n \in 1..Len(wire)
  /\ scenario = "packets" => Whole(wire) /\ n = 1 + LengthDigits(wire) + LengthOf(wire)
  /\ wire' = SubSeq(wire, n + 1, Len(wire))

RecvCallback ==
  /\ scenario \in {"packets", "stream"}
  /\ \E n \in 1..Len(wire) :
       Segment(n) /\ received' = received \o TcpclientRecv(SubSeq(wire, 1, n))
  /\ UNCHANGED <<scenario, sent, buf, pkt>>

BufferSegment ==
  /\ scenario = "buffered"
  /\ \E n \in 1..Len(wire) : Segment(n) /\ buf' = WriteBytes(buf, SubSeq(wire, 1, n))
  /\ UNCHANGED <<scenario, sent, received, pkt>>

TakePacket ==
  /\ scenario = "buffered"
  /\ LET got == GetEdpPacket(buf)
     IN /\ got.pkg # <<>>
        /\ buf' = got.buf /\ pkt' = got.pkg[1]
        /\ received' = received \o TcpclientRecv(got.pkg[1].data)
  /\ UNCHANGED <<scenario, sent, wire>>

(***************************************************************************)
(* From the device to the cloud: the edp_* functions.  Each packs one      *)
(* packet, hands it to espconn_send and frees it.                          *)
(***************************************************************************)
EspconnSend(packet, meant) ==
  /\ ~Down /\ Len(sent) < MaxPackets
  /\ pkt' = packet
  /\ wire' = wire \o packet.data
  /\ sent' = Append(sent, meant)
  /\ UNCHANGED <<scenario, received, buf>>

ProtocolFields(flag) == <<<<1, 2, 3>>, <<1>>, <<flag>>, <<0, Base \div 2>>>>

\* auth_method chooses between the two.
EdpLogin ==
  \E id, auth \in Strings :
    \/ EspconnSend(PacketConnect1(id, auth), Msg(CONNREQ, ProtocolFields(Base \div 4) \o <<id, auth>>))
    \/ EspconnSend(PacketConnect2(id, auth), Msg(CONNREQ, ProtocolFields(3 * (Base \div 4)) \o <<<<0, 0>>, id, auth>>))

EdpHeartbeat == EspconnSend(PacketPing, Msg(PINGREQ, <<>>))

EdpPushdata == \E dst, data \in Strings : EspconnSend(PacketPushdata(dst, data), Msg(PUSHDATA, <<dst, data>>))

Destinations == {<<>>} \cup {<<s>> : s \in Strings}
AddressFields(dst) == IF dst = <<>> THEN <<<<0>>>> ELSE <<<<Radix>>, dst[1]>>

EdpSavedata ==
  \E dst \in Destinations, s, bin \in Strings :
    \/ /\ scenario = "up"
       /\ \/ EspconnSend(PacketSaveField(dst, s), Msg(SAVEDATA, AddressFields(dst) \o <<<<5>>, s>>))
          \/ EspconnSend(PacketSaveJson(dst, s), Msg(SAVEDATA, AddressFields(dst) \o <<<<1>>, s>>))
    \/ /\ scenario = "bin"
       /\ PacketSavedataBin(dst, s, bin) # <<>>   \* edp_savedata does not look
       /\ EspconnSend(PacketSavedataBin(dst, s, bin)[1], Msg(SAVEDATA, AddressFields(dst) \o <<<<2>>, s, bin>>))

EdpCmdresp == \E id, body \in Strings : EspconnSend(PacketCmdresp(id, body), Msg(CMDRESP, <<id, body>>))

\* The cloud takes the packet behind a binary one for binary data; what it makes
\* of those is not followed.
CloudReads ==
  /\ scenario = "up" /\ Whole(wire)
  /\ received' = Append(received, CloudReading(wire))
  /\ wire' = SubSeq(wire, 2 + LengthDigits(wire) + LengthOf(wire), Len(wire))
  /\ UNCHANGED <<scenario, sent, buf, pkt>>

Next ==
  \/ CloudSends \/ RecvCallback \/ BufferSegment \/ TakePacket
  \/ EdpLogin \/ EdpHeartbeat \/ EdpPushdata \/ EdpSavedata \/ EdpCmdresp
  \/ CloudReads

Spec == Init /\ [][Next]_vars

(***************************************************************************)
(* Properties.                                                             *)
(***************************************************************************)
\* Buffers hold bytes and never more of them than they have room for, although
\* WriteRemainlen does not ask CheckCapacity.
TypeOK ==
  /\ scenario \in Scenarios
  /\ wire \in Seq(0..Base - 1)
  /\ \A b \in {buf, pkt} : b.data \in Seq(0..Base - 1) /\ Len(b.data) <= b.capacity

\* Every packet arrives once, unchanged and in order: from the cloud if the
\* receive callback gets one packet at a time, or if GetEdpPacket reassembles
\* whatever TCP delivers; and from the device.  So the lengths that the Packet*
\* functions declare are those of what they write, and what one side packs the
\* other unpacks.  Only binary data break this: PacketSavedataBin counts them and
\* does not write them, so the cloud takes the next packet for them.
Textual(messages) == IF scenario = "bin" THEN <<>> ELSE messages
Channel == INSTANCE PacketChannel WITH
  Messages <- [type : Nat, fields : Seq(Seq(Nat))], sent <- Textual(sent), received <- Textual(received)
ImplementsChannel == Channel!Spec

\* When there is nothing more to read, nothing is missing.  For the callback this
\* needs one packet at a time: "continue to receive", says the comment on
\* IsPkgComplete of a packet that is not complete yet, but tcpclient_recv drops it.
Quiet ==
  CASE scenario \in {"packets", "stream"} -> wire = <<>>
    [] scenario = "buffered" -> wire = <<>> /\ IsPkgComplete(buf.data) <= 0
    [] OTHER -> ~Whole(wire)
NothingLost == Quiet => Textual(received) = Textual(sent)
=============================================================================
