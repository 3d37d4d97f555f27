-------------------------- MODULE EdpClientProofs --------------------------
(***************************************************************************)
(* What holds of an EDP session for every send buffer and in every world   *)
(* of EdpClient: types, the timer that keeps a session or a lost           *)
(* connection alive, and the life cycle the network task relies on.        *)
(***************************************************************************)
EXTENDS EdpClient, SequenceTheorems, TLAPS

-----------------------------------------------------------------------------
(* What is on its way to the server *)

Requests == {"login", "ping"}

\* A heartbeat has not been answered yet.
PingIn(requests) == \E i \in 1 .. Len(requests) : requests[i] = "ping"

\* Sending appends, and at most up to the buffer's size.
LEMMA SentTypes ==
  ASSUME NEW c, NEW requests \in Seq(Requests), Len(requests) <= SendBuffer,
         NEW r \in Requests
  PROVE  /\ Sent(c, requests, r) \in Seq(Requests)
         /\ Len(Sent(c, requests, r)) <= SendBuffer
<1>1. CASE s_pespconn_tcp /\ Up(c) /\ Len(requests) < SendBuffer
  <2>1. Sent(c, requests, r) = Append(requests, r)
    BY <1>1 DEF Sent
  <2>2. Append(requests, r) \in Seq(Requests) /\ Len(Append(requests, r)) = Len(requests) + 1
    BY AppendProperties
  <2> QED
    BY <1>1, <2>1, <2>2, LenProperties, EdpClientAssumption
<1>2. CASE ~(s_pespconn_tcp /\ Up(c) /\ Len(requests) < SendBuffer)
  BY <1>2 DEF Sent
<1> QED
  BY <1>1, <1>2

\* Sending a login does not bring a heartbeat in.
LEMMA SentLogin ==
  ASSUME NEW c, NEW requests \in Seq(Requests), PingIn(Sent(c, requests, "login"))
  PROVE  PingIn(requests)
<1>1. CASE Sent(c, requests, "login") = Append(requests, "login")
  <2>1. PICK i \in 1 .. Len(Append(requests, "login")) : Append(requests, "login")[i] = "ping"
    BY <1>1 DEF PingIn
  <2>2. i \in 1 .. Len(requests) /\ requests[i] = "ping"
    BY <2>1, AppendProperties, LenProperties DEF Requests
  <2> QED
    BY <2>2 DEF PingIn
<1>2. CASE Sent(c, requests, "login") = requests
  BY <1>2
<1> QED
  BY <1>1, <1>2 DEF Sent

\* Answering takes the oldest request away.
LEMMA Answered ==
  ASSUME NEW requests \in Seq(Requests), requests # <<>>
  PROVE  /\ Tail(requests) \in Seq(Requests)
         /\ Len(Tail(requests)) = Len(requests) - 1
         /\ PingIn(Tail(requests)) => PingIn(requests)
         /\ Head(requests) = "ping" => PingIn(requests)
<1>1. /\ Tail(requests) \in Seq(Requests)
      /\ Len(Tail(requests)) = Len(requests) - 1
      /\ \A i \in 1 .. Len(Tail(requests)) : Tail(requests)[i] = requests[i + 1]
      /\ Len(requests) \in Nat \ {0}
  BY HeadTailProperties, LenProperties, EmptySeq
<1>2. PingIn(Tail(requests)) => PingIn(requests)
  <2> SUFFICES ASSUME NEW i \in 1 .. Len(Tail(requests)), Tail(requests)[i] = "ping"
               PROVE  PingIn(requests)
    BY DEF PingIn
  <2>1. i + 1 \in 1 .. Len(requests) /\ requests[i + 1] = "ping"
    BY <1>1
  <2> QED
    BY <2>1 DEF PingIn
<1>3. Head(requests) = "ping" => PingIn(requests)
  BY <1>1 DEF PingIn
<1> QED
  BY <1>1, <1>2, <1>3

LEMMA NoPingInEmpty == ~PingIn(<<>>)
  BY DEF PingIn

-----------------------------------------------------------------------------
(* Types *)

SessionTypes ==
  /\ s_onenet_tcp_state \in States
  /\ s_heartbeat_miss \in 0 .. 4
  /\ s_login_miss \in 0 .. 4
  /\ s_login_timer \in {"off", "onenet_login_check", "onenet_heartbeat_check"}
  /\ Established => s_heartbeat_miss <= 3

RequestTypes == unanswered \in Seq(Requests) /\ Len(unanswered) <= SendBuffer

LinkTypes ==
  /\ conn \in {"closed", "connecting", "open", "lost", "closing"}
  /\ RequestTypes

ReconnectionTypes ==
  /\ s_reconnect_state \in {0, 1}
  /\ s_reconnect_timer \in BOOLEAN
  /\ overtakes \in BOOLEAN

DeletionTypes ==
  /\ s_pespconn_tcp \in BOOLEAN
  /\ s_disconnect_evt \in {0, 1}
  /\ s_disconnect_timer \in BOOLEAN

\* The invariant in the groups of variables the actions leave alone together.
LEMMA TypeParts ==
  /\ TypeOK <=> /\ SessionTypes /\ LinkTypes /\ ReconnectionTypes /\ DeletionTypes
                /\ good \in BOOLEAN /\ world \in Worlds
  /\ TypeOK' <=> /\ SessionTypes' /\ LinkTypes' /\ ReconnectionTypes' /\ DeletionTypes'
                 /\ good' \in BOOLEAN /\ world' \in Worlds
  BY DEF TypeOK, SessionTypes, LinkTypes, RequestTypes, ReconnectionTypes,
         DeletionTypes, Requests

\* What is left alone keeps its types.
LEMMA UnchangedTypes ==
  /\ SessionTypes /\ UNCHANGED session => SessionTypes'
  /\ LinkTypes /\ UNCHANGED link => LinkTypes'
  /\ ReconnectionTypes /\ UNCHANGED reconnection => ReconnectionTypes'
  /\ DeletionTypes /\ UNCHANGED deletion => DeletionTypes'
  BY DEF SessionTypes, Established, LinkTypes, RequestTypes, ReconnectionTypes, DeletionTypes,
         session, link, reconnection, deletion

\* A login check with any link keeps the types, whatever becomes of the heartbeat misses.
LEMMA LoginCheckTypes ==
  ASSUME NEW c, NEW requests \in Seq(Requests), Len(requests) <= SendBuffer,
         SessionTypes, ReconnectionTypes, LoginCheck(c, requests),
         s_heartbeat_miss' \in 0 .. 4
  PROVE  SessionTypes' /\ RequestTypes' /\ ReconnectionTypes'
<1>1. SessionTypes'
  BY DEF SessionTypes, LoginCheck, ArmReconnectTimer, ArmLoginTimer, States, Established
<1>2. RequestTypes'
  BY SentTypes DEF LoginCheck, RequestTypes, Requests
<1>3. ReconnectionTypes'
  BY DEF ReconnectionTypes, LoginCheck, ArmReconnectTimer, ArmLoginTimer
<1> QED
  BY <1>1, <1>2, <1>3

\* So does a heartbeat, with at most three misses.
LEMMA HeartbeatTypes ==
  ASSUME NEW requests \in Seq(Requests), Len(requests) <= SendBuffer,
         SessionTypes, ReconnectionTypes, Heartbeat(requests),
         s_heartbeat_miss' \in 0 .. 3, s_login_miss' \in 0 .. 4
  PROVE  SessionTypes' /\ RequestTypes' /\ ReconnectionTypes'
<1>1. SessionTypes'
  BY DEF SessionTypes, Heartbeat, ArmLoginTimer, States, Established
<1>2. RequestTypes'
  BY SentTypes DEF Heartbeat, RequestTypes, Requests
<1>3. ReconnectionTypes'
  BY DEF ReconnectionTypes, Heartbeat, ArmLoginTimer
<1> QED
  BY <1>1, <1>2, <1>3

\* So does a step of the reconnection.
LEMMA ReconnectCheckTypes ==
  ASSUME NEW c \in {"closed", "connecting", "open", "lost", "closing"}, NEW armed \in BOOLEAN,
         SessionTypes, ReconnectionTypes, ReconnectCheck(c, armed),
         UNCHANGED <<s_heartbeat_miss, s_login_miss, s_login_timer>>
  PROVE  SessionTypes' /\ LinkTypes' /\ ReconnectionTypes'
<1>1. SessionTypes'
  BY DEF SessionTypes, ReconnectCheck, ArmReconnectTimer, States, Established
<1>2. LinkTypes'
  <2>1. conn' \in {"closed", "connecting", "open", "lost", "closing"}
    BY DEF ReconnectCheck, EspconnDisconnect, EspconnConnect
  <2>2. unanswered' = <<>>
    BY DEF ReconnectCheck, EspconnDisconnect, EspconnConnect
  <2> QED
    BY <2>1, <2>2, EmptySeq, EdpClientAssumption DEF LinkTypes, RequestTypes
<1>3. ReconnectionTypes'
  BY DEF ReconnectionTypes, ReconnectCheck, ArmReconnectTimer
<1> QED
  BY <1>1, <1>2, <1>3

LEMMA InitTypes == Init => TypeOK
<1> SUFFICES ASSUME Init PROVE TypeOK
  OBVIOUS
<1>1. LinkTypes
  BY EmptySeq, EdpClientAssumption DEF Init, LinkTypes, RequestTypes
<1>2. SessionTypes
  BY DEF Init, SessionTypes, States, Established
<1>3. ReconnectionTypes /\ DeletionTypes
  BY DEF Init, ReconnectionTypes, DeletionTypes
<1> QED
  BY <1>1, <1>2, <1>3, TypeParts DEF Init

LEMMA NextTypes == TypeOK /\ [Next]_vars => TypeOK'
<1> SUFFICES ASSUME TypeOK, [Next]_vars PROVE TypeOK'
  OBVIOUS
<1>0. /\ SessionTypes /\ LinkTypes /\ ReconnectionTypes /\ DeletionTypes
      /\ good \in BOOLEAN /\ world \in Worlds
  BY TypeParts
<1>1. CASE LoginTimeout
  <2>1. s_heartbeat_miss' \in 0 .. 4
    BY <1>0, <1>1 DEF LoginTimeout, SessionTypes
  <2>2. SessionTypes' /\ RequestTypes' /\ ReconnectionTypes'
    BY <1>0, <1>1, <2>1, LoginCheckTypes DEF LoginTimeout, LinkTypes, RequestTypes
  <2> QED
    BY <1>0, <1>1, <2>2, TypeParts, UnchangedTypes DEF LoginTimeout, LoginTimerFires, LinkTypes
<1>2. CASE HeartbeatTimeout
  <2>1. LoginTimerFires("onenet_heartbeat_check")
    BY <1>2 DEF HeartbeatTimeout
  <2>2. SessionTypes' /\ RequestTypes' /\ ReconnectionTypes'
    <3>1. Established => Misses \in 0 .. 4
      BY <1>0 DEF Misses, SessionTypes
    <3>2. CASE Established /\ Misses > 3 /\ s_heartbeat_miss' = Misses /\ LoginCheck(conn, unanswered)
      BY <1>0, <3>1, <3>2, LoginCheckTypes DEF LinkTypes, RequestTypes
    <3>3. CASE /\ Established /\ Misses <= 3 /\ s_heartbeat_miss' = Misses
               /\ Heartbeat(unanswered) /\ UNCHANGED s_login_miss
      <4>1. s_heartbeat_miss' \in 0 .. 3 /\ s_login_miss' \in 0 .. 4
        BY <1>0, <3>1, <3>3 DEF SessionTypes
      <4> QED
        BY <1>0, <3>3, <4>1, HeartbeatTypes DEF LinkTypes, RequestTypes
    <3>4. CASE /\ ~Established /\ s_login_timer' = "off"
               /\ UNCHANGED <<s_onenet_tcp_state, s_heartbeat_miss, s_login_miss, unanswered,
                              reconnection>>
      BY <1>0, <3>4, UnchangedTypes DEF SessionTypes, Established, LinkTypes, RequestTypes
    <3> QED
      BY <1>2, <3>2, <3>3, <3>4 DEF HeartbeatTimeout
  <2> QED
    BY <1>0, <2>1, <2>2, TypeParts, UnchangedTypes DEF LoginTimerFires, LinkTypes
<1>3. CASE ReconnectTimeout
  <2>1. SessionTypes' /\ LinkTypes' /\ ReconnectionTypes'
    BY <1>0, <1>3, ReconnectCheckTypes DEF ReconnectTimeout, LinkTypes
  <2> QED
    BY <1>0, <1>3, <2>1, TypeParts, UnchangedTypes DEF ReconnectTimeout
<1>4. CASE DisconnectTimeout
  <2>1. SessionTypes'
    BY <1>0, <1>4 DEF DisconnectTimeout, SessionTypes, States, Established
  <2>2. DeletionTypes'
    BY <1>4 DEF DisconnectTimeout, DeletionTypes
  <2> QED
    BY <1>0, <1>4, <2>1, <2>2, TypeParts, UnchangedTypes DEF DisconnectTimeout
<1>5. CASE Connected
  <2>1. SessionTypes' /\ RequestTypes' /\ ReconnectionTypes'
    <3>1. <<>> \in Seq(Requests) /\ Len(<<>>) <= SendBuffer
      BY EmptySeq, EdpClientAssumption
    <3>2. s_heartbeat_miss' \in 0 .. 4 /\ LoginCheck("open", <<>>)
      BY <1>0, <1>5 DEF Connected, SessionTypes
    <3> QED
      BY <1>0, <3>1, <3>2, LoginCheckTypes
  <2> QED
    BY <1>0, <1>5, <2>1, TypeParts, UnchangedTypes DEF Connected, LinkTypes
<1>6. ASSUME DisconCb PROVE TypeOK'
  <2>1. SessionTypes' /\ LinkTypes' /\ ReconnectionTypes'
    <3>1. CASE /\ conn' = "closed" /\ unanswered' = <<>>
               /\ UNCHANGED <<s_onenet_tcp_state, reconnection>>
      BY <1>0, <1>6, <3>1, UnchangedTypes, EmptySeq, EdpClientAssumption
         DEF DisconCb, SessionTypes, Established, LinkTypes, RequestTypes
    <3>2. CASE ReconnectCheck("closed", s_reconnect_timer)
      BY <1>0, <1>6, <3>2, ReconnectCheckTypes DEF DisconCb, ReconnectionTypes
    <3> QED
      BY <1>6, <3>1, <3>2 DEF DisconCb
  <2>2. DeletionTypes'
    BY <1>0, <1>6 DEF DisconCb, DeletionTypes
  <2> QED
    BY <1>0, <1>6, <2>1, <2>2, TypeParts DEF DisconCb
<1>7. CASE Disconnected \/ ServerCloses
  BY <1>6, <1>7 DEF Disconnected, ServerCloses
<1>8. CASE Recv
  <2>1. Tail(unanswered) \in Seq(Requests) /\ Len(Tail(unanswered)) <= SendBuffer
    BY <1>0, <1>8, Answered, LenProperties, EdpClientAssumption DEF Recv, LinkTypes, RequestTypes
  <2>2. SessionTypes' /\ RequestTypes' /\ ReconnectionTypes'
    <3>1. CASE ConnrespOk
      <4>1. s_heartbeat_miss' \in 0 .. 3 /\ s_login_miss' \in 0 .. 4
        BY <3>1 DEF ConnrespOk
      <4> QED
        BY <1>0, <2>1, <3>1, <4>1, HeartbeatTypes DEF ConnrespOk
    <3>2. CASE ConnrespError
      BY <1>0, <2>1, <3>2, UnchangedTypes DEF ConnrespError, SessionTypes, Established, RequestTypes
    <3>3. CASE Pingresp
      BY <1>0, <2>1, <3>3, UnchangedTypes DEF Pingresp, SessionTypes, States, Established, RequestTypes
    <3> QED
      BY <1>8, <3>1, <3>2, <3>3 DEF Recv
  <2> QED
    BY <1>0, <1>8, <2>2, TypeParts, UnchangedTypes DEF Recv, LinkTypes
<1>9. CASE RecvConnclose
  <2>1. ReconnectionTypes'
    BY <1>9 DEF RecvConnclose, ArmReconnectTimer, ReconnectionTypes
  <2> QED
    BY <1>0, <1>9, <2>1, TypeParts, UnchangedTypes DEF RecvConnclose, Fault
<1>10. CASE ConnectionFails
  <2>1. LinkTypes'
    BY <1>10, EmptySeq, EdpClientAssumption DEF ConnectionFails, LinkTypes, RequestTypes
  <2> QED
    BY <1>0, <1>10, <2>1, TypeParts, UnchangedTypes DEF ConnectionFails, Fault
<1>11. CASE ServerVanishes
  <2>1. LinkTypes'
    BY <1>0, <1>11 DEF ServerVanishes, LinkTypes, RequestTypes
  <2> QED
    BY <1>0, <1>11, <2>1, TypeParts, UnchangedTypes DEF ServerVanishes, Fault
<1>12. CASE GetsWell
  BY <1>0, <1>12, TypeParts, UnchangedTypes DEF GetsWell
<1>13. CASE Create
  <2>1. LinkTypes' /\ DeletionTypes'
    BY <1>0, <1>13 DEF Create, LinkTypes, RequestTypes, DeletionTypes
  <2> QED
    BY <1>0, <1>13, <2>1, TypeParts, UnchangedTypes DEF Create
<1>14. CASE Delete
  <2>1. LinkTypes'
    BY <1>0, <1>14, EmptySeq, EdpClientAssumption DEF Delete, EspconnDisconnect, LinkTypes, RequestTypes
  <2>2. DeletionTypes'
    BY <1>0, <1>14 DEF Delete, DeletionTypes
  <2> QED
    BY <1>0, <1>14, <2>1, <2>2, TypeParts, UnchangedTypes DEF Delete
<1>15. CASE UNCHANGED vars
  BY <1>0, <1>15, TypeParts, UnchangedTypes DEF vars
<1> QED
  BY <1>1, <1>2, <1>3, <1>4, <1>5, <1>7, <1>8, <1>9, <1>10, <1>11, <1>12, <1>13, <1>14, <1>15
     DEF Next

\* Every variable keeps its type (onenet_tcp.c:26-45), for every world and send buffer; the
\* counters stay within the limits the code compares them with, and an established session has
\* missed three heartbeats at most (onenet_tcp.c:101-113).
THEOREM TypeCorrect == Spec => []TypeOK
<1> QED
  BY InitTypes, NextTypes, PTL DEF Spec

-----------------------------------------------------------------------------
(* The life cycle *)

\* Only an object that is there is being closed.
ClosingExists == s_disconnect_timer => s_pespconn_tcp

\* What the client is to the network task.
Client == IF ~s_pespconn_tcp THEN "none" ELSE IF s_disconnect_timer THEN "closing" ELSE "open"

\* Every step creates, closes or frees the object as ClientLifecycle allows, or leaves it alone.
LEMMA LifecycleStep ==
  ASSUME TypeOK, ClosingExists, [Next]_vars
  PROVE  ClosingExists' /\ [Lifecycle!Next]_Client
<1> USE DEF ClosingExists, Client
<1>1. CASE Create
  <2>1. ClosingExists' /\ Lifecycle!Create
    BY <1>1 DEF TypeOK, Create, Lifecycle!Create
  <2> QED
    BY <2>1 DEF Lifecycle!Next
<1>2. CASE Delete
  <2>1. ClosingExists' /\ Lifecycle!Delete
    BY <1>2 DEF TypeOK, Delete, Lifecycle!Delete
  <2> QED
    BY <2>1 DEF Lifecycle!Next
<1>3. CASE DisconnectTimeout
  <2>1. ClosingExists' /\ Lifecycle!Freed
    BY <1>3 DEF TypeOK, DisconnectTimeout, Lifecycle!Freed
  <2> QED
    BY <2>1 DEF Lifecycle!Next
<1>4. CASE UNCHANGED <<s_pespconn_tcp, s_disconnect_timer>>
  BY <1>4
<1>5. CASE LoginTimeout \/ HeartbeatTimeout \/ Connected \/ Recv
  BY <1>4, <1>5 DEF LoginTimeout, HeartbeatTimeout, LoginTimerFires, Connected, Recv, deletion
<1>6. CASE ReconnectTimeout \/ Disconnected \/ ServerCloses
  BY <1>4, <1>6 DEF ReconnectTimeout, Disconnected, ServerCloses, DisconCb, deletion
<1>7. CASE RecvConnclose \/ ConnectionFails \/ ServerVanishes \/ GetsWell \/ UNCHANGED vars
  BY <1>4, <1>7 DEF RecvConnclose, ConnectionFails, ServerVanishes, GetsWell, deletion, vars
<1> QED
  BY <1>1, <1>2, <1>3, <1>5, <1>6, <1>7 DEF Next

\* The client object is created, closed and freed in this order, whatever the connection and
\* the timers do meanwhile (onenet_tcp.c:519-596).
THEOREM LifecycleImplemented == Spec => ImplementsLifecycle
<1>1. Init => ClosingExists /\ Lifecycle!Init
  BY DEF Init, ClosingExists, Lifecycle!Init
<1>2. TypeOK /\ ClosingExists /\ [Next]_vars => ClosingExists' /\ [Lifecycle!Next]_Client
  BY LifecycleStep
<1>3. Spec => []TypeOK
  BY TypeCorrect
<1>4. Spec => Lifecycle!Init /\ [][Lifecycle!Next]_Client
  BY <1>1, <1>2, <1>3, PTL DEF Spec
<1> QED
  BY <1>4 DEF ImplementsLifecycle, Lifecycle!Spec, Client

-----------------------------------------------------------------------------
(* The timers that keep a session alive *)

\* A client that nobody deletes stays, and before it is created nothing has begun.
Begun == conn # "closed" \/ s_login_timer # "off" \/ s_reconnect_timer \/ s_reconnect_state # 0

Kept ==
  ~world.deletes =>
    /\ ~s_disconnect_timer
    /\ s_disconnect_evt = 0
    /\ Begun => s_pespconn_tcp

(***************************************************************************)
(* A heartbeat that is on its way was sent by the branch that arms the     *)
(* next one, and its answer makes the session count as established again,  *)
(* even one given up since.  So s_login_timer must be armed whenever one   *)
(* is on its way, too, and with a heartbeat only while it is established.  *)
(***************************************************************************)
PingsTimed ==
  PingIn(unanswered) =>
    \/ s_login_timer = "onenet_login_check"
    \/ s_login_timer = "onenet_heartbeat_check" /\ Established

HeartbeatInv ==
  "refuse" \notin world.faults /\ ~world.deletes =>
    /\ Established => s_login_timer # "off"
    /\ PingsTimed

\* The world never changes.
LEMMA SameWorld == [Next]_vars => world' = world
  BY DEF Next, LoginTimeout, HeartbeatTimeout, LoginTimerFires, ReconnectTimeout,
         DisconnectTimeout, Connected, Disconnected, DisconCb, Recv, RecvConnclose, ServerCloses,
         ConnectionFails, ServerVanishes, Fault, GetsWell, Create, Delete, vars

\* No step of a world without deletions disarms or frees the client.
LEMMA KeptStep ==
  ASSUME Kept, [Next]_vars
  PROVE  Kept'
<1>0. world' = world
  BY SameWorld
<1> SUFFICES ASSUME ~world.deletes PROVE Kept'
  BY <1>0 DEF Kept
<1>1. /\ ~s_disconnect_timer /\ s_disconnect_evt = 0
      /\ Begun => s_pespconn_tcp
  BY <1>0 DEF Kept
<1>2. s_disconnect_evt' = 0 /\ ~s_disconnect_timer' /\ (s_pespconn_tcp => s_pespconn_tcp')
  <2>1. CASE Disconnected \/ ServerCloses
    BY <1>1, <2>1 DEF Disconnected, ServerCloses, DisconCb
  <2>2. CASE UNCHANGED deletion
    BY <1>1, <2>2 DEF deletion
  <2>3. CASE Create
    BY <1>1, <2>3 DEF Create
  <2> QED
    BY <1>1, <2>1, <2>2, <2>3
       DEF Next, LoginTimeout, HeartbeatTimeout, LoginTimerFires, ReconnectTimeout,
           DisconnectTimeout, Connected, Recv, RecvConnclose, ConnectionFails, ServerVanishes,
           GetsWell, Delete, vars
<1>3. ~s_pespconn_tcp => s_pespconn_tcp' \/ ~Begun'
  BY <1>1 DEF Begun, Next, LoginTimeout, HeartbeatTimeout, LoginTimerFires, ReconnectTimeout,
              Connected, Disconnected, Recv, RecvConnclose, ServerCloses, ConnectionFails,
              ServerVanishes, GetsWell, Create, Delete, DisconnectTimeout, vars, session, link,
              reconnection, deletion
<1> QED
  BY <1>2, <1>3 DEF Kept

\* Whatever arms or disarms s_login_timer keeps it for the session and the pings on their way.
LEMMA HeartbeatStep ==
  ASSUME TypeOK, Kept, HeartbeatInv, [Next]_vars
  PROVE  HeartbeatInv'
<1>0. world' = world
  BY SameWorld
<1> SUFFICES ASSUME "refuse" \notin world.faults, ~world.deletes
             PROVE  (Established => s_login_timer # "off")' /\ PingsTimed'
  BY <1>0 DEF HeartbeatInv
<1>1. /\ Established => s_login_timer # "off"
      /\ PingsTimed
      /\ unanswered \in Seq(Requests)
  BY DEF HeartbeatInv, TypeOK, Requests
<1>2. CASE UNCHANGED <<s_onenet_tcp_state, s_login_timer, unanswered>>
  BY <1>1, <1>2 DEF PingsTimed, PingIn, Established
<1>3. CASE /\ UNCHANGED <<s_onenet_tcp_state, s_login_timer>>
           /\ unanswered' = <<>>
  BY <1>1, <1>3, NoPingInEmpty DEF PingsTimed, Established
<1>4. ASSUME NEW c, NEW requests, LoginCheck(c, requests)
      PROVE  (Established => s_login_timer # "off")' /\ PingsTimed'
  BY <1>4 DEF LoginCheck, ArmLoginTimer, ArmReconnectTimer, Established, PingsTimed
<1>5. ASSUME NEW requests, Heartbeat(requests)
      PROVE  (Established => s_login_timer # "off")' /\ PingsTimed'
  BY <1>5 DEF Heartbeat, ArmLoginTimer, Established, PingsTimed
<1>6. ASSUME NEW c, NEW armed, ReconnectCheck(c, armed), UNCHANGED s_login_timer
      PROVE  (Established => s_login_timer # "off")' /\ PingsTimed'
  <2>1. ~Established' /\ unanswered' = <<>>
    BY <1>6 DEF ReconnectCheck, EspconnDisconnect, EspconnConnect, Established
  <2> QED
    BY <2>1, NoPingInEmpty DEF PingsTimed
<1>7. CASE LoginTimeout \/ Connected
  BY <1>4, <1>7 DEF LoginTimeout, Connected
<1>8. CASE HeartbeatTimeout
  <2>1. CASE LoginCheck(conn, unanswered) \/ Heartbeat(unanswered)
    BY <1>4, <1>5, <2>1
  <2>2. CASE /\ ~Established /\ s_login_timer = "onenet_heartbeat_check"
             /\ UNCHANGED <<s_onenet_tcp_state, unanswered>>
    BY <1>1, <2>2 DEF Established, PingsTimed, PingIn
  <2> QED
    BY <1>8, <2>1, <2>2 DEF HeartbeatTimeout, LoginTimerFires
<1>9. CASE ReconnectTimeout
  BY <1>6, <1>9 DEF ReconnectTimeout
<1>10. CASE Disconnected \/ ServerCloses
  BY <1>3, <1>6, <1>10 DEF Disconnected, ServerCloses, DisconCb, reconnection
<1>11. CASE Recv
  <2>1. CASE ConnrespOk
    BY <1>5, <2>1 DEF ConnrespOk
  <2>2. CASE Pingresp /\ Head(unanswered) = "ping"
    <3>1. s_login_timer' # "off" /\ Established'
      BY <1>1, <1>11, <2>2, Answered DEF Recv, Pingresp, PingsTimed, Established
    <3>2. s_login_timer' \in {"onenet_login_check", "onenet_heartbeat_check"}
      BY <2>2, <3>1 DEF Pingresp, TypeOK
    <3> QED
      BY <3>1, <3>2 DEF PingsTimed
  <2> QED
    BY <1>11, <2>1, <2>2 DEF Recv, ConnrespError
<1>12. CASE RecvConnclose \/ ServerVanishes \/ GetsWell \/ Create \/ UNCHANGED vars
  BY <1>2, <1>12 DEF RecvConnclose, ServerVanishes, GetsWell, Create, vars, session, link
<1>13. CASE ConnectionFails
  BY <1>3, <1>13 DEF ConnectionFails, session
<1>14. ~DisconnectTimeout /\ ~Delete
  BY DEF Kept, DisconnectTimeout, Delete
<1> QED
  BY <1>7, <1>8, <1>9, <1>10, <1>11, <1>12, <1>13, <1>14 DEF Next

\* An established session always has its next heartbeat, or the login before it, on a timer
\* (onenet_tcp.c:114-125), in every world without refused logins and deletions.
THEOREM HeartbeatAlways == Spec => []HeartbeatKept
<1>1. Init => Kept /\ HeartbeatInv
  BY NoPingInEmpty DEF Init, Kept, Begun, HeartbeatInv, PingsTimed, Established
<1>2. TypeOK /\ Kept /\ HeartbeatInv /\ [Next]_vars => (Kept /\ HeartbeatInv)'
  BY KeptStep, HeartbeatStep
<1>3. HeartbeatInv => HeartbeatKept
  BY DEF HeartbeatInv, HeartbeatKept
<1> QED
  BY <1>1, <1>2, <1>3, TypeCorrect, PTL DEF Spec

-----------------------------------------------------------------------------
(* The timers that lead to a new connection *)

Running ==
  \/ s_reconnect_timer
  \/ s_login_timer = "onenet_login_check"
  \/ s_login_timer = "onenet_heartbeat_check" /\ Established

(***************************************************************************)
(* A connection is up only after Connected has armed a timer, and a timer  *)
(* stays armed for as long as it is up, so one is armed however it ends.   *)
(* The second phase of a reconnection disarms s_reconnect_timer only to    *)
(* connect, and is reached only after a disconnection.                     *)
(***************************************************************************)
LossInv ==
  world.faults \cap {"connectfail", "refuse"} = {} /\ ~world.deletes =>
    /\ Up(conn) => Running
    /\ s_pespconn_tcp /\ conn = "closed" => Running
    /\ s_reconnect_state = 1 => s_reconnect_timer /\ conn \in {"closed", "closing"}

\* Every step keeps a timer armed.
LEMMA LossStep ==
  ASSUME TypeOK, Kept, LossInv, [Next]_vars
  PROVE  LossInv'
<1>0. world' = world
  BY SameWorld
<1> DEFINE
  Safe ==
    /\ Up(conn) => Running
    /\ s_pespconn_tcp /\ conn = "closed" => Running
    /\ s_reconnect_state = 1 => s_reconnect_timer /\ conn \in {"closed", "closing"}
<1> SUFFICES ASSUME world.faults \cap {"connectfail", "refuse"} = {}, ~world.deletes
             PROVE  Safe'
  BY <1>0 DEF LossInv
<1>1. Safe /\ "refuse" \notin world.faults /\ "connectfail" \notin world.faults
  BY DEF LossInv
<1>2. (Begun => s_pespconn_tcp) /\ s_disconnect_evt = 0
  BY DEF Kept
<1>3. CASE /\ UNCHANGED <<s_pespconn_tcp, reconnection>>
           /\ s_login_timer' = s_login_timer /\ (Established => Established')
           /\ conn' = conn \/ (Up(conn) /\ Up(conn')) \/ (Up(conn) /\ conn' = "closed")
  BY <1>1, <1>3 DEF reconnection, Running, Up
<1>4. ASSUME NEW c, NEW requests, LoginCheck(c, requests),
             s_reconnect_state = 1 => conn' \in {"closed", "closing"}
      PROVE  Safe'
  BY <1>1, <1>4 DEF LoginCheck, ArmLoginTimer, ArmReconnectTimer, Running
<1>5. ASSUME NEW requests, Heartbeat(requests), conn' = conn
      PROVE  Safe'
  BY <1>1, <1>5 DEF Heartbeat, ArmLoginTimer, Running, Established
<1>6. CASE LoginTimeout
  BY <1>1, <1>4, <1>6 DEF LoginTimeout, LoginTimerFires
<1>7. CASE Connected
  BY <1>1, <1>4, <1>7 DEF Connected
<1>8. CASE HeartbeatTimeout
  <2>1. CASE LoginCheck(conn, unanswered) \/ Heartbeat(unanswered)
    BY <1>1, <1>4, <1>5, <1>8, <2>1 DEF HeartbeatTimeout, LoginTimerFires
  <2>2. CASE ~Established /\ UNCHANGED <<s_onenet_tcp_state, reconnection>>
    BY <1>1, <1>8, <2>2 DEF HeartbeatTimeout, LoginTimerFires, Running, Established, reconnection,
                            deletion
  <2> QED
    BY <1>8, <2>1, <2>2 DEF HeartbeatTimeout
<1>9. CASE ReconnectTimeout
  <2>1. CASE s_reconnect_state = 0 /\ ArmReconnectTimer(1) /\ EspconnDisconnect(conn)
    BY <1>2, <1>9, <2>1 DEF ArmReconnectTimer, EspconnDisconnect, Running, Up, Begun, TypeOK
  <2>2. CASE s_reconnect_state = 1 /\ EspconnConnect(conn) /\ s_reconnect_state' = 0
    BY <1>1, <1>2, <1>9, <2>2 DEF EspconnConnect, ReconnectTimeout, deletion, Up, Begun
  <2> QED
    BY <1>9, <2>1, <2>2 DEF ReconnectTimeout, ReconnectCheck
<1>10. CASE Disconnected \/ ServerCloses
  <2>1. DisconCb /\ conn # "closed"
    BY <1>10 DEF Disconnected, ServerCloses
  <2>2. CASE s_reconnect_state = 0 /\ ArmReconnectTimer(1) /\ EspconnDisconnect("closed")
    BY <2>2 DEF ArmReconnectTimer, EspconnDisconnect, Running, Up
  <2>3. CASE s_reconnect_state = 1 /\ EspconnConnect("closed") /\ s_reconnect_state' = 0
    BY <1>2, <2>1, <2>3 DEF EspconnConnect, Up, Begun
  <2> QED
    BY <1>2, <2>1, <2>2, <2>3 DEF DisconCb, ReconnectCheck
<1>11. CASE Recv
  BY <1>1, <1>3, <1>5, <1>11 DEF Recv, ConnrespOk, ConnrespError, Pingresp, deletion, Established
<1>12. CASE RecvConnclose
  BY <1>12 DEF RecvConnclose, ArmReconnectTimer, Running
<1>13. CASE ConnectionFails \/ ServerVanishes \/ GetsWell \/ UNCHANGED vars
  BY <1>1, <1>3, <1>13 DEF ConnectionFails, ServerVanishes, GetsWell, Fault, vars, session, deletion,
                    link, Established, Up
<1>14. CASE Create
  BY <1>1, <1>2, <1>14 DEF Create, session, reconnection, Running, Established, Up, Begun
<1>15. ~DisconnectTimeout /\ ~Delete
  BY DEF Kept, DisconnectTimeout, Delete
<1> QED
  BY <1>6, <1>7, <1>8, <1>9, <1>10, <1>11, <1>12, <1>13, <1>14, <1>15 DEF Next

\* However a connection was lost, a timer is armed that leads to a new one
\* (onenet_tcp.c:389-482), in every world without failed attempts, refused logins and deletions.
THEOREM LossAlwaysNoticed == Spec => []LossNoticed
<1>1. Init => Kept /\ LossInv
  BY DEF Init, Kept, Begun, LossInv, Up
<1>2. TypeOK /\ Kept /\ LossInv /\ [Next]_vars => (Kept /\ LossInv)'
  BY KeptStep, LossStep
<1>3. LossInv => LossNoticed
  BY DEF LossInv, LossNoticed, Running
<1> QED
  BY <1>1, <1>2, <1>3, TypeCorrect, PTL DEF Spec
=============================================================================
