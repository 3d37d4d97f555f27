------------------------------ MODULE EdpClient ------------------------------
(***************************************************************************)
(* The EDP session of app/onenet/onenet_tcp.c: one TCP connection to the   *)
(* cloud, login and heartbeat requests on it, their timeouts, and the      *)
(* reconnection that follows too many failures or a closed connection.     *)
(* (_ENCRYPT and ONENET_USE_DNS are not defined in this build.)            *)
(*                                                                         *)
(* All functions run in the SDK's one context; an action is one callback   *)
(* with everything it calls.  espconn, the router and the server are       *)
(* outside src/: `conn' and `unanswered' hold what the callbacks see of    *)
(* them.  The server answers requests in order.                            *)
(***************************************************************************)
EXTENDS Naturals, Sequences

CONSTANTS
  SendBuffer,  \* how many unanswered requests espconn_send takes
  Worlds       \* what may happen; a behaviour chooses one of them

FaultKinds == {"connclose",    \* the server sends CONNCLOSE
               "refuse",       \* the server refuses a login
               "fin",          \* the server closes the connection
               "reset",        \* the connection fails; recon_cb is not registered
               "lost",         \* the server vanishes, nobody notices
               "connectfail"}  \* a connection attempt fails; again no callback

\* Before the 10 ms timers that are armed, after them, or either.
CloseTimes == {"quick", "slow", "any"}

\* Which faults may happen, when espconn reports a disconnection, and whether the
\* network task may delete the client.
World == [faults : SUBSET FaultKinds, close : CloseTimes, deletes : BOOLEAN]

ASSUME EdpClientAssumption ==
  /\ SendBuffer \in Nat \ {0}
  /\ Worlds \subseteq World

VARIABLES
  s_pespconn_tcp,      \* TRUE if the client's espconn is allocated
  s_onenet_tcp_state,
  s_heartbeat_miss,
  s_login_miss,
  s_reconnect_state,   \* the phase of a reconnection, 0 or 1
  s_disconnect_evt,    \* 1 while a disconnection was asked for by delete
  s_login_timer,       \* "off" or the function it will call
  s_reconnect_timer,   \* TRUE while armed, 10 ms
  s_disconnect_timer,  \* TRUE while armed, 10 ms
  overtakes,           \* TRUE if s_login_timer may be due before s_reconnect_timer
  conn,                \* the TCP connection
  unanswered,          \* requests sent on it and not answered
  good,                \* TRUE once the network is well for good
  world                \* chosen at the start, never changed

session == <<s_onenet_tcp_state, s_heartbeat_miss, s_login_miss, s_login_timer>>
link == <<conn, unanswered>>
reconnection == <<s_reconnect_state, s_reconnect_timer, overtakes>>
deletion == <<s_pespconn_tcp, s_disconnect_evt, s_disconnect_timer>>
vars == <<session, link, reconnection, deletion, good, world>>

States == {"BEGIN", "LOGIN_REQUEST", "LOGIN_SUCCESS", "HEARTBEAT_REQUEST", "HEARTBEAR_SUCCESS"}

\* s_onenet_tcp_state >= ONENET_TCP_LOGIN_SUCCESS
Established == s_onenet_tcp_state \in {"LOGIN_SUCCESS", "HEARTBEAT_REQUEST", "HEARTBEAR_SUCCESS"}

Init ==
  /\ s_pespconn_tcp = FALSE
  /\ s_onenet_tcp_state = "BEGIN"
  /\ s_heartbeat_miss = 0
  /\ s_login_miss = 0
  /\ s_reconnect_state = 0
  /\ s_disconnect_evt = 0
  /\ s_login_timer = "off"
  /\ s_reconnect_timer = FALSE
  /\ overtakes = FALSE
  /\ s_disconnect_timer = FALSE
  /\ conn = "closed"
  /\ unanswered = <<>>
  /\ good = FALSE
  /\ world \in Worlds

-----------------------------------------------------------------------------
(* espconn *)

Up(c) == c \in {"open", "lost"}

Sent(c, requests, r) ==
  IF s_pespconn_tcp /\ Up(c) /\ Len(requests) < SendBuffer
    THEN Append(requests, r) ELSE requests

EspconnConnect(c) ==
  /\ conn' = IF s_pespconn_tcp /\ c = "closed" THEN "connecting" ELSE c
  /\ unanswered' = <<>>

EspconnDisconnect(c) ==
  /\ conn' = IF s_pespconn_tcp /\ (c = "connecting" \/ Up(c)) THEN "closing" ELSE c
  /\ unanswered' = <<>>

-----------------------------------------------------------------------------
(* Functions the callbacks call; c and requests are the link as they find it *)

\* Arming the 10 ms timer; the login timer, armed earlier, may be due before it.
ArmReconnectTimer(phase) ==
  /\ s_reconnect_timer' = TRUE
  /\ s_reconnect_state' = phase
  /\ overtakes' = TRUE

\* Arming s_login_timer, 4 s or 60 s, and not the other one.
ArmLoginTimer(f) ==
  /\ s_login_timer' = f
  /\ overtakes' = FALSE
  /\ UNCHANGED <<s_reconnect_state, s_reconnect_timer>>

\* Mutant: a login that was not answered is not counted.
LoginNotCounted(c, requests) ==
  /\ s_onenet_tcp_state' = "LOGIN_REQUEST"
  /\ ArmLoginTimer("onenet_login_check")
  /\ unanswered' = Sent(c, requests, "login")
  /\ UNCHANGED s_login_miss

\* onenet_login_check, when the state is not LOGIN_SUCCESS; after too many misses
\* it calls onenet_tcpclient_reconnect instead of logging in.
LoginCheck(c, requests) ==
  /\ s_onenet_tcp_state' = "LOGIN_REQUEST"
  /\ \/ /\ s_login_miss + 1 > 4
        /\ s_login_miss' = 0
        /\ s_login_timer' = "onenet_login_check"
        /\ ArmReconnectTimer(0)
        /\ unanswered' = requests
     \/ /\ s_login_miss + 1 <= 4
        /\ s_login_miss' = s_login_miss + 1
        /\ ArmLoginTimer("onenet_login_check")
        /\ unanswered' = Sent(c, requests, "login")

\* Mutant: the next heartbeat is not scheduled.
HeartbeatNotScheduled(requests) ==
  /\ ArmLoginTimer("off")
  /\ s_onenet_tcp_state' = "HEARTBEAT_REQUEST"
  /\ unanswered' = Sent(conn, requests, "ping")

\* The branch of onenet_heartbeat_check that sends a heartbeat.  It is
\* s_login_timer that it arms; s_heartbeat_timer never is.
Heartbeat(requests) ==
  /\ ArmLoginTimer("onenet_heartbeat_check")
  /\ s_onenet_tcp_state' = "HEARTBEAT_REQUEST"
  /\ unanswered' = Sent(conn, requests, "ping")

\* reconnect_check; armed tells whether its timer is armed when it is called.
ReconnectCheck(c, armed) ==
  \/ /\ s_reconnect_state = 0
     /\ EspconnDisconnect(c)
     /\ s_onenet_tcp_state' = "BEGIN"
     /\ ArmReconnectTimer(1)
  \/ /\ s_reconnect_state = 1
     /\ EspconnConnect(c)
     /\ s_onenet_tcp_state' = "LOGIN_REQUEST"
     /\ s_reconnect_state' = 0
     /\ s_reconnect_timer' = armed
     /\ UNCHANGED overtakes

-----------------------------------------------------------------------------
(* The timers *)

(***************************************************************************)
(* The SDK fires its timers in the order in which they are due.            *)
(* A well network answers, connects and closes within the 4 s of a login;  *)
(* a vanished server does not.                                             *)
(***************************************************************************)
AnswerDue ==
  \/ conn = "open" /\ unanswered # <<>>
  \/ conn \in {"connecting", "closing"}

LoginTimerFires(f) ==
  /\ s_login_timer = f
  /\ s_reconnect_timer => overtakes
  /\ ~(good /\ AnswerDue)
  /\ UNCHANGED <<conn, deletion, good, world>>

LoginTimeout ==
  /\ LoginTimerFires("onenet_login_check")
  /\ LoginCheck(conn, unanswered)
  /\ UNCHANGED s_heartbeat_miss

Misses == s_heartbeat_miss + (IF s_onenet_tcp_state = "HEARTBEAT_REQUEST" THEN 1 ELSE 0)

HeartbeatTimeout ==
  /\ LoginTimerFires("onenet_heartbeat_check")
  /\ \/ /\ Established /\ Misses > 3
        /\ s_heartbeat_miss' = Misses
        /\ LoginCheck(conn, unanswered)
     \/ /\ Established /\ Misses <= 3
        /\ s_heartbeat_miss' = Misses
        /\ Heartbeat(unanswered)
        /\ UNCHANGED s_login_miss
     \/ /\ ~Established              \* no session: the heartbeats end
        /\ s_login_timer' = "off"
        /\ UNCHANGED <<s_onenet_tcp_state, s_heartbeat_miss, s_login_miss, unanswered,
                       reconnection>>

CloseOverdue == world.close = "quick" /\ conn = "closing"

ReconnectTimeout ==
  /\ s_reconnect_timer
  /\ ~CloseOverdue
  /\ ReconnectCheck(conn, FALSE)
  /\ UNCHANGED <<s_heartbeat_miss, s_login_miss, s_login_timer, deletion, good, world>>

\* disconnect_check.  The connection is not told.
DisconnectTimeout ==
  /\ s_disconnect_timer
  /\ ~CloseOverdue
  /\ s_disconnect_timer' = FALSE
  /\ s_disconnect_evt' = 0
  /\ s_pespconn_tcp' = FALSE
  /\ s_onenet_tcp_state' = "BEGIN"
  /\ s_login_timer' = "off"
  /\ UNCHANGED <<s_heartbeat_miss, s_login_miss, link, reconnection, good, world>>

-----------------------------------------------------------------------------
(* The callbacks of espconn *)

\* tcpclient_connect_cb
Connected ==
  /\ conn = "connecting"
  /\ conn' = "open"
  /\ LoginCheck("open", <<>>)
  /\ UNCHANGED <<s_heartbeat_miss, deletion, good, world>>

\* Mutant: a disconnection nobody asked for is not followed by a reconnection.
DisconIgnored ==
  /\ s_disconnect_evt' = 0
  /\ conn' = "closed"
  /\ unanswered' = <<>>
  /\ UNCHANGED <<s_onenet_tcp_state, reconnection>>
  /\ UNCHANGED <<s_heartbeat_miss, s_login_miss, s_login_timer, s_pespconn_tcp,
                 s_disconnect_timer, good, world>>

\* tcpclient_discon_cb, when the connection has closed.
DisconCb ==
  /\ \/ /\ s_disconnect_evt = 1
        /\ s_disconnect_evt' = 0
        /\ conn' = "closed"
        /\ unanswered' = <<>>
        /\ UNCHANGED <<s_onenet_tcp_state, reconnection>>
     \/ /\ s_disconnect_evt = 0
        /\ ReconnectCheck("closed", s_reconnect_timer)
        /\ UNCHANGED s_disconnect_evt
  /\ UNCHANGED <<s_heartbeat_miss, s_login_miss, s_login_timer, s_pespconn_tcp,
                 s_disconnect_timer, good, world>>

Disconnected ==
  /\ conn = "closing"
  /\ world.close = "slow" => ~s_reconnect_timer /\ ~s_disconnect_timer
  /\ DisconCb

\* tcpclient_recv of a CONNRESP or PINGRESP that answers the oldest request.
ConnrespOk ==
  /\ s_login_miss' = 0
  /\ s_heartbeat_miss' = 1     \* onenet_heartbeat_check runs at once and counts
  /\ Heartbeat(Tail(unanswered))

ConnrespError ==
  /\ "refuse" \in world.faults /\ ~good
  /\ s_login_miss' = 0
  /\ s_login_timer' = "off"
  /\ unanswered' = Tail(unanswered)
  /\ UNCHANGED <<s_onenet_tcp_state, s_heartbeat_miss, reconnection>>

Pingresp ==
  /\ s_onenet_tcp_state' = "HEARTBEAR_SUCCESS"
  /\ s_heartbeat_miss' = 0
  /\ unanswered' = Tail(unanswered)
  /\ UNCHANGED <<s_login_miss, s_login_timer, reconnection>>

Recv ==
  /\ conn = "open"
  /\ unanswered # <<>>
  /\ \/ Head(unanswered) = "login" /\ (ConnrespOk \/ ConnrespError)
     \/ Head(unanswered) = "ping" /\ Pingresp
  /\ UNCHANGED <<conn, deletion, good, world>>

Fault(kind) == kind \in world.faults /\ ~good /\ UNCHANGED <<good, world>>

RecvConnclose ==
  /\ Fault("connclose")
  /\ conn = "open"
  /\ ArmReconnectTimer(0)      \* onenet_tcpclient_reconnect
  /\ UNCHANGED <<session, link, deletion>>

ServerCloses ==
  /\ Fault("fin")
  /\ conn = "open"
  /\ DisconCb

ConnectionFails ==
  /\ \/ Fault("reset") /\ conn \in {"open", "lost"}
     \/ Fault("connectfail") /\ conn = "connecting"
  /\ conn' = "closed"
  /\ unanswered' = <<>>
  /\ UNCHANGED <<session, reconnection, deletion>>

ServerVanishes ==
  /\ Fault("lost")
  /\ conn = "open"
  /\ conn' = "lost"
  /\ UNCHANGED <<unanswered, session, reconnection, deletion>>

GetsWell ==
  /\ ~good
  /\ good' = TRUE
  /\ UNCHANGED <<session, link, reconnection, deletion, world>>

-----------------------------------------------------------------------------
(* Calls of the network task *)

\* Mutant: the test for an existing client is missing.
CreateAgain ==
  /\ s_pespconn_tcp' = TRUE
  /\ s_disconnect_timer' = FALSE
  /\ conn' = IF conn = "closed" THEN "connecting" ELSE conn
  /\ UNCHANGED <<unanswered, session, reconnection, s_disconnect_evt, good, world>>

\* onenet_tcpclient_create; network_sta has set the register flag before.
Create ==
  /\ \/ /\ s_pespconn_tcp
        /\ UNCHANGED <<s_pespconn_tcp, conn>>
     \/ /\ ~s_pespconn_tcp
        /\ s_pespconn_tcp' = TRUE
        /\ conn' = IF conn = "closed" THEN "connecting" ELSE conn
  /\ UNCHANGED <<unanswered, session, reconnection, s_disconnect_evt, s_disconnect_timer, good, world>>

\* onenet_tcpclient_delete
Delete ==
  /\ world.deletes
  /\ s_pespconn_tcp
  /\ EspconnDisconnect(conn)
  /\ s_disconnect_evt' = 1
  /\ s_disconnect_timer' = TRUE
  /\ UNCHANGED <<s_pespconn_tcp, session, reconnection, good, world>>

Next ==
  \/ LoginTimeout \/ HeartbeatTimeout \/ ReconnectTimeout \/ DisconnectTimeout
  \/ Connected \/ Disconnected \/ Recv
  \/ RecvConnclose \/ ServerCloses \/ ConnectionFails \/ ServerVanishes
  \/ GetsWell
  \/ Create \/ Delete

Spec == Init /\ [][Next]_vars

(***************************************************************************)
(* The SDK fires armed timers, a connection attempt or a disconnection     *)
(* comes to an end, a server that is there answers, and the network task   *)
(* creates its client.  Nothing obliges the network to get well.           *)
(***************************************************************************)
Fairness ==
  /\ WF_vars(LoginTimeout)
  /\ WF_vars(HeartbeatTimeout)
  /\ WF_vars(ReconnectTimeout)
  /\ WF_vars(DisconnectTimeout)
  /\ WF_vars(Connected)
  /\ WF_vars(Disconnected)
  /\ WF_vars(Recv)
  /\ WF_vars(Create)

FairSpec == Spec /\ Fairness
-----------------------------------------------------------------------------
(* Properties *)

(***************************************************************************)
(* The types, and the limits the counters are compared with: the fourth    *)
(* missed heartbeat ends the session (onenet_tcp.c:101-113), so that an    *)
(* established one has missed three at most, whatever late answers and     *)
(* repeated logins have done to the counter.                               *)
(***************************************************************************)
TypeOK ==
  /\ s_pespconn_tcp \in BOOLEAN
  /\ s_onenet_tcp_state \in States
  /\ s_heartbeat_miss \in 0 .. 4
  /\ Established => s_heartbeat_miss <= 3
  /\ s_login_miss \in 0 .. 4
  /\ s_reconnect_state \in {0, 1}
  /\ s_disconnect_evt \in {0, 1}
  /\ s_login_timer \in {"off", "onenet_login_check", "onenet_heartbeat_check"}
  /\ s_reconnect_timer \in BOOLEAN
  /\ overtakes \in BOOLEAN
  /\ s_disconnect_timer \in BOOLEAN
  /\ conn \in {"closed", "connecting", "open", "lost", "closing"}
  /\ unanswered \in Seq({"login", "ping"})
  /\ Len(unanswered) <= SendBuffer
  /\ good \in BOOLEAN
  /\ world \in Worlds

(***************************************************************************)
(* The comment in onenet_heartbeat_check (onenet_tcp.c:114-125): "one      *)
(* heartbeat packet every 60 s".  As long as the session counts as         *)
(* established, s_login_timer is armed, with the heartbeat or with the     *)
(* login that comes before it.  The refusal of a repeated login and a      *)
(* deletion disarm it, and leave the state alone.                          *)
(***************************************************************************)
HeartbeatKept ==
  "refuse" \notin world.faults /\ ~world.deletes =>
    (Established => s_login_timer # "off")

(***************************************************************************)
(* A client without a connection, however it was lost                      *)
(* (onenet_tcp.c:389-482), has a timer armed that leads to a new attempt:  *)
(* the reconnection, the repeated login that gives up after four misses,   *)
(* or the heartbeat that leads to that login.  A connection attempt that   *)
(* fails and a login that is refused leave nothing armed.                  *)
(***************************************************************************)
LossNoticed ==
  /\ world.faults \cap {"connectfail", "refuse"} = {} /\ ~world.deletes
  /\ s_pespconn_tcp /\ conn = "closed"
  =>
    \/ s_reconnect_timer
    \/ s_login_timer = "onenet_login_check"
    \/ s_login_timer = "onenet_heartbeat_check" /\ Established

(***************************************************************************)
(* The same as a promise: once the network is well the client is logged in *)
(* and stays so, whatever the faults before have left behind, if           *)
(* disconnections are reported later than the 10 ms timers fire.           *)
(***************************************************************************)
LoggedIn == Established /\ conn = "open"

RecoversWhenWell ==
  /\ world.faults \cap {"connectfail", "refuse"} = {} /\ ~world.deletes
  /\ world.close = "slow"
  => (<>good => <>[]LoggedIn)

(***************************************************************************)
(* What the comment on CONNCLOSE says: "the packet was wrong and the       *)
(* connection is closed, so log in again".                                 *)
(***************************************************************************)
LogsInAgain == <>good => []<>LoggedIn

(***************************************************************************)
(* To the network task the client is what ClientLifecycle.tla says: one    *)
(* object that is created, closed and freed, in this order.                *)
(***************************************************************************)
Lifecycle == INSTANCE ClientLifecycle WITH
  client <- IF ~s_pespconn_tcp THEN "none" ELSE IF s_disconnect_timer THEN "closing" ELSE "open"

ImplementsLifecycle == Lifecycle!Spec
=============================================================================
