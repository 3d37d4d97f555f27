-------------------------- MODULE HttpRegistration --------------------------
(***************************************************************************)
(* Registration of the device with the cloud, app/onenet/onenet_http.c:    *)
(* a device without a registration creates a device and then an API key    *)
(* over HTTP; a registered one asks the cloud whether both still exist and *)
(* registers again if not.  The registration is kept in flash.             *)
(*                                                                         *)
(* `dev' is the module's memory (its static variables, one field each),    *)
(* `flash' the saved parameters, `conn', `requests' and `responses' what   *)
(* espconn and the cloud have in hand.  A callback with everything it      *)
(* calls is one action: it maps `dev' to a new `dev', collecting in        *)
(* `sends' what it sends and in `saves' what it writes to flash.           *)
(*                                                                         *)
(* The application's part is taken from the use in comments at             *)
(* network_task.c:201-206: the client is deleted once the device is        *)
(* registered and the check of it was good.                                *)
(***************************************************************************)
EXTENDS Naturals, Sequences

CONSTANTS
  Ids,        \* device ids the cloud may give; positive numbers
  Keys,       \* API keys it may give; positive numbers
  Patience,   \* timer ticks an answer may take (10 in the source)
  SendBuffer, \* how many unanswered requests espconn_send takes
  Budget,     \* how often each of the events in Limited may happen
  FaultSets   \* the sets of faults a behaviour may choose from

FaultKinds == {"slow",   \* an answer may take longer than Patience
               "lost",   \* the connection may close
               "hasty",  \* the application asks for something else meanwhile
               "leaves"} \* the application deletes its registration

\* Events that could otherwise happen for ever.
Limited == {"restart", "forget", "ask", "session"}

None == 0

ASSUME HttpAssumption ==
  /\ Ids \subseteq Nat \ {None}
  /\ Keys \subseteq Nat \ {None}
  /\ {Patience, SendBuffer} \subseteq Nat \ {0}
  /\ Budget \in [Limited -> Nat]
  /\ FaultSets \subseteq SUBSET FaultKinds

VARIABLES
  dev,       \* the static variables of onenet_http.c
  flash,     \* s_onenet_cloud as last saved
  conn,      \* the TCP connection
  requests,  \* sent and not yet served
  responses, \* served and not yet received
  devices,   \* device ids the cloud knows
  keys,      \* pairs of an API key and the device it is for
  left,      \* what is left of Budget
  faults     \* chosen at the start, never changed

network == <<conn, requests, responses>>
cloud == <<devices, keys>>
vars == <<dev, flash, network, cloud, left, faults>>

(***************************************************************************)
(* The parameters, and the module's memory after a start.                  *)
(***************************************************************************)
\* onenet_cloud_info_t.  `set' tells which of the three values that the user
\* must supply (master_apikey, project_id, auth_info) are not empty.
UserFields == {"master_apikey", "project_id", "auth_info"}
Parameters == [device_id : Ids \cup {None}, device_apikey : Keys \cup {None},
               set : SUBSET UserFields, register_flag : BOOLEAN, init_flag : BOOLEAN]

DefaultParam == [device_id |-> None, device_apikey |-> None, set |-> {},
                 register_flag |-> FALSE, init_flag |-> TRUE]
\* What a flash that was never written reads as: init_flag is not 1.
ErasedParam == [DefaultParam EXCEPT !.init_flag = FALSE]

\* s_query_check_result: its bit 0x80 is "id", its bit 0x40 is "key".
Doubts == {"id", "key"}

Idle == [cloud |-> DefaultParam, client |-> FALSE, disconnect_state |-> FALSE,
         delete_timer |-> FALSE, query_timer |-> FALSE, state |-> "device", substate |-> 0,
         timeout |-> 0, result |-> {}, request_state |-> "device_create", request_result |-> 0,
         delete_is_self |-> FALSE, sends |-> <<>>, saves |-> <<>>]

Save(d) == [d EXCEPT !.saves = <<d.cloud>>]

\* What a restart finds in flash p: the static variables are zero again.
ParamLoad(d, p) ==
  IF p.init_flag THEN [d EXCEPT !.cloud = p]
  ELSE Save([d EXCEPT !.cloud = DefaultParam])

ParamRestore(d) == Save([d EXCEPT !.cloud = DefaultParam])

(***************************************************************************)
(* Requests.  Every onenet_httpclient_* function remembers what it asked   *)
(* in s_http_request_state, one variable for all of them.                  *)
(***************************************************************************)
Request(d, state, id, key) ==
  IF ~d.client THEN d
  ELSE [d EXCEPT !.request_state = state, !.request_result = 0,
                 !.sends = Append(@, [ask |-> state, id |-> id, key |-> key])]

DeviceCreate(d) == Request(d, "device_create", None, None)
DeviceQuery(d) == Request(d, "device_query", d.cloud.device_id, None)
DeviceDelete(d, id) ==
  Request([d EXCEPT !.delete_is_self = IF d.client THEN d.cloud.device_id = id ELSE @],
          "device_delete", id, None)
ApikeyCreate(d) == Request(d, "apikey_create", d.cloud.device_id, None)
ApikeyQuery(d) == Request(d, "apikey_query", d.cloud.device_id, None)
ApikeyDelete(d, key) == Request(d, "apikey_delete", None, key)
\* Data streams, data points, an update of the device: nothing of their answers is used.
StreamRequest(d) == Request(d, "stream", d.cloud.device_id, None)
BindataRequest(d) == Request(d, "bindata", d.cloud.device_id, None)

Complete(p) == /\ p.device_id # None /\ p.device_apikey # None
               /\ {"auth_info", "project_id"} \subseteq p.set

\* onenet_device_register_check: the next step towards a registration.
RegisterCheck(d) ==
  CASE Complete(d.cloud) -> Save([d EXCEPT !.cloud.register_flag = TRUE])
    [] ~Complete(d.cloud) /\ d.cloud.device_id = None -> DeviceCreate(d)
    [] ~Complete(d.cloud) /\ d.cloud.device_id # None /\ d.cloud.device_apikey = None ->
         ApikeyCreate([d EXCEPT !.result = @ \ {"id"}])
    [] OTHER -> d

(***************************************************************************)
(* The check of a registration: onenet_device_query_check, called once a   *)
(* second.  substate: 0 nothing asked, 1 waiting, 2 something was received.*)
(***************************************************************************)
Doubt(d, what, yes) == [d EXCEPT !.result = IF yes THEN @ \cup {what} ELSE @ \ {what}]
ThenKey(d) == [d EXCEPT !.state = "key", !.substate = 0, !.timeout = 0]
Rearm(d) == [d EXCEPT !.query_timer = TRUE]

CheckDevice(d) ==
  CASE d.substate = 0 -> DeviceQuery([d EXCEPT !.request_result = 0, !.substate = 1, !.timeout = 0])
    [] d.substate = 1 -> IF d.timeout > Patience THEN ThenKey(Doubt(d, "id", TRUE)) ELSE d
    [] d.substate = 2 -> ThenKey(Doubt(d, "id", d.request_result # 0))

\* Mutant: what is given up still counts as registered.
FlagForgotten(d) ==
  LET forget(id, key) ==
        Save([d EXCEPT !.cloud.device_id = IF id THEN None ELSE @,
                       !.cloud.device_apikey = IF key THEN None ELSE @])
      anew == forget(TRUE, FALSE)
  IN CASE d.result = Doubts  -> RegisterCheck(forget(TRUE, TRUE))
       [] d.result = {"id"}  -> ApikeyDelete(anew, anew.cloud.device_apikey)
       [] d.result = {"key"} -> RegisterCheck(forget(FALSE, TRUE))
       [] d.result = {}      -> d

\* What could not be confirmed is given up, and asked for anew.
Conclude(d) ==
  LET forget(id, key) ==
        Save([d EXCEPT !.cloud.device_id = IF id THEN None ELSE @,
                       !.cloud.device_apikey = IF key THEN None ELSE @,
                       !.cloud.register_flag = FALSE])
      anew == forget(TRUE, FALSE)
  IN CASE d.result = Doubts  -> RegisterCheck(forget(TRUE, TRUE))
       [] d.result = {"id"}  -> ApikeyDelete(anew, anew.cloud.device_apikey)
       [] d.result = {"key"} -> RegisterCheck(forget(FALSE, TRUE))
       [] d.result = {}      -> d

\* Mutant: it gives up one tick too early.
ImpatientCheck(d) ==
  CASE d.substate = 0 -> Rearm(ApikeyQuery([d EXCEPT !.request_result = 0, !.substate = 1]))
    [] d.substate = 1 /\ d.timeout < Patience -> Rearm(d)
    [] d.substate = 1 /\ d.timeout >= Patience -> Conclude(Doubt(d, "key", TRUE))
    [] d.substate = 2 ->
         Conclude([Doubt(d, "key", d.request_result # 0)
                   EXCEPT !.state = "device", !.substate = 0, !.timeout = 0])

CheckKey(d) ==
  CASE d.substate = 0 -> Rearm(ApikeyQuery([d EXCEPT !.request_result = 0, !.substate = 1]))
    [] d.substate = 1 /\ d.timeout <= Patience -> Rearm(d)
    [] d.substate = 1 /\ d.timeout > Patience -> Conclude(Doubt(d, "key", TRUE))
    [] d.substate = 2 ->
         Conclude([Doubt(d, "key", d.request_result # 0)
                   EXCEPT !.state = "device", !.substate = 0, !.timeout = 0])

QueryCheck(d) ==
  LET e == [d EXCEPT !.query_timer = FALSE, !.timeout = @ + 1]
  IN IF e.state = "device" THEN Rearm(CheckDevice(e)) ELSE CheckKey(e)

(***************************************************************************)
(* httpclient_recv: a response is taken as the answer to the request made  *)
(* last.  It carries an errno and, if the cloud gives one, an id or a key. *)
(***************************************************************************)
NoErrno == 255

AuthInfoSeen(d, r) == IF r.auth_info THEN RegisterCheck(d) ELSE d

\* The case of a created device has no break and goes on in the next case.
DeviceCreated(d, r) ==
  LET got == RegisterCheck([d EXCEPT !.cloud.device_id = r.id])
  IN AuthInfoSeen(IF r.id = None THEN d ELSE Save([got EXCEPT !.result = @ \ {"id"}]), r)

DeviceDeleted(d) ==
  LET gone == Save([d EXCEPT !.delete_is_self = FALSE, !.cloud.device_id = None,
                             !.cloud.set = @ \ {"auth_info"}, !.cloud.register_flag = FALSE])
  IN IF d.delete_is_self THEN ApikeyDelete(gone, gone.cloud.device_apikey) ELSE d

ApikeyCreated(d, r) ==
  IF r.key = None THEN d
  ELSE [Save(RegisterCheck([d EXCEPT !.cloud.device_apikey = r.key])) EXCEPT !.result = @ \ {"key"}]

\* Mutant: the way back to a new device is missing.
DeletedAndDone(d) == Save([d EXCEPT !.cloud.device_apikey = None])

ApikeyDeleted(d) == RegisterCheck(Save([d EXCEPT !.cloud.device_apikey = None]))

Recv(d, r) ==
  LET e == [d EXCEPT !.substate = 2, !.request_result = r.errno]
  IN CASE r.errno # 0 -> e
       [] r.errno = 0 /\ e.request_state = "device_create" -> DeviceCreated(e, r)
       [] r.errno = 0 /\ e.request_state = "device_query" -> AuthInfoSeen(e, r)
       [] r.errno = 0 /\ e.request_state = "device_delete" -> DeviceDeleted(e)
       [] r.errno = 0 /\ e.request_state = "apikey_create" -> ApikeyCreated(e, r)
       [] r.errno = 0 /\ e.request_state = "apikey_query" ->
            IF r.key = None THEN [e EXCEPT !.request_result = NoErrno] ELSE e
       [] r.errno = 0 /\ e.request_state = "apikey_delete" -> ApikeyDeleted(e)
       [] OTHER -> e

(***************************************************************************)
(* How a callback that turns `dev' into d ends: what it saved is in flash, *)
(* what it sent is on its way, as far as espconn_send takes it.            *)
(***************************************************************************)
Take(queue, sends) ==
  LET both == queue \o sends
  IN SubSeq(both, 1, IF Len(both) < SendBuffer THEN Len(both) ELSE SendBuffer)

Finish(d) ==
  /\ dev' = [d EXCEPT !.sends = <<>>, !.saves = <<>>]
  /\ flash' = IF d.saves = <<>> THEN flash ELSE d.saves[1]
  /\ requests' = IF conn = "connected" THEN Take(requests, d.sends) ELSE requests

Spend(event) == left[event] > 0 /\ left' = [left EXCEPT ![event] = @ - 1]

(***************************************************************************)
(* Calls of the application.                                               *)
(***************************************************************************)
\* onenet_set_master_apikey and its like; nothing is saved.
SetUserField(f) ==
  /\ f \notin dev.cloud.set
  /\ Finish([dev EXCEPT !.cloud.set = @ \cup {f}])
  /\ UNCHANGED <<conn, responses, cloud, left, faults>>

\* onenet_httpclient_create
Create ==
  /\ UserFields \subseteq dev.cloud.set /\ ~dev.client
  /\ conn = "none" /\ conn' = "connecting"
  /\ Spend("session")
  /\ Finish([dev EXCEPT !.client = TRUE, !.result = Doubts])
  /\ UNCHANGED <<responses, cloud, faults>>

\* Mutant: bit 0x40 is not looked at.
RegisteredById == dev.cloud.register_flag /\ "id" \notin dev.result

\* onenet_is_register_flag_set() && onenet_get_device_query_result()
Registered == dev.cloud.register_flag /\ dev.result \cap Doubts = {}

\* onenet_httpclient_delete
Delete ==
  /\ dev.client /\ Registered
  /\ Finish([dev EXCEPT !.disconnect_state = TRUE, !.delete_timer = TRUE])
  /\ conn' = IF conn = "connected" THEN "disconnecting" ELSE conn
  /\ UNCHANGED <<responses, cloud, left, faults>>

\* Another request, at a moment that no one has coordinated with the check.
Ask ==
  /\ "hasty" \in faults /\ dev.client
  /\ Spend("ask")
  /\ Finish(StreamRequest(dev)) \/ Finish(BindataRequest(dev))
  /\ UNCHANGED <<conn, responses, cloud, faults>>

Unregister ==
  /\ "leaves" \in faults /\ dev.client /\ Registered
  /\ Spend("ask")
  /\ Finish(DeviceDelete(dev, dev.cloud.device_id))
  /\ UNCHANGED <<conn, responses, cloud, faults>>

\* The console has these as commands.
ConsoleParam ==
  /\ Spend("ask")
  /\ "leaves" \in faults
  /\ \/ Finish(ParamRestore(dev))
     \/ Finish(Save(dev))
     \/ Finish(ParamLoad(dev, flash))
  /\ UNCHANGED <<conn, responses, cloud, faults>>

\* A power failure or a reset, at any moment; then the parameters are loaded.
Restart ==
  /\ Spend("restart")
  /\ LET d == ParamLoad(Idle, flash)
     IN /\ dev' = [d EXCEPT !.saves = <<>>]
        /\ flash' = IF d.saves = <<>> THEN flash ELSE d.saves[1]
  /\ conn' = "none" /\ requests' = <<>> /\ responses' = <<>>
  /\ UNCHANGED <<cloud, faults>>

(***************************************************************************)
(* Callbacks.                                                              *)
(***************************************************************************)
ConnectCb ==
  /\ conn = "connecting" /\ conn' = "connected"
  /\ IF dev.cloud.register_flag
     THEN LET d == QueryCheck([dev EXCEPT !.state = "device", !.substate = 0, !.timeout = 0])
          IN /\ dev' = [d EXCEPT !.sends = <<>>] /\ requests' = d.sends /\ UNCHANGED flash
     ELSE LET d == RegisterCheck(dev)
          IN /\ dev' = [d EXCEPT !.sends = <<>>, !.saves = <<>>] /\ requests' = d.sends
             /\ flash' = IF d.saves = <<>> THEN flash ELSE d.saves[1]
  /\ UNCHANGED <<responses, cloud, left, faults>>

\* disconnect_check
Freed(d) == [d EXCEPT !.client = FALSE, !.delete_timer = FALSE]

DisconCb ==
  /\ \/ conn = "disconnecting"
     \/ conn = "connected" /\ "lost" \in faults
  /\ dev' = IF dev.disconnect_state THEN Freed([dev EXCEPT !.disconnect_state = FALSE]) ELSE dev
  /\ conn' = "none" /\ requests' = <<>> /\ responses' = <<>>
  /\ UNCHANGED <<flash, cloud, left, faults>>

\* 5 s after onenet_httpclient_delete; the disconnect callback is quicker if one is to come.
DeleteTimer ==
  /\ dev.delete_timer
  /\ conn = "disconnecting" => "slow" \in faults
  /\ dev' = Freed(dev)
  /\ conn' = "none" /\ requests' = <<>> /\ responses' = <<>>
  /\ UNCHANGED <<flash, cloud, left, faults>>

\* The 1 s timer.  Answers that are under way come in time, unless "slow".
QueryTimer ==
  /\ dev.query_timer
  /\ ("slow" \notin faults /\ dev.timeout >= Patience /\ dev.substate = 1) =>
        requests = <<>> /\ responses = <<>>
  /\ Finish(QueryCheck(dev))
  /\ UNCHANGED <<conn, responses, cloud, left, faults>>

HttpclientRecv ==
  /\ responses # <<>> /\ conn = "connected"
  /\ responses' = Tail(responses)
  /\ Finish(Recv(dev, Head(responses)))
  /\ UNCHANGED <<conn, cloud, left, faults>>

(***************************************************************************)
(* The cloud serves the requests in order.                                 *)
(***************************************************************************)
Answer(errno, id, auth, key) == [errno |-> errno, id |-> id, auth_info |-> auth, key |-> key]
Done == Answer(0, None, FALSE, None)
Failed == Answer(1, None, FALSE, None)

Fresh(S, used) == CHOOSE x \in S \ used : TRUE
KeysOf(id) == {k \in keys : k[2] = id}

ServeCreate ==
  LET used == devices \cup {k[2] : k \in keys}
  IN /\ Ids \ used # {}
     /\ responses' = Append(responses, Answer(0, Fresh(Ids, used), FALSE, None))
     /\ devices' = devices \cup {Fresh(Ids, used)} /\ UNCHANGED keys

ServeApikeyCreate(id) ==
  LET used == {k[1] : k \in keys}
  IN IF id \in devices
     THEN /\ Keys \ used # {}
          /\ responses' = Append(responses, Answer(0, None, FALSE, Fresh(Keys, used)))
          /\ keys' = keys \cup {<<Fresh(Keys, used), id>>} /\ UNCHANGED devices
     ELSE responses' = Append(responses, Failed) /\ UNCHANGED cloud

ServeQuery(rq) ==
  /\ responses' = Append(responses,
       CASE rq.ask = "device_query" -> IF rq.id \in devices THEN Answer(0, rq.id, TRUE, None) ELSE Failed
         [] rq.ask = "apikey_query" ->
              IF KeysOf(rq.id) = {} THEN Done ELSE Answer(0, None, FALSE, Fresh({k[1] : k \in KeysOf(rq.id)}, {}))
         [] OTHER -> IF rq.id \in devices THEN Done ELSE Failed)
  /\ UNCHANGED cloud

ServeDelete(rq) ==
  /\ responses' = Append(responses, Done)
  /\ devices' = devices \ {rq.id}
  /\ keys' = {k \in keys : k[1] # rq.key}

Serve ==
  /\ requests # <<>> /\ requests' = Tail(requests)
  /\ LET rq == Head(requests)
     IN CASE rq.ask = "device_create" -> ServeCreate
          [] rq.ask = "apikey_create" -> ServeApikeyCreate(rq.id)
          [] rq.ask \in {"device_delete", "apikey_delete"} -> ServeDelete(rq)
          [] OTHER -> ServeQuery(rq)
  /\ UNCHANGED <<dev, flash, conn, left, faults>>

\* Somebody removes the device, or its key, in the cloud between two sessions.
Forget ==
  /\ ~dev.client
  /\ Spend("forget")
  /\ \/ \E id \in devices : devices' = devices \ {id} /\ UNCHANGED keys
     \/ \E k \in keys : keys' = keys \ {k} /\ UNCHANGED devices
  /\ UNCHANGED <<dev, flash, network, faults>>

Init ==
  /\ LET d == ParamLoad(Idle, ErasedParam) IN dev = [d EXCEPT !.saves = <<>>] /\ flash = d.saves[1]
  /\ conn = "none" /\ requests = <<>> /\ responses = <<>>
  /\ devices = {} /\ keys = {}
  /\ left = Budget
  /\ faults \in FaultSets

Application == (\E f \in UserFields : SetUserField(f)) \/ Create \/ Delete \/ Ask \/ Unregister \/ ConsoleParam
Callback == ConnectCb \/ DisconCb \/ DeleteTimer \/ QueryTimer \/ HttpclientRecv
Next == Application \/ Callback \/ Serve \/ Forget \/ Restart

Spec == Init /\ [][Next]_vars

\* Connections are made and torn down, armed timers fire, the cloud serves and
\* its answers arrive.  Nobody is obliged to start a session.
Fairness ==
  /\ WF_vars(ConnectCb) /\ WF_vars(QueryTimer) /\ WF_vars(DeleteTimer)
  /\ WF_vars(conn = "disconnecting" /\ DisconCb)
  /\ WF_vars(Serve) /\ WF_vars(HttpclientRecv)
FairSpec == Spec /\ Fairness

(***************************************************************************)
(* Properties.                                                             *)
(***************************************************************************)
\* The registration is of the types above; nothing stays to be sent or saved.
TypeOK ==
  /\ dev.cloud \in Parameters /\ flash \in Parameters
  /\ dev.result \subseteq Doubts /\ dev.substate \in 0..2 /\ dev.timeout \in 0..Patience + 1
  /\ dev.sends = <<>> /\ dev.saves = <<>>
  /\ conn \in {"none", "connecting", "connected", "disconnecting"}
  /\ Len(requests) <= SendBuffer
  /\ faults \in FaultSets

\* A device that counts as registered has an id and a key, in memory and in
\* flash: whatever order the answers come in, register_flag never survives the
\* loss of what it stands for.
FlagMeansComplete ==
  \A p \in {dev.cloud, flash} : p.register_flag => p.device_id # None /\ p.device_apikey # None

\* The device gives up its id only after the cloud has lost it, and its key only after the
\* cloud has lost it or if it was never a key of this device, as long as answers come
\* within Patience on a connection that lasts.
GivenUpOnlyIfGone ==
  [][faults = {} =>
       /\ flash'.device_id # flash.device_id => flash.device_id \notin devices
       /\ flash'.device_apikey # flash.device_apikey =>
            \A k \in keys : k[1] = flash.device_apikey => flash.device_id \notin {None, k[2]}]_vars

\* The check does not go on after the client was deleted (nothing stops its
\* timer), if the application deletes the client when Registered says so.
CheckEndsBeforeClient == faults = {} => (dev.query_timer => dev.client)

\* Whatever the cloud has forgotten, and wherever an earlier attempt was cut off by a
\* restart: a session on a good connection ends with a device that the cloud knows, a
\* key for it, and both confirmed.  But for three cases, which the code does not handle.
Known == <<dev.cloud.device_apikey, dev.cloud.device_id>> \in keys /\ dev.cloud.device_id \in devices

\* An attempt was cut off between its two steps, and the cloud has forgotten the device:
\* only a finished registration is ever checked.
OrphanedAttempt == ~dev.cloud.register_flag /\ dev.cloud.device_id \notin devices \cup {None}
\* A registration was given up and its key not yet deleted: the next device gets that key.
LeftoverKey ==
  ~dev.cloud.register_flag /\ dev.cloud.device_id = None /\ dev.cloud.device_apikey # None
\* The cloud has lost the key, but has another one for the device: no key is compared.
OtherKey ==
  /\ dev.cloud.register_flag
  /\ <<dev.cloud.device_apikey, dev.cloud.device_id>> \notin keys
  /\ KeysOf(dev.cloud.device_id) # {}

EndsRegistered ==
  (conn = "connecting" /\ faults = {} /\ ~OrphanedAttempt /\ ~LeftoverKey /\ ~OtherKey)
    ~> (conn = "none" \/ (Registered /\ Known))
=============================================================================
