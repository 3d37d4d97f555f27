----------------------- MODULE HttpRegistrationProofs -----------------------
(***************************************************************************)
(* What holds of the registration with any cloud, any number of ids, keys, *)
(* restarts and sessions, and all the faults together: a device that       *)
(* counts as registered has an id and a key.  And without faults, the      *)
(* check of a registration is over before the client is deleted, and what  *)
(* the device gives up the cloud no longer has for it.                     *)
(***************************************************************************)
EXTENDS HttpRegistration, SequenceTheorems, TLAPS

DeviceFields ==
  {"cloud", "client", "disconnect_state", "delete_timer", "query_timer", "state", "substate",
   "timeout", "result", "request_state", "request_result", "delete_is_self", "sends", "saves"}
ParamFields == {"device_id", "device_apikey", "set", "register_flag", "init_flag"}

\* What flash will hold if the callback that made d of `dev' ends now, with f in flash.
After(d, f) == IF d.saves = <<>> THEN f ELSE d.saves[1]

Sound(c) ==
  /\ DOMAIN c = ParamFields
  /\ c.register_flag => c.device_id # None /\ c.device_apikey # None

\* Neither registered nor about to be: there is no device.
Gone(c) == ~c.register_flag /\ c.device_id = None

(***************************************************************************)
(* The answer to "apikey_delete" takes the key away, and nothing clears    *)
(* register_flag then.  So from the request on, and whatever is loaded     *)
(* from flash meanwhile, there must be no registration left.               *)
(***************************************************************************)
Good(d, f) ==
  /\ DOMAIN d = DeviceFields
  /\ d.substate \in 0 .. 2 /\ d.timeout \in Nat /\ d.result \subseteq Doubts
  /\ Sound(d.cloud) /\ Sound(After(d, f))
  /\ d.request_state = "apikey_delete" => Gone(d.cloud) /\ Gone(After(d, f))

LEMMA SaveGood ==
  ASSUME NEW d, NEW f, Good(d, f)
  PROVE  Good(Save(d), f)
<1>1. Save(d).saves = <<d.cloud>> /\ Save(d).saves # <<>> /\ Save(d).saves[1] = d.cloud
  BY DEF Good, Save, DeviceFields
<1>2. After(Save(d), f) = d.cloud
  BY <1>1 DEF After
<1> QED
  BY <1>2 DEF Good, Save, DeviceFields

LEMMA RequestGood ==
  ASSUME NEW d, NEW f, Good(d, f), NEW state, NEW id, NEW key,
         state = "apikey_delete" => Gone(d.cloud) /\ Gone(After(d, f))
  PROVE  Good(Request(d, state, id, key), f)
  BY DEF Good, Request, DeviceFields, After

LEMMA RegisterCheckGood ==
  ASSUME NEW d, NEW f, Good(d, f)
  PROVE  Good(RegisterCheck(d), f)
<1>1. CASE Complete(d.cloud)
  <2> DEFINE e == [d EXCEPT !.cloud.register_flag = TRUE]
  <2>1. RegisterCheck(d) = Save(e)
    BY <1>1 DEF RegisterCheck
  <2>2. d.request_state # "apikey_delete"
    BY <1>1 DEF Good, Gone, Complete
  <2>3. Good(e, f)
    BY <1>1, <2>2 DEF Good, DeviceFields, ParamFields, After, Sound, Complete
  <2> HIDE DEF e
  <2> QED
    BY <2>1, <2>3, SaveGood
<1>2. CASE ~Complete(d.cloud) /\ d.cloud.device_id = None
  BY <1>2, RequestGood DEF RegisterCheck, DeviceCreate
<1>3. CASE ~Complete(d.cloud) /\ d.cloud.device_id # None /\ d.cloud.device_apikey = None
  <2> DEFINE e == [d EXCEPT !.result = @ \ {"id"}]
  <2>1. Good(e, f)
    BY DEF Good, DeviceFields, After
  <2>2. RegisterCheck(d) = ApikeyCreate(e)
    BY <1>3 DEF RegisterCheck
  <2> HIDE DEF e
  <2> QED
    BY <2>1, <2>2, RequestGood DEF ApikeyCreate
<1>4. CASE ~Complete(d.cloud) /\ d.cloud.device_id # None /\ d.cloud.device_apikey # None
  BY <1>4 DEF RegisterCheck
<1> QED
  BY <1>1, <1>2, <1>3, <1>4

\* The progress of the check, and its timer, do not matter.
LEMMA DoubtGood ==
  ASSUME NEW d, NEW f, Good(d, f), NEW what \in Doubts, NEW yes
  PROVE  Good(Doubt(d, what, yes), f) /\ Good(ThenKey(d), f) /\ Good(Rearm(d), f)
  BY DEF Good, DeviceFields, After, Doubt, ThenKey, Rearm

\* What onenet_device_query_check gives up; register_flag goes with it.
Forgets(d, id, key) ==
  Save([d EXCEPT !.cloud.device_id = IF id THEN None ELSE @,
                 !.cloud.device_apikey = IF key THEN None ELSE @,
                 !.cloud.register_flag = FALSE])

LEMMA ForgetsGood ==
  ASSUME NEW d, NEW f, Good(d, f), NEW id \in BOOLEAN, NEW key \in BOOLEAN
  PROVE  /\ Good(Forgets(d, id, key), f)
         /\ id => Gone(Forgets(d, id, key).cloud) /\ Gone(After(Forgets(d, id, key), f))
<1> DEFINE e == [d EXCEPT !.cloud.device_id = IF id THEN None ELSE @,
                          !.cloud.device_apikey = IF key THEN None ELSE @,
                          !.cloud.register_flag = FALSE]
<1>1. /\ DOMAIN e = DeviceFields /\ DOMAIN e.cloud = ParamFields
      /\ ~e.cloud.register_flag
      /\ d.request_state = "apikey_delete" => e.cloud.device_id = None
      /\ id => e.cloud.device_id = None
      /\ e.substate \in 0 .. 2 /\ e.timeout \in Nat /\ e.result \subseteq Doubts
      /\ e.saves = d.saves /\ e.request_state = d.request_state
  BY DEF Good, Sound, Gone, DeviceFields, ParamFields
<1> HIDE DEF e
<1>2. Good(e, f)
  BY <1>1 DEF Good, Sound, Gone, After
<1>3. Good(Save(e), f)
  BY <1>2, SaveGood
<1>4. Save(e).cloud = e.cloud /\ After(Save(e), f) = e.cloud
  BY <1>1 DEF Save, DeviceFields, After
<1>5. Forgets(d, id, key) = Save(e)
  BY DEF Forgets, e
<1> QED
  BY <1>1, <1>3, <1>4, <1>5 DEF Gone

LEMMA ConcludeGood ==
  ASSUME NEW d, NEW f, Good(d, f)
  PROVE  Good(Conclude(d), f)
<1>1. CASE d.result = Doubts
  <2>1. Conclude(d) = RegisterCheck(Forgets(d, TRUE, TRUE))
    BY <1>1 DEF Conclude, Forgets, Doubts
  <2> QED
    BY <2>1, ForgetsGood, RegisterCheckGood
<1>2. CASE d.result = {"id"}
  <2> DEFINE g == Forgets(d, TRUE, FALSE)
  <2>1. Conclude(d) = ApikeyDelete(g, g.cloud.device_apikey)
    BY <1>2 DEF Conclude, Forgets, Doubts
  <2>2. Good(g, f) /\ Gone(g.cloud) /\ Gone(After(g, f))
    <3>1. TRUE \in BOOLEAN /\ FALSE \in BOOLEAN
      OBVIOUS
    <3> QED
      BY <3>1, ForgetsGood, Zenon
  <2> HIDE DEF g
  <2> QED
    BY <2>1, <2>2, RequestGood DEF ApikeyDelete
<1>3. CASE d.result = {"key"}
  <2>1. Conclude(d) = RegisterCheck(Forgets(d, FALSE, TRUE))
    BY <1>3 DEF Conclude, Forgets, Doubts
  <2>2. Good(Forgets(d, FALSE, TRUE), f)
    <3>1. TRUE \in BOOLEAN /\ FALSE \in BOOLEAN
      OBVIOUS
    <3> QED
      BY <3>1, ForgetsGood, Zenon
  <2> QED
    BY <2>1, <2>2, RegisterCheckGood
<1>4. CASE d.result = {}
  BY <1>4 DEF Conclude, Doubts
<1> QED
  BY <1>1, <1>2, <1>3, <1>4 DEF Good, Doubts

LEMMA CheckDeviceGood ==
  ASSUME NEW d, NEW f, Good(d, f)
  PROVE  Good(CheckDevice(d), f)
<1>1. CASE d.substate = 0
  <2> DEFINE e == [d EXCEPT !.request_result = 0, !.substate = 1, !.timeout = 0]
  <2>1. Good(e, f)
    BY DEF Good, DeviceFields, After
  <2>2. CheckDevice(d) = DeviceQuery(e)
    BY <1>1 DEF CheckDevice
  <2> HIDE DEF e
  <2> QED
    BY <2>1, <2>2, RequestGood DEF DeviceQuery
<1>2. CASE d.substate = 1
  <2>1. CheckDevice(d) = IF d.timeout > Patience THEN ThenKey(Doubt(d, "id", TRUE)) ELSE d
    BY <1>2 DEF CheckDevice
  <2> QED
    BY <2>1, DoubtGood DEF Doubts
<1>3. CASE d.substate = 2
  <2>1. CheckDevice(d) = ThenKey(Doubt(d, "id", d.request_result # 0))
    BY <1>3 DEF CheckDevice
  <2> QED
    BY <2>1, DoubtGood DEF Doubts
<1> QED
  BY <1>1, <1>2, <1>3 DEF Good

LEMMA CheckKeyGood ==
  ASSUME NEW d, NEW f, Good(d, f)
  PROVE  Good(CheckKey(d), f)
<1>5. Patience \in Nat /\ d.timeout \in Nat
  BY HttpAssumption DEF Good
<1>1. CASE d.substate = 0
  <2> DEFINE e == [d EXCEPT !.request_result = 0, !.substate = 1]
  <2>1. Good(e, f)
    BY DEF Good, DeviceFields, After
  <2>2. CheckKey(d) = Rearm(ApikeyQuery(e))
    BY <1>1 DEF CheckKey
  <2> HIDE DEF e
  <2>3. Good(ApikeyQuery(e), f)
    BY <2>1, RequestGood DEF ApikeyQuery
  <2> QED
    BY <2>2, <2>3, DoubtGood DEF Doubts
<1>2. CASE d.substate = 1 /\ d.timeout <= Patience
  <2>1. d.substate # 0 /\ d.substate # 2 /\ ~(d.timeout > Patience)
    BY <1>2, <1>5
  <2>2. CheckKey(d) = Rearm(d)
    BY <1>2, <2>1, Zenon DEF CheckKey
  <2> QED
    BY <2>2, DoubtGood DEF Doubts
<1>3. CASE d.substate = 1 /\ ~(d.timeout <= Patience)
  <2>1. d.substate # 0 /\ d.substate # 2 /\ d.timeout > Patience
    BY <1>3, <1>5
  <2>2. CheckKey(d) = Conclude(Doubt(d, "key", TRUE))
    BY <1>3, <2>1, Zenon DEF CheckKey
  <2>3. Good(Doubt(d, "key", TRUE), f)
    BY DoubtGood DEF Doubts
  <2> QED
    BY <2>2, <2>3, ConcludeGood
<1>4. CASE d.substate = 2
  <2> DEFINE g == Doubt(d, "key", d.request_result # 0)
             e == [g EXCEPT !.state = "device", !.substate = 0, !.timeout = 0]
  <2>1. Good(g, f)
    BY DoubtGood DEF Doubts
  <2> HIDE DEF g
  <2>2. Good(e, f)
    BY <2>1 DEF Good, DeviceFields, After
  <2>3. CheckKey(d) = Conclude(e)
    BY <1>4 DEF CheckKey, g
  <2> HIDE DEF e
  <2> QED
    BY <2>2, <2>3, ConcludeGood
<1> QED
  BY <1>1, <1>2, <1>3, <1>4 DEF Good

LEMMA QueryCheckGood ==
  ASSUME NEW d, NEW f, Good(d, f)
  PROVE  Good(QueryCheck(d), f)
<1> DEFINE e == [d EXCEPT !.query_timer = FALSE, !.timeout = @ + 1]
<1>1. Good(e, f)
  BY DEF Good, DeviceFields, After
<1>2. QueryCheck(d) = IF e.state = "device" THEN Rearm(CheckDevice(e)) ELSE CheckKey(e)
  BY DEF QueryCheck
<1> HIDE DEF e
<1> QED
  BY <1>1, <1>2, CheckDeviceGood, CheckKeyGood, DoubtGood DEF Doubts

-----------------------------------------------------------------------------
(* Answers *)

LEMMA AuthInfoGood ==
  ASSUME NEW d, NEW f, Good(d, f), NEW r
  PROVE  Good(AuthInfoSeen(d, r), f)
  BY RegisterCheckGood DEF AuthInfoSeen

LEMMA DeviceCreatedGood ==
  ASSUME NEW d, NEW f, Good(d, f), NEW r, d.request_state = "device_create"
  PROVE  Good(DeviceCreated(d, r), f)
<1> DEFINE e == [d EXCEPT !.cloud.device_id = r.id]
           got == RegisterCheck(e)
           g == [got EXCEPT !.result = @ \ {"id"}]
<1>1. CASE r.id # None
  <2>1. Good(e, f)
    BY <1>1 DEF Good, DeviceFields, ParamFields, After, Sound
  <2> HIDE DEF e
  <2>2. Good(got, f)
    BY <2>1, RegisterCheckGood
  <2> HIDE DEF got
  <2>3. Good(g, f)
    BY <2>2 DEF Good, DeviceFields, After
  <2>4. DeviceCreated(d, r) = AuthInfoSeen(Save(g), r)
    BY <1>1 DEF DeviceCreated, got, e
  <2> HIDE DEF g
  <2> QED
    BY <2>3, <2>4, SaveGood, AuthInfoGood
<1>2. CASE r.id = None
  BY <1>2, AuthInfoGood DEF DeviceCreated
<1> QED
  BY <1>1, <1>2

LEMMA DeviceDeletedGood ==
  ASSUME NEW d, NEW f, Good(d, f)
  PROVE  Good(DeviceDeleted(d), f)
<1> DEFINE e == [d EXCEPT !.delete_is_self = FALSE, !.cloud.device_id = None,
                          !.cloud.set = @ \ {"auth_info"}, !.cloud.register_flag = FALSE]
<1>1. Good(e, f) /\ Gone(e.cloud) /\ DOMAIN e = DeviceFields
  BY DEF Good, DeviceFields, ParamFields, After, Sound, Gone
<1>2. DeviceDeleted(d) = IF d.delete_is_self THEN ApikeyDelete(Save(e), Save(e).cloud.device_apikey)
                         ELSE d
  BY DEF DeviceDeleted
<1> HIDE DEF e
<1>3. Good(Save(e), f) /\ Gone(Save(e).cloud) /\ Gone(After(Save(e), f))
  BY <1>1, SaveGood DEF Save, DeviceFields, After
<1> QED
  BY <1>2, <1>3, RequestGood DEF ApikeyDelete

LEMMA ApikeyCreatedGood ==
  ASSUME NEW d, NEW f, Good(d, f), NEW r, d.request_state = "apikey_create"
  PROVE  Good(ApikeyCreated(d, r), f)
<1> DEFINE e == [d EXCEPT !.cloud.device_apikey = r.key]
           g == Save(RegisterCheck(e))
<1>1. CASE r.key # None
  <2>1. Good(e, f)
    BY <1>1 DEF Good, DeviceFields, ParamFields, After, Sound
  <2> HIDE DEF e
  <2>2. Good(g, f)
    BY <2>1, RegisterCheckGood, SaveGood
  <2>3. ApikeyCreated(d, r) = [g EXCEPT !.result = @ \ {"key"}]
    BY <1>1 DEF ApikeyCreated, e
  <2> HIDE DEF g
  <2> QED
    BY <2>2, <2>3 DEF Good, DeviceFields, After
<1>2. CASE r.key = None
  BY <1>2 DEF ApikeyCreated
<1> QED
  BY <1>1, <1>2

\* The step Gone is for.
LEMMA ApikeyDeletedGood ==
  ASSUME NEW d, NEW f, Good(d, f), d.request_state = "apikey_delete"
  PROVE  Good(ApikeyDeleted(d), f)
<1> DEFINE e == [d EXCEPT !.cloud.device_apikey = None]
<1>1. Good(e, f)
  BY DEF Good, DeviceFields, ParamFields, After, Sound, Gone
<1>2. ApikeyDeleted(d) = RegisterCheck(Save(e))
  BY DEF ApikeyDeleted
<1> HIDE DEF e
<1> QED
  BY <1>1, <1>2, SaveGood, RegisterCheckGood

LEMMA RecvGood ==
  ASSUME NEW d, NEW f, Good(d, f), NEW r
  PROVE  Good(Recv(d, r), f)
<1> DEFINE e == [d EXCEPT !.substate = 2, !.request_result = r.errno]
<1>1. Good(e, f) /\ DOMAIN e = DeviceFields
  BY DEF Good, DeviceFields, After
<1>2. Good([e EXCEPT !.request_result = NoErrno], f)
  BY <1>1 DEF Good, DeviceFields, After
<1>3. Recv(d, r) = CASE r.errno # 0 -> e
       [] r.errno = 0 /\ e.request_state = "device_create" -> DeviceCreated(e, r)
       [] r.errno = 0 /\ e.request_state = "device_query" -> AuthInfoSeen(e, r)
       [] r.errno = 0 /\ e.request_state = "device_delete" -> DeviceDeleted(e)
       [] r.errno = 0 /\ e.request_state = "apikey_create" -> ApikeyCreated(e, r)
       [] r.errno = 0 /\ e.request_state = "apikey_query" ->
            IF r.key = None THEN [e EXCEPT !.request_result = NoErrno] ELSE e
       [] r.errno = 0 /\ e.request_state = "apikey_delete" -> ApikeyDeleted(e)
       [] OTHER -> e
  BY DEF Recv
<1> HIDE DEF e
<1>4. CASE r.errno = 0 /\ e.request_state \in {"device_create", "device_query", "device_delete"}
  BY <1>1, <1>3, <1>4, DeviceCreatedGood, AuthInfoGood, DeviceDeletedGood
<1>5. CASE r.errno = 0 /\ e.request_state \in {"apikey_create", "apikey_query", "apikey_delete"}
  BY <1>1, <1>2, <1>3, <1>5, ApikeyCreatedGood, ApikeyDeletedGood
<1>6. CASE ~(r.errno = 0 /\ e.request_state \in {"device_create", "device_query", "device_delete",
                                       "apikey_create", "apikey_query", "apikey_delete"})
  BY <1>1, <1>3, <1>6
<1> QED
  BY <1>4, <1>5, <1>6

-----------------------------------------------------------------------------
(* The parameters *)

LEMMA DefaultGone ==
  /\ DefaultParam = [device_id |-> None, device_apikey |-> None, set |-> {},
                      register_flag |-> FALSE, init_flag |-> TRUE]
  /\ Sound(DefaultParam) /\ Gone(DefaultParam)
  BY DEF DefaultParam, Sound, Gone, ParamFields

LEMMA RestoreGood ==
  ASSUME NEW d, NEW f, Good(d, f)
  PROVE  Good(ParamRestore(d), f)
<1> DEFINE e == [d EXCEPT !.cloud = DefaultParam]
<1>1. Good(e, f)
  BY DefaultGone DEF Good, DeviceFields, After
<1> QED
  BY <1>1, SaveGood DEF ParamRestore

LEMMA LoadGood ==
  ASSUME NEW d, NEW f, Good(d, f), NEW p, Sound(p),
         d.request_state = "apikey_delete" => Gone(p)
  PROVE  Good(ParamLoad(d, p), f)
<1>1. CASE p.init_flag
  <2>1. ParamLoad(d, p) = [d EXCEPT !.cloud = p]
    BY <1>1 DEF ParamLoad
  <2> QED
    BY <2>1 DEF Good, DeviceFields, After
<1>2. CASE ~p.init_flag
  BY <1>2, RestoreGood DEF ParamLoad, ParamRestore
<1> QED
  BY <1>1, <1>2

\* The memory after a start.
LEMMA IdleGood ==
  ASSUME NEW f, Sound(f)
  PROVE  Good(Idle, f) /\ Idle.saves = <<>> /\ Idle.request_state = "device_create"
         /\ ~Idle.query_timer /\ ~Idle.client /\ ~Idle.delete_timer /\ ~Idle.disconnect_state
<1>1. /\ DOMAIN Idle = DeviceFields /\ Idle.substate = 0 /\ Idle.timeout = 0 /\ Idle.result = {}
      /\ Idle.cloud = DefaultParam /\ Idle.saves = <<>> /\ Idle.request_state = "device_create"
      /\ ~Idle.query_timer /\ ~Idle.client /\ ~Idle.delete_timer /\ ~Idle.disconnect_state
  BY DEF Idle, DeviceFields
<1> QED
  BY <1>1, DefaultGone DEF Good, After

-----------------------------------------------------------------------------
(* The steps *)

FlagInv == Good(dev, flash) /\ dev.saves = <<>>

LEMMA Finishes ==
  ASSUME NEW d, Good(d, flash), dev' = [d EXCEPT !.sends = <<>>, !.saves = <<>>],
         flash' = IF d.saves = <<>> THEN flash ELSE d.saves[1]
  PROVE  FlagInv'
<1>1. /\ DOMAIN dev' = DeviceFields /\ dev'.saves = <<>> /\ dev'.cloud = d.cloud
      /\ dev'.request_state = d.request_state /\ dev'.substate = d.substate
      /\ dev'.timeout = d.timeout /\ dev'.result = d.result
  BY DEF Good, DeviceFields
<1>2. flash' = After(d, flash)
  BY DEF After
<1>3. After(dev', flash') = flash'
  BY <1>1 DEF After
<1> QED
  BY <1>1, <1>2, <1>3 DEF FlagInv, Good

LEMMA FlagKept ==
  ASSUME FlagInv, flash' = flash, DOMAIN dev' = DeviceFields,
         dev'.cloud = dev.cloud, dev'.saves = dev.saves, dev'.request_state = dev.request_state,
         dev'.substate = dev.substate, dev'.timeout = dev.timeout, dev'.result = dev.result
  PROVE  FlagInv'
  BY DEF FlagInv, Good, After

LEMMA ConnectFlag == ASSUME FlagInv, ConnectCb PROVE FlagInv'
<1>1. CASE dev.cloud.register_flag
  <2> DEFINE e == [dev EXCEPT !.state = "device", !.substate = 0, !.timeout = 0]
             g == [e EXCEPT !.query_timer = FALSE, !.timeout = @ + 1]
             h == [g EXCEPT !.request_result = 0, !.substate = 1, !.timeout = 0]
             d == QueryCheck(e)
  <2>1. Good(e, flash)
    BY DEF FlagInv, Good, DeviceFields, After
  <2>2. Good(d, flash)
    <3> HIDE DEF e
    <3> QED
      BY <2>1, QueryCheckGood
  <2>3. DOMAIN h = DeviceFields /\ h.saves = <<>>
    BY DEF FlagInv, Good, DeviceFields
  <2>4. d = Rearm(DeviceQuery(h))
    <3>1. g.state = "device" /\ g.substate = 0
      BY DEF FlagInv, Good, DeviceFields
    <3>2. d = IF g.state = "device" THEN Rearm(CheckDevice(g)) ELSE CheckKey(g)
      BY DEF QueryCheck
    <3>3. g.substate = 0 => CheckDevice(g) = DeviceQuery(h)
      <4> HIDE DEF g
      <4> QED
        BY DEF CheckDevice, h
    <3> HIDE DEF g, h, d
    <3> QED
      BY <3>1, <3>2, <3>3
  <2>5. dev' = [d EXCEPT !.sends = <<>>] /\ flash' = flash
    BY <1>1 DEF ConnectCb
  <2> HIDE DEF h, d
  <2>6. d.saves = <<>>
    BY <2>3, <2>4 DEF Rearm, DeviceQuery, Request, DeviceFields
  <2> QED
    BY <2>2, <2>5, <2>6 DEF FlagInv, Good, DeviceFields, After
<1>2. CASE ~dev.cloud.register_flag
  <2>1. Good(RegisterCheck(dev), flash)
    BY RegisterCheckGood DEF FlagInv
  <2> QED
    BY <1>2, <2>1, Finishes DEF ConnectCb
<1> QED
  BY <1>1, <1>2

LEMMA FlagStep == ASSUME FlagInv, [Next]_vars PROVE FlagInv'
<1>0. Good(dev, flash) /\ dev.saves = <<>> /\ DOMAIN dev = DeviceFields
  BY DEF FlagInv, Good
<1>1. ASSUME NEW d, Good(d, flash), Finish(d) PROVE FlagInv'
  BY <1>1, Finishes DEF Finish
<1>2. ASSUME NEW field \in UserFields, SetUserField(field) PROVE FlagInv'
  <2> DEFINE e == [dev EXCEPT !.cloud.set = @ \cup {field}]
  <2>1. Good(e, flash)
    BY DEF FlagInv, Good, Sound, Gone, DeviceFields, ParamFields, After
  <2> HIDE DEF e
  <2> QED
    BY <1>1, <1>2, <2>1 DEF SetUserField, e
<1>3. CASE Create
  <2> DEFINE e == [dev EXCEPT !.client = TRUE, !.result = Doubts]
  <2>1. Good(e, flash)
    BY DEF FlagInv, Good, DeviceFields, After
  <2> HIDE DEF e
  <2> QED
    BY <1>1, <1>3, <2>1 DEF Create, e
<1>4. CASE Delete
  <2> DEFINE e == [dev EXCEPT !.disconnect_state = TRUE, !.delete_timer = TRUE]
  <2>1. Good(e, flash)
    BY DEF FlagInv, Good, DeviceFields, After
  <2> HIDE DEF e
  <2> QED
    BY <1>1, <1>4, <2>1 DEF Delete, e
<1>5. CASE Ask
  <2>1. Good(StreamRequest(dev), flash) /\ Good(BindataRequest(dev), flash)
    BY <1>0, RequestGood DEF StreamRequest, BindataRequest
  <2> QED
    BY <1>1, <1>5, <2>1 DEF Ask
<1>6. CASE Unregister
  <2> DEFINE id == dev.cloud.device_id
             e == [dev EXCEPT !.delete_is_self = IF dev.client THEN dev.cloud.device_id = id ELSE @]
  <2>1. Good(e, flash)
    BY DEF FlagInv, Good, DeviceFields, After
  <2>2. DeviceDelete(dev, id) = Request(e, "device_delete", id, None)
    BY DEF DeviceDelete
  <2> HIDE DEF e
  <2>3. Good(DeviceDelete(dev, id), flash)
    BY <2>1, <2>2, RequestGood
  <2> QED
    BY <1>1, <1>6, <2>3 DEF Unregister
<1>7. CASE ConsoleParam
  <2>1. Sound(flash) /\ (dev.request_state = "apikey_delete" => Gone(flash))
    BY <1>0 DEF Good, After
  <2>2. Good(ParamRestore(dev), flash) /\ Good(Save(dev), flash) /\ Good(ParamLoad(dev, flash), flash)
    BY <1>0, <2>1, RestoreGood, SaveGood, LoadGood
  <2> QED
    BY <1>1, <1>7, <2>2 DEF ConsoleParam
<1>8. CASE Restart
  <2> DEFINE d == ParamLoad(Idle, flash)
  <2>1. Sound(flash)
    BY <1>0 DEF Good, After
  <2>2. Good(d, flash)
    BY <2>1, IdleGood, LoadGood
  <2>3. dev' = [d EXCEPT !.saves = <<>>] /\ flash' = After(d, flash)
    BY <1>8 DEF Restart, After
  <2> HIDE DEF d
  <2> QED
    BY <2>2, <2>3 DEF FlagInv, Good, DeviceFields, After
<1>9. CASE DisconCb \/ DeleteTimer
  <2>1. /\ flash' = flash /\ DOMAIN dev' = DeviceFields
        /\ dev'.cloud = dev.cloud /\ dev'.saves = dev.saves
        /\ dev'.request_state = dev.request_state /\ dev'.substate = dev.substate
        /\ dev'.timeout = dev.timeout /\ dev'.result = dev.result
    BY <1>0, <1>9 DEF DisconCb, DeleteTimer, Freed, DeviceFields
  <2> QED
    BY <2>1, FlagKept
<1>10. CASE QueryTimer
  BY <1>0, <1>1, <1>10, QueryCheckGood DEF QueryTimer
<1>11. CASE HttpclientRecv
  BY <1>0, <1>1, <1>11, RecvGood DEF HttpclientRecv
<1>12. CASE UNCHANGED <<dev, flash>>
  BY <1>12 DEF FlagInv
<1> QED
  BY <1>2, <1>3, <1>4, <1>5, <1>6, <1>7, <1>8, <1>9, <1>10, <1>11, <1>12, ConnectFlag
     DEF Next, Application, Callback, Serve, Forget, vars

LEMMA InitFlag == Init => FlagInv
<1> SUFFICES ASSUME Init PROVE FlagInv
  OBVIOUS
<1> DEFINE d == ParamLoad(Idle, ErasedParam)
<1>1. /\ Sound(ErasedParam) /\ ~ErasedParam.init_flag
  BY DEF ErasedParam, DefaultParam, Sound, ParamFields
<1>2. Good(d, ErasedParam)
  BY <1>1, IdleGood, LoadGood
<1>3. d.saves # <<>>
  BY <1>1, IdleGood DEF ParamLoad, Save, Good, DeviceFields
<1>4. dev = [d EXCEPT !.saves = <<>>] /\ flash = d.saves[1]
  BY DEF Init
<1> HIDE DEF d
<1> QED
  BY <1>2, <1>3, <1>4 DEF FlagInv, Good, DeviceFields, After

\* A device that counts as registered has an id and a key, in memory and in flash
\* (onenet_http.c): for every cloud, and whatever goes wrong, all the faults together included.
THEOREM RegisteredMeansComplete == Spec => []FlagMeansComplete
<1>1. FlagInv => FlagMeansComplete
  BY DEF FlagInv, Good, After, Sound, FlagMeansComplete
<1> QED
  BY <1>1, InitFlag, FlagStep, PTL DEF Spec

-----------------------------------------------------------------------------
(* Without faults: the check of a registration *)

\* The client and the timers are as before.
Steady(d, e) ==
  /\ e.client = d.client /\ e.disconnect_state = d.disconnect_state
  /\ e.delete_timer = d.delete_timer /\ e.query_timer = d.query_timer

LEMMA RequestSteady ==
  ASSUME NEW d, DOMAIN d = DeviceFields, NEW state, NEW id, NEW key
  PROVE  Steady(d, Request(d, state, id, key)) /\ Steady(d, Save(d))
  BY DEF Steady, Request, Save, DeviceFields

LEMMA RegisterCheckSteady ==
  ASSUME NEW d, NEW f, Good(d, f)
  PROVE  Steady(d, RegisterCheck(d))
<1>1. CASE Complete(d.cloud)
  <2>1. RegisterCheck(d) = Save([d EXCEPT !.cloud.register_flag = TRUE])
    BY <1>1 DEF RegisterCheck
  <2> QED
    BY <2>1 DEF Good, Steady, Save, DeviceFields
<1>2. CASE ~Complete(d.cloud) /\ d.cloud.device_id = None
  BY <1>2, RequestSteady DEF RegisterCheck, DeviceCreate, Good
<1>3. CASE ~Complete(d.cloud) /\ d.cloud.device_id # None /\ d.cloud.device_apikey = None
  <2> DEFINE e == [d EXCEPT !.result = @ \ {"id"}]
  <2>1. RegisterCheck(d) = ApikeyCreate(e)
    BY <1>3 DEF RegisterCheck
  <2>2. DOMAIN e = DeviceFields /\ Steady(d, e)
    BY DEF Good, Steady, DeviceFields
  <2> HIDE DEF e
  <2> QED
    BY <2>1, <2>2, RequestSteady DEF ApikeyCreate, Steady
<1>4. CASE ~Complete(d.cloud) /\ d.cloud.device_id # None /\ d.cloud.device_apikey # None
  BY <1>4 DEF RegisterCheck, Steady
<1> QED
  BY <1>1, <1>2, <1>3, <1>4

LEMMA ForgetsSteady ==
  ASSUME NEW d, NEW f, Good(d, f), NEW id, NEW key
  PROVE  Steady(d, Forgets(d, id, key))
  BY DEF Forgets, Good, Steady, Save, DeviceFields

LEMMA ConcludeSteady ==
  ASSUME NEW d, NEW f, Good(d, f)
  PROVE  Steady(d, Conclude(d))
<1>0. TRUE \in BOOLEAN /\ FALSE \in BOOLEAN
  OBVIOUS
<1>1. /\ Good(Forgets(d, TRUE, TRUE), f) /\ Good(Forgets(d, TRUE, FALSE), f)
      /\ Good(Forgets(d, FALSE, TRUE), f)
  BY <1>0, ForgetsGood, Zenon
<1>2. CASE d.result = Doubts \/ d.result = {"key"}
  <2>2. ASSUME NEW g, Good(g, f), Steady(d, g), Conclude(d) = RegisterCheck(g)
        PROVE  Steady(d, Conclude(d))
    BY <2>2, RegisterCheckSteady DEF Steady
  <2>3. CASE d.result = Doubts
    <3>1. Conclude(d) = RegisterCheck(Forgets(d, TRUE, TRUE))
      BY <2>3 DEF Conclude, Forgets, Doubts
    <3> QED
      BY <1>1, <2>2, <3>1, ForgetsSteady
  <2>4. CASE d.result = {"key"}
    <3>1. Conclude(d) = RegisterCheck(Forgets(d, FALSE, TRUE))
      BY <2>4 DEF Conclude, Forgets, Doubts
    <3> QED
      BY <1>1, <2>2, <3>1, ForgetsSteady
  <2> QED
    BY <1>2, <2>3, <2>4
<1>3. CASE d.result = {"id"}
  <2> DEFINE g == Forgets(d, TRUE, FALSE)
  <2>1. Conclude(d) = ApikeyDelete(g, g.cloud.device_apikey)
    BY <1>3 DEF Conclude, Forgets, Doubts
  <2>2. Steady(d, g) /\ DOMAIN g = DeviceFields
    BY <1>1, ForgetsSteady DEF Good
  <2> HIDE DEF g
  <2> QED
    BY <2>1, <2>2, RequestSteady DEF ApikeyDelete, Steady
<1>4. CASE d.result = {}
  BY <1>4 DEF Conclude, Doubts, Steady
<1> QED
  BY <1>2, <1>3, <1>4 DEF Good, Doubts

(***************************************************************************)
(* While the check runs there is a client, the key is still to be          *)
(* confirmed, and the only answers to come are those of the check.         *)
(***************************************************************************)
Checking(d) ==
  /\ d.client /\ "key" \in d.result /\ d.cloud.register_flag
  /\ d.request_state \in {"device_query", "apikey_query"}

CheckRuns(d, e) ==
  /\ e.client = d.client /\ e.disconnect_state = d.disconnect_state
  /\ e.delete_timer = d.delete_timer
  /\ e.query_timer => Checking(e)

LEMMA QueryCheckRuns ==
  ASSUME NEW d, NEW f, Good(d, f), d.client, "key" \in d.result, d.cloud.register_flag,
         Checking(d) \/ (d.state = "device" /\ d.substate = 0)
  PROVE  CheckRuns(d, QueryCheck(d))
<1> DEFINE e == [d EXCEPT !.query_timer = FALSE, !.timeout = @ + 1]
<1>0. Good(e, f)
  BY DEF Good, DeviceFields, After
<1>1. /\ Good(e, f) /\ DOMAIN e = DeviceFields /\ ~e.query_timer /\ e.state = d.state
      /\ e.client = d.client /\ e.disconnect_state = d.disconnect_state
      /\ e.delete_timer = d.delete_timer /\ "key" \in e.result /\ e.cloud.register_flag
      /\ Checking(e) \/ (e.state = "device" /\ e.substate = 0)
  <2>1. DOMAIN d = DeviceFields
    BY DEF Good
  <2>2. /\ e.query_timer = FALSE /\ e.state = d.state /\ e.client = d.client
        /\ e.disconnect_state = d.disconnect_state /\ e.delete_timer = d.delete_timer
        /\ e.result = d.result /\ e.cloud = d.cloud /\ e.request_state = d.request_state
        /\ e.substate = d.substate /\ DOMAIN e = DeviceFields
    BY <2>1 DEF DeviceFields
  <2> HIDE DEF e
  <2> QED
    BY <1>0, <2>2 DEF Checking
<1>2. QueryCheck(d) = IF e.state = "device" THEN Rearm(CheckDevice(e)) ELSE CheckKey(e)
  BY DEF QueryCheck
<1> HIDE DEF e
<1>3. ASSUME NEW g, DOMAIN g = DeviceFields, Steady(e, g), Checking(g)
      PROVE  Steady([e EXCEPT !.query_timer = TRUE], Rearm(g)) /\ Checking(Rearm(g))
  BY <1>1, <1>3 DEF Steady, Rearm, Checking, DeviceFields
<1>6. ASSUME NEW g, DOMAIN g = DeviceFields, Steady(e, g), Checking(g), QueryCheck(d) = Rearm(g)
       PROVE  CheckRuns(d, QueryCheck(d))
  <2>1. Steady([e EXCEPT !.query_timer = TRUE], Rearm(g)) /\ Checking(Rearm(g))
    BY <1>3, <1>6
  <2> QED
    BY <1>1, <1>6, <2>1 DEF Steady, CheckRuns, DeviceFields
<1>4. CASE e.state = "device"
  <2>1. CheckDevice(e).client = e.client /\ DOMAIN CheckDevice(e) = DeviceFields
        /\ Steady(e, CheckDevice(e)) /\ Checking(CheckDevice(e))
    <3>1. CASE e.substate = 0
      <4> DEFINE g == [e EXCEPT !.request_result = 0, !.substate = 1, !.timeout = 0]
      <4>1. DOMAIN g = DeviceFields /\ Steady(e, g) /\ g.client /\ "key" \in g.result
            /\ g.cloud.register_flag
        BY <1>1 DEF DeviceFields, Steady
      <4>2. CheckDevice(e) = DeviceQuery(g)
        BY <3>1 DEF CheckDevice
      <4> HIDE DEF g
      <4> QED
        BY <4>1, <4>2 DEF DeviceQuery, Request, Steady, Checking, DeviceFields
    <3>2. CASE e.substate \in {1, 2}
      <4>1. \/ CheckDevice(e) = e
            \/ \E yes \in BOOLEAN : CheckDevice(e) = ThenKey(Doubt(e, "id", yes))
        <5>1. CASE e.substate = 1
          <6>1. CheckDevice(e) = IF e.timeout > Patience THEN ThenKey(Doubt(e, "id", TRUE)) ELSE e
            BY <5>1 DEF CheckDevice
          <6>2. TRUE \in BOOLEAN
            OBVIOUS
          <6> QED
            BY <6>1, <6>2, Zenon
        <5>2. CASE e.substate = 2
          <6>1. CheckDevice(e) = ThenKey(Doubt(e, "id", e.request_result # 0))
            BY <5>2 DEF CheckDevice
          <6> QED
            BY <6>1
        <5> QED
          BY <3>2, <5>1, <5>2
      <4>2. Checking(e)
        BY <1>1, <3>2
      <4>3. ASSUME NEW yes \in BOOLEAN, NEW g, g = ThenKey(Doubt(e, "id", yes))
            PROVE  DOMAIN g = DeviceFields /\ Steady(e, g) /\ Checking(g)
        BY <1>1, <4>2, <4>3 DEF ThenKey, Doubt, Steady, Checking, DeviceFields
      <4>4. DOMAIN e = DeviceFields /\ Steady(e, e) /\ Checking(e)
        BY <1>1, <4>2 DEF Steady
      <4>5. DOMAIN CheckDevice(e) = DeviceFields /\ Steady(e, CheckDevice(e)) /\ Checking(CheckDevice(e))
        BY <4>1, <4>3, <4>4, Zenon
      <4> QED
        BY <4>5 DEF Steady
    <3>3. e.substate \in {0, 1, 2}
      BY <1>1 DEF Good
    <3> QED
      BY <3>1, <3>2, <3>3
  <2>2. QueryCheck(d) = Rearm(CheckDevice(e))
    BY <1>2, <1>4
  <2> QED
    BY <1>6, <2>1, <2>2
<1>5. CASE e.state # "device"
  <2>0. Checking(e) /\ Patience \in Nat /\ e.timeout \in Nat
    BY <1>1, <1>5, HttpAssumption DEF Good
  <2>1. CASE e.substate = 0
    <3> DEFINE g == [e EXCEPT !.request_result = 0, !.substate = 1]
    <3>1. DOMAIN g = DeviceFields /\ Steady(e, g) /\ g.client /\ "key" \in g.result
          /\ g.cloud.register_flag
      BY <1>1 DEF DeviceFields, Steady
    <3>2. CheckKey(e) = Rearm(ApikeyQuery(g))
      BY <2>1 DEF CheckKey
    <3> HIDE DEF g
    <3>3. DOMAIN ApikeyQuery(g) = DeviceFields /\ Steady(e, ApikeyQuery(g)) /\ Checking(ApikeyQuery(g))
      BY <3>1 DEF ApikeyQuery, Request, Steady, Checking, DeviceFields
    <3> QED
      BY <1>2, <1>6, <1>5, <3>2, <3>3
  <2>2. CASE e.substate = 1 /\ ~(e.timeout > Patience)
    <3>1. e.substate # 0 /\ e.substate # 2 /\ e.timeout <= Patience
      BY <2>0, <2>2
    <3>2. CheckKey(e) = Rearm(e)
      BY <2>2, <3>1, Zenon DEF CheckKey
    <3>3. Steady(e, e)
      BY DEF Steady
    <3> QED
      BY <1>1, <1>2, <1>6, <1>5, <2>0, <3>2, <3>3
  <2>3. ASSUME NEW g, Good(g, f), Steady(e, g), CheckKey(e) = Conclude(g)
        PROVE  CheckRuns(d, QueryCheck(d))
    <3>1. Steady(g, Conclude(g)) /\ QueryCheck(d) = Conclude(g)
      BY <1>2, <1>5, <2>3, ConcludeSteady
    <3> QED
      BY <1>1, <2>3, <3>1 DEF Steady, CheckRuns
  <2>4. CASE e.substate = 1 /\ e.timeout > Patience
    <3>1. e.substate # 0 /\ e.substate # 2 /\ ~(e.timeout <= Patience)
      BY <2>0, <2>4
    <3>2. CheckKey(e) = Conclude(Doubt(e, "key", TRUE))
      BY <2>4, <3>1, Zenon DEF CheckKey
    <3>3. Good(Doubt(e, "key", TRUE), f)
      BY <1>1, DoubtGood DEF Doubts
    <3>4. Steady(e, Doubt(e, "key", TRUE))
      BY <1>1 DEF Doubt, Steady, DeviceFields
    <3> QED
      BY <2>3, <3>2, <3>3, <3>4
  <2>5. CASE e.substate = 2
    <3> DEFINE g == Doubt(e, "key", e.request_result # 0)
               h == [g EXCEPT !.state = "device", !.substate = 0, !.timeout = 0]
    <3>1. Good(g, f)
      BY <1>1, DoubtGood DEF Doubts
    <3>2. Steady(e, g)
      BY <1>1 DEF Doubt, Steady, DeviceFields
    <3> HIDE DEF g
    <3>3. Good(h, f) /\ Steady(e, h)
      BY <3>1, <3>2 DEF Good, DeviceFields, After, Steady
    <3>4. CheckKey(e) = Conclude(h)
      BY <2>5 DEF CheckKey, g
    <3> HIDE DEF h
    <3> QED
      BY <2>3, <3>3, <3>4
  <2> QED
    BY <1>1, <2>0, <2>1, <2>2, <2>4, <2>5 DEF Good
<1> QED
  BY <1>4, <1>5

\* An answer to the check does not register, and asks for nothing: the parameters are complete.
LEMMA AuthInfoChecks ==
  ASSUME NEW d, NEW f, Good(d, f), Checking(d), NEW r
  PROVE  Checking(AuthInfoSeen(d, r)) /\ Steady(d, AuthInfoSeen(d, r))
<1>1. d.cloud.device_id # None /\ d.cloud.device_apikey # None /\ DOMAIN d = DeviceFields
      /\ DOMAIN d.cloud = ParamFields
  BY DEF Good, Sound, Checking
<1>2. CASE Complete(d.cloud)
  <2> DEFINE e == [d EXCEPT !.cloud.register_flag = TRUE]
  <2>1. RegisterCheck(d) = Save(e)
    BY <1>2 DEF RegisterCheck
  <2>2. DOMAIN e = DeviceFields /\ Checking(e) /\ Steady(d, e)
    BY <1>1 DEF Checking, Steady, DeviceFields, ParamFields
  <2> HIDE DEF e
  <2>3. Checking(Save(e)) /\ Steady(e, Save(e))
    BY <2>2 DEF Save, Checking, Steady, DeviceFields
  <2>4. Steady(d, d)
    BY DEF Steady
  <2>5. AuthInfoSeen(d, r) = IF r.auth_info THEN Save(e) ELSE d
    BY <2>1 DEF AuthInfoSeen
  <2> QED
    BY <2>2, <2>3, <2>4, <2>5 DEF Steady
<1>3. CASE ~Complete(d.cloud)
  <2>1. RegisterCheck(d) = d
    BY <1>1, <1>3 DEF RegisterCheck
  <2> QED
    BY <2>1 DEF AuthInfoSeen, Steady
<1> QED
  BY <1>2, <1>3

LEMMA RecvChecks ==
  ASSUME NEW d, NEW f, Good(d, f), Checking(d), NEW r
  PROVE  Checking(Recv(d, r)) /\ Steady(d, Recv(d, r))
<1> DEFINE e == [d EXCEPT !.substate = 2, !.request_result = r.errno]
<1>1. Good(e, f) /\ DOMAIN e = DeviceFields
  BY DEF Good, DeviceFields, After
<1>2. Checking(e) /\ Steady(d, e)
  BY DEF Good, Checking, Steady, DeviceFields
<1>3. \/ Recv(d, r) = e
      \/ Recv(d, r) = AuthInfoSeen(e, r)
      \/ Recv(d, r) = [e EXCEPT !.request_result = NoErrno]
  <2>1. CASE r.errno # 0
    BY <2>1 DEF Recv
  <2>2. CASE r.errno = 0 /\ e.request_state = "device_query"
    BY <2>2 DEF Recv
  <2>3. CASE r.errno = 0 /\ e.request_state = "apikey_query"
    BY <2>3 DEF Recv
  <2> QED
    BY <1>2, <2>1, <2>2, <2>3 DEF Checking
<1> HIDE DEF e
<1>4. Checking([e EXCEPT !.request_result = NoErrno]) /\ Steady(e, [e EXCEPT !.request_result = NoErrno])
  BY <1>1, <1>2 DEF Checking, Steady, DeviceFields
<1>5. Checking(AuthInfoSeen(e, r)) /\ Steady(e, AuthInfoSeen(e, r))
  BY <1>1, <1>2, AuthInfoChecks
<1> QED
  BY <1>2, <1>3, <1>4, <1>5 DEF Steady

\* No answer, of whatever request, touches the client or the timers.
LEMMA RecvSteady ==
  ASSUME NEW d, NEW f, Good(d, f), NEW r
  PROVE  Steady(d, Recv(d, r))
<1> DEFINE e == [d EXCEPT !.substate = 2, !.request_result = r.errno]
<1>1. Good(e, f) /\ DOMAIN e = DeviceFields
  BY DEF Good, DeviceFields, After
<1>2. Steady(d, e)
  BY DEF Good, Steady, DeviceFields
<1>3. Recv(d, r) = CASE r.errno # 0 -> e
       [] r.errno = 0 /\ e.request_state = "device_create" -> DeviceCreated(e, r)
       [] r.errno = 0 /\ e.request_state = "device_query" -> AuthInfoSeen(e, r)
       [] r.errno = 0 /\ e.request_state = "device_delete" -> DeviceDeleted(e)
       [] r.errno = 0 /\ e.request_state = "apikey_create" -> ApikeyCreated(e, r)
       [] r.errno = 0 /\ e.request_state = "apikey_query" ->
            IF r.key = None THEN [e EXCEPT !.request_result = NoErrno] ELSE e
       [] r.errno = 0 /\ e.request_state = "apikey_delete" -> ApikeyDeleted(e)
       [] OTHER -> e
  BY DEF Recv
<1> HIDE DEF e
<1>4. ASSUME NEW g, Good(g, f) PROVE Steady(g, AuthInfoSeen(g, r))
  BY <1>4, RegisterCheckSteady DEF AuthInfoSeen, Steady
<1>5. ASSUME e.request_state = "device_create" PROVE Steady(e, DeviceCreated(e, r))
  <2> DEFINE g == [e EXCEPT !.cloud.device_id = r.id]
             got == RegisterCheck(g)
             h == [got EXCEPT !.result = @ \ {"id"}]
  <2>1. CASE r.id # None
    <3>1. Good(g, f) /\ Steady(e, g)
      BY <1>1, <1>5, <2>1 DEF Good, DeviceFields, ParamFields, After, Sound, Steady
    <3> HIDE DEF g
    <3>2. Good(got, f) /\ Steady(g, got)
      BY <3>1, RegisterCheckGood, RegisterCheckSteady
    <3> HIDE DEF got
    <3>3. Good(h, f) /\ Steady(got, h)
      BY <3>2 DEF Good, DeviceFields, After, Steady
    <3>4. DeviceCreated(e, r) = AuthInfoSeen(Save(h), r)
      BY <2>1 DEF DeviceCreated, got, g
    <3> HIDE DEF h
    <3>5. Good(Save(h), f) /\ Steady(h, Save(h))
      BY <3>3, SaveGood, RequestSteady DEF Good
    <3> QED
      BY <1>4, <3>1, <3>2, <3>3, <3>4, <3>5 DEF Steady
  <2>2. CASE r.id = None
    BY <1>1, <1>4, <2>2 DEF DeviceCreated
  <2> QED
    BY <2>1, <2>2
<1>6. Steady(e, DeviceDeleted(e))
  <2> DEFINE g == [e EXCEPT !.delete_is_self = FALSE, !.cloud.device_id = None,
                            !.cloud.set = @ \ {"auth_info"}, !.cloud.register_flag = FALSE]
  <2>1. DOMAIN Save(g) = DeviceFields /\ Steady(e, Save(g))
    BY <1>1 DEF Save, DeviceFields, Steady
  <2>2. DeviceDeleted(e) = IF e.delete_is_self THEN ApikeyDelete(Save(g), Save(g).cloud.device_apikey)
                           ELSE e
    BY DEF DeviceDeleted
  <2> HIDE DEF g
  <2> QED
    BY <2>1, <2>2, RequestSteady DEF ApikeyDelete, Steady
<1>7. ASSUME e.request_state = "apikey_create" PROVE Steady(e, ApikeyCreated(e, r))
  <2> DEFINE g == [e EXCEPT !.cloud.device_apikey = r.key]
             h == Save(RegisterCheck(g))
  <2>1. CASE r.key # None
    <3>1. Good(g, f) /\ Steady(e, g)
      BY <1>1, <1>7, <2>1 DEF Good, DeviceFields, ParamFields, After, Sound, Steady
    <3>2. ApikeyCreated(e, r) = [h EXCEPT !.result = @ \ {"key"}]
      BY <2>1 DEF ApikeyCreated
    <3> HIDE DEF g
    <3>3. Good(RegisterCheck(g), f) /\ Steady(g, RegisterCheck(g))
      BY <3>1, RegisterCheckGood, RegisterCheckSteady
    <3>4. Good(h, f) /\ Steady(RegisterCheck(g), h)
      BY <3>3, SaveGood, RequestSteady DEF Good
    <3> HIDE DEF h
    <3>5. Steady(h, [h EXCEPT !.result = @ \ {"key"}])
      BY <3>4 DEF Good, Steady, DeviceFields
    <3> QED
      BY <3>1, <3>2, <3>3, <3>4, <3>5 DEF Steady
  <2>2. CASE r.key = None
    BY <2>2 DEF ApikeyCreated, Steady
  <2> QED
    BY <2>1, <2>2
<1>8. ASSUME e.request_state = "apikey_delete" PROVE Steady(e, ApikeyDeleted(e))
  <2> DEFINE g == [e EXCEPT !.cloud.device_apikey = None]
  <2>1. Good(g, f) /\ Steady(e, g)
    BY <1>1, <1>8 DEF Good, DeviceFields, ParamFields, After, Sound, Gone, Steady
  <2>2. ApikeyDeleted(e) = RegisterCheck(Save(g))
    BY DEF ApikeyDeleted
  <2> HIDE DEF g
  <2>3. Good(Save(g), f) /\ Steady(g, Save(g))
    BY <2>1, SaveGood, RequestSteady DEF Good
  <2> QED
    BY <2>1, <2>2, <2>3, RegisterCheckSteady DEF Steady
<1>9. Steady(e, [e EXCEPT !.request_result = NoErrno]) /\ Steady(e, e)
  BY <1>1 DEF Steady, DeviceFields
<1>10. CASE r.errno = 0 /\ e.request_state \in {"device_create", "device_query", "device_delete"}
  <2>1. Steady(e, Recv(d, r))
    BY <1>1, <1>3, <1>4, <1>5, <1>6, <1>10
  <2> QED
    BY <1>2, <2>1 DEF Steady
<1>11. CASE r.errno = 0 /\ e.request_state \in {"apikey_create", "apikey_query", "apikey_delete"}
  <2>1. Steady(e, Recv(d, r))
    BY <1>3, <1>7, <1>8, <1>9, <1>11
  <2> QED
    BY <1>2, <2>1 DEF Steady
<1>12. CASE ~(r.errno = 0 /\ e.request_state \in {"device_create", "device_query", "device_delete",
                                        "apikey_create", "apikey_query", "apikey_delete"})
  BY <1>2, <1>3, <1>12
<1> QED
  BY <1>10, <1>11, <1>12

CheckInv ==
  faults = {} =>
    /\ conn \in {"none", "connecting", "connected", "disconnecting"}
    /\ dev.client => conn # "none"
    /\ dev.delete_timer \/ dev.disconnect_state => conn = "disconnecting"
    /\ conn = "disconnecting" => dev.disconnect_state
    /\ conn = "connecting" => dev.client /\ dev.result = Doubts /\ ~dev.query_timer
    /\ dev.query_timer => conn = "connected" /\ Checking(dev)

LEMMA CheckStep ==
  ASSUME FlagInv, CheckInv, [Next]_vars
  PROVE  CheckInv'
<1> SUFFICES ASSUME faults' = {}
             PROVE  /\ conn' \in {"none", "connecting", "connected", "disconnecting"}
                    /\ dev'.client => conn' # "none"
                    /\ dev'.delete_timer \/ dev'.disconnect_state => conn' = "disconnecting"
                    /\ conn' = "disconnecting" => dev'.disconnect_state
                    /\ conn' = "connecting" => dev'.client /\ dev'.result = Doubts /\ ~dev'.query_timer
                    /\ dev'.query_timer => conn' = "connected" /\ Checking(dev')
  BY DEF CheckInv, Checking
<1>0. /\ faults = {} /\ Good(dev, flash) /\ dev.saves = <<>> /\ DOMAIN dev = DeviceFields
      /\ DOMAIN dev.cloud = ParamFields
      /\ conn \in {"none", "connecting", "connected", "disconnecting"}
      /\ dev.client => conn # "none"
      /\ dev.delete_timer \/ dev.disconnect_state => conn = "disconnecting"
      /\ conn = "disconnecting" => dev.disconnect_state
      /\ conn = "connecting" => dev.client /\ dev.result = Doubts /\ ~dev.query_timer
      /\ dev.query_timer => conn = "connected" /\ Checking(dev)
  BY DEF FlagInv, Good, Sound, CheckInv, Next, Application, Callback, SetUserField, Create, Delete, Ask,
     Unregister, ConsoleParam, Restart, ConnectCb, DisconCb, DeleteTimer, QueryTimer, HttpclientRecv,
     Serve, Forget, vars
<1>1. ASSUME NEW d, DOMAIN d = DeviceFields, dev' = [d EXCEPT !.sends = <<>>, !.saves = <<>>]
      PROVE  /\ dev'.client = d.client /\ dev'.disconnect_state = d.disconnect_state
             /\ dev'.delete_timer = d.delete_timer /\ dev'.query_timer = d.query_timer
             /\ dev'.result = d.result /\ dev'.cloud = d.cloud /\ dev'.request_state = d.request_state
  BY <1>1 DEF DeviceFields
<1>2. ASSUME NEW field \in UserFields, SetUserField(field) PROVE CheckInv'
  <2> DEFINE e == [dev EXCEPT !.cloud.set = @ \cup {field}]
  <2>1. DOMAIN e = DeviceFields /\ Steady(dev, e) /\ e.result = dev.result
        /\ e.cloud.register_flag = dev.cloud.register_flag /\ e.request_state = dev.request_state
    BY <1>0 DEF DeviceFields, ParamFields, Steady
  <2>2. dev' = [e EXCEPT !.sends = <<>>, !.saves = <<>>] /\ conn' = conn
    BY <1>2 DEF SetUserField, Finish
  <2> HIDE DEF e
  <2> QED
    BY <1>0, <1>1, <2>1, <2>2 DEF Steady, Checking, CheckInv
<1>3. CASE Create
  <2> DEFINE e == [dev EXCEPT !.client = TRUE, !.result = Doubts]
  <2>1. /\ DOMAIN e = DeviceFields /\ e.client /\ e.result = Doubts
        /\ e.disconnect_state = dev.disconnect_state /\ e.delete_timer = dev.delete_timer
        /\ e.query_timer = dev.query_timer
    BY <1>0 DEF DeviceFields
  <2>2. /\ dev' = [e EXCEPT !.sends = <<>>, !.saves = <<>>]
        /\ ~dev.client /\ conn = "none" /\ conn' = "connecting"
    BY <1>3 DEF Create, Finish
  <2> HIDE DEF e
  <2> QED
    BY <1>0, <1>1, <2>1, <2>2
<1>4. CASE Delete
  <2> DEFINE e == [dev EXCEPT !.disconnect_state = TRUE, !.delete_timer = TRUE]
  <2>1. /\ DOMAIN e = DeviceFields /\ e.client = dev.client /\ e.disconnect_state
        /\ e.query_timer = dev.query_timer
    BY <1>0 DEF DeviceFields
  <2>2. /\ dev' = [e EXCEPT !.sends = <<>>, !.saves = <<>>]
        /\ dev.client /\ dev.result \cap Doubts = {}
        /\ conn' = IF conn = "connected" THEN "disconnecting" ELSE conn
    BY <1>4 DEF Delete, Registered, Finish
  <2> HIDE DEF e
  <2>3. conn \in {"connected", "disconnecting"}
    BY <1>0, <2>2 DEF Doubts
  <2>4. ~dev.query_timer
    BY <1>0, <2>2 DEF Checking, Doubts
  <2> QED
    BY <1>0, <1>1, <2>1, <2>2, <2>3, <2>4
<1>5. ~Ask /\ ~Unregister /\ ~ConsoleParam
  BY <1>0 DEF Ask, Unregister, ConsoleParam
<1>6. CASE Restart
  <2> DEFINE d == ParamLoad(Idle, flash)
  <2>1. /\ DOMAIN Idle = DeviceFields /\ ~Idle.client /\ ~Idle.disconnect_state
        /\ ~Idle.delete_timer /\ ~Idle.query_timer
    BY DEF Idle, DeviceFields
  <2>2. DOMAIN d = DeviceFields /\ ~d.client /\ ~d.disconnect_state /\ ~d.delete_timer /\ ~d.query_timer
    <3> HIDE DEF Idle
    <3> QED
      BY <2>1 DEF ParamLoad, Save, DeviceFields
  <2>3. dev' = [d EXCEPT !.saves = <<>>] /\ conn' = "none"
    BY <1>6 DEF Restart
  <2> HIDE DEF d
  <2>4. ~dev'.client /\ ~dev'.disconnect_state /\ ~dev'.delete_timer /\ ~dev'.query_timer
    BY <2>2, <2>3 DEF DeviceFields
  <2> QED
    BY <2>3, <2>4
<1>7. CASE ConnectCb
  <2>1. /\ conn = "connecting" /\ conn' = "connected" /\ dev.client /\ dev.result = Doubts
        /\ ~dev.query_timer /\ ~dev.delete_timer /\ ~dev.disconnect_state
    BY <1>0, <1>7 DEF ConnectCb
  <2>2. CASE dev.cloud.register_flag
    <3> DEFINE e == [dev EXCEPT !.state = "device", !.substate = 0, !.timeout = 0]
               d == QueryCheck(e)
    <3>1. Good(e, flash)
      BY <1>0 DEF Good, DeviceFields, After
    <3>2. /\ e.client = dev.client /\ "key" \in e.result /\ e.cloud.register_flag
          /\ e.state = "device" /\ e.substate = 0 /\ ~e.delete_timer /\ ~e.disconnect_state
      BY <1>0, <2>1, <2>2 DEF DeviceFields, Doubts
    <3>3. dev' = [d EXCEPT !.sends = <<>>]
      BY <1>7, <2>2 DEF ConnectCb
    <3> HIDE DEF e
    <3>4. CheckRuns(e, d) /\ DOMAIN d = DeviceFields
      BY <2>1, <3>1, <3>2, QueryCheckRuns, QueryCheckGood DEF Good
    <3> HIDE DEF d
    <3>5. /\ dev'.client = d.client /\ dev'.disconnect_state = d.disconnect_state
          /\ dev'.delete_timer = d.delete_timer /\ dev'.query_timer = d.query_timer
          /\ Checking(d) => Checking(dev')
      BY <3>3, <3>4 DEF DeviceFields, Checking
    <3> QED
      BY <2>1, <3>2, <3>4, <3>5 DEF CheckRuns
  <2>3. CASE ~dev.cloud.register_flag
    <3> DEFINE d == RegisterCheck(dev)
    <3>1. dev' = [d EXCEPT !.sends = <<>>, !.saves = <<>>]
      BY <1>7, <2>3 DEF ConnectCb
    <3>2. DOMAIN d = DeviceFields /\ Steady(dev, d)
      BY <1>0, RegisterCheckGood, RegisterCheckSteady DEF Good
    <3> HIDE DEF d
    <3> QED
      BY <1>1, <2>1, <3>1, <3>2 DEF Steady
  <2> QED
    BY <2>2, <2>3
<1>8. CASE DisconCb
  <2>1. conn = "disconnecting" /\ conn' = "none" /\ dev.disconnect_state /\ ~dev.query_timer
    BY <1>0, <1>8 DEF DisconCb
  <2>2. dev' = Freed([dev EXCEPT !.disconnect_state = FALSE])
    BY <1>8, <2>1 DEF DisconCb
  <2>3. ~dev'.client /\ ~dev'.disconnect_state /\ ~dev'.delete_timer /\ ~dev'.query_timer
    BY <1>0, <2>1, <2>2 DEF Freed, DeviceFields
  <2> QED
    BY <2>1, <2>3
<1>9. ~DeleteTimer
  BY <1>0 DEF DeleteTimer
<1>10. CASE QueryTimer
  <2> DEFINE d == QueryCheck(dev)
  <2>1. dev' = [d EXCEPT !.sends = <<>>, !.saves = <<>>] /\ conn' = conn /\ dev.query_timer
    BY <1>10 DEF QueryTimer, Finish
  <2>2. CheckRuns(dev, d) /\ DOMAIN d = DeviceFields
    BY <1>0, <2>1, QueryCheckRuns, QueryCheckGood DEF Good, Checking
  <2> HIDE DEF d
  <2> QED
    BY <1>0, <1>1, <2>1, <2>2 DEF CheckRuns, Checking
<1>11. CASE HttpclientRecv
  <2> DEFINE d == Recv(dev, Head(responses))
  <2>1. dev' = [d EXCEPT !.sends = <<>>, !.saves = <<>>] /\ conn' = conn /\ conn = "connected"
    BY <1>11 DEF HttpclientRecv, Finish
  <2>2. DOMAIN d = DeviceFields /\ Steady(dev, d) /\ (Checking(dev) => Checking(d))
    BY <1>0, RecvGood, RecvSteady, RecvChecks DEF Good
  <2> HIDE DEF d
  <2> QED
    BY <1>0, <1>1, <2>1, <2>2 DEF Steady, Checking
<1>12. CASE UNCHANGED <<dev, conn>>
  BY <1>0, <1>12
<1> QED
  BY <1>2, <1>3, <1>4, <1>5, <1>6, <1>7, <1>8, <1>9, <1>10, <1>11, <1>12
     DEF Next, Application, Callback, Serve, Forget, vars, CheckInv, network

LEMMA InitCheck == Init => CheckInv
<1> SUFFICES ASSUME Init PROVE CheckInv
  OBVIOUS
<1>1. /\ DOMAIN Idle = DeviceFields /\ ~Idle.client /\ ~Idle.disconnect_state
      /\ ~Idle.delete_timer /\ ~Idle.query_timer
  BY DEF Idle, DeviceFields
<1> DEFINE d == ParamLoad(Idle, ErasedParam)
<1>2. DOMAIN d = DeviceFields /\ ~d.client /\ ~d.disconnect_state /\ ~d.delete_timer /\ ~d.query_timer
  BY <1>1 DEF ParamLoad, Save, DeviceFields
<1>3. dev = [d EXCEPT !.saves = <<>>] /\ conn = "none"
  BY DEF Init
<1> HIDE DEF d
<1>4. ~dev.client /\ ~dev.disconnect_state /\ ~dev.delete_timer /\ ~dev.query_timer
  BY <1>2, <1>3 DEF DeviceFields
<1> QED
  BY <1>3, <1>4 DEF CheckInv

\* Nothing stops the timer of the check, yet it is over before the client is deleted, as long as
\* the application asks onenet_get_device_query_result before it deletes (onenet_http.c).
THEOREM CheckOverBeforeDelete == Spec => []CheckEndsBeforeClient
<1>1. CheckInv => CheckEndsBeforeClient
  BY DEF CheckInv, Checking, CheckEndsBeforeClient
<1> QED
  BY <1>1, InitFlag, InitCheck, FlagStep, CheckStep, PTL DEF Spec

-----------------------------------------------------------------------------
(***************************************************************************)
(* What is given up was gone.  Without faults there is at most one message *)
(* under way, a question or its answer.  Nobody changes the cloud between  *)
(* the two, so what the answer says of the cloud still holds when it       *)
(* arrives; and the tick that would give up waiting comes after it.        *)
(***************************************************************************)
Quiet == requests = <<>> /\ responses = <<>>

\* A question and its answer: at most one message is under way, and what it says of the
\* cloud still holds.
TrueAnswer(m, r) ==
  /\ m.ask = "device_create" => ~r.auth_info
  /\ m.ask = "device_query" => (r.errno # 0 => m.id \notin devices)
  /\ m.ask = "apikey_query" => (r.errno # 0 \/ r.key = None => KeysOf(m.id) = {})
  /\ m.ask = "apikey_delete" => m.key \notin {k[1] : k \in keys}

Exchange(m) ==
  \/ requests = <<m>> /\ responses = <<>>
  \/ requests = <<>> /\ \E r : responses = <<r>> /\ TrueAnswer(m, r)

Message(ask, id, key) == [ask |-> ask, id |-> id, key |-> key]

\* Without a check: a step of the registration, or nothing.
Registering ==
  \/ Quiet
  \/ dev.request_state = "device_create" /\ dev.cloud.device_id = None
     /\ Exchange(Message("device_create", None, None))
  \/ dev.request_state = "apikey_create"
     /\ dev.cloud.device_id # None /\ dev.cloud.device_apikey = None
     /\ Exchange(Message("apikey_create", dev.cloud.device_id, None))
  \/ dev.request_state = "apikey_delete" /\ dev.cloud.device_id = None
     /\ Exchange(Message("apikey_delete", None, dev.cloud.device_apikey))

CheckingDevice ==
  \/ dev.substate = 1 /\ dev.request_state = "device_query"
     /\ Exchange(Message("device_query", dev.cloud.device_id, None))
  \/ dev.substate = 2 /\ Quiet /\ (dev.request_result # 0 => dev.cloud.device_id \notin devices)

CheckingKey ==
  /\ "id" \in dev.result => dev.cloud.device_id \notin devices
  /\ \/ dev.substate = 0 /\ Quiet
     \/ dev.substate = 1 /\ dev.request_state = "apikey_query"
        /\ Exchange(Message("apikey_query", dev.cloud.device_id, None))
     \/ dev.substate = 2 /\ Quiet /\ (dev.request_result # 0 => KeysOf(dev.cloud.device_id) = {})

Match(c, p) ==
  /\ c.init_flag /\ p.init_flag
  /\ p.device_id = c.device_id /\ p.device_apikey = c.device_apikey
  /\ p.register_flag = c.register_flag

Trusting ==
  /\ dev.sends = <<>> /\ Match(dev.cloud, flash)
  /\ None \notin devices /\ \A k \in keys : k[1] # None
  /\ conn \in {"connecting", "connected"} => dev.client
  /\ conn \in {"none", "connecting"} => Quiet
  /\ conn = "connected" /\ ~dev.query_timer => Registering
  /\ conn = "connected" /\ dev.query_timer =>
       (dev.state = "device" /\ CheckingDevice) \/ (dev.state = "key" /\ CheckingKey)

GivenInv == faults = {} => Trusting

-----------------------------------------------------------------------------
(* One function of the module at a time *)

\* Memory and flash agree on the registration, and there is a client to ask with.
Link(d, f) == Good(d, f) /\ d.client /\ Match(d.cloud, After(d, f))

\* The same between a change of the registration and the save of it.
Able(d, f) == Good(d, f) /\ d.client /\ d.cloud.init_flag

LEMMA LinkAble == ASSUME NEW d, NEW f PROVE Link(d, f) => Able(d, f)
  BY DEF Link, Able, Match

\* What d sends is a step of the registration, or nothing.
Asks(d) ==
  \/ d.sends = <<>>
  \/ /\ d.sends = <<Message("device_create", None, None)>> /\ d.request_state = "device_create"
     /\ d.cloud.device_id = None
  \/ /\ d.sends = <<Message("apikey_create", d.cloud.device_id, None)>>
     /\ d.request_state = "apikey_create"
     /\ d.cloud.device_id # None /\ d.cloud.device_apikey = None
  \/ /\ d.sends = <<Message("apikey_delete", None, d.cloud.device_apikey)>>
     /\ d.request_state = "apikey_delete" /\ d.cloud.device_id = None

\* The same registration, the same place in the check.
SameIds(d, e) == e.cloud.device_id = d.cloud.device_id /\ e.cloud.device_apikey = d.cloud.device_apikey
SamePlace(d, e) == e.query_timer = d.query_timer /\ e.state = d.state /\ e.substate = d.substate

LEMMA SaveLink ==
  ASSUME NEW d, NEW f, Able(d, f)
  PROVE  /\ Link(Save(d), f) /\ After(Save(d), f) = d.cloud /\ Save(d).cloud = d.cloud
         /\ SameIds(d, Save(d)) /\ SamePlace(d, Save(d))
         /\ Save(d).sends = d.sends /\ Save(d).result = d.result
         /\ Save(d).request_result = d.request_result /\ Save(d).request_state = d.request_state
<1>1. /\ Save(d).saves = <<d.cloud>> /\ Save(d).saves # <<>> /\ Save(d).saves[1] = d.cloud
      /\ Save(d).cloud = d.cloud /\ Save(d).client /\ SamePlace(d, Save(d))
      /\ Save(d).sends = d.sends /\ Save(d).result = d.result
      /\ Save(d).request_result = d.request_result /\ Save(d).request_state = d.request_state
  BY DEF Able, Good, Save, DeviceFields, SamePlace
<1>2. After(Save(d), f) = d.cloud
  BY <1>1 DEF After
<1>3. Good(Save(d), f)
  BY SaveGood DEF Able
<1> QED
  BY <1>1, <1>2, <1>3 DEF Able, Link, Match, SameIds

LEMMA RequestLink ==
  ASSUME NEW d, NEW f, Able(d, f), d.sends = <<>>, NEW state, NEW id, NEW key,
         state = "apikey_delete" => Gone(d.cloud) /\ Gone(After(d, f))
  PROVE  LET e == Request(d, state, id, key)
         IN  /\ Able(e, f) /\ (Link(d, f) => Link(e, f))
             /\ e.cloud = d.cloud /\ SamePlace(d, e) /\ e.result = d.result
             /\ e.sends = <<Message(state, id, key)>> /\ e.request_state = state
<1> DEFINE e == Request(d, state, id, key)
<1>1. Good(e, f)
  BY RequestGood DEF Able
<1>2. e = [d EXCEPT !.request_state = state, !.request_result = 0,
                    !.sends = Append(@, [ask |-> state, id |-> id, key |-> key])]
  BY DEF Able, Request
<1>3. /\ e.cloud = d.cloud /\ e.client = d.client /\ e.saves = d.saves /\ SamePlace(d, e)
      /\ e.sends = <<Message(state, id, key)>> /\ e.request_state = state /\ e.result = d.result
  <2>1. Append(<<>>, Message(state, id, key)) = <<Message(state, id, key)>>
    OBVIOUS
  <2> QED
    BY <1>2, <2>1 DEF Able, Good, DeviceFields, SamePlace, Message
<1> HIDE DEF e
<1>4. Able(e, f) /\ (Link(d, f) => Link(e, f))
  BY <1>1, <1>3 DEF Link, Able, After
<1> QED
  BY <1>3, <1>4 DEF e

LEMMA RegisterCheckLink ==
  ASSUME NEW d, NEW f, Able(d, f), d.sends = <<>>
  PROVE  LET e == RegisterCheck(d)
         IN  /\ Able(e, f) /\ (Link(d, f) => Link(e, f))
             /\ Asks(e) /\ SameIds(d, e) /\ SamePlace(d, e)
             /\ d.cloud.device_id # None /\ d.cloud.device_apikey # None =>
                  /\ e.sends = <<>> /\ e.result = d.result /\ e.request_state = d.request_state
                  /\ e.request_result = d.request_result
<1>1. CASE Complete(d.cloud)
  <2> DEFINE e == [d EXCEPT !.cloud.register_flag = TRUE]
  <2>1. RegisterCheck(d) = Save(e)
    BY <1>1 DEF RegisterCheck
  <2>2. d.request_state # "apikey_delete"
    BY <1>1 DEF Able, Good, Gone, Complete
  <2>3. Good(e, f)
    BY <1>1, <2>2 DEF Able, Good, DeviceFields, ParamFields, After, Sound, Complete
  <2>4. /\ e.client /\ e.cloud.init_flag /\ SameIds(d, e) /\ SamePlace(d, e) /\ e.sends = <<>>
        /\ e.result = d.result /\ e.request_state = d.request_state
        /\ e.request_result = d.request_result
    BY DEF Able, Good, Sound, DeviceFields, ParamFields, SameIds, SamePlace
  <2> HIDE DEF e
  <2> QED
    BY <2>1, <2>3, <2>4, SaveLink, LinkAble DEF Able, SameIds, SamePlace, Asks
<1>2. CASE ~Complete(d.cloud) /\ d.cloud.device_id = None
  <2>1. RegisterCheck(d) = Request(d, "device_create", None, None)
    BY <1>2 DEF RegisterCheck, DeviceCreate
  <2> QED
    BY <1>2, <2>1, RequestLink DEF Asks, SameIds
<1>3. CASE ~Complete(d.cloud) /\ d.cloud.device_id # None /\ d.cloud.device_apikey = None
  <2> DEFINE e == [d EXCEPT !.result = @ \ {"id"}]
  <2>1. Able(e, f) /\ (Link(d, f) => Link(e, f)) /\ e.cloud = d.cloud /\ e.sends = <<>> /\ SamePlace(d, e)
    BY DEF Able, Link, Good, DeviceFields, After, SamePlace
  <2>2. RegisterCheck(d) = Request(e, "apikey_create", d.cloud.device_id, None)
    BY <1>3, <2>1 DEF RegisterCheck, ApikeyCreate
  <2> HIDE DEF e
  <2> QED
    BY <1>3, <2>1, <2>2, RequestLink DEF Asks, SameIds, SamePlace
<1>4. CASE ~Complete(d.cloud) /\ d.cloud.device_id # None /\ d.cloud.device_apikey # None
  BY <1>4 DEF RegisterCheck, Asks, SameIds, SamePlace
<1> QED
  BY <1>1, <1>2, <1>3, <1>4

LEMMA ForgetsLink ==
  ASSUME NEW d, NEW f, Link(d, f), d.sends = <<>>, NEW id \in BOOLEAN, NEW key \in BOOLEAN
  PROVE  LET g == Forgets(d, id, key)
         IN  /\ Link(g, f) /\ g.sends = <<>> /\ g.query_timer = d.query_timer
             /\ g.cloud.device_id = IF id THEN None ELSE d.cloud.device_id
             /\ g.cloud.device_apikey = IF key THEN None ELSE d.cloud.device_apikey
<1> DEFINE e == [d EXCEPT !.cloud.device_id = IF id THEN None ELSE @,
                          !.cloud.device_apikey = IF key THEN None ELSE @,
                          !.cloud.register_flag = FALSE]
           g == Forgets(d, id, key)
<1>1. /\ DOMAIN e = DeviceFields /\ e.client /\ e.cloud.init_flag /\ e.sends = <<>>
      /\ e.query_timer = d.query_timer
      /\ e.cloud.device_id = IF id THEN None ELSE d.cloud.device_id
      /\ e.cloud.device_apikey = IF key THEN None ELSE d.cloud.device_apikey
  BY DEF Link, Match, Good, Sound, DeviceFields, ParamFields
<1>2. g = Save(e)
  BY DEF Forgets, e
<1> HIDE DEF e
<1>3. /\ g.client /\ g.cloud = e.cloud /\ After(g, f) = e.cloud /\ g.sends = <<>>
      /\ g.query_timer = d.query_timer
  BY <1>1, <1>2 DEF Save, DeviceFields, After
<1>4. Good(g, f)
  BY ForgetsGood DEF Link
<1> QED
  BY <1>1, <1>3, <1>4 DEF Link, Match

\* What was not in doubt is not given up.
LEMMA ConcludeLink ==
  ASSUME NEW d, NEW f, Link(d, f), d.sends = <<>>
  PROVE  LET e == Conclude(d)
         IN  /\ Link(e, f) /\ Asks(e) /\ e.query_timer = d.query_timer
             /\ e.cloud.device_id # d.cloud.device_id => "id" \in d.result
             /\ e.cloud.device_apikey # d.cloud.device_apikey => "key" \in d.result
<1>0. TRUE \in BOOLEAN /\ FALSE \in BOOLEAN
  OBVIOUS
<1>1. CASE d.result = Doubts
  <2> DEFINE g == Forgets(d, TRUE, TRUE)
  <2>1. Conclude(d) = RegisterCheck(g)
    BY <1>1 DEF Conclude, Forgets, Doubts
  <2>2. Link(g, f) /\ g.sends = <<>> /\ g.query_timer = d.query_timer
    BY <1>0, ForgetsLink, Zenon
  <2> HIDE DEF g
  <2> QED
    BY <1>1, <2>1, <2>2, RegisterCheckLink, LinkAble DEF SamePlace, Doubts
<1>2. CASE d.result = {"id"}
  <2> DEFINE g == Forgets(d, TRUE, FALSE)
  <2>1. Conclude(d) = Request(g, "apikey_delete", None, g.cloud.device_apikey)
    BY <1>2 DEF Conclude, Forgets, Doubts, ApikeyDelete
  <2>2. /\ Link(g, f) /\ g.sends = <<>> /\ g.query_timer = d.query_timer
        /\ g.cloud.device_id = IF TRUE THEN None ELSE d.cloud.device_id
        /\ g.cloud.device_apikey = IF FALSE THEN None ELSE d.cloud.device_apikey
    BY <1>0, ForgetsLink, Zenon
  <2>3. Gone(g.cloud) /\ Gone(After(g, f))
    BY <1>0, ForgetsGood, Zenon DEF Link
  <2> HIDE DEF g
  <2> QED
    BY <1>2, <2>1, <2>2, <2>3, RequestLink, LinkAble DEF SamePlace, Asks
<1>3. CASE d.result = {"key"}
  <2> DEFINE g == Forgets(d, FALSE, TRUE)
  <2>1. Conclude(d) = RegisterCheck(g)
    BY <1>3 DEF Conclude, Forgets, Doubts
  <2>2. /\ Link(g, f) /\ g.sends = <<>> /\ g.query_timer = d.query_timer
        /\ g.cloud.device_id = IF FALSE THEN None ELSE d.cloud.device_id
    BY <1>0, ForgetsLink, Zenon
  <2> HIDE DEF g
  <2> QED
    BY <1>3, <2>1, <2>2, RegisterCheckLink, LinkAble DEF SamePlace, SameIds
<1>4. CASE d.result = {}
  BY <1>4 DEF Conclude, Doubts, Asks
<1> QED
  BY <1>1, <1>2, <1>3, <1>4 DEF Link, Good, Doubts

\* The timer's tick, by the place it finds the check in.  An answer under way is not overtaken.
Waiting(d) == d.substate = 1 => d.timeout < Patience

Same(d, e) == e.cloud = d.cloud /\ e.result = d.result

\* Where the tick leaves it.
Placed(e, state, substate) == e.query_timer /\ e.state = state /\ e.substate = substate

Sent(e, ask) == e.sends = <<Message(ask, e.cloud.device_id, None)>> /\ e.request_state = ask

LEMMA TickDevice ==
  ASSUME NEW d, NEW f, Link(d, f), d.sends = <<>>, Waiting(d), d.state = "device"
  PROVE  LET e == QueryCheck(d)
         IN  /\ Link(e, f) /\ e.cloud = d.cloud
             /\ d.substate = 0 => Placed(e, "device", 1) /\ Sent(e, "device_query")
             /\ d.substate = 1 => /\ Placed(e, "device", 1) /\ e.sends = <<>>
                                  /\ e.request_state = d.request_state
             /\ d.substate = 2 => /\ Placed(e, "key", 0) /\ e.sends = <<>>
                                  /\ "id" \in e.result => d.request_result # 0
<1> DEFINE g == [d EXCEPT !.query_timer = FALSE, !.timeout = @ + 1]
<1>1. /\ Link(g, f) /\ g.sends = <<>> /\ g.cloud = d.cloud /\ g.state = "device"
      /\ g.substate = d.substate /\ g.timeout = d.timeout + 1
      /\ g.request_state = d.request_state /\ g.request_result = d.request_result
  BY DEF Link, Good, DeviceFields, After
<1>2. QueryCheck(d) = Rearm(CheckDevice(g))
  BY <1>1 DEF QueryCheck
<1> HIDE DEF g
<1>3. ASSUME NEW h, Link(h, f)
      PROVE  /\ Link(Rearm(h), f) /\ Rearm(h).query_timer /\ Rearm(h).cloud = h.cloud
             /\ Rearm(h).state = h.state /\ Rearm(h).substate = h.substate
             /\ Rearm(h).sends = h.sends /\ Rearm(h).request_state = h.request_state
             /\ Rearm(h).result = h.result
  BY <1>3 DEF Link, Good, DeviceFields, After, Rearm
<1>4. CASE d.substate = 0
  <2> DEFINE h == [g EXCEPT !.request_result = 0, !.substate = 1, !.timeout = 0]
  <2>1. /\ Link(h, f) /\ h.sends = <<>> /\ h.cloud = d.cloud /\ h.state = "device" /\ h.substate = 1
    BY <1>1 DEF Link, Good, DeviceFields, After
  <2>2. CheckDevice(g) = Request(h, "device_query", h.cloud.device_id, None)
    BY <1>1, <1>4 DEF CheckDevice, DeviceQuery
  <2> HIDE DEF h
  <2> QED
    BY <1>2, <1>3, <1>4, <2>1, <2>2, RequestLink, LinkAble DEF SamePlace, Placed, Sent
<1>5. CASE d.substate = 1
  <2>1. ~(g.timeout > Patience) /\ g.substate # 0 /\ g.substate # 2 /\ g.substate = 1
    BY <1>1, <1>5, HttpAssumption DEF Waiting, Link, Good
  <2>2. CheckDevice(g) = g
    BY <2>1, Zenon DEF CheckDevice
  <2> QED
    BY <1>1, <1>2, <1>3, <1>5, <2>2 DEF Placed
<1>6. CASE d.substate = 2
  <2> DEFINE h == Doubt(g, "id", g.request_result # 0)
             j == ThenKey(h)
  <2>1. CheckDevice(g) = j
    BY <1>1, <1>6 DEF CheckDevice
  <2>2. /\ Link(h, f) /\ h.cloud = d.cloud /\ h.sends = <<>>
        /\ "id" \in h.result => g.request_result # 0
    <3>1. Good(h, f)
      BY <1>1, DoubtGood DEF Link, Doubts
    <3> QED
      BY <1>1, <3>1 DEF Link, Good, DeviceFields, After, Doubt
  <2> HIDE DEF h
  <2>3. /\ Link(j, f) /\ j.cloud = h.cloud /\ j.sends = h.sends /\ j.result = h.result
        /\ j.state = "key" /\ j.substate = 0
    BY <2>2 DEF Link, Good, DeviceFields, After, ThenKey
  <2> HIDE DEF j
  <2> QED
    BY <1>1, <1>2, <1>3, <1>6, <2>1, <2>2, <2>3 DEF Placed
<1> QED
  BY <1>4, <1>5, <1>6 DEF Link, Good

LEMMA TickKey ==
  ASSUME NEW d, NEW f, Link(d, f), d.sends = <<>>, Waiting(d), d.state = "key"
  PROVE  LET e == QueryCheck(d)
         IN  /\ Link(e, f)
             /\ d.substate = 0 => Placed(e, "key", 1) /\ Sent(e, "apikey_query") /\ Same(d, e)
             /\ d.substate = 1 => /\ Placed(e, "key", 1) /\ e.sends = <<>> /\ Same(d, e)
                                  /\ e.request_state = d.request_state
             /\ d.substate = 2 => /\ ~e.query_timer /\ Asks(e)
                                  /\ e.cloud.device_id # d.cloud.device_id => "id" \in d.result
                                  /\ e.cloud.device_apikey # d.cloud.device_apikey =>
                                       d.request_result # 0
<1> DEFINE g == [d EXCEPT !.query_timer = FALSE, !.timeout = @ + 1]
<1>1. /\ Link(g, f) /\ g.sends = <<>> /\ g.cloud = d.cloud /\ g.state = "key"
      /\ g.substate = d.substate /\ g.timeout = d.timeout + 1 /\ g.result = d.result
      /\ g.request_state = d.request_state /\ g.request_result = d.request_result
      /\ ~g.query_timer
  BY DEF Link, Good, DeviceFields, After
<1>2. QueryCheck(d) = CheckKey(g)
  BY <1>1 DEF QueryCheck
<1> HIDE DEF g
<1>3. ASSUME NEW h, Link(h, f)
      PROVE  /\ Link(Rearm(h), f) /\ Rearm(h).query_timer /\ Rearm(h).cloud = h.cloud
             /\ Rearm(h).state = h.state /\ Rearm(h).substate = h.substate
             /\ Rearm(h).sends = h.sends /\ Rearm(h).request_state = h.request_state
             /\ Rearm(h).result = h.result
  BY <1>3 DEF Link, Good, DeviceFields, After, Rearm
<1>4. CASE d.substate = 0
  <2> DEFINE h == [g EXCEPT !.request_result = 0, !.substate = 1]
             q == Request(h, "apikey_query", h.cloud.device_id, None)
  <2>1. /\ Link(h, f) /\ h.sends = <<>> /\ h.cloud = d.cloud /\ h.state = "key" /\ h.substate = 1
        /\ h.result = d.result
    BY <1>1 DEF Link, Good, DeviceFields, After
  <2>2. CheckKey(g) = Rearm(q)
    BY <1>1, <1>4 DEF CheckKey, ApikeyQuery
  <2> HIDE DEF h
  <2>3. /\ Link(q, f) /\ q.cloud = h.cloud /\ SamePlace(h, q) /\ q.result = h.result
        /\ q.sends = <<Message("apikey_query", h.cloud.device_id, None)>>
        /\ q.request_state = "apikey_query"
    BY <2>1, RequestLink, LinkAble
  <2> HIDE DEF q
  <2> QED
    BY <1>2, <1>3, <1>4, <2>1, <2>2, <2>3 DEF SamePlace, Placed, Sent, Same
<1>5. CASE d.substate = 1
  <2>1. g.timeout <= Patience
    BY <1>1, <1>5, HttpAssumption DEF Waiting, Link, Good
  <2>2. CheckKey(g) = Rearm(g)
    <3>1. g.substate # 0 /\ g.substate # 2 /\ g.substate = 1 /\ ~(g.timeout > Patience)
      BY <1>1, <1>5, <2>1, HttpAssumption DEF Link, Good
    <3> QED
      BY <2>1, <3>1, Zenon DEF CheckKey
  <2> QED
    BY <1>1, <1>2, <1>3, <1>5, <2>2 DEF Placed, Same
<1>6. CASE d.substate = 2
  <2> DEFINE h == Doubt(g, "key", g.request_result # 0)
             j == [h EXCEPT !.state = "device", !.substate = 0, !.timeout = 0]
  <2>1. CheckKey(g) = Conclude(j)
    BY <1>1, <1>6 DEF CheckKey
  <2>2. /\ Link(h, f) /\ h.cloud = d.cloud /\ h.sends = <<>> /\ ~h.query_timer
        /\ "id" \in h.result => "id" \in d.result
        /\ "key" \in h.result => d.request_result # 0
    <3>1. Good(h, f)
      BY <1>1, DoubtGood DEF Link, Doubts
    <3> QED
      BY <1>1, <3>1 DEF Link, Good, DeviceFields, After, Doubt
  <2> HIDE DEF h
  <2>3. /\ Link(j, f) /\ j.cloud = h.cloud /\ j.sends = h.sends /\ j.result = h.result
        /\ ~j.query_timer
    BY <2>2 DEF Link, Good, DeviceFields, After
  <2> HIDE DEF j
  <2> QED
    BY <1>1, <1>2, <1>6, <2>1, <2>2, <2>3, ConcludeLink
<1> QED
  BY <1>4, <1>5, <1>6 DEF Link, Good

-----------------------------------------------------------------------------
(* One answer at a time *)

\* An answer in the course of a registration.
LEMMA RecvRegisters ==
  ASSUME NEW d, NEW f, Link(d, f), d.sends = <<>>, NEW r,
         \/ d.request_state = "device_create" /\ ~r.auth_info
         \/ d.request_state = "apikey_create" /\ d.cloud.device_id # None
         \/ d.request_state = "apikey_delete"
  PROVE  LET e == Recv(d, r)
         IN  /\ Link(e, f) /\ Asks(e) /\ e.query_timer = d.query_timer
             /\ e.cloud.device_id # d.cloud.device_id => d.request_state = "device_create"
             /\ e.cloud.device_apikey # d.cloud.device_apikey =>
                  d.request_state \in {"apikey_create", "apikey_delete"}
<1> DEFINE a == [d EXCEPT !.substate = 2, !.request_result = r.errno]
<1>1. /\ Link(a, f) /\ a.cloud = d.cloud /\ a.sends = <<>> /\ a.query_timer = d.query_timer
      /\ a.request_state = d.request_state
  BY DEF Link, Good, DeviceFields, After
<1>2. CASE r.errno # 0
  <2>1. Recv(d, r) = a
    BY <1>2 DEF Recv
  <2> QED
    BY <1>1, <2>1 DEF Asks
<1>3. CASE r.errno = 0 /\ d.request_state = "device_create" /\ ~r.auth_info
  <2>1. Recv(d, r) = DeviceCreated(a, r)
    BY <1>1, <1>3 DEF Recv
  <2> HIDE DEF a
  <2>2. CASE r.id = None
    <3>1. DeviceCreated(a, r) = a
      BY <1>3, <2>2 DEF DeviceCreated, AuthInfoSeen
    <3> QED
      BY <1>1, <2>1, <3>1 DEF Asks
  <2>3. CASE r.id # None
    <3> DEFINE b == [a EXCEPT !.cloud.device_id = r.id]
               c == RegisterCheck(b)
               e == [c EXCEPT !.result = @ \ {"id"}]
    <3>1. DeviceCreated(a, r) = Save(e)
      BY <1>3, <2>3 DEF DeviceCreated, AuthInfoSeen
    <3>2. /\ Able(b, f) /\ b.sends = <<>> /\ b.query_timer = d.query_timer
          /\ b.cloud.device_apikey = d.cloud.device_apikey
      BY <1>1, <1>3, <2>3 DEF Link, Able, Match, Good, DeviceFields, ParamFields, After, Sound
    <3> HIDE DEF b
    <3>3. Able(c, f) /\ Asks(c) /\ SameIds(b, c) /\ SamePlace(b, c)
      BY <3>2, RegisterCheckLink
    <3> HIDE DEF c
    <3>4. /\ Able(e, f) /\ e.cloud = c.cloud /\ e.sends = c.sends
          /\ e.request_state = c.request_state /\ e.query_timer = c.query_timer
      BY <3>3 DEF Able, Good, DeviceFields, After
    <3> HIDE DEF e
    <3>5. /\ Link(Save(e), f) /\ Save(e).cloud = e.cloud /\ Save(e).sends = e.sends
          /\ Save(e).request_state = e.request_state /\ Save(e).query_timer = e.query_timer
      BY <3>4, SaveLink DEF SamePlace
    <3> QED
      BY <1>3, <2>1, <3>1, <3>2, <3>3, <3>4, <3>5 DEF Asks, SameIds, SamePlace
  <2> QED
    BY <2>2, <2>3
<1>4. CASE r.errno = 0 /\ d.request_state = "apikey_create" /\ d.cloud.device_id # None
  <2>1. Recv(d, r) = ApikeyCreated(a, r)
    BY <1>1, <1>4 DEF Recv
  <2> HIDE DEF a
  <2>2. CASE r.key = None
    BY <1>1, <2>1, <2>2 DEF ApikeyCreated, Asks
  <2>3. CASE r.key # None
    <3> DEFINE b == [a EXCEPT !.cloud.device_apikey = r.key]
               c == RegisterCheck(b)
               e == Save(c)
    <3>1. ApikeyCreated(a, r) = [e EXCEPT !.result = @ \ {"key"}]
      BY <2>3 DEF ApikeyCreated
    <3>2. /\ Able(b, f) /\ b.sends = <<>> /\ b.query_timer = d.query_timer
          /\ b.cloud.device_id = d.cloud.device_id /\ b.cloud.device_apikey # None
      BY <1>1, <1>4, <2>3 DEF Link, Able, Match, Good, DeviceFields, ParamFields, After, Sound
    <3> HIDE DEF b
    <3>3. Able(c, f) /\ SameIds(b, c) /\ SamePlace(b, c) /\ c.sends = <<>>
      BY <1>4, <3>2, RegisterCheckLink
    <3> HIDE DEF c
    <3>4. Link(e, f) /\ SameIds(c, e) /\ SamePlace(c, e) /\ e.sends = <<>>
      BY <3>3, SaveLink
    <3> HIDE DEF e
    <3>5. LET g == [e EXCEPT !.result = @ \ {"key"}]
          IN  /\ Link(g, f) /\ g.cloud = e.cloud /\ g.sends = <<>> /\ g.query_timer = e.query_timer
      BY <3>4 DEF Link, Good, DeviceFields, After
    <3> QED
      BY <1>4, <2>1, <3>1, <3>2, <3>3, <3>4, <3>5 DEF Asks, SameIds, SamePlace
  <2> QED
    BY <2>2, <2>3
<1>5. CASE r.errno = 0 /\ d.request_state = "apikey_delete"
  <2>1. Recv(d, r) = ApikeyDeleted(a)
    BY <1>1, <1>5 DEF Recv
  <2> HIDE DEF a
  <2> DEFINE b == [a EXCEPT !.cloud.device_apikey = None]
             c == Save(b)
  <2>2. ApikeyDeleted(a) = RegisterCheck(c)
    BY DEF ApikeyDeleted
  <2>3. /\ Able(b, f) /\ b.sends = <<>> /\ b.query_timer = d.query_timer
        /\ b.cloud.device_id = d.cloud.device_id
    BY <1>1, <1>5 DEF Link, Able, Match, Good, DeviceFields, ParamFields, After, Sound, Gone
  <2> HIDE DEF b
  <2>4. Link(c, f) /\ c.sends = <<>> /\ SamePlace(b, c) /\ SameIds(b, c)
    BY <2>3, SaveLink
  <2> HIDE DEF c
  <2> QED
    BY <1>5, <2>1, <2>2, <2>3, <2>4, RegisterCheckLink, LinkAble DEF SameIds, SamePlace
<1> QED
  BY <1>2, <1>3, <1>4, <1>5

\* An answer in the course of a check.
LEMMA RecvChecked ==
  ASSUME NEW d, NEW f, Link(d, f), d.sends = <<>>, NEW r,
         d.request_state \in {"device_query", "apikey_query"},
         d.cloud.device_id # None, d.cloud.device_apikey # None
  PROVE  LET e == Recv(d, r)
         IN  /\ Link(e, f) /\ SameIds(d, e) /\ e.query_timer = d.query_timer /\ e.state = d.state
             /\ e.substate = 2 /\ e.sends = <<>> /\ e.result = d.result
             /\ e.request_result # 0 =>
                  r.errno # 0 \/ (d.request_state = "apikey_query" /\ r.key = None)
<1> DEFINE a == [d EXCEPT !.substate = 2, !.request_result = r.errno]
           b == [a EXCEPT !.request_result = NoErrno]
<1>1. /\ Link(a, f) /\ a.cloud = d.cloud /\ a.sends = <<>> /\ a.query_timer = d.query_timer
      /\ a.request_state = d.request_state /\ a.state = d.state /\ a.substate = 2
      /\ a.result = d.result /\ a.request_result = r.errno
  BY DEF Link, Good, DeviceFields, After
<1>2. CASE r.errno # 0
  <2>1. Recv(d, r) = a
    BY <1>2 DEF Recv
  <2> QED
    BY <1>1, <1>2, <2>1 DEF SameIds
<1>3. CASE r.errno = 0 /\ d.request_state = "device_query"
  <2>1. Recv(d, r) = IF r.auth_info THEN RegisterCheck(a) ELSE a
    BY <1>1, <1>3 DEF Recv, AuthInfoSeen
  <2> HIDE DEF a
  <2> QED
    BY <1>1, <1>3, <2>1, RegisterCheckLink, LinkAble DEF SameIds, SamePlace
<1>4. CASE r.errno = 0 /\ d.request_state = "apikey_query"
  <2>1. Recv(d, r) = IF r.key = None THEN b ELSE a
    BY <1>1, <1>4 DEF Recv
  <2>2. /\ Link(b, f) /\ b.cloud = a.cloud /\ b.sends = a.sends /\ b.query_timer = a.query_timer
        /\ b.state = a.state /\ b.substate = a.substate /\ b.result = a.result
    <3> HIDE DEF a
    <3> QED
      BY <1>1 DEF Link, Good, DeviceFields, After
  <2> HIDE DEF a, b
  <2> QED
    BY <1>1, <1>4, <2>1, <2>2 DEF SameIds
<1> QED
  BY <1>2, <1>3, <1>4

-----------------------------------------------------------------------------
(* One action at a time *)

LEMMA TakeOne ==
  ASSUME NEW m
  PROVE  /\ Take(<<>>, <<>>) = <<>> /\ Take(<<m>>, <<>>) = <<m>> /\ Take(<<>>, <<m>>) = <<m>>
<1>1. SendBuffer \in Nat \ {0}
  BY HttpAssumption
<1>2. ASSUME NEW q, NEW s, q \o s = <<m>> PROVE Take(q, s) = <<m>>
  <2>0. <<m>> \in Seq({m}) /\ Len(<<m>>) = 1
    OBVIOUS
  <2>1. Len(<<m>>) = 1 /\ SubSeq(<<m>>, 1, 1) = <<m>>
    BY <2>0, SubSeqFull
  <2>2. (IF Len(<<m>>) < SendBuffer THEN Len(<<m>>) ELSE SendBuffer) = 1
    BY <1>1, <2>1
  <2> QED
    BY <1>2, <2>1, <2>2 DEF Take
<1>3. Take(<<>>, <<>>) = <<>>
  <2>1. <<>> \o <<>> = <<>> /\ Len(<<>>) = 0 /\ SubSeq(<<>>, 1, 0) = <<>>
    OBVIOUS
  <2>2. (IF Len(<<>>) < SendBuffer THEN Len(<<>>) ELSE SendBuffer) = 0
    BY <1>1, <2>1
  <2> QED
    BY <2>1, <2>2 DEF Take
<1>4. <<m>> \o <<>> = <<m>> /\ <<>> \o <<m>> = <<m>>
  OBVIOUS
<1> QED
  BY <1>2, <1>3, <1>4

\* What remains of d when the callback that made it ends.
LEMMA Ends ==
  ASSUME NEW d, Link(d, flash), dev' = [d EXCEPT !.sends = <<>>, !.saves = <<>>],
         flash' = IF d.saves = <<>> THEN flash ELSE d.saves[1]
  PROVE  /\ dev'.sends = <<>> /\ Match(dev'.cloud, flash') /\ dev'.cloud = d.cloud /\ dev'.client
         /\ SamePlace(d, dev') /\ dev'.result = d.result
         /\ dev'.request_state = d.request_state /\ dev'.request_result = d.request_result
<1>1. /\ dev'.sends = <<>> /\ dev'.cloud = d.cloud /\ dev'.client = d.client
      /\ SamePlace(d, dev') /\ dev'.result = d.result
      /\ dev'.request_state = d.request_state /\ dev'.request_result = d.request_result
  BY DEF Link, Good, DeviceFields, SamePlace
<1>2. flash' = After(d, flash)
  BY DEF After
<1> QED
  BY <1>1, <1>2 DEF Link

\* What a callback asked is under way, if nothing else was.
LEMMA EndsRegistering ==
  ASSUME NEW d, Asks(d), dev'.cloud = d.cloud, dev'.request_state = d.request_state,
         requests' = d.sends, responses' = <<>>
  PROVE  Registering'
  BY DEF Asks, Registering, Quiet, Exchange

-----------------------------------------------------------------------------
(* The cloud *)

LEMMA FreshIn == ASSUME NEW S, NEW used, S \ used # {} PROVE Fresh(S, used) \in S \ used
  BY DEF Fresh

LEMMA ServeCloud ==
  ASSUME Serve, None \notin devices, \A k \in keys : k[1] # None
  PROVE  None \notin devices' /\ \A k \in keys' : k[1] # None
<1> DEFINE rq == Head(requests)
<1>1. None \notin Ids /\ None \notin Keys
  BY HttpAssumption
<1>2. CASE rq.ask = "device_create"
  <2> DEFINE used == devices \cup {k[2] : k \in keys}
  <2>1. ServeCreate
    BY <1>2 DEF Serve
  <2>2. Ids \ used # {} /\ devices' = devices \cup {Fresh(Ids, used)} /\ keys' = keys
    BY <2>1 DEF ServeCreate
  <2> HIDE DEF used
  <2>3. Fresh(Ids, used) \in Ids
    BY <2>2, FreshIn
  <2> QED
    BY <1>1, <2>2, <2>3
<1>3. CASE rq.ask = "apikey_create"
  <2> DEFINE used == {k[1] : k \in keys}
  <2>1. CASE rq.id \in devices
    <3>1. ServeApikeyCreate(rq.id)
      BY <1>3 DEF Serve
    <3>2. /\ Keys \ used # {}
          /\ keys' = keys \cup {<<Fresh(Keys, used), rq.id>>} /\ devices' = devices
      BY <2>1, <3>1 DEF ServeApikeyCreate
    <3> HIDE DEF used
    <3>3. Fresh(Keys, used) \in Keys
      BY <3>2, FreshIn
    <3> QED
      BY <1>1, <3>2, <3>3
  <2>2. CASE rq.id \notin devices
    BY <1>3, <2>2 DEF Serve, ServeApikeyCreate, cloud
  <2> QED
    BY <2>1, <2>2
<1>4. CASE rq.ask \in {"device_delete", "apikey_delete"}
  BY <1>4 DEF Serve, ServeDelete
<1>5. CASE rq.ask \notin {"device_create", "apikey_create", "device_delete", "apikey_delete"}
  BY <1>5 DEF Serve, ServeQuery, cloud
<1> QED
  BY <1>2, <1>3, <1>4, <1>5

\* The answer is true when it is given; and a question alone does not change the cloud.
LEMMA ServeTrue ==
  ASSUME Serve, \A k \in keys : k[1] # None,
         NEW m, requests = <<m>>, responses = <<>>,
         m.ask \in {"device_create", "apikey_create", "apikey_delete", "device_query", "apikey_query"}
  PROVE  /\ Exchange(m)'
         /\ m.ask \in {"device_query", "apikey_query"} => devices' = devices /\ keys' = keys
<1>1. Head(requests) = m /\ requests' = <<>>
  BY DEF Serve
<1>2. ASSUME NEW r PROVE Append(responses, r) = <<r>>
  OBVIOUS
<1>3. /\ \A id : Answer(0, id, FALSE, None).auth_info = FALSE
      /\ Done.errno = 0 /\ Done.key = None /\ Failed.errno = 1
      /\ \A id, a, key : Answer(0, id, a, key).errno = 0 /\ Answer(0, id, a, key).key = key
  BY DEF Answer, Done, Failed
<1>4. CASE m.ask = "device_create"
  <2>1. PICK id : responses' = <<Answer(0, id, FALSE, None)>>
    BY <1>1, <1>2, <1>4 DEF Serve, ServeCreate
  <2> QED
    BY <1>1, <1>3, <1>4, <2>1 DEF Exchange, TrueAnswer
<1>5. CASE m.ask = "apikey_create"
  <2>1. PICK r : responses' = <<r>>
    BY <1>1, <1>2, <1>5 DEF Serve, ServeApikeyCreate
  <2> QED
    BY <1>1, <1>5, <2>1 DEF Exchange, TrueAnswer
<1>6. CASE m.ask = "apikey_delete"
  <2>1. responses' = <<Done>> /\ keys' = {k \in keys : k[1] # m.key}
    BY <1>1, <1>2, <1>6 DEF Serve, ServeDelete
  <2> QED
    BY <1>1, <1>6, <2>1 DEF Exchange, TrueAnswer
<1>7. CASE m.ask = "device_query"
  <2>1. devices' = devices /\ keys' = keys
    BY <1>1, <1>7 DEF Serve, ServeQuery, cloud
  <2> DEFINE r == IF m.id \in devices THEN Answer(0, m.id, TRUE, None) ELSE Failed
  <2>2. ServeQuery(m)
    BY <1>1, <1>7 DEF Serve
  <2>3. responses' = Append(responses, r)
    BY <1>7, <2>2 DEF ServeQuery
  <2>4. r.errno # 0 => m.id \notin devices
    <3>1. CASE m.id \in devices
      <4>1. r = Answer(0, m.id, TRUE, None)
        BY <3>1
      <4> QED
        BY <4>1 DEF Answer
    <3> QED
      BY <3>1
  <2> HIDE DEF r
  <2>5. responses' = <<r>>
    BY <1>2, <2>3
  <2> QED
    BY <1>1, <1>7, <2>1, <2>4, <2>5 DEF Exchange, TrueAnswer
<1>8. CASE m.ask = "apikey_query"
  <2> DEFINE known == {k[1] : k \in KeysOf(m.id)}
             r == IF KeysOf(m.id) = {} THEN Done ELSE Answer(0, None, FALSE, Fresh(known, {}))
  <2>1. devices' = devices /\ keys' = keys /\ KeysOf(m.id)' = KeysOf(m.id)
    BY <1>1, <1>8 DEF Serve, ServeQuery, cloud, KeysOf
  <2>2. responses' = <<r>>
    BY <1>1, <1>2, <1>8 DEF Serve, ServeQuery
  <2>3. r.errno = 0 /\ (r.key = None => KeysOf(m.id) = {})
    <3>1. CASE KeysOf(m.id) = {}
      BY <1>3, <3>1
    <3>2. CASE KeysOf(m.id) # {}
      <4>1. known # {} /\ None \notin known
        BY <3>2 DEF KeysOf
      <4>2. Fresh(known, {}) \in known
        BY <4>1, FreshIn
      <4>3. r = Answer(0, None, FALSE, Fresh(known, {}))
        BY <3>2
      <4> HIDE DEF known, r
      <4>4. r.errno = 0 /\ r.key = Fresh(known, {})
        BY <4>3 DEF Answer
      <4> QED
        BY <4>1, <4>2, <4>4
    <3> QED
      BY <3>1, <3>2
  <2> HIDE DEF r
  <2> QED
    BY <1>1, <1>8, <2>1, <2>2, <2>3 DEF Exchange, TrueAnswer
<1> QED
  BY <1>4, <1>5, <1>6, <1>7, <1>8

\* What GivenUpOnlyIfGone says of a step.
GivenUp ==
  /\ flash'.device_id # flash.device_id => flash.device_id \notin devices
  /\ flash'.device_apikey # flash.device_apikey =>
       \A k \in keys : k[1] = flash.device_apikey => flash.device_id \notin {None, k[2]}

\* The parts of the invariants that the steps use.
Before ==
  /\ FlagInv /\ CheckInv /\ Trusting /\ faults = {}

LEMMA BeforeFacts ==
  ASSUME Before
  PROVE  /\ Good(dev, flash) /\ dev.saves = <<>> /\ dev.sends = <<>> /\ Match(dev.cloud, flash)
         /\ dev.client => Link(dev, flash)
         /\ conn \in {"none", "connecting", "connected", "disconnecting"}
         /\ conn = "connecting" => dev.result = Doubts /\ ~dev.query_timer
         /\ dev.query_timer => /\ conn = "connected" /\ dev.client
                               /\ dev.cloud.device_id # None /\ dev.cloud.device_apikey # None
         /\ DOMAIN dev = DeviceFields /\ DOMAIN dev.cloud = ParamFields
  BY DEF Before, FlagInv, CheckInv, Trusting, Link, After, Checking, Good, Sound

LEMMA TickGiven ==
  ASSUME Before, QueryTimer
  PROVE  Trusting' /\ GivenUp
<1> DEFINE d == QueryCheck(dev)
<1>1. /\ dev.query_timer /\ conn = "connected" /\ conn' = "connected"
      /\ Link(dev, flash) /\ dev.sends = <<>> /\ Match(dev.cloud, flash)
      /\ dev.cloud.device_id # None
  BY BeforeFacts DEF QueryTimer
<1>2. /\ dev' = [d EXCEPT !.sends = <<>>, !.saves = <<>>]
      /\ flash' = IF d.saves = <<>> THEN flash ELSE d.saves[1]
      /\ requests' = Take(requests, d.sends) /\ responses' = responses
      /\ devices' = devices /\ keys' = keys
  BY <1>1 DEF QueryTimer, Finish, cloud
<1>3. Waiting(dev)
  <2> SUFFICES ASSUME dev.substate = 1, ~(dev.timeout < Patience) PROVE FALSE
    BY DEF Waiting
  <2>1. ~Quiet
    BY <1>1 DEF Before, Trusting, CheckingDevice, CheckingKey, Exchange, Quiet
  <2>2. dev.timeout >= Patience
    BY <1>1, HttpAssumption DEF Link, Good
  <2> QED
    BY <2>1, <2>2 DEF QueryTimer, Quiet, Before
<1>4. None \notin devices' /\ (\A k \in keys' : k[1] # None)
  BY <1>2 DEF Before, Trusting
<1>5. ASSUME Link(d, flash)
      PROVE  /\ dev'.sends = <<>> /\ Match(dev'.cloud, flash') /\ dev'.cloud = d.cloud /\ dev'.client
             /\ SamePlace(d, dev') /\ dev'.result = d.result
             /\ dev'.request_state = d.request_state /\ dev'.request_result = d.request_result
  BY <1>2, <1>5, Ends
<1>6. CASE dev.state = "device"
  <2>1. CheckingDevice
    BY <1>1, <1>6 DEF Before, Trusting
  <2>2. /\ Link(d, flash) /\ d.cloud = dev.cloud
        /\ dev.substate = 1 => /\ Placed(d, "device", 1) /\ d.sends = <<>>
                               /\ d.request_state = dev.request_state
        /\ dev.substate = 2 => /\ Placed(d, "key", 0) /\ d.sends = <<>>
                               /\ "id" \in d.result => dev.request_result # 0
    BY <1>1, <1>3, <1>6, TickDevice
  <2> HIDE DEF d
  <2>3. GivenUp
    BY <1>1, <1>5, <2>2 DEF GivenUp, Match
  <2>4. requests' = requests
    BY <1>2, <2>1, <2>2, TakeOne DEF CheckingDevice, Exchange, Quiet
  <2>5. CASE dev.substate = 1
    <3>1. CheckingDevice'
      BY <1>2, <1>5, <2>1, <2>2, <2>4, <2>5
         DEF CheckingDevice, Placed, SamePlace, Exchange, TrueAnswer, KeysOf
    <3> QED
      BY <1>1, <1>4, <1>5, <2>2, <2>3, <2>5, <3>1 DEF Trusting, Placed, SamePlace
  <2>6. CASE dev.substate = 2
    <3>1. CheckingKey'
      BY <1>2, <1>5, <2>1, <2>2, <2>4, <2>6
         DEF CheckingDevice, CheckingKey, Placed, SamePlace, Quiet
    <3> QED
      BY <1>1, <1>4, <1>5, <2>2, <2>3, <2>6, <3>1 DEF Trusting, Placed, SamePlace
  <2> QED
    BY <2>1, <2>5, <2>6 DEF CheckingDevice
<1>7. CASE dev.state = "key"
  <2>1. CheckingKey
    BY <1>1, <1>7 DEF Before, Trusting
  <2>2. /\ Link(d, flash)
        /\ dev.substate = 0 => Placed(d, "key", 1) /\ Sent(d, "apikey_query") /\ Same(dev, d)
        /\ dev.substate = 1 => /\ Placed(d, "key", 1) /\ d.sends = <<>> /\ Same(dev, d)
                               /\ d.request_state = dev.request_state
        /\ dev.substate = 2 => /\ ~d.query_timer /\ Asks(d)
                               /\ d.cloud.device_id # dev.cloud.device_id => "id" \in dev.result
                               /\ d.cloud.device_apikey # dev.cloud.device_apikey =>
                                    dev.request_result # 0
    BY <1>1, <1>3, <1>7, TickKey
  <2> HIDE DEF d
  <2>3. CASE dev.substate = 0
    <3>1. requests = <<>> /\ responses = <<>>
      BY <2>1, <2>3 DEF CheckingKey, Quiet
    <3>2. requests' = <<Message("apikey_query", dev.cloud.device_id, None)>>
      BY <1>2, <2>2, <2>3, <3>1, TakeOne DEF Sent, Same
    <3>3. CheckingKey'
      BY <1>2, <1>5, <2>1, <2>2, <2>3, <3>1, <3>2
         DEF CheckingKey, Placed, SamePlace, Exchange, Sent, Same
    <3> QED
      BY <1>1, <1>4, <1>5, <2>2, <2>3, <3>3 DEF Trusting, Placed, SamePlace, Same, GivenUp, Match
  <2>4. CASE dev.substate = 1
    <3>1. requests' = requests
      BY <1>2, <2>1, <2>2, <2>4, TakeOne DEF CheckingKey, Exchange
    <3>2. CheckingKey'
      BY <1>2, <1>5, <2>1, <2>2, <2>4, <3>1
         DEF CheckingKey, Placed, SamePlace, Exchange, Same, TrueAnswer, KeysOf
    <3> QED
      BY <1>1, <1>4, <1>5, <2>2, <2>4, <3>2 DEF Trusting, Placed, SamePlace, Same, GivenUp, Match
  <2>5. CASE dev.substate = 2
    <3>1. requests = <<>> /\ responses = <<>>
      BY <2>1, <2>5 DEF CheckingKey, Quiet
    <3>2. requests' = d.sends
      BY <1>2, <2>2, <2>5, <3>1, TakeOne DEF Asks
    <3>3. Registering'
      BY <1>2, <1>5, <2>2, <2>5, <3>1, <3>2, EndsRegistering
    <3>4. GivenUp
      BY <1>1, <1>5, <2>1, <2>2, <2>5 DEF GivenUp, Match, CheckingKey, KeysOf
    <3> QED
      BY <1>1, <1>4, <1>5, <2>2, <2>5, <3>3, <3>4 DEF Trusting, SamePlace
  <2> QED
    BY <2>1, <2>3, <2>4, <2>5 DEF CheckingKey
<1> QED
  BY <1>1, <1>6, <1>7 DEF Before, Trusting

LEMMA RecvGiven ==
  ASSUME Before, HttpclientRecv
  PROVE  Trusting' /\ GivenUp
<1> DEFINE r == Head(responses)
           d == Recv(dev, r)
<1>1. /\ conn = "connected" /\ conn' = "connected" /\ responses # <<>>
      /\ Link(dev, flash) /\ dev.sends = <<>> /\ Match(dev.cloud, flash)
      /\ dev.query_timer => dev.cloud.device_id # None /\ dev.cloud.device_apikey # None
  BY BeforeFacts DEF HttpclientRecv, Before, Trusting
<1>2. /\ dev' = [d EXCEPT !.sends = <<>>, !.saves = <<>>]
      /\ flash' = IF d.saves = <<>> THEN flash ELSE d.saves[1]
      /\ requests' = Take(requests, d.sends) /\ responses' = Tail(responses)
      /\ devices' = devices /\ keys' = keys
  BY <1>1 DEF HttpclientRecv, Finish, cloud
<1>3. None \notin devices' /\ (\A k \in keys' : k[1] # None)
  BY <1>2 DEF Before, Trusting
<1>4. ASSUME Link(d, flash)
      PROVE  /\ dev'.sends = <<>> /\ Match(dev'.cloud, flash') /\ dev'.cloud = d.cloud /\ dev'.client
             /\ SamePlace(d, dev') /\ dev'.result = d.result
             /\ dev'.request_state = d.request_state /\ dev'.request_result = d.request_result
  BY <1>2, <1>4, Ends
<1>5. ASSUME NEW m, Exchange(m)
      PROVE  requests = <<>> /\ responses' = <<>> /\ TrueAnswer(m, r)
  <2>1. PICK a : requests = <<>> /\ responses = <<a>> /\ TrueAnswer(m, a)
    BY <1>1, <1>5 DEF Exchange
  <2>2. Head(<<a>>) = a /\ Tail(<<a>>) = <<>>
    OBVIOUS
  <2> QED
    BY <1>2, <2>1, <2>2
<1>6. CASE ~dev.query_timer
  <2>1. Registering
    BY <1>1, <1>6 DEF Before, Trusting
  <2>2. /\ requests = <<>> /\ responses' = <<>>
        /\ \/ /\ dev.request_state = "device_create" /\ ~r.auth_info
              /\ dev.cloud.device_id = None
           \/ /\ dev.request_state = "apikey_create"
              /\ dev.cloud.device_id # None /\ dev.cloud.device_apikey = None
           \/ /\ dev.request_state = "apikey_delete" /\ dev.cloud.device_id = None
              /\ dev.cloud.device_apikey \notin {k[1] : k \in keys}
    BY <1>1, <1>5, <2>1 DEF Registering, Quiet, TrueAnswer, Message
  <2> HIDE DEF r
  <2>3. /\ Link(d, flash) /\ Asks(d) /\ d.query_timer = dev.query_timer
        /\ d.cloud.device_id # dev.cloud.device_id => dev.request_state = "device_create"
        /\ d.cloud.device_apikey # dev.cloud.device_apikey =>
             dev.request_state \in {"apikey_create", "apikey_delete"}
    BY <1>1, <2>2, RecvRegisters
  <2> HIDE DEF d
  <2>4. requests' = d.sends
    BY <1>2, <2>2, <2>3, TakeOne DEF Asks
  <2>5. Registering'
    BY <1>4, <2>2, <2>3, <2>4, EndsRegistering
  <2>6. GivenUp
    BY <1>1, <1>4, <2>2, <2>3 DEF GivenUp, Match, Before, Trusting
  <2> QED
    BY <1>1, <1>3, <1>4, <1>6, <2>3, <2>5, <2>6 DEF Trusting, SamePlace
<1>7. CASE dev.query_timer
  <2>1. (dev.state = "device" /\ CheckingDevice) \/ (dev.state = "key" /\ CheckingKey)
    BY <1>1, <1>7 DEF Before, Trusting
  <2>2. /\ requests = <<>> /\ responses' = <<>>
        /\ \/ /\ dev.state = "device" /\ dev.request_state = "device_query"
              /\ r.errno # 0 => dev.cloud.device_id \notin devices
           \/ /\ dev.state = "key" /\ dev.request_state = "apikey_query"
              /\ r.errno # 0 \/ r.key = None => KeysOf(dev.cloud.device_id) = {}
              /\ "id" \in dev.result => dev.cloud.device_id \notin devices
    BY <1>1, <1>5, <2>1 DEF CheckingDevice, CheckingKey, Quiet, TrueAnswer, Message
  <2> HIDE DEF r
  <2>3. /\ Link(d, flash) /\ SameIds(dev, d) /\ d.query_timer = dev.query_timer
        /\ d.state = dev.state /\ d.substate = 2 /\ d.sends = <<>> /\ d.result = dev.result
        /\ d.request_result # 0 => r.errno # 0 \/ (dev.request_state = "apikey_query" /\ r.key = None)
    <3>1. dev.request_state \in {"device_query", "apikey_query"}
      BY <2>2
    <3>2. dev.cloud.device_id # None /\ dev.cloud.device_apikey # None
      BY <1>1, <1>7
    <3>3. Link(dev, flash) /\ dev.sends = <<>>
      BY <1>1
    <3>4. d = Recv(dev, r)
      OBVIOUS
    <3> HIDE DEF d
    <3> QED
      BY <3>1, <3>2, <3>3, <3>4, RecvChecked
  <2> HIDE DEF d
  <2>4. requests' = <<>>
    BY <1>2, <2>2, <2>3, TakeOne
  <2>5. GivenUp
    BY <1>1, <1>4, <2>3 DEF GivenUp, Match, SameIds
  <2>6. (dev'.state = "device" /\ CheckingDevice') \/ (dev'.state = "key" /\ CheckingKey')
    BY <1>2, <1>4, <2>2, <2>3, <2>4
       DEF CheckingDevice, CheckingKey, SamePlace, SameIds, Quiet, KeysOf
  <2> QED
    BY <1>1, <1>3, <1>4, <1>7, <2>3, <2>5, <2>6 DEF Trusting, SamePlace
<1> QED
  BY <1>6, <1>7

LEMMA ServeGiven ==
  ASSUME Before, Serve
  PROVE  Trusting' /\ GivenUp
<1>1. dev' = dev /\ flash' = flash /\ conn' = conn /\ requests # <<>>
  BY DEF Serve
<1>2. None \notin devices' /\ (\A k \in keys' : k[1] # None)
  BY ServeCloud DEF Before, Trusting
<1>3. conn \notin {"none", "connecting"}
  BY <1>1 DEF Before, Trusting, Quiet
<1>4. ASSUME NEW m, Exchange(m),
         m.ask \in {"device_create", "apikey_create", "apikey_delete", "device_query", "apikey_query"}
      PROVE  /\ Exchange(m)'
             /\ m.ask \in {"device_query", "apikey_query"} => devices' = devices /\ keys' = keys
  BY <1>1, <1>4, ServeTrue DEF Exchange, Before, Trusting
<1>5. CASE conn = "connected" /\ ~dev.query_timer
  <2>1. Registering
    BY <1>5 DEF Before, Trusting
  <2>2. Registering'
    BY <1>1, <1>4, <2>1 DEF Registering, Quiet, Message, Exchange, TrueAnswer, KeysOf
  <2> QED
    BY <1>1, <1>2, <1>5, <2>2 DEF Before, Trusting, GivenUp
<1>6. CASE conn = "connected" /\ dev.query_timer
  <2>1. (dev.state = "device" /\ CheckingDevice) \/ (dev.state = "key" /\ CheckingKey)
    BY <1>6 DEF Before, Trusting
  <2>2. (dev'.state = "device" /\ CheckingDevice') \/ (dev'.state = "key" /\ CheckingKey')
    BY <1>1, <1>4, <2>1 DEF CheckingDevice, CheckingKey, Quiet, Message, Exchange, TrueAnswer, KeysOf
  <2> QED
    BY <1>1, <1>2, <1>6, <2>2 DEF Before, Trusting, GivenUp
<1>7. CASE conn \notin {"none", "connecting", "connected"}
  BY <1>1, <1>2, <1>7 DEF Before, Trusting, GivenUp
<1> QED
  BY <1>3, <1>5, <1>6, <1>7

LEMMA ConnectGiven ==
  ASSUME Before, ConnectCb
  PROVE  Trusting' /\ GivenUp
<1>1. /\ conn = "connecting" /\ conn' = "connected" /\ responses' = responses
      /\ devices' = devices /\ keys' = keys
  BY DEF ConnectCb, cloud
<1>2. /\ Link(dev, flash) /\ dev.sends = <<>> /\ ~dev.query_timer /\ responses = <<>>
      /\ Match(dev.cloud, flash) /\ dev.saves = <<>>
      /\ None \notin devices /\ \A k \in keys : k[1] # None
  BY <1>1, BeforeFacts DEF Before, Trusting, Quiet
<1>3. CASE dev.cloud.register_flag
  <2> DEFINE e == [dev EXCEPT !.state = "device", !.substate = 0, !.timeout = 0]
             d == QueryCheck(e)
  <2>1. dev' = [d EXCEPT !.sends = <<>>] /\ requests' = d.sends /\ flash' = flash
    BY <1>3 DEF ConnectCb
  <2>2. /\ Link(e, flash) /\ e.sends = <<>> /\ Waiting(e) /\ e.state = "device" /\ e.substate = 0
        /\ e.cloud = dev.cloud
    BY <1>2 DEF Link, Good, DeviceFields, After, Waiting
  <2> HIDE DEF e
  <2>3. /\ Link(d, flash) /\ d.cloud = dev.cloud /\ Placed(d, "device", 1)
        /\ Sent(d, "device_query")
    BY <2>2, TickDevice
  <2> HIDE DEF d
  <2>4. /\ dev'.sends = <<>> /\ dev'.cloud = dev.cloud /\ dev'.client /\ dev'.query_timer
        /\ dev'.state = "device" /\ dev'.substate = 1 /\ dev'.request_state = "device_query"
    BY <2>1, <2>3 DEF Link, Good, DeviceFields, Placed, Sent
  <2>5. CheckingDevice'
    BY <1>1, <1>2, <2>1, <2>3, <2>4 DEF CheckingDevice, Exchange, Sent
  <2> QED
    BY <1>1, <1>2, <2>1, <2>4, <2>5 DEF Trusting, GivenUp
<1>4. CASE ~dev.cloud.register_flag
  <2> DEFINE d == RegisterCheck(dev)
  <2>1. /\ dev' = [d EXCEPT !.sends = <<>>, !.saves = <<>>] /\ requests' = d.sends
        /\ flash' = IF d.saves = <<>> THEN flash ELSE d.saves[1]
    BY <1>4 DEF ConnectCb
  <2>2. Link(d, flash) /\ Asks(d) /\ SameIds(dev, d) /\ SamePlace(dev, d)
    BY <1>2, RegisterCheckLink, LinkAble
  <2> HIDE DEF d
  <2>3. /\ dev'.sends = <<>> /\ Match(dev'.cloud, flash') /\ dev'.cloud = d.cloud /\ dev'.client
        /\ SamePlace(d, dev') /\ dev'.request_state = d.request_state
    BY <2>1, <2>2, Ends
  <2>4. Registering'
    BY <1>1, <1>2, <2>1, <2>2, <2>3, EndsRegistering
  <2> QED
    BY <1>1, <1>2, <2>2, <2>3, <2>4 DEF Trusting, GivenUp, Match, SameIds, SamePlace
<1> QED
  BY <1>3, <1>4

LEMMA RestartGiven ==
  ASSUME Before, Restart
  PROVE  Trusting' /\ GivenUp
<1>1. flash.init_flag
  BY BeforeFacts DEF Match
<1>2. /\ dev' = [[Idle EXCEPT !.cloud = flash] EXCEPT !.saves = <<>>]
      /\ flash' = flash /\ conn' = "none" /\ requests' = <<>> /\ responses' = <<>>
      /\ devices' = devices /\ keys' = keys
  <2>1. ParamLoad(Idle, flash) = [Idle EXCEPT !.cloud = flash] /\ Idle.saves = <<>>
    BY <1>1 DEF ParamLoad, Idle
  <2>2. [Idle EXCEPT !.cloud = flash].saves = <<>>
    BY <2>1 DEF Idle
  <2> QED
    BY <2>1, <2>2 DEF Restart, cloud
<1>3. dev'.sends = <<>> /\ dev'.cloud = flash
  BY <1>2 DEF Idle
<1> QED
  BY <1>1, <1>2, <1>3 DEF Trusting, GivenUp, Match, Before, Quiet

LEMMA OtherGiven ==
  ASSUME Before, \/ \E field \in UserFields : SetUserField(field)
                 \/ Create \/ Delete \/ DisconCb \/ Forget
  PROVE  Trusting' /\ GivenUp
<1>0. /\ dev.saves = <<>> /\ dev.sends = <<>> /\ Match(dev.cloud, flash)
      /\ DOMAIN dev = DeviceFields /\ DOMAIN dev.cloud = ParamFields
      /\ conn = "connecting" => dev.result = Doubts
      /\ None \notin devices /\ \A k \in keys : k[1] # None
  BY BeforeFacts DEF Before, Trusting
<1>1. ASSUME NEW field \in UserFields, SetUserField(field) PROVE Trusting' /\ GivenUp
  <2> DEFINE e == [dev EXCEPT !.cloud.set = @ \cup {field}]
  <2>1. /\ e.cloud.device_id = dev.cloud.device_id /\ e.cloud.device_apikey = dev.cloud.device_apikey
        /\ e.cloud.register_flag = dev.cloud.register_flag /\ e.cloud.init_flag = dev.cloud.init_flag
        /\ e.saves = <<>> /\ e.sends = <<>> /\ e.client = dev.client /\ SamePlace(dev, e)
        /\ e.request_state = dev.request_state /\ e.result = dev.result
        /\ e.request_result = dev.request_result /\ DOMAIN e = DeviceFields
    BY <1>0 DEF DeviceFields, ParamFields, SamePlace
  <2>9. Finish(e) /\ UNCHANGED <<conn, responses, devices, keys>>
    BY <1>1 DEF SetUserField, cloud
  <2> HIDE DEF e
  <2>2. /\ dev' = [e EXCEPT !.sends = <<>>, !.saves = <<>>] /\ conn' = conn
        /\ flash' = flash /\ responses' = responses /\ devices' = devices /\ keys' = keys
        /\ requests' = (IF conn = "connected" THEN Take(requests, <<>>) ELSE requests)
    BY <2>1, <2>9 DEF Finish
  <2>3. /\ dev'.cloud = e.cloud /\ dev'.sends = <<>> /\ dev'.client = dev.client
        /\ SamePlace(dev, dev') /\ dev'.request_state = dev.request_state
        /\ dev'.result = dev.result /\ dev'.request_result = dev.request_result
    BY <2>1, <2>2 DEF DeviceFields, SamePlace
  <2>4. Match(dev'.cloud, flash')
    BY <1>0, <2>1, <2>2, <2>3 DEF Match
  <2>5. conn = "connected" => requests' = requests
    BY <2>2, TakeOne DEF Before, Trusting, Registering, CheckingDevice, CheckingKey, Exchange, Quiet
  <2>6. Registering => Registering' \/ conn # "connected"
    BY <2>1, <2>2, <2>3, <2>5 DEF Registering, Exchange, Quiet, TrueAnswer, KeysOf
  <2>7. CheckingDevice => CheckingDevice' \/ conn # "connected"
    BY <2>1, <2>2, <2>3, <2>5 DEF CheckingDevice, Exchange, Quiet, TrueAnswer, KeysOf, SamePlace
  <2>8. CheckingKey => CheckingKey' \/ conn # "connected"
    BY <2>1, <2>2, <2>3, <2>5 DEF CheckingKey, Exchange, Quiet, TrueAnswer, KeysOf, SamePlace
  <2> QED
    BY <1>0, <2>2, <2>3, <2>4, <2>6, <2>7, <2>8 DEF Before, Trusting, GivenUp, SamePlace, Quiet
<1>2. CASE Create
  <2> DEFINE e == [dev EXCEPT !.client = TRUE, !.result = Doubts]
  <2>1. e.cloud = dev.cloud /\ e.client /\ e.saves = <<>> /\ e.sends = <<>> /\ DOMAIN e = DeviceFields
    BY <1>0 DEF DeviceFields
  <2>2. /\ dev' = [e EXCEPT !.sends = <<>>, !.saves = <<>>] /\ conn = "none" /\ conn' = "connecting"
        /\ flash' = flash /\ UNCHANGED <<requests, responses, devices, keys>>
    BY <1>2, <2>1 DEF Create, Finish, cloud
  <2> HIDE DEF e
  <2>3. dev'.cloud = dev.cloud /\ dev'.sends = <<>> /\ dev'.client
    BY <2>1, <2>2 DEF DeviceFields
  <2> QED
    BY <1>0, <2>2, <2>3 DEF Before, Trusting, GivenUp, Quiet
<1>3. CASE Delete
  <2> DEFINE e == [dev EXCEPT !.disconnect_state = TRUE, !.delete_timer = TRUE]
  <2>1. e.cloud = dev.cloud /\ e.saves = <<>> /\ DOMAIN e = DeviceFields
    BY <1>0 DEF DeviceFields
  <2>2. /\ dev' = [e EXCEPT !.sends = <<>>, !.saves = <<>>] /\ dev.result \cap Doubts = {} /\ dev.client
        /\ conn' = (IF conn = "connected" THEN "disconnecting" ELSE conn)
        /\ flash' = flash /\ UNCHANGED <<devices, keys>>
    BY <1>3, <2>1 DEF Delete, Registered, Finish, cloud
  <2> HIDE DEF e
  <2>3. dev'.cloud = dev.cloud /\ dev'.sends = <<>>
    BY <2>1, <2>2 DEF DeviceFields
  <2>4. conn' \notin {"none", "connecting", "connected"}
    BY <1>0, <2>2, BeforeFacts DEF Doubts, Before, CheckInv
  <2> QED
    BY <1>0, <2>2, <2>3, <2>4 DEF Trusting, GivenUp
<1>4. CASE DisconCb
  <2>1. /\ conn' = "none" /\ requests' = <<>> /\ responses' = <<>> /\ flash' = flash
        /\ UNCHANGED <<devices, keys>>
    BY <1>4 DEF DisconCb, cloud
  <2>2. dev'.cloud = dev.cloud /\ dev'.sends = <<>>
    BY <1>0, <1>4 DEF DisconCb, Freed, DeviceFields
  <2> QED
    BY <1>0, <2>1, <2>2 DEF Trusting, GivenUp, Quiet
<1>5. CASE Forget
  <2>1. /\ ~dev.client /\ UNCHANGED <<dev, flash, conn, requests, responses>>
        /\ devices' \subseteq devices /\ keys' \subseteq keys
    BY <1>5 DEF Forget, network
  <2>2. conn \notin {"connecting", "connected"}
    BY <2>1 DEF Before, Trusting
  <2> QED
    BY <1>0, <2>1, <2>2 DEF Before, Trusting, GivenUp, Quiet
<1> QED
  BY <1>1, <1>2, <1>3, <1>4, <1>5

LEMMA GivenStep ==
  ASSUME FlagInv, CheckInv, GivenInv, [Next]_vars
  PROVE  GivenInv' /\ (faults = {} => GivenUp)
<1>1. faults' = faults
  BY DEF Next, Application, Callback, SetUserField, Create, Delete, Ask, Unregister, ConsoleParam,
     Restart, ConnectCb, DisconCb, DeleteTimer, QueryTimer, HttpclientRecv, Serve, Forget, vars
<1> SUFFICES ASSUME faults = {} PROVE Trusting' /\ GivenUp
  BY <1>1 DEF GivenInv
<1>2. Before
  BY DEF Before, GivenInv
<1>3. ~Ask /\ ~Unregister /\ ~ConsoleParam
  BY DEF Ask, Unregister, ConsoleParam
<1>4. ~DeleteTimer
  BY DEF DeleteTimer, CheckInv
<1>5. CASE UNCHANGED vars
  BY <1>2, <1>5 DEF Before, Trusting, GivenUp, vars, network, cloud, Quiet, Registering, CheckingDevice,
     CheckingKey, Exchange, TrueAnswer, KeysOf
<1> QED
  BY <1>2, <1>3, <1>4, <1>5, TickGiven, RecvGiven, ServeGiven, ConnectGiven, RestartGiven, OtherGiven
     DEF Next, Application, Callback

LEMMA InitGiven == Init => GivenInv
<1> SUFFICES ASSUME Init PROVE Trusting
  BY DEF GivenInv
<1> DEFINE d == ParamLoad(Idle, ErasedParam)
<1>1. d = Save([Idle EXCEPT !.cloud = DefaultParam])
  BY DEF ParamLoad, ErasedParam, DefaultParam
<1>2. d.cloud = DefaultParam /\ d.saves = <<DefaultParam>> /\ d.sends = <<>> /\ DOMAIN d = DeviceFields
  BY <1>1 DEF Save, Idle, DeviceFields
<1>3. dev = [d EXCEPT !.saves = <<>>] /\ flash = d.saves[1] /\ conn = "none"
      /\ requests = <<>> /\ responses = <<>> /\ devices = {} /\ keys = {}
  BY DEF Init
<1> HIDE DEF d
<1>4. dev.cloud = DefaultParam /\ flash = DefaultParam /\ dev.sends = <<>>
  BY <1>2, <1>3 DEF DeviceFields
<1>5. Match(dev.cloud, flash)
  BY <1>4 DEF Match, DefaultParam
<1> QED
  BY <1>3, <1>4, <1>5 DEF Trusting, Quiet

\* The device gives up its id only after the cloud has lost it, and its key only if the cloud has
\* it for no such device: whatever the cloud forgets between sessions and wherever a restart
\* falls, as long as answers come in time (onenet_device_query_check, onenet_http.c).
THEOREM GoodRegistrationKept == Spec => GivenUpOnlyIfGone
<1>1. FlagInv /\ CheckInv /\ GivenInv /\ [Next]_vars => [faults = {} => GivenUp]_vars
  BY GivenStep
<1>2. Spec => [](FlagInv /\ CheckInv /\ GivenInv)
  BY InitFlag, InitCheck, InitGiven, FlagStep, CheckStep, GivenStep, PTL DEF Spec
<1>3. Spec => [][faults = {} => GivenUp]_vars
  BY <1>1, <1>2, PTL DEF Spec
<1> QED
  BY <1>3 DEF GivenUpOnlyIfGone, GivenUp
=============================================================================
