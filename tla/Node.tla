--------------------------------- MODULE Node --------------------------------
(***************************************************************************)
(* The node's way from power-on to regular operation: Wi-Fi provisioning   *)
(* (c_provisioning.c, provisioning_handler.c), the context (context.c,     *)
(* init.c), the ThingsBoard handler (mqtt_handler.c) on top of CMqtt, the  *)
(* keys it keeps in NVS, power cycles and the factory reset.               *)
(*                                                                         *)
(* What the handlers do to the NFC tag is not in this module: the tag has  *)
(* no influence on anything here.                                          *)
(*                                                                         *)
(* sys_evt takes one event at a time and runs its handlers; the only       *)
(* handler other tasks can be seen to interleave with is the one that      *)
(* subscribes to the topics, so it alone is split.  The Wi-Fi driver, the  *)
(* provisioning server, the mqtt task and the button run in between.       *)
(***************************************************************************)
EXTENDS CMqtt

CONSTANTS
  AppTopics,     \* the topics the CONNECTED handler subscribes to, in order
  RpcResponse,   \* CONFIG_TB_CS_RPC_RESPONSE_TOPIC, one of them
  RpcRequest,    \* the topic the shared attributes are requested on
  MaxBoots,      \* bound: restarts after the first boot
  MaxProvs,      \* bound: custom-data requests
  MaxFlaps       \* bound: Wi-Fi disconnections

ASSUME NodeAssumption ==
  /\ AppTopics \in Seq(Topics)
  /\ RpcResponse \in Topics /\ RpcRequest \in Topics
  /\ "username" \in Fields
  /\ MaxBoots \in Nat /\ MaxProvs \in Nat /\ MaxFlaps \in Nat

VARIABLES
  NODE_STATE,
  mqtt_status,
  nvs,           \* the keys of the "storage" namespace
  nvsReady,      \* FALSE from nvs_flash_erase to the restart
  reset,         \* history: "clean" or "torn" after an erase, until provisioned again
  creds,         \* Wi-Fi credentials are in flash
  prov,          \* the provisioning server answers "custom-data"
  wifi,          \* "off", "starting", "idle", "connecting" or "up"
  subNext,       \* CONNECTED handler: 0, or the index of the next topic
  ble,           \* "off", "starting", "advertising" or "failed"
  seen,          \* history: the facts of NodeLifecycle, since boot
  boots, provs, flaps

nodeVars == <<NODE_STATE, mqtt_status, nvs, nvsReady, reset, creds, prov, wifi, subNext,
              ble, seen, boots, provs, flaps>>
vars == <<mqttVars, nodeVars>>

flashVars  == <<nvs, nvsReady, reset, creds>>
wifiVars   == <<prov, wifi>>
boundVars  == <<boots, provs, flaps>>

TbKeys  == {"tb_token", "tb_broker_url"}
CtxKeys == {"nfc_content", "ble_content"}
Keys    == TbKeys \cup CtxKeys

\* JSON documents by the keys of interest they have; <<>> has none of them.
DocumentsOver(ks) == UNION {[s -> Values] : s \in SUBSET ks}

Init ==
  /\ MqttInit
  /\ NODE_STATE = "BLANK"
  /\ mqtt_status = "BLANK"
  /\ nvs = [k \in Keys |-> NULL] /\ nvsReady = TRUE /\ reset = "none"
  /\ creds = FALSE
  /\ prov = TRUE /\ wifi = "off"
  /\ subNext = 0
  /\ ble = "off"
  /\ seen = {}
  /\ boots = 0 /\ provs = 0 /\ flaps = 0

\* app_main after a reset: RAM is initialised again, flash is not.
Boot(hasCreds) ==
  /\ MQTT_STATUS' = MqttBoot.status
  /\ mqtt_client' = FALSE
  /\ mqtt_config' = MqttBoot.config /\ running' = MqttBoot.config
  /\ subscriptions' = MqttBoot.table /\ subCall' = NoCall
  /\ session' = "down" /\ connects' = 0 /\ outbox' = {}
  /\ scan' = NoScan /\ acked' = {} /\ loop' = <<>>
  /\ NODE_STATE' = "BLANK" /\ mqtt_status' = "BLANK"
  /\ nvsReady' = TRUE
  /\ prov' = ~hasCreds /\ wifi' = IF hasCreds THEN "starting" ELSE "off"
  /\ subNext' = 0 /\ ble' = "off" /\ seen' = {}
  /\ boots < MaxBoots /\ boots' = boots + 1
  /\ UNCHANGED <<provs, flaps>>

-----------------------------------------------------------------------------
(* NVS.  nvs_flash_erase closes the partition before it erases, and nothing *)
(* opens it again before the restart: every access fails.                  *)

WriteOutcomes ==
  IF ~nvsReady THEN {FALSE} ELSE IF "flash" \in Faults THEN BOOLEAN ELSE {TRUE}

\* nvs_write_string of doc[k], if the document has it.
Write(store, doc, k, ok) ==
  IF ok /\ k \in DOMAIN doc THEN [store EXCEPT ![k] = doc[k]] ELSE store

Readable(k) == nvsReady /\ nvs[k] # NULL

-----------------------------------------------------------------------------
(* Wi-Fi and provisioning.  The driver waits for room when it posts.       *)

PostBlocking(ev) == HasRoom(loop) /\ loop' = Append(loop, Event(ev, NoArg))

\* The provisioning manager stores the credentials and applies them.
ProvCreds ==
  /\ prov /\ nvsReady /\ ~creds
  /\ creds' = TRUE /\ wifi' = "connecting"
  /\ UNCHANGED <<mqttVars, NODE_STATE, mqtt_status, nvs, nvsReady, reset, prov, subNext,
                 ble, seen, boundVars>>

\* _custom_prov_data_handler: answers SUCCESS whether or not the event fits.
CustomProvData(doc) ==
  /\ prov /\ provs < MaxProvs
  /\ provs' = provs + 1
  /\ loop' = Post(loop, Event("PROV_CUSTOM_DATA", doc))
  /\ reset' = IF nvsReady /\ reset = "clean" THEN "none" ELSE reset
  /\ UNCHANGED <<MQTT_STATUS, clientVars, tableVars, linkVars, NODE_STATE, mqtt_status,
                 nvs, nvsReady, creds, wifiVars, subNext, ble, seen, boots, flaps>>

\* WIFI_PROV_END.
ProvEnd ==
  /\ prov /\ wifi = "up"
  /\ prov' = FALSE
  /\ UNCHANGED <<mqttVars, NODE_STATE, mqtt_status, flashVars, wifi, subNext, ble, seen,
                 boundVars>>

WifiStarted ==
  /\ wifi = "starting"
  /\ PostBlocking("STA_START")
  /\ wifi' = "idle"
  /\ UNCHANGED <<MQTT_STATUS, clientVars, tableVars, linkVars, NODE_STATE, mqtt_status,
                 flashVars, prov, subNext, ble, seen, boundVars>>

WifiUp ==
  /\ wifi = "connecting"
  /\ PostBlocking("GOT_IP")
  /\ wifi' = "up" /\ seen' = seen \cup {"ip"}
  /\ UNCHANGED <<MQTT_STATUS, clientVars, tableVars, linkVars, NODE_STATE, mqtt_status,
                 flashVars, prov, subNext, ble, boundVars>>

WifiDown ==
  /\ wifi \in {"connecting", "up"} /\ flaps < MaxFlaps
  /\ PostBlocking("STA_DISCONNECTED")
  /\ wifi' = "idle" /\ flaps' = flaps + 1
  /\ UNCHANGED <<MQTT_STATUS, clientVars, tableVars, linkVars, NODE_STATE, mqtt_status,
                 flashVars, prov, subNext, ble, seen, boots, provs>>

-----------------------------------------------------------------------------
(* The handlers, run by sys_evt.                                           *)

Takes(ev) ==
  /\ subNext = 0
  /\ loop # <<>> /\ Head(loop).ev = ev

OnWifiEventAnnounces ==
  /\ Takes("STA_START") \/ Takes("STA_DISCONNECTED")
  /\ loop' = Post(Tail(loop), Event("PROV_CONNECTED", NoArg))
  /\ wifi' = "connecting"
  /\ UNCHANGED <<MQTT_STATUS, clientVars, tableVars, linkVars, NODE_STATE, mqtt_status,
                 flashVars, prov, subNext, ble, seen, boundVars>>

\* STA_START and STA_DISCONNECTED both call esp_wifi_connect.
OnWifiEvent ==
  /\ Takes("STA_START") \/ Takes("STA_DISCONNECTED")
  /\ loop' = Tail(loop)
  /\ wifi' = "connecting"
  /\ UNCHANGED <<MQTT_STATUS, clientVars, tableVars, linkVars, NODE_STATE, mqtt_status,
                 flashVars, prov, subNext, ble, seen, boundVars>>

\* _ip_event_handler and, for the event it posts, provisioning_handler.
Relay(from, to) ==
  /\ Takes(from)
  /\ loop' = Post(Tail(loop), Event(to, NoArg))
  /\ UNCHANGED <<MQTT_STATUS, clientVars, tableVars, linkVars, nodeVars>>

OnGotIp == Relay("GOT_IP", "PROV_CONNECTED")
OnProvConnected == Relay("PROV_CONNECTED", "CTX_VALID_WIFI_CRED")

OnCustomDataUnchecked ==
  /\ Takes("PROV_CUSTOM_DATA")
  /\ loop' = Tail(loop)
  /\ LET doc == Head(loop).arg
     IN \E okToken \in WriteOutcomes, okUrl \in WriteOutcomes :
          nvs' = Write(Write(nvs, doc, "tb_token", okToken), doc, "tb_broker_url", okUrl)
  /\ UNCHANGED <<MQTT_STATUS, clientVars, tableVars, linkVars, NODE_STATE, mqtt_status,
                 nvsReady, reset, creds, wifiVars, subNext, ble, seen, boundVars>>

\* tb_parse_context: the token first, and the address only if that worked.
OnCustomData ==
  /\ Takes("PROV_CUSTOM_DATA")
  /\ loop' = Tail(loop)
  /\ LET doc == Head(loop).arg
     IN \E okToken \in WriteOutcomes, okUrl \in WriteOutcomes :
          LET token == Write(nvs, doc, "tb_token", okToken)
          IN nvs' = Write(token, doc, "tb_broker_url",
                          okToken /\ okUrl /\ "tb_token" \in DOMAIN doc)
  /\ UNCHANGED <<MQTT_STATUS, clientVars, tableVars, linkVars, NODE_STATE, mqtt_status,
                 nvsReady, reset, creds, wifiVars, subNext, ble, seen, boundVars>>

(* _start_client.  A missing address leaves the uninitialised buffer to be *)
(* taken for one; a missing token is only logged.  Without a buffer only   *)
(* the QoS is set ("No broker url found").                                 *)
StoredBroker == IF Readable("tb_broker_url") THEN nvs["tb_broker_url"] ELSE Garbage

StartAnyClient ==
  StartClient(SetField(SetBroker(SetQos(mqtt_config, 1), StoredBroker), "username",
                       nvs["tb_token"]))

StartStoredClient ==
  LET c == SetBroker(SetQos(mqtt_config, 1), StoredBroker)
  IN \/ /\ Readable("tb_token")
        /\ \E user \in SetterOutcomes("username", nvs["tb_token"]) :
             StartClient(SetField(c, "username", user))
     \/ /\ ~Readable("tb_token")
        /\ mqtt_config' = c /\ UNCHANGED <<MQTT_STATUS, mqtt_client, running>>
     \/ /\ "heap" \in Faults
        /\ mqtt_config' = SetQos(mqtt_config, 1)
        /\ UNCHANGED <<MQTT_STATUS, mqtt_client, running>>

(* mqtt_context_event_handler: what each case leaves in mqtt_status, and   *)
(* whether it calls _start_client.  The first case has no break.           *)
TokenCase(s) ==
  IF s = "GOT_WIFI_CRED" THEN [status |-> "COMPLETED", start |-> TRUE]
                         ELSE [status |-> "GOT_TB_CRED", start |-> FALSE]

WifiCaseBreaks(s) ==
  IF s = "GOT_TB_CRED" THEN [status |-> "COMPLETED", start |-> TRUE]
                       ELSE [status |-> "GOT_WIFI_CRED", start |-> FALSE]

WifiCase(s) ==
  LET first == IF s = "GOT_TB_CRED" THEN [status |-> "COMPLETED", start |-> TRUE]
                                    ELSE [status |-> "GOT_WIFI_CRED", start |-> FALSE]
      next  == TokenCase(first.status)
  IN [status |-> next.status, start |-> first.start \/ next.start]

(* A context event goes to mqtt_handler, ctx_event_handler and             *)
(* init_when_context_ready, in the order of their registration.            *)
OnContextCred(ev, case, state) ==
  /\ Takes(ev)
  /\ loop' = Tail(loop)
  /\ mqtt_status' = case.status
  /\ IF case.start THEN StartStoredClient ELSE UNCHANGED <<MQTT_STATUS, clientVars>>
  /\ NODE_STATE' = state
  /\ UNCHANGED <<tableVars, linkVars, flashVars, wifiVars, subNext, ble, seen, boundVars>>

OnValidWifiCred ==
  OnContextCred("CTX_VALID_WIFI_CRED", WifiCase(mqtt_status), "VALID_WIFI_CRED")
OnValidTbToken ==
  OnContextCred("CTX_VALID_TB_TOKEN", TokenCase(mqtt_status), "VALID_TB_TOKEN")

\* ble_init works once per boot: the controller refuses to be initialised twice.
OnRegular ==
  /\ Takes("CTX_REGULAR")
  /\ loop' = Tail(loop)
  /\ NODE_STATE' = "REGULAR"
  /\ ble' \in IF ble # "off" THEN {ble}
              ELSE IF "heap" \in Faults THEN {"starting", "failed"} ELSE {"starting"}
  /\ UNCHANGED <<MQTT_STATUS, clientVars, tableVars, linkVars, mqtt_status, flashVars,
                 wifiVars, subNext, seen, boundVars>>

(* The handler of C_MQTT_EVENT_CONNECTED: one subscription after another,  *)
(* whatever becomes of them, and then the announcement.                    *)
OnMqttConnected ==
  /\ Takes("MQTT_CONNECTED")
  /\ loop' = Tail(loop)
  /\ subNext' = 1
  /\ UNCHANGED <<MQTT_STATUS, clientVars, tableVars, linkVars, NODE_STATE, mqtt_status,
                 flashVars, wifiVars, ble, seen, boundVars>>

NodeSubscribes ==
  /\ subNext \in 1..Len(AppTopics)
  /\ SubscribeCheck(AppTopics[subNext])
  /\ subNext' = subNext + 1
  /\ UNCHANGED <<NODE_STATE, mqtt_status, flashVars, wifiVars, ble, seen, boundVars>>

SubscribeGoesOn ==
  /\ SubscribeSend \/ SubscribeRefused \/ SubscribeRecord
  /\ UNCHANGED nodeVars

AnnounceToken ==
  /\ subNext = Len(AppTopics) + 1 /\ subCall = NoCall
  /\ loop' = Post(loop, Event("CTX_VALID_TB_TOKEN", NoArg))
  /\ subNext' = 0
  /\ UNCHANGED <<MQTT_STATUS, clientVars, tableVars, linkVars, NODE_STATE, mqtt_status,
                 flashVars, wifiVars, ble, seen, boundVars>>

OnMqttDisconnectedFallsInto ==
  /\ Takes("MQTT_DISCONNECTED")
  /\ loop' = Tail(loop)
  /\ subNext' = 1
  /\ UNCHANGED <<MQTT_STATUS, clientVars, tableVars, linkVars, NODE_STATE, mqtt_status,
                 flashVars, wifiVars, ble, seen, boundVars>>

OnMqttDisconnected ==
  /\ Takes("MQTT_DISCONNECTED")
  /\ loop' = Tail(loop)
  /\ UNCHANGED <<MQTT_STATUS, clientVars, tableVars, linkVars, nodeVars>>

OnMqttSubscribedAnnounces ==
  /\ Takes("MQTT_SUBSCRIBED")
  /\ IF Head(loop).arg.topic = RpcResponse THEN Publish(RpcRequest)
                                           ELSE outbox' = outbox
  /\ loop' = Post(Tail(loop), Event("CTX_REGULAR", NoArg))
  /\ UNCHANGED <<MQTT_STATUS, clientVars, tableVars, session, connects, scan, acked,
                 nodeVars>>

\* _request_shared_attributes, once the answers can be received.
OnMqttSubscribed ==
  /\ Takes("MQTT_SUBSCRIBED")
  /\ IF Head(loop).arg.topic = RpcResponse THEN Publish(RpcRequest)
                                           ELSE outbox' = outbox
  /\ loop' = Tail(loop)
  /\ UNCHANGED <<MQTT_STATUS, clientVars, tableVars, session, connects, scan, acked,
                 nodeVars>>

\* The answer to getSharedAttributes: each key it has is stored.
OnMqttData ==
  /\ Takes("MQTT_DATA")
  /\ LET doc == Head(loop).arg
     IN \E okNfc \in WriteOutcomes, okBle \in WriteOutcomes :
          nvs' = Write(Write(nvs, doc, "nfc_content", okNfc), doc, "ble_content", okBle)
  /\ loop' = Post(Tail(loop), Event("CTX_REGULAR", NoArg))
  /\ UNCHANGED <<MQTT_STATUS, clientVars, tableVars, linkVars, NODE_STATE, mqtt_status,
                 nvsReady, reset, creds, wifiVars, subNext, ble, seen, boundVars>>

SysEvt ==
  \/ OnWifiEvent \/ OnGotIp \/ OnProvConnected \/ OnCustomData
  \/ OnValidWifiCred \/ OnValidTbToken \/ OnRegular
  \/ OnMqttConnected \/ NodeSubscribes \/ SubscribeGoesOn \/ AnnounceToken
  \/ OnMqttDisconnected \/ OnMqttSubscribed \/ OnMqttData

-----------------------------------------------------------------------------
(* The other tasks.                                                        *)

\* The mqtt task and the broker, as long as there is an access point.
NodeConnects ==
  /\ wifi = "up"
  /\ MqttConnected
  /\ seen' = seen \cup {"session"}
  /\ UNCHANGED <<NODE_STATE, mqtt_status, flashVars, wifiVars, subNext, ble, boundVars>>

NodeLink ==
  /\ ConnectFails \/ TransportError \/ MqttDisconnected
     \/ (\E m \in outbox : SubackArrives(m)) \/ ScanRow \/ ScanEnds
  /\ UNCHANGED nodeVars

\* ThingsBoard answers the request for the shared attributes, with those it has.
ServerAnswers(m, doc) ==
  /\ MqttTaskRuns /\ session = "up"
  /\ m \in outbox /\ m.kind = "PUBLISH"
  /\ outbox' = outbox \ {m}
  /\ \/ loop' = Post(loop, Event("MQTT_DATA", doc))
     \/ "heap" \in Faults /\ loop' = loop
  /\ seen' = seen \cup {"answer"}
  /\ UNCHANGED <<MQTT_STATUS, clientVars, tableVars, session, connects, scan, acked,
                 NODE_STATE, mqtt_status, flashVars, wifiVars, subNext, ble, boundVars>>

(* ESP_GATTS_REG_EVT on the Bluetooth task: set_ble_name dereferences what *)
(* it finds in ble_content, and panics when there is nothing.  A read that *)
(* sys_evt disturbs may find nothing either (CNvs, NodeServices): the      *)
(* panic is a Restart then.                                                *)
BleRegisters ==
  /\ ble = "starting"
  /\ IF Readable("ble_content")
     THEN ble' = "advertising"
          /\ UNCHANGED <<mqttVars, NODE_STATE, mqtt_status, flashVars, wifiVars, subNext,
                         seen, boundVars>>
     ELSE Boot(creds) /\ UNCHANGED <<nvs, reset, creds>>

Kept(ks) == [k \in Keys |-> IF k \in ks THEN nvs[k] ELSE NULL]

(* The button was held long enough: nvs_delete_all, then esp_restart.  An  *)
(* erase that fails has closed the partition all the same and may have     *)
(* erased part of it; nobody looks at the result.                          *)
FactoryErase ==
  /\ nvsReady /\ boots < MaxBoots
  /\ nvsReady' = FALSE
  /\ \/ nvs' = Kept({}) /\ creds' = FALSE /\ reset' = "clean"
     \/ /\ "flash" \in Faults
        /\ \E ks \in SUBSET Keys : nvs' = Kept(ks)
        /\ creds' \in {creds, FALSE}
        /\ reset' = "torn"
  /\ UNCHANGED <<mqttVars, NODE_STATE, mqtt_status, wifiVars, subNext, ble, seen,
                 boundVars>>

\* esp_restart, a panic or a power cut.
Restart == Boot(creds) /\ UNCHANGED <<nvs, reset, creds>>

Environment ==
  \/ ProvCreds \/ ProvEnd \/ WifiStarted \/ WifiUp \/ WifiDown
  \/ \E doc \in DocumentsOver(TbKeys) : CustomProvData(doc)
  \/ NodeConnects \/ NodeLink
  \/ \E m \in outbox, doc \in DocumentsOver(CtxKeys) : ServerAnswers(m, doc)
  \/ BleRegisters \/ FactoryErase \/ Restart

Next == SysEvt \/ Environment

Spec == Init /\ [][Next]_vars

(* sys_evt and the mqtt task are never starved; an access point and a      *)
(* broker that stay reachable answer.  Answers need the mqtt task between  *)
(* two of its callbacks, hence the strong fairness.                        *)
Fairness ==
  /\ WF_vars(SysEvt)
  /\ WF_vars(ProvCreds) /\ WF_vars(WifiStarted) /\ SF_vars(WifiUp)
  /\ SF_vars(NodeConnects)
  /\ SF_vars(NodeLink)
  /\ SF_vars(\E m \in outbox, doc \in DocumentsOver(CtxKeys) : ServerAnswers(m, doc))

FairSpec == Spec /\ Fairness

-----------------------------------------------------------------------------
(* The lifecycle's view of the node.  A reason to enter a state travels as *)
(* one event after another, and for VALID_TB_TOKEN through the handler     *)
(* that subscribes to the topics.                                          *)
InFlash == {c \in {"creds", "token"} :
              IF c = "creds" THEN creds ELSE nvs["tb_token"] # NULL}

Heralds(s) ==
  CASE s = "VALID_WIFI_CRED" -> {"GOT_IP", "PROV_CONNECTED", "CTX_VALID_WIFI_CRED"}
    [] s = "VALID_TB_TOKEN"  -> {"MQTT_CONNECTED", "CTX_VALID_TB_TOKEN"}
    [] s = "REGULAR"         -> {"MQTT_DATA", "CTX_REGULAR"}

Pending(q, evs) == {i \in 1..Len(q) : q[i].ev \in evs}

Reasons ==
  [s \in {"VALID_WIFI_CRED", "VALID_TB_TOKEN", "REGULAR"} |->
     Cardinality(Pending(loop, Heralds(s)))
       + IF s = "VALID_TB_TOKEN" /\ subNext > 0 THEN 1 ELSE 0]

Life == INSTANCE NodeLifecycle
          WITH stored <- InFlash, erased <- ~nvsReady, evidence <- seen, due <- Reasons

Events ==
  [ev : {"STA_START", "GOT_IP", "STA_DISCONNECTED", "PROV_CONNECTED", "MQTT_CONNECTED",
         "MQTT_DISCONNECTED", "CTX_VALID_WIFI_CRED", "CTX_VALID_TB_TOKEN",
         "CTX_REGULAR"}, arg : {NoArg}]
  \cup [ev : {"PROV_CUSTOM_DATA"}, arg : DocumentsOver(TbKeys)]
  \cup [ev : {"MQTT_DATA"}, arg : DocumentsOver(CtxKeys)]
  \cup [ev : {"MQTT_SUBSCRIBED"}, arg : [topic : Topics]]

\* Every variable has its type, and every event the payload its handlers expect.
TypeOK ==
  /\ MqttStateOK
  /\ loop \in Seq(Events) /\ Len(loop) <= QueueSize
  /\ NODE_STATE \in Life!NodeStates
  /\ mqtt_status \in {"BLANK", "GOT_WIFI_CRED", "GOT_TB_CRED", "COMPLETED"}
  /\ nvs \in [Keys -> Values \cup {NULL}] /\ nvsReady \in BOOLEAN
  /\ reset \in {"none", "clean", "torn"}
  /\ creds \in BOOLEAN /\ prov \in BOOLEAN
  /\ wifi \in {"off", "starting", "idle", "connecting", "up"}
  /\ subNext \in 0..(Len(AppTopics) + 1)
  /\ ble \in {"off", "starting", "advertising", "failed"}
  /\ seen \subseteq Life!Facts
  /\ boots \in 0..MaxBoots /\ provs \in 0..MaxProvs /\ flaps \in 0..MaxFlaps

(* The inductive invariant behind the lifecycle: whoever is about to vouch *)
(* for a fact, the link, the handler under way, an event in the queue or   *)
(* NODE_STATE itself, does so after the fact; and what was had with the    *)
(* credentials or the token is had while they are in the flash.            *)
Vouched(ev) ==
  CASE ev \in {"GOT_IP", "PROV_CONNECTED", "CTX_VALID_WIFI_CRED"} -> {"ip"}
    [] ev \in {"MQTT_CONNECTED", "CTX_VALID_TB_TOKEN"} -> {"ip", "session"}
    [] ev \in {"MQTT_DATA", "CTX_REGULAR"} -> Life!Facts
    [] OTHER -> {}

Backed(q, facts) == \A i \in 1..Len(q) : Vouched(q[i].ev) \subseteq facts

LinkIsBacked ==
  /\ wifi = "up" => "ip" \in seen
  /\ session = "up" => {"ip", "session"} \subseteq seen
HandlerIsBacked == subNext > 0 => {"ip", "session"} \subseteq seen
QueueIsBacked == Backed(loop, seen)
StateIsBacked == Life!Needs(NODE_STATE) \subseteq seen
WifiIsUsed ==
  wifi # "off" \/ "ip" \in seen \/ Queued(loop, "STA_START") \/ Queued(loop, "STA_DISCONNECTED")
FlashIsBacked ==
  nvsReady => /\ WifiIsUsed => creds
              /\ mqtt_client \/ "session" \in seen => nvs["tb_token"] # NULL

(* No task ever vouches for a step of the start-up that has not happened   *)
(* in this boot, whatever events were lost, repeated or overtaken; and     *)
(* until an erase the credentials and the token it was done with are kept. *)
NodeInv ==
  LinkIsBacked /\ HandlerIsBacked /\ QueueIsBacked /\ StateIsBacked /\ FlashIsBacked

(* NODE_STATE moves for the reasons of NodeLifecycle and for no others: to *)
(* the state of an address, a session or an answer of this boot, once for  *)
(* each, with the credentials and the token of context.h:22-31 in flash.   *)
(* That context.h:38 also has REGULAR mean a connection and a context is   *)
(* not so, and not claimed.                                                *)
ImplementsLifecycle == Life!Spec

(* Unless an allocation fails, the client never dials the broker without   *)
(* the access token: _start_client reads it after the address and starts   *)
(* only when it is there (mqtt_handler.c:99).                              *)
AuthenticatedClient ==
  "heap" \notin Faults /\ mqtt_client => running.opts["username"] # NULL

(* The flash never holds a broker address without a token, although the    *)
(* two are written one after the other and either write may fail; only an  *)
(* erase that failed half-way can leave that (factory_reset.c:62).         *)
AddressComesWithToken ==
  reset # "torn" /\ nvs["tb_broker_url"] # NULL => nvs["tb_token"] # NULL

(* NODE_STATE_BLANK is "Factory reset (no provisioning)" (context.h:13):   *)
(* after an erase that succeeded, and until the node is given custom data  *)
(* again, neither what sys_evt still had queued nor new Wi-Fi credentials  *)
(* bring any of the old life back: the flash stays empty, and after the    *)
(* restart no client is started, no session made, nothing advertised and   *)
(* no state past VALID_WIFI_CRED entered.                                  *)
ResetForgets ==
  reset = "clean" =>
    /\ \A k \in Keys : nvs[k] = NULL
    /\ nvsReady => /\ ~mqtt_client /\ session = "down" /\ ble = "off"
                   /\ NODE_STATE \in {"BLANK", "VALID_WIFI_CRED"}

(* The table of subscriptions grows by at most one row for each topic with *)
(* every connection to the broker; nothing ever makes it shorter.          *)
RowsPerConnection == Len(subscriptions) <= Len(AppTopics) * connects

(* The access point that gave an address and a token in flash are enough   *)
(* for the client to be started (mqtt_handler.c:181-201), by whichever     *)
(* case of the switch happens to do it.                                    *)
StartsOnceProvisioned ==
  Queued(loop, "CTX_VALID_WIFI_CRED") /\ nvs["tb_token"] # NULL ~> mqtt_client

(* A started client brings the node to regular operation once the network  *)
(* stays up, if no event is lost: five hops through the queue and three    *)
(* answers of the broker, none of which is ever asked for again.  It holds *)
(* the first time only: a Wi-Fi flap takes NODE_STATE back to              *)
(* VALID_WIFI_CRED, and when the MQTT session survives, for good.          *)
ReachesRegular ==
  mqtt_client /\ "answer" \notin seen ~> NODE_STATE = "REGULAR"

(* The rows in use are rows of the array, of CONFIG_MQTT_MAX_SUBSCRIPTIONS *)
(* (c_mqtt.c:27,34).                                                       *)
MaxSubscriptions == 10
TableFits == Len(subscriptions) <= MaxSubscriptions

(* "No broker url found" (mqtt_handler.c:109): without an address in flash *)
(* the client is not started.                                              *)
BrokerIsProvisioned == mqtt_client => running.broker.host # Garbage
=============================================================================
