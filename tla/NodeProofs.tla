----------------------------- MODULE NodeProofs -----------------------------
(***************************************************************************)
(* What holds of the node for every configuration: any topics, any values  *)
(* and documents, any capacity of the queue, any number of boots, flaps    *)
(* and connections, any of the faults.                                     *)
(***************************************************************************)
EXTENDS Node, CMqttProofs, FiniteSetTheorems

-----------------------------------------------------------------------------
(* Type correctness.                                                       *)

PlainEvents ==
  {"STA_START", "GOT_IP", "STA_DISCONNECTED", "PROV_CONNECTED", "MQTT_CONNECTED",
   "MQTT_DISCONNECTED", "CTX_VALID_WIFI_CRED", "CTX_VALID_TB_TOKEN", "CTX_REGULAR"}

LEMMA EventsTyped ==
  /\ \A ev \in PlainEvents : Event(ev, NoArg) \in Events
  /\ \A doc \in DocumentsOver(TbKeys) : Event("PROV_CUSTOM_DATA", doc) \in Events
  /\ \A doc \in DocumentsOver(CtxKeys) : Event("MQTT_DATA", doc) \in Events
  /\ LinkEvents \subseteq Events
  BY DEF PlainEvents, Events, Event, LinkEvents

\* The payload of the event at the head of the queue is what its handler expects.
LEMMA HeadTyped ==
  ASSUME TypeOK, loop # <<>>
  PROVE  /\ Head(loop).ev = "PROV_CUSTOM_DATA" => Head(loop).arg \in DocumentsOver(TbKeys)
         /\ Head(loop).ev = "MQTT_DATA" => Head(loop).arg \in DocumentsOver(CtxKeys)
         /\ Head(loop).ev = "MQTT_SUBSCRIBED" => Head(loop).arg \in [topic : Topics]
<1>1. Head(loop) \in Events
  BY HeadTailProperties DEF TypeOK
<1> QED
  BY <1>1 DEF Events

\* nvs_write_string keeps the keys and stores values.
LEMMA WriteTyped ==
  ASSUME NEW store \in [Keys -> Values \cup {NULL}], NEW k \in Keys, NEW ok,
         NEW ks, NEW doc \in DocumentsOver(ks)
  PROVE  Write(store, doc, k, ok) \in [Keys -> Values \cup {NULL}]
<1>1. k \in DOMAIN doc => doc[k] \in Values
  BY DEF DocumentsOver
<1> QED
  BY <1>1 DEF Write

\* The part of the type invariant that is not about CMqtt or the queue.
NodeStateOK ==
  /\ NODE_STATE \in Life!NodeStates
  /\ mqtt_status \in {"BLANK", "GOT_WIFI_CRED", "GOT_TB_CRED", "COMPLETED"}
  /\ nvs \in [Keys -> Values \cup {NULL}] /\ nvsReady \in BOOLEAN
  /\ reset \in {"none", "clean", "torn"}
  /\ creds \in BOOLEAN /\ prov \in BOOLEAN
  /\ wifi \in {"off", "starting", "idle", "connecting", "up"}
  /\ subNext \in 0..(Len(AppTopics) + 1)
  /\ ble \in {"off", "starting", "advertising", "failed"}
  /\ seen \subseteq Life!Facts
  /\ boots \in 0..MaxBoots /\ provs \in 0..MaxProvs /\ flaps \in 0..MaxFlaps

QueueOK == loop \in Seq(Events) /\ Len(loop) <= QueueSize

LEMMA TypeParts == TypeOK <=> MqttStateOK /\ QueueOK /\ NodeStateOK
  BY DEF TypeOK, QueueOK, NodeStateOK

LEMMA TopicsCounted == Len(AppTopics) \in Nat
  BY NodeAssumption, LenProperties

\* What is left alone keeps its type.
LEMMA MqttUnchanged ==
  ASSUME MqttStateOK, UNCHANGED <<MQTT_STATUS, clientVars, tableVars, linkVars>>
  PROVE  MqttStateOK'
  BY DEF MqttStateOK, clientVars, tableVars, linkVars

LEMMA NodeUnchanged ==
  ASSUME NodeStateOK, UNCHANGED nodeVars
  PROVE  NodeStateOK'
  BY DEF NodeStateOK, nodeVars

\* A power cycle brings every variable back to a value of its type.
LEMMA BootTyped ==
  ASSUME TypeOK, NEW hasCreds, Boot(hasCreds),
         UNCHANGED <<nvs, reset>>, creds' \in BOOLEAN
  PROVE  TypeOK'
<1>1. MqttStateOK'
  <2>1. (mqtt_config \in Configs)' /\ (running \in Configs)'
    BY DefaultTyped DEF Boot, MqttBoot
  <2>2. (subscriptions \in Seq(Rows))' /\ (outbox \subseteq Packets)' /\ (acked \subseteq Topics)'
    BY EmptySeq DEF Boot, MqttBoot
  <2>3. (scan \in [msg_id : MsgIds \cup {NULL}, row : Nat \ {0}])' /\ (subCall \in Calls)'
    BY DEF Boot, NoScan, Calls
  <2>4. (connects \in 0..MaxConnects)'
    BY MqttAssumption DEF Boot
  <2> QED
    BY <2>1, <2>2, <2>3, <2>4 DEF Boot, MqttBoot, MqttStateOK, MqttStatuses
<1>2. QueueOK'
  BY EmptySeq, QueueSizeAssumption DEF Boot, QueueOK
<1>3. NodeStateOK'
  BY TopicsCounted, NodeAssumption DEF Boot, TypeOK, NodeStateOK, Life!NodeStates, Life!Announced, Life!Facts
<1> QED
  BY <1>1, <1>2, <1>3 DEF TypeOK, QueueOK, NodeStateOK

\* _start_client keeps the types of the client.
LEMMA StoredClientTyped ==
  ASSUME MqttStateOK, NodeStateOK, StartStoredClient
  PROVE  /\ MQTT_STATUS' \in MqttStatuses /\ mqtt_client' \in BOOLEAN
         /\ mqtt_config' \in Configs /\ running' \in Configs
<1> DEFINE c == SetBroker(SetQos(mqtt_config, 1), StoredBroker)
<1>1. nvs["tb_token"] \in Values \cup {NULL} /\ StoredBroker \in Hosts
  BY DEF NodeStateOK, StoredBroker, Hosts, Readable, Keys, TbKeys
<1>2. c \in Configs
  <2>1. SetQos(mqtt_config, 1) \in Configs
    <3>1. mqtt_config \in Configs /\ 1 \in Int
      BY DEF MqttStateOK
    <3> QED
      BY <3>1, SettersTyped
  <2> QED
    BY <1>1, <2>1, SettersTyped
<1>3. CASE \E user \in SetterOutcomes("username", nvs["tb_token"]) :
             StartClient(SetField(c, "username", user))
  <2>1. PICK user \in SetterOutcomes("username", nvs["tb_token"]) :
          StartClient(SetField(c, "username", user))
    BY <1>3
  <2>2. user \in Values \cup {NULL}
    BY <1>1 DEF SetterOutcomes
  <2>3. SetField(c, "username", user) \in Configs
    BY <1>2, <2>2, SettersTyped, NodeAssumption
  <2> QED
    BY <2>1, <2>3, StartClientTyped
<1>5. CASE ~\E user \in SetterOutcomes("username", nvs["tb_token"]) :
             StartClient(SetField(c, "username", user))
  <2>1. SetQos(mqtt_config, 1) \in Configs
    <3>1. mqtt_config \in Configs /\ 1 \in Int
      BY DEF MqttStateOK
    <3> QED
      BY <3>1, SettersTyped
  <2> QED
    BY <1>2, <1>5, <2>1 DEF StartStoredClient, MqttStateOK
<1> QED
  BY <1>3, <1>5

\* So do the handlers of sys_evt.
LEMMA HandlersTyped ==
  ASSUME TypeOK, SysEvt
  PROVE  TypeOK'
<1> USE DEF NodeStateOK, flashVars, wifiVars, boundVars
<1>t. MqttStateOK /\ QueueOK /\ NodeStateOK
  BY TypeParts
<1>q. SUFFICES MqttStateOK' /\ QueueOK' /\ NodeStateOK'
  BY DEF TypeOK, QueueOK
<1>h. loop # <<>> => /\ Tail(loop) \in Seq(Events) /\ Len(Tail(loop)) <= QueueSize
                     /\ Head(loop) \in Events
  BY <1>t, TailTyped DEF QueueOK
<1>p. \A ev \in PlainEvents, q \in Seq(Events) :
        Len(q) <= QueueSize => /\ Post(q, Event(ev, NoArg)) \in Seq(Events)
                               /\ Len(Post(q, Event(ev, NoArg))) <= QueueSize
  BY EventsTyped, PostTyped
<1>1. CASE OnWifiEvent
  <2>1. MqttStateOK'
    BY <1>1, <1>t, MqttUnchanged DEF OnWifiEvent
  <2> QED
    BY <1>1, <1>t, <1>h, <2>1 DEF OnWifiEvent, Takes, QueueOK
<1>2. CASE OnGotIp \/ OnProvConnected
  <2>1. MqttStateOK' /\ NodeStateOK'
    BY <1>2, <1>t, MqttUnchanged, NodeUnchanged DEF OnGotIp, OnProvConnected, Relay
  <2>2. QueueOK'
    BY <1>2, <1>h, <1>p DEF OnGotIp, OnProvConnected, Relay, Takes, QueueOK, PlainEvents
  <2> QED
    BY <2>1, <2>2
<1>3. CASE OnCustomData
  <2>1. MqttStateOK' /\ QueueOK'
    BY <1>3, <1>t, <1>h, MqttUnchanged DEF OnCustomData, Takes, QueueOK
  <2> DEFINE doc == Head(loop).arg
  <2>2. doc \in DocumentsOver(TbKeys)
    BY <1>3, HeadTyped DEF OnCustomData, Takes
  <2>3. nvs' \in [Keys -> Values \cup {NULL}]
    <3>1. PICK okToken \in WriteOutcomes, okUrl \in WriteOutcomes :
            nvs' = Write(Write(nvs, doc, "tb_token", okToken), doc, "tb_broker_url",
                         okToken /\ okUrl /\ "tb_token" \in DOMAIN doc)
      BY <1>3 DEF OnCustomData
    <3>2. "tb_token" \in Keys /\ "tb_broker_url" \in Keys
      BY DEF Keys, TbKeys
    <3>3. Write(nvs, doc, "tb_token", okToken) \in [Keys -> Values \cup {NULL}]
      BY <1>t, <2>2, <3>2, WriteTyped
    <3> QED
      BY <2>2, <3>1, <3>2, <3>3, WriteTyped
  <2> QED
    BY <1>3, <1>t, <2>1, <2>3 DEF OnCustomData
<1>4. CASE OnValidWifiCred \/ OnValidTbToken
  <2>1. PICK ev \in {"CTX_VALID_WIFI_CRED", "CTX_VALID_TB_TOKEN"},
             case \in {WifiCase(mqtt_status), TokenCase(mqtt_status)},
             state \in {"VALID_WIFI_CRED", "VALID_TB_TOKEN"} :
               OnContextCred(ev, case, state)
    BY <1>4 DEF OnValidWifiCred, OnValidTbToken
  <2>2. case.status \in {"BLANK", "GOT_WIFI_CRED", "GOT_TB_CRED", "COMPLETED"}
    BY DEF WifiCase, TokenCase
  <2>3. NodeStateOK' /\ QueueOK'
    BY <2>1, <2>2, <1>t, <1>h DEF OnContextCred, Takes, QueueOK, Life!NodeStates, Life!Announced
  <2>4. /\ MQTT_STATUS' \in MqttStatuses /\ mqtt_client' \in BOOLEAN
        /\ mqtt_config' \in Configs /\ running' \in Configs
    <3>1. CASE StartStoredClient
      BY <1>t, <3>1, StoredClientTyped
    <3>2. CASE UNCHANGED <<MQTT_STATUS, clientVars>>
      BY <1>t, <3>2 DEF MqttStateOK, clientVars
    <3> QED
      BY <2>1, <3>1, <3>2 DEF OnContextCred
  <2>5. MqttStateOK'
    BY <2>1, <2>4, <1>t DEF OnContextCred, MqttStateOK, tableVars, linkVars
  <2> QED
    BY <2>3, <2>5
<1>5. CASE OnRegular
  <2>1. MqttStateOK'
    BY <1>5, <1>t, MqttUnchanged DEF OnRegular
  <2> QED
    BY <1>5, <1>t, <1>h, <2>1 DEF OnRegular, Takes, QueueOK, Life!NodeStates, Life!Announced
<1>6. CASE OnMqttConnected
  <2>1. MqttStateOK'
    BY <1>6, <1>t, MqttUnchanged DEF OnMqttConnected
  <2> QED
    BY <1>6, <1>t, <1>h, <2>1, TopicsCounted DEF OnMqttConnected, Takes, QueueOK
<1>7. CASE NodeSubscribes
  <2>1. AppTopics[subNext] \in Topics
    BY <1>7, NodeAssumption, ElementOfSeq DEF NodeSubscribes
  <2>2. MqttStateOK' /\ UNCHANGED loop
    BY <1>7, <1>t, <2>1, CheckTyped DEF NodeSubscribes, SubscribeCheck
  <2> QED
    BY <1>7, <1>t, <2>2, TopicsCounted DEF NodeSubscribes, QueueOK
<1>8. CASE SubscribeGoesOn
  <2>1. MqttStateOK'
    BY <1>8, <1>t, SubscribeTyped DEF SubscribeGoesOn
  <2>2. UNCHANGED loop
    BY <1>8 DEF SubscribeGoesOn, SubscribeSend, SubscribeRefused, SubscribeRecord
  <2>3. NodeStateOK'
    BY <1>8, <1>t, NodeUnchanged DEF SubscribeGoesOn
  <2> QED
    BY <1>t, <2>1, <2>2, <2>3 DEF QueueOK
<1>9. CASE AnnounceToken
  <2>1. MqttStateOK'
    BY <1>9, <1>t, MqttUnchanged DEF AnnounceToken
  <2>2. QueueOK'
    BY <1>9, <1>t, <1>p DEF AnnounceToken, QueueOK, PlainEvents
  <2> QED
    BY <1>9, <1>t, <2>1, <2>2, TopicsCounted DEF AnnounceToken
<1>10. CASE OnMqttDisconnected
  <2>1. MqttStateOK' /\ NodeStateOK'
    BY <1>10, <1>t, MqttUnchanged, NodeUnchanged DEF OnMqttDisconnected
  <2> QED
    BY <1>10, <1>h, <2>1 DEF OnMqttDisconnected, Takes, QueueOK
<1>11. CASE OnMqttSubscribed
  <2>1. outbox' \subseteq Packets
    BY <1>11, <1>t, PublishTyped, NodeAssumption DEF OnMqttSubscribed, MqttStateOK
  <2>2. MqttStateOK'
    BY <1>11, <1>t, <2>1 DEF OnMqttSubscribed, MqttStateOK, clientVars, tableVars
  <2>3. NodeStateOK'
    BY <1>11, <1>t, NodeUnchanged DEF OnMqttSubscribed
  <2> QED
    BY <1>11, <1>h, <2>2, <2>3 DEF OnMqttSubscribed, Takes, QueueOK
<1>12. CASE OnMqttData
  <2>1. MqttStateOK'
    BY <1>12, <1>t, MqttUnchanged DEF OnMqttData
  <2>2. QueueOK'
    BY <1>12, <1>h, <1>p DEF OnMqttData, Takes, QueueOK, PlainEvents
  <2> DEFINE doc == Head(loop).arg
  <2>3. doc \in DocumentsOver(CtxKeys)
    BY <1>12, HeadTyped DEF OnMqttData, Takes
  <2>4. nvs' \in [Keys -> Values \cup {NULL}]
    <3>1. PICK okNfc \in WriteOutcomes, okBle \in WriteOutcomes :
            nvs' = Write(Write(nvs, doc, "nfc_content", okNfc), doc, "ble_content", okBle)
      BY <1>12 DEF OnMqttData
    <3>2. "nfc_content" \in Keys /\ "ble_content" \in Keys
      BY DEF Keys, CtxKeys
    <3>3. Write(nvs, doc, "nfc_content", okNfc) \in [Keys -> Values \cup {NULL}]
      BY <1>t, <2>3, <3>2, WriteTyped
    <3> QED
      BY <2>3, <3>1, <3>2, <3>3, WriteTyped
  <2> QED
    BY <1>12, <1>t, <2>1, <2>2, <2>4 DEF OnMqttData
<1> QED
  BY <1>1, <1>2, <1>3, <1>4, <1>5, <1>6, <1>7, <1>8, <1>9, <1>10, <1>11, <1>12 DEF SysEvt

\* So do the other tasks, the network and the button.
LEMMA EnvironmentTyped ==
  ASSUME TypeOK, Environment
  PROVE  TypeOK'
<1> USE DEF NodeStateOK, flashVars, wifiVars, boundVars
<1>t. MqttStateOK /\ QueueOK /\ NodeStateOK
  BY TypeParts
<1>q. SUFFICES MqttStateOK' /\ QueueOK' /\ NodeStateOK'
  BY DEF TypeOK, QueueOK
<1>m. UNCHANGED mqttVars => MqttStateOK' /\ QueueOK'
  BY <1>t, MqttUnchanged DEF mqttVars, QueueOK
<1>p. \A ev \in PlainEvents :
        PostBlocking(ev) => loop' \in Seq(Events) /\ Len(loop') <= QueueSize
  BY <1>t, EventsTyped, AppendProperties, QueueSizeAssumption
  DEF PostBlocking, HasRoom, QueueOK
<1>1. CASE ProvCreds \/ ProvEnd
  BY <1>1, <1>t, <1>m DEF ProvCreds, ProvEnd
<1>2. CASE WifiStarted \/ WifiUp \/ WifiDown
  <2>1. MqttStateOK'
    BY <1>2, <1>t, MqttUnchanged DEF WifiStarted, WifiUp, WifiDown
  <2>2. QueueOK'
    BY <1>2, <1>p DEF WifiStarted, WifiUp, WifiDown, QueueOK, PlainEvents
  <2>3. CASE WifiStarted
    BY <2>1, <2>2, <2>3, <1>t DEF WifiStarted
  <2>4. CASE WifiUp
    BY <2>1, <2>2, <2>4, <1>t DEF WifiUp, Life!Facts
  <2>5. CASE WifiDown
    <3>1. flaps' \in 0..MaxFlaps
      BY <2>5, <1>t, NodeAssumption DEF WifiDown
    <3> QED
      BY <2>1, <2>2, <2>5, <3>1, <1>t DEF WifiDown
  <2> QED
    BY <1>2, <2>3, <2>4, <2>5
<1>3. ASSUME NEW doc \in DocumentsOver(TbKeys), CustomProvData(doc)
      PROVE  MqttStateOK' /\ QueueOK' /\ NodeStateOK'
  <2>1. MqttStateOK'
    BY <1>3, <1>t, MqttUnchanged DEF CustomProvData
  <2>2. QueueOK'
    BY <1>3, <1>t, EventsTyped, PostTyped DEF CustomProvData, QueueOK
  <2>3. NodeStateOK'
    BY <1>3, <1>t, NodeAssumption DEF CustomProvData
  <2> QED
    BY <2>1, <2>2, <2>3
<1>4. CASE NodeConnects
  <2>1. MqttTask
    BY <1>4 DEF NodeConnects, MqttTask
  <2>2. MqttStateOK' /\ QueueOK'
    BY <1>t, <2>1, EventsTyped, MqttTaskTyped, MqttTaskQueue DEF QueueOK
  <2> QED
    BY <1>4, <1>t, <2>2 DEF NodeConnects, Life!Facts
<1>5. CASE NodeLink
  <2>1. MqttTask
    BY <1>5 DEF NodeLink, MqttTask
  <2>2. MqttStateOK' /\ QueueOK'
    BY <1>t, <2>1, EventsTyped, MqttTaskTyped, MqttTaskQueue DEF QueueOK
  <2> QED
    BY <1>5, <1>t, <2>2, NodeUnchanged DEF NodeLink
<1>6. ASSUME NEW m \in outbox, NEW doc \in DocumentsOver(CtxKeys), ServerAnswers(m, doc)
      PROVE  MqttStateOK' /\ QueueOK' /\ NodeStateOK'
  <2>1. MqttStateOK'
    BY <1>6, <1>t DEF ServerAnswers, MqttStateOK, clientVars, tableVars
  <2>3. NodeStateOK'
    BY <1>6, <1>t DEF ServerAnswers, Life!Facts
  <2>2. QueueOK'
    BY <1>6, <1>t, EventsTyped, PostTyped DEF ServerAnswers, QueueOK
  <2> QED
    BY <2>1, <2>2, <2>3
<1>7. CASE BleRegisters
  <2>1. CASE Readable("ble_content")
    BY <1>7, <2>1, <1>t, <1>m DEF BleRegisters
  <2>2. CASE ~Readable("ble_content")
    BY <1>7, <2>2, <1>t, BootTyped, TypeParts DEF BleRegisters, TypeOK, QueueOK
  <2> QED
    BY <2>1, <2>2
<1>8. CASE FactoryErase
  <2>1. nvs' \in [Keys -> Values \cup {NULL}]
    <3>1. \E ks \in SUBSET Keys : nvs' = Kept(ks)
      BY <1>8 DEF FactoryErase
    <3> QED
      BY <3>1, <1>t DEF Kept
  <2> QED
    BY <1>8, <2>1, <1>t, <1>m DEF FactoryErase
<1>9. CASE Restart
  BY <1>9, <1>t, BootTyped DEF Restart, TypeOK, QueueOK
<1> QED
  BY <1>1, <1>2, <1>3, <1>4, <1>5, <1>6, <1>7, <1>8, <1>9 DEF Environment

LEMMA InitTyped == Init => TypeOK
<1> SUFFICES ASSUME Init
             PROVE  TypeOK
  OBVIOUS
<1>1. MqttStateOK
  BY MqttInitTyped DEF Init, MqttTypeOK
<1>2. QueueOK
  BY EmptySeq, QueueSizeAssumption DEF Init, MqttInit, QueueOK
<1>3. NodeStateOK
  <2>1. nvs \in [Keys -> Values \cup {NULL}]
    BY DEF Init
  <2>2. boots \in 0..MaxBoots /\ provs \in 0..MaxProvs /\ flaps \in 0..MaxFlaps
    BY NodeAssumption DEF Init
  <2>3. subNext \in 0..(Len(AppTopics) + 1)
    BY TopicsCounted DEF Init
  <2> QED
    BY <2>1, <2>2, <2>3 DEF Init, NodeStateOK, Life!NodeStates, Life!Announced, Life!Facts
<1> QED
  BY <1>1, <1>2, <1>3, TypeParts

LEMMA StepTyped == TypeOK /\ [Next]_vars => TypeOK'
<1> SUFFICES ASSUME TypeOK, [Next]_vars
             PROVE  TypeOK'
  OBVIOUS
<1>1. CASE SysEvt
  BY <1>1, HandlersTyped
<1>2. CASE Environment
  BY <1>2, EnvironmentTyped
<1>3. CASE UNCHANGED vars
  <2>1. MqttStateOK' /\ NodeStateOK' /\ UNCHANGED loop
    BY <1>3, TypeParts, MqttUnchanged, NodeUnchanged DEF vars, mqttVars
  <2> QED
    BY <2>1 DEF TypeOK, NodeStateOK
<1> QED
  BY <1>1, <1>2, <1>3 DEF Next

\* Every variable of the node keeps its type, every event its payload's.
THEOREM TypeCorrect == Spec => []TypeOK
<1>1. Init => TypeOK
  BY InitTyped
<1>2. TypeOK /\ [Next]_vars => TypeOK'
  BY StepTyped
<1> QED
  BY <1>1, <1>2, PTL DEF Spec

-----------------------------------------------------------------------------
(* Counting the events of some kinds in the queue.                         *)

LEMMA PendingFinite ==
  ASSUME NEW q \in Seq(Events), NEW evs
  PROVE  IsFiniteSet(Pending(q, evs)) /\ Cardinality(Pending(q, evs)) \in Nat
<1>1. IsFiniteSet(1..Len(q)) /\ Pending(q, evs) \in SUBSET (1..Len(q))
  BY FS_Interval DEF Pending
<1>2. IsFiniteSet(Pending(q, evs))
  BY <1>1, FS_Subset
<1> QED
  BY <1>2, FS_CardinalityType

\* Posting adds one when there is room and the event is of these kinds.
LEMMA PendingPost ==
  ASSUME NEW q \in Seq(Events), NEW e \in Events, NEW evs
  PROVE  /\ e.ev \notin evs => Pending(Post(q, e), evs) = Pending(q, evs)
         /\ e.ev \in evs =>
              Cardinality(Pending(Post(q, e), evs)) =
                Cardinality(Pending(q, evs)) + IF HasRoom(q) THEN 1 ELSE 0
<1>1. CASE HasRoom(q)
  <2> DEFINE r == Append(q, e)
             n == Len(q) + 1
  <2>1. /\ Len(r) = n /\ r[n] = e /\ Len(q) \in Nat /\ \A i \in 1..Len(q) : r[i] = q[i]
        /\ Post(q, e) = r
    BY <1>1 DEF Post
  <2> HIDE DEF r
  <2>2. \A i : i \in 1..n <=> i \in 1..Len(q) \/ i = n
    BY <2>1
  <2>3. Pending(r, evs) = IF e.ev \in evs THEN Pending(q, evs) \cup {n} ELSE Pending(q, evs)
    BY <2>1, <2>2 DEF Pending
  <2>4. Cardinality(Pending(q, evs) \cup {n}) = Cardinality(Pending(q, evs)) + 1
    <3>1. n \notin Pending(q, evs)
      BY <2>1 DEF Pending
    <3> QED
      BY <3>1, PendingFinite, FS_AddElement
  <2>5. e.ev \notin evs => Pending(Post(q, e), evs) = Pending(q, evs)
    BY <2>1, <2>3
  <2>6. e.ev \in evs =>
          Cardinality(Pending(Post(q, e), evs)) = Cardinality(Pending(q, evs)) + 1
    BY <2>1, <2>3, <2>4
  <2> QED
    BY <1>1, <2>5, <2>6
<1>2. CASE ~HasRoom(q)
  BY <1>2, PendingFinite DEF Post
<1> QED
  BY <1>1, <1>2

\* Taking an event takes one when it is of these kinds.
LEMMA PendingTail ==
  ASSUME NEW q \in Seq(Events), q # <<>>, NEW evs
  PROVE  Cardinality(Pending(Tail(q), evs)) =
           IF Head(q).ev \in evs THEN Cardinality(Pending(q, evs)) - 1
                                 ELSE Cardinality(Pending(q, evs))
<1> DEFINE t == Tail(q)
           later == Pending(q, evs) \ {1}
           shift == [i \in Pending(t, evs) |-> i + 1]
<1>1. /\ Head(q) = q[1] /\ Len(q) \in Nat /\ Len(q) > 0 /\ Len(t) = Len(q) - 1
      /\ \A i \in 1..Len(t) : t[i] = q[i + 1]
      /\ t \in Seq(Events)
  OBVIOUS
<1> HIDE DEF t
<1>2. shift \in Bijection(Pending(t, evs), later)
  <2>1. \A i \in Pending(t, evs) : i + 1 \in later
    BY <1>1 DEF Pending
  <2>2. \A j \in later : j - 1 \in Pending(t, evs) /\ (j - 1) + 1 = j
    BY <1>1 DEF Pending
  <2>3. \A i, j \in Pending(t, evs) : i + 1 = j + 1 => i = j
    BY <1>1 DEF Pending
  <2>4. shift \in [Pending(t, evs) -> later]
    BY <2>1
  <2>5. \A i, j \in Pending(t, evs) : shift[i] = shift[j] => i = j
    BY <2>3
  <2>6. \A j \in later : \E i \in Pending(t, evs) : shift[i] = j
    BY <2>2
  <2> HIDE DEF shift, later
  <2>7. shift \in Injection(Pending(t, evs), later)
    BY <2>4, <2>5 DEF Injection, IsInjective
  <2>8. shift \in Surjection(Pending(t, evs), later)
    BY <2>4, <2>6 DEF Surjection
  <2> QED
    BY <2>7, <2>8 DEF Bijection
<1>3. Cardinality(later) = Cardinality(Pending(t, evs))
  <2>1. ExistsBijection(Pending(t, evs), later)
    BY <1>2 DEF ExistsBijection
  <2> QED
    BY <1>1, <2>1, PendingFinite, FS_Bijection
<1>4. Cardinality(later) =
        IF 1 \in Pending(q, evs) THEN Cardinality(Pending(q, evs)) - 1
                                 ELSE Cardinality(Pending(q, evs))
  BY PendingFinite, FS_RemoveElement
<1>5. 1 \in Pending(q, evs) <=> Head(q).ev \in evs
  BY <1>1 DEF Pending
<1> QED
  BY <1>3, <1>4, <1>5 DEF t

-----------------------------------------------------------------------------
(* Nobody vouches for what has not happened.                               *)

\* A post keeps the queue backed when its own event is.
LEMMA BackedPost ==
  ASSUME NEW q \in Seq(Events), NEW e \in Events, NEW facts,
         Backed(q, facts), Vouched(e.ev) \subseteq facts
  PROVE  Backed(Post(q, e), facts)
<1>1. CASE HasRoom(q)
  <2>1. Post(q, e) = Append(q, e)
    BY <1>1 DEF Post
  <2>2. \A i \in 1..Len(Append(q, e)) :
          \/ i \in 1..Len(q) /\ Append(q, e)[i] = q[i]
          \/ Append(q, e)[i] = e
    BY AppendProperties, LenProperties
  <2> QED
    BY <2>1, <2>2 DEF Backed
<1>2. CASE ~HasRoom(q)
  BY <1>2 DEF Post
<1> QED
  BY <1>1, <1>2

\* The event taken was backed, those that stay still are.
LEMMA BackedTail ==
  ASSUME NEW q \in Seq(Events), q # <<>>, NEW facts, Backed(q, facts)
  PROVE  Vouched(Head(q).ev) \subseteq facts /\ Backed(Tail(q), facts)
<1>1. Head(q) = q[1] /\ 1 \in 1..Len(q)
  BY EmptySeq, LenProperties
<1>2. \A i \in 1..Len(Tail(q)) : Tail(q)[i] = q[i + 1] /\ i + 1 \in 1..Len(q)
  BY HeadTailProperties, LenProperties
<1> QED
  BY <1>1, <1>2 DEF Backed

LEMMA BackedMore ==
  ASSUME NEW q, NEW facts, NEW more, Backed(q, facts), facts \subseteq more
  PROVE  Backed(q, more)
  BY DEF Backed

LEMMA VouchedValues ==
  /\ \A ev \in {"GOT_IP", "PROV_CONNECTED", "CTX_VALID_WIFI_CRED"} : Vouched(ev) = {"ip"}
  /\ \A ev \in {"MQTT_CONNECTED", "CTX_VALID_TB_TOKEN"} : Vouched(ev) = {"ip", "session"}
  /\ \A ev \in {"MQTT_DATA", "CTX_REGULAR"} : Vouched(ev) = Life!Facts
  /\ \A ev \in {"STA_START", "STA_DISCONNECTED", "MQTT_DISCONNECTED", "MQTT_SUBSCRIBED",
                "PROV_CUSTOM_DATA"} : Vouched(ev) = {}
  BY DEF Vouched

\* The mqtt task vouches for a session only when it reports one.
LEMMA LinkBacked ==
  ASSUME TypeOK, QueueIsBacked,
         \/ ConnectFails \/ TransportError \/ MqttDisconnected
         \/ (\E m \in outbox : SubackArrives(m)) \/ ScanRow \/ ScanEnds
  PROVE  Backed(loop', seen) /\ (session' = "up" => session = "up")
<1> USE DEF QueueIsBacked
<1>t. loop \in Seq(Events) /\ LinkEvents \subseteq Events /\ MqttStateOK
  BY EventsTyped DEF TypeOK
<1>1. CASE MqttDisconnected
  <2>1. Event("MQTT_DISCONNECTED", NoArg) \in Events
    BY EventsTyped DEF PlainEvents
  <2>2. Event("MQTT_DISCONNECTED", NoArg).ev = "MQTT_DISCONNECTED"
    BY DEF Event
  <2> QED
    BY <1>1, <1>t, <2>1, <2>2, BackedPost, VouchedValues DEF MqttDisconnected
<1>2. CASE ScanRow
  <2> DEFINE e == Event("MQTT_SUBSCRIBED", [topic |-> subscriptions[scan.row].topic])
  <2>1. subscriptions[scan.row] \in Rows
    BY <1>2, <1>t, ElementOfSeq, LenProperties DEF ScanRow, MqttStateOK
  <2>2. e \in Events /\ e.ev = "MQTT_SUBSCRIBED"
    BY <2>1 DEF Event, Events, Rows
  <2>3. Backed(Post(loop, e), seen)
    BY <1>t, <2>2, BackedPost, VouchedValues
  <2> QED
    BY <1>2, <2>3 DEF ScanRow
<1>3. CASE \/ ConnectFails \/ TransportError \/ ScanEnds
           \/ \E m \in outbox : SubackArrives(m)
  BY <1>3 DEF ConnectFails, TransportError, ScanEnds, SubackArrives
<1> QED
  BY <1>1, <1>2, <1>3

\* The part of the invariant that is not about the flash.
EventsBacked == LinkIsBacked /\ HandlerIsBacked /\ QueueIsBacked /\ StateIsBacked

\* It is kept by the handlers ...
LEMMA HandlersBacked ==
  ASSUME TypeOK, EventsBacked, SysEvt
  PROVE  EventsBacked'
<1> USE DEF EventsBacked, LinkIsBacked, HandlerIsBacked, QueueIsBacked, StateIsBacked,
            flashVars, wifiVars, boundVars
<1>t. loop \in Seq(Events)
  BY DEF TypeOK
<1>h. loop # <<>> => /\ Tail(loop) \in Seq(Events) /\ Backed(Tail(loop), seen)
                     /\ Vouched(Head(loop).ev) \subseteq seen
  BY <1>t, HeadTailProperties, BackedTail
<1>p. \A ev \in PlainEvents, q \in Seq(Events) :
        Backed(q, seen) /\ Vouched(ev) \subseteq seen => Backed(Post(q, Event(ev, NoArg)), seen)
  <2>1. \A ev \in PlainEvents : Event(ev, NoArg).ev = ev /\ Event(ev, NoArg) \in Events
    BY EventsTyped DEF Event
  <2> QED
    BY <2>1, BackedPost
<1>1. CASE OnWifiEvent
  BY <1>1, <1>h DEF OnWifiEvent, Takes, linkVars
<1>2. CASE OnGotIp \/ OnProvConnected
  <2>1. PICK from \in {"GOT_IP", "PROV_CONNECTED"},
             to \in {"PROV_CONNECTED", "CTX_VALID_WIFI_CRED"} : Relay(from, to)
    BY <1>2 DEF OnGotIp, OnProvConnected
  <2>2. Vouched(to) \subseteq seen /\ to \in PlainEvents
    BY <2>1, <1>h, VouchedValues DEF Relay, Takes, PlainEvents
  <2>3. Backed(loop', seen)
    BY <2>1, <2>2, <1>h, <1>p DEF Relay, Takes
  <2> QED
    BY <2>1, <2>3 DEF Relay, nodeVars, linkVars
<1>3. CASE OnCustomData
  BY <1>3, <1>h DEF OnCustomData, Takes, linkVars
<1>4. CASE OnValidWifiCred \/ OnValidTbToken
  <2>1. Life!Needs(NODE_STATE') \subseteq seen /\ loop # <<>> /\ loop' = Tail(loop)
    BY <1>4, <1>h, VouchedValues
    DEF OnValidWifiCred, OnValidTbToken, OnContextCred, Takes, Life!Needs
  <2> QED
    BY <1>4, <1>h, <2>1 DEF OnValidWifiCred, OnValidTbToken, OnContextCred, linkVars
<1>5. CASE OnRegular
  <2>1. Life!Needs(NODE_STATE') \subseteq seen
    BY <1>5, <1>h, VouchedValues DEF OnRegular, Takes, Life!Needs, Life!Facts
  <2> QED
    BY <1>5, <1>h, <2>1 DEF OnRegular, Takes, linkVars
<1>6. CASE OnMqttConnected
  BY <1>6, <1>h, VouchedValues DEF OnMqttConnected, Takes, linkVars
<1>7. CASE NodeSubscribes
  BY <1>7 DEF NodeSubscribes, SubscribeCheck, linkVars
<1>8. CASE SubscribeGoesOn
  BY <1>8 DEF SubscribeGoesOn, SubscribeSend, SubscribeRefused, SubscribeRecord,
              nodeVars, linkVars
<1>9. CASE AnnounceToken
  <2>1. {"ip", "session"} \subseteq seen
    BY <1>9, TopicsCounted DEF AnnounceToken
  <2>2. Backed(loop', seen)
    BY <1>9, <1>t, <1>p, <2>1, VouchedValues DEF AnnounceToken, PlainEvents
  <2> QED
    BY <1>9, <2>2 DEF AnnounceToken, linkVars
<1>10. CASE OnMqttDisconnected \/ OnMqttSubscribed
  BY <1>10, <1>h DEF OnMqttDisconnected, OnMqttSubscribed, Takes, nodeVars, linkVars
<1>11. CASE OnMqttData
  <2>1. Life!Facts \subseteq seen
    BY <1>11, <1>h, VouchedValues DEF OnMqttData, Takes
  <2>2. Backed(loop', seen)
    BY <1>11, <1>h, <1>p, <2>1, VouchedValues DEF OnMqttData, Takes, PlainEvents
  <2> QED
    BY <1>11, <2>2 DEF OnMqttData, linkVars
<1> QED
  BY <1>1, <1>2, <1>3, <1>4, <1>5, <1>6, <1>7, <1>8, <1>9, <1>10, <1>11 DEF SysEvt

\* ... and by everything else.
LEMMA EnvironmentBacked ==
  ASSUME TypeOK, EventsBacked, Environment
  PROVE  EventsBacked'
<1> USE DEF EventsBacked, LinkIsBacked, HandlerIsBacked, QueueIsBacked, StateIsBacked,
            flashVars, wifiVars, boundVars
<1>t. loop \in Seq(Events)
  BY DEF TypeOK
<1>b. ASSUME NEW hasCreds, Boot(hasCreds)
      PROVE  EventsBacked'
  BY <1>b DEF Boot, Backed, Life!Needs
<1>p. ASSUME NEW ev \in PlainEvents, PostBlocking(ev), NEW facts,
             seen \subseteq facts, Vouched(ev) \subseteq facts
      PROVE  Backed(loop', facts)
  <2>1. Event(ev, NoArg) \in Events /\ Event(ev, NoArg).ev = ev
    BY EventsTyped DEF Event
  <2>2. loop' = Post(loop, Event(ev, NoArg))
    BY <1>p DEF PostBlocking, Post
  <2> QED
    BY <1>t, <1>p, <2>1, <2>2, BackedMore, BackedPost
<1>1. CASE ProvCreds \/ ProvEnd \/ FactoryErase
  BY <1>1 DEF ProvCreds, ProvEnd, FactoryErase, mqttVars, linkVars
<1>2. CASE WifiStarted \/ WifiDown
  <2>1. Backed(loop', seen)
    BY <1>2, <1>p, VouchedValues DEF WifiStarted, WifiDown, PlainEvents
  <2> QED
    BY <1>2, <2>1 DEF WifiStarted, WifiDown, linkVars
<1>3. CASE WifiUp
  <2>1. Backed(loop', seen')
    BY <1>3, <1>p, VouchedValues DEF WifiUp, PlainEvents
  <2> QED
    BY <1>3, <2>1 DEF WifiUp, linkVars
<1>4. ASSUME NEW doc \in DocumentsOver(TbKeys), CustomProvData(doc)
      PROVE  EventsBacked'
  <2>1. Backed(loop', seen)
    BY <1>4, <1>t, EventsTyped, BackedPost, VouchedValues DEF CustomProvData, Event
  <2> QED
    BY <1>4, <2>1 DEF CustomProvData, linkVars
<1>5. CASE NodeConnects
  <2>1. {"ip", "session"} \subseteq seen' /\ seen \subseteq seen'
    BY <1>5 DEF NodeConnects
  <2>2. Event("MQTT_CONNECTED", NoArg) \in Events
        /\ Event("MQTT_CONNECTED", NoArg).ev = "MQTT_CONNECTED"
    BY EventsTyped DEF PlainEvents, Event
  <2>3. Backed(loop', seen')
    BY <1>5, <1>t, <2>1, <2>2, BackedMore, BackedPost, VouchedValues
    DEF NodeConnects, MqttConnected
  <2> QED
    BY <1>5, <2>1, <2>3 DEF NodeConnects
<1>6. CASE NodeLink
  <2>1. Backed(loop', seen) /\ (session' = "up" => session = "up")
    BY <1>6, LinkBacked DEF NodeLink
  <2> QED
    BY <1>6, <2>1 DEF NodeLink, nodeVars
<1>7. ASSUME NEW m \in outbox, NEW doc \in DocumentsOver(CtxKeys), ServerAnswers(m, doc)
      PROVE  EventsBacked'
  <2>1. Event("MQTT_DATA", doc) \in Events /\ Event("MQTT_DATA", doc).ev = "MQTT_DATA"
    BY EventsTyped DEF Event
  <2>2. {"ip", "session"} \subseteq seen /\ seen' = seen \cup {"answer"}
    BY <1>7 DEF ServerAnswers
  <2>3. Life!Facts \subseteq seen' /\ seen \subseteq seen'
    BY <2>2 DEF Life!Facts
  <2>4. Backed(loop', seen')
    BY <1>7, <1>t, <2>1, <2>3, BackedMore, BackedPost, VouchedValues DEF ServerAnswers
  <2> QED
    BY <1>7, <2>3, <2>4 DEF ServerAnswers
<1>8. CASE BleRegisters \/ Restart
  BY <1>8, <1>b DEF BleRegisters, Restart, mqttVars, linkVars
<1> QED
  BY <1>1, <1>2, <1>3, <1>4, <1>5, <1>6, <1>7, <1>8 DEF Environment

LEMMA InitBacked == Init => NodeInv
  BY EmptySeq DEF Init, MqttInit, NodeInv, LinkIsBacked, HandlerIsBacked, QueueIsBacked,
         StateIsBacked, FlashIsBacked, WifiIsUsed, Queued, Backed, Life!Needs

\* What may be queued after an event was taken, or another posted.
LEMMA QueuedTail ==
  ASSUME NEW q \in Seq(Events), q # <<>>, NEW ev, Queued(Tail(q), ev)
  PROVE  Queued(q, ev)
<1>1. PICK i \in 1..Len(Tail(q)) : Tail(q)[i].ev = ev
  BY DEF Queued
<1>2. i + 1 \in 1..Len(q) /\ Tail(q)[i] = q[i + 1]
  BY HeadTailProperties, LenProperties
<1> QED
  BY <1>1, <1>2 DEF Queued

LEMMA QueuedPost ==
  ASSUME NEW q \in Seq(Events), NEW e \in Events, NEW ev, Queued(Post(q, e), ev)
  PROVE  Queued(q, ev) \/ e.ev = ev
<1>1. CASE HasRoom(q)
  <2>1. PICK i \in 1..Len(Append(q, e)) : Append(q, e)[i].ev = ev
    BY <1>1 DEF Post, Queued
  <2>2. (i \in 1..Len(q) /\ Append(q, e)[i] = q[i]) \/ Append(q, e)[i] = e
    BY AppendProperties, LenProperties
  <2> QED
    BY <2>1, <2>2 DEF Queued
<1>2. CASE ~HasRoom(q)
  BY <1>2 DEF Post
<1> QED
  BY <1>1, <1>2

LEMMA QueuedTaken ==
  ASSUME TypeOK, NEW ev, Takes(ev)
  PROVE  Queued(loop, ev) /\ loop # <<>> /\ loop \in Seq(Events) /\ Tail(loop) \in Seq(Events)
<1>1. loop \in Seq(Events) /\ loop # <<>> /\ Head(loop).ev = ev
  BY DEF TypeOK, Takes
<1>2. Head(loop) = loop[1] /\ 1 \in 1..Len(loop)
  BY <1>1, EmptySeq, LenProperties
<1> QED
  BY <1>1, <1>2, HeadTailProperties DEF Queued

\* The handlers queue nothing of the Wi-Fi driver's.
LEMMA HandlersUseWifi ==
  ASSUME TypeOK, SysEvt, WifiIsUsed'
  PROVE  WifiIsUsed
<1> USE DEF flashVars, wifiVars, boundVars, nodeVars
<1>1. CASE OnWifiEvent
  BY <1>1, QueuedTaken DEF OnWifiEvent, WifiIsUsed
<1>2. CASE NodeSubscribes \/ SubscribeGoesOn
  BY <1>2 DEF NodeSubscribes, SubscribeCheck, SubscribeGoesOn, SubscribeSend,
              SubscribeRefused, SubscribeRecord, linkVars, WifiIsUsed
<1>3. CASE AnnounceToken
  <2> DEFINE e == Event("CTX_VALID_TB_TOKEN", NoArg)
  <2>1. e \in Events /\ e.ev = "CTX_VALID_TB_TOKEN" /\ loop \in Seq(Events)
    BY EventsTyped DEF PlainEvents, Event, TypeOK
  <2>2. loop' = Post(loop, e) /\ UNCHANGED <<wifi, seen>>
    BY <1>3 DEF AnnounceToken
  <2> HIDE DEF e
  <2> QED
    BY <2>1, <2>2, QueuedPost DEF WifiIsUsed
<1>4. CASE \/ OnCustomData \/ OnValidWifiCred \/ OnValidTbToken \/ OnRegular
           \/ OnMqttConnected \/ OnMqttDisconnected \/ OnMqttSubscribed
  <2>1. loop' = Tail(loop) /\ UNCHANGED <<wifi, seen>> /\ \E ev : Takes(ev)
    BY <1>4 DEF OnCustomData, OnValidWifiCred, OnValidTbToken, OnContextCred, OnRegular,
                OnMqttConnected, OnMqttDisconnected, OnMqttSubscribed
  <2>2. loop # <<>> /\ loop \in Seq(Events)
    BY <2>1, QueuedTaken
  <2> QED
    BY <2>1, <2>2, QueuedTail DEF WifiIsUsed
<1>5. CASE OnGotIp \/ OnProvConnected \/ OnMqttData
  <2>1. PICK to \in {"PROV_CONNECTED", "CTX_VALID_WIFI_CRED", "CTX_REGULAR"} :
          loop' = Post(Tail(loop), Event(to, NoArg))
    BY <1>5 DEF OnGotIp, OnProvConnected, Relay, OnMqttData
  <2>2. UNCHANGED <<wifi, seen>> /\ \E ev : Takes(ev)
    BY <1>5 DEF OnGotIp, OnProvConnected, Relay, OnMqttData
  <2>3. loop # <<>> /\ loop \in Seq(Events) /\ Tail(loop) \in Seq(Events)
    BY <2>2, QueuedTaken
  <2> DEFINE e == Event(to, NoArg)
  <2>4. e \in Events /\ e.ev \notin {"STA_START", "STA_DISCONNECTED"}
    BY EventsTyped DEF PlainEvents, Event
  <2>5. loop' = Post(Tail(loop), e)
    BY <2>1
  <2> HIDE DEF e
  <2>6. \A ev \in {"STA_START", "STA_DISCONNECTED"} :
          Queued(loop', ev) => Queued(Tail(loop), ev)
    BY <2>3, <2>4, <2>5, QueuedPost
  <2>7. \A ev \in {"STA_START", "STA_DISCONNECTED"} : Queued(loop', ev) => Queued(loop, ev)
    BY <2>3, <2>6, QueuedTail
  <2> QED
    BY <2>2, <2>7 DEF WifiIsUsed
<1> QED
  BY <1>1, <1>2, <1>3, <1>4, <1>5 DEF SysEvt

\* Queues in which nothing of the Wi-Fi driver's is new.
NoWifiNews(q) ==
  \A ev \in {"STA_START", "STA_DISCONNECTED"} : Queued(q, ev) => Queued(loop, ev)

LEMMA NoWifiNewsPosted ==
  ASSUME TypeOK
  PROVE  /\ NoWifiNews(loop)
         /\ \A e \in Events : e.ev \notin {"STA_START", "STA_DISCONNECTED"}
              => NoWifiNews(Post(loop, e))
<1>1. loop \in Seq(Events)
  BY DEF TypeOK
<1> QED
  BY <1>1, QueuedPost DEF NoWifiNews

\* Outside a restart the Wi-Fi driver comes into use with credentials.
LEMMA EnvironmentUsesWifi ==
  ASSUME TypeOK, Environment, ~Boot(creds), WifiIsUsed'
  PROVE  WifiIsUsed \/ creds'
<1> USE DEF flashVars, wifiVars, boundVars, nodeVars
<1>1. CASE ProvCreds \/ ProvEnd \/ FactoryErase \/ BleRegisters \/ Restart
  BY <1>1 DEF ProvCreds, ProvEnd, FactoryErase, BleRegisters, Restart, mqttVars, WifiIsUsed
<1>2. CASE WifiStarted \/ WifiDown \/ WifiUp
  BY <1>2 DEF WifiStarted, WifiDown, WifiUp, WifiIsUsed
<1>3. SUFFICES ASSUME NoWifiNews(loop'), wifi' = wifi, "ip" \in seen' => "ip" \in seen
               PROVE  WifiIsUsed
  <2>1. ASSUME NEW doc \in DocumentsOver(TbKeys), CustomProvData(doc) PROVE NoWifiNews(loop')
    <3>1. Event("PROV_CUSTOM_DATA", doc) \in Events
          /\ Event("PROV_CUSTOM_DATA", doc).ev = "PROV_CUSTOM_DATA"
      BY EventsTyped DEF Event
    <3> QED
      BY <2>1, <3>1, NoWifiNewsPosted DEF CustomProvData
  <2>2. CASE NodeConnects
    <3>1. Event("MQTT_CONNECTED", NoArg) \in Events
          /\ Event("MQTT_CONNECTED", NoArg).ev = "MQTT_CONNECTED"
      BY EventsTyped DEF PlainEvents, Event
    <3>2. NoWifiNews(loop')
      BY <2>2, <3>1, NoWifiNewsPosted DEF NodeConnects, MqttConnected
    <3> QED
      BY <1>3, <2>2, <3>2 DEF NodeConnects
  <2>3. CASE NodeLink
    <3>1. CASE MqttDisconnected
      <4>1. Event("MQTT_DISCONNECTED", NoArg) \in Events
            /\ Event("MQTT_DISCONNECTED", NoArg).ev = "MQTT_DISCONNECTED"
        BY EventsTyped DEF PlainEvents, Event
      <4>2. NoWifiNews(loop')
        BY <3>1, <4>1, NoWifiNewsPosted DEF MqttDisconnected
      <4> QED
        BY <1>3, <2>3, <4>2 DEF NodeLink
    <3>2. CASE ScanRow
      <4> DEFINE e == Event("MQTT_SUBSCRIBED", [topic |-> subscriptions[scan.row].topic])
      <4>1. subscriptions[scan.row] \in Rows
        BY <3>2, ElementOfSeq, LenProperties DEF ScanRow, TypeOK, MqttStateOK
      <4>2. e \in Events /\ e.ev = "MQTT_SUBSCRIBED"
        BY <4>1 DEF Event, Events, Rows
      <4>3. NoWifiNews(Post(loop, e)) /\ NoWifiNews(loop)
        BY <4>2, NoWifiNewsPosted
      <4>4. loop' = Post(loop, e) \/ loop' = loop
        BY <3>2 DEF ScanRow
      <4> HIDE DEF e
      <4> QED
        BY <1>3, <2>3, <4>3, <4>4 DEF NodeLink
    <3>3. CASE ConnectFails \/ TransportError \/ ScanEnds \/ \E m \in outbox : SubackArrives(m)
      <4>1. loop' = loop
        BY <3>3 DEF ConnectFails, TransportError, ScanEnds, SubackArrives
      <4> QED
        BY <1>3, <2>3, <4>1, NoWifiNewsPosted DEF NodeLink
    <3> QED
      BY <2>3, <3>1, <3>2, <3>3 DEF NodeLink
  <2>4. ASSUME NEW m \in outbox, NEW doc \in DocumentsOver(CtxKeys), ServerAnswers(m, doc)
        PROVE  NoWifiNews(loop')
    <3>1. Event("MQTT_DATA", doc) \in Events /\ Event("MQTT_DATA", doc).ev = "MQTT_DATA"
      BY EventsTyped DEF Event
    <3>2. NoWifiNews(Post(loop, Event("MQTT_DATA", doc))) /\ NoWifiNews(loop)
      BY <3>1, NoWifiNewsPosted
    <3> QED
      BY <2>4, <3>2 DEF ServerAnswers
  <2> QED
    BY <1>1, <1>2, <1>3, <2>1, <2>2, <2>3, <2>4
    DEF Environment, CustomProvData, ServerAnswers
<1> QED
  BY <1>3 DEF NoWifiNews, WifiIsUsed

\* A document that was received takes no token away, and needs an open partition.
LEMMA CustomDataKeepsToken ==
  ASSUME TypeOK, OnCustomData
  PROVE  /\ nvs["tb_token"] # NULL => nvs'["tb_token"] # NULL
         /\ ~nvsReady => nvs' = nvs
         /\ nvs'["tb_broker_url"] # NULL /\ nvs["tb_broker_url"] = NULL
              => nvs'["tb_token"] # NULL
<1> DEFINE doc == Head(loop).arg
<1>1. PICK okToken \in WriteOutcomes, okUrl \in WriteOutcomes :
        nvs' = Write(Write(nvs, doc, "tb_token", okToken), doc, "tb_broker_url",
                     okToken /\ okUrl /\ "tb_token" \in DOMAIN doc)
  BY DEF OnCustomData
<1>2. doc \in DocumentsOver(TbKeys) /\ nvs \in [Keys -> Values \cup {NULL}]
  BY HeadTyped DEF OnCustomData, Takes, TypeOK
<1>3. CASE okToken /\ "tb_token" \in DOMAIN doc
  <2>1. nvsReady
    BY <1>3 DEF WriteOutcomes
  <2>2. doc["tb_token"] \in Values
    BY <1>2, <1>3 DEF DocumentsOver
  <2>3. nvs'["tb_token"] = doc["tb_token"]
    BY <1>1, <1>2, <1>3 DEF Write, Keys, TbKeys
  <2> QED
    BY <2>1, <2>2, <2>3, MqttAssumption
<1>4. CASE ~(okToken /\ "tb_token" \in DOMAIN doc)
  <2>1. nvs' = nvs
    BY <1>1, <1>4 DEF Write
  <2> QED
    BY <2>1
<1> QED
  BY <1>3, <1>4

\* An answer of the server touches neither the token nor the address.
LEMMA DataKeepsToken ==
  ASSUME TypeOK, OnMqttData
  PROVE  /\ nvs'["tb_token"] = nvs["tb_token"] /\ nvs'["tb_broker_url"] = nvs["tb_broker_url"]
         /\ ~nvsReady => nvs' = nvs
<1> DEFINE doc == Head(loop).arg
<1>1. PICK okNfc \in WriteOutcomes, okBle \in WriteOutcomes :
        nvs' = Write(Write(nvs, doc, "nfc_content", okNfc), doc, "ble_content", okBle)
  BY DEF OnMqttData
<1>2. nvs \in [Keys -> Values \cup {NULL}]
  BY DEF TypeOK
<1>3. nvs'["tb_token"] = nvs["tb_token"] /\ nvs'["tb_broker_url"] = nvs["tb_broker_url"]
  BY <1>1, <1>2 DEF Write, Keys, TbKeys, CtxKeys
<1>4. ~nvsReady => nvs' = nvs
  BY <1>1 DEF WriteOutcomes, Write
<1> QED
  BY <1>3, <1>4

\* No other handler writes to the flash.
LEMMA HandlersLeaveFlash ==
  ASSUME SysEvt, ~OnCustomData, ~OnMqttData
  PROVE  UNCHANGED <<nvs, nvsReady, reset, creds>>
  BY DEF SysEvt, OnWifiEvent, OnGotIp, OnProvConnected, Relay,
     OnValidWifiCred, OnValidTbToken, OnContextCred, OnRegular, OnMqttConnected,
     NodeSubscribes, SubscribeGoesOn, AnnounceToken, OnMqttDisconnected,
     OnMqttSubscribed, nodeVars, flashVars

\* No other step creates a client or touches the configuration it runs with.
LEMMA ClientLeftAlone ==
  ASSUME [Next]_vars, ~OnValidWifiCred, ~OnValidTbToken
  PROVE  UNCHANGED <<mqtt_client, running>> \/ mqtt_client' = FALSE
<1>1. CASE SysEvt
  BY <1>1 DEF SysEvt, OnWifiEvent, OnGotIp, OnProvConnected, Relay, OnCustomData,
     OnRegular, OnMqttConnected, NodeSubscribes, SubscribeCheck, SubscribeGoesOn,
     SubscribeSend, SubscribeRefused, SubscribeRecord, AnnounceToken,
     OnMqttDisconnected, OnMqttSubscribed, OnMqttData, clientVars
<1>2. CASE Environment
  BY <1>2 DEF Environment, ProvCreds, ProvEnd, WifiStarted, WifiUp, WifiDown,
     CustomProvData, NodeConnects, MqttConnected, NodeLink, ConnectFails,
     TransportError, MqttDisconnected, SubackArrives, ScanRow, ScanEnds, ServerAnswers,
     BleRegisters, FactoryErase, Restart, Boot, mqttVars, clientVars
<1>3. CASE UNCHANGED vars
  BY <1>3 DEF vars, mqttVars, clientVars
<1> QED
  BY <1>1, <1>2, <1>3 DEF Next

\* The client is only started with a token that can be read.
LEMMA ClientNeedsToken ==
  ASSUME [Next]_vars, mqtt_client', ~mqtt_client
  PROVE  Readable("tb_token")
<1>1. CASE OnValidWifiCred \/ OnValidTbToken
  BY <1>1 DEF OnValidWifiCred, OnValidTbToken, OnContextCred, StartStoredClient, clientVars
<1>2. CASE ~OnValidWifiCred /\ ~OnValidTbToken
  BY <1>2, ClientLeftAlone
<1> QED
  BY <1>1, <1>2

\* Only a restart opens the partition again.
LEMMA FlashBacked ==
  ASSUME TypeOK, FlashIsBacked, [Next]_vars
  PROVE  FlashIsBacked'
<1> SUFFICES ASSUME nvsReady'
             PROVE  /\ WifiIsUsed' => creds'
                    /\ mqtt_client' \/ "session" \in seen' => nvs'["tb_token"] # NULL
  BY DEF FlashIsBacked
<1>1. CASE Boot(creds) /\ UNCHANGED <<nvs, creds>>
  BY <1>1, EmptySeq DEF Boot, WifiIsUsed, Queued
<1>2. CASE UNCHANGED vars
  BY <1>2 DEF vars, nodeVars, mqttVars, clientVars, FlashIsBacked, WifiIsUsed
<1>3. CASE SysEvt
  <2>1. UNCHANGED <<nvsReady, creds, seen>>
    BY <1>3, HandlersLeaveFlash
    DEF SysEvt, OnWifiEvent, OnGotIp, OnProvConnected, Relay, OnCustomData,
        OnValidWifiCred, OnValidTbToken, OnContextCred, OnRegular, OnMqttConnected,
        NodeSubscribes, SubscribeGoesOn, AnnounceToken, OnMqttDisconnected,
        OnMqttSubscribed, OnMqttData, nodeVars
  <2>2. nvs["tb_token"] # NULL => nvs'["tb_token"] # NULL
    BY <1>3, HandlersLeaveFlash, CustomDataKeepsToken, DataKeepsToken
  <2>3. mqtt_client' => mqtt_client \/ nvs["tb_token"] # NULL
    BY <1>3, ClientNeedsToken DEF Next, Readable
  <2> QED
    BY <1>3, <2>1, <2>2, <2>3, HandlersUseWifi DEF FlashIsBacked
<1>4. CASE Environment /\ ~Boot(creds)
  <2>1. ~FactoryErase
    BY DEF FactoryErase
  <2>2. nvsReady' = nvsReady /\ nvs' = nvs /\ (creds => creds')
        /\ ("session" \in seen' => "session" \in seen \/ mqtt_client)
    <3>1. CASE NodeConnects
      BY <3>1 DEF NodeConnects, MqttConnected, flashVars
    <3>2. CASE NodeLink
      BY <3>2 DEF NodeLink, nodeVars
    <3>3. CASE BleRegisters \/ Restart
      BY <1>4, <3>3 DEF BleRegisters, Restart, flashVars
    <3>4. CASE \/ \E m \in outbox, doc \in DocumentsOver(CtxKeys) : ServerAnswers(m, doc)
               \/ \E doc \in DocumentsOver(TbKeys) : CustomProvData(doc)
      <4>1. UNCHANGED <<nvsReady, nvs, creds>> /\ seen' \in {seen, seen \cup {"answer"}}
        BY <3>4 DEF ServerAnswers, CustomProvData, flashVars
      <4> QED
        BY <4>1
    <3>5. CASE ProvCreds \/ ProvEnd \/ WifiStarted \/ WifiUp \/ WifiDown
      <4>1. CASE ProvCreds
        BY <4>1 DEF ProvCreds
      <4>2. CASE ProvEnd \/ WifiStarted \/ WifiUp \/ WifiDown
        <5>1. UNCHANGED <<nvsReady, nvs, creds>> /\ seen' \in {seen, seen \cup {"ip"}}
          BY <4>2 DEF ProvEnd, WifiStarted, WifiUp, WifiDown, flashVars
        <5> QED
          BY <5>1
      <4> QED
        BY <3>5, <4>1, <4>2
    <3> QED
      BY <1>4, <2>1, <3>1, <3>2, <3>3, <3>4, <3>5 DEF Environment
  <2>3. mqtt_client' => mqtt_client \/ nvs["tb_token"] # NULL
    BY <1>4, ClientNeedsToken DEF Next, Readable
  <2> QED
    BY <1>4, <2>2, <2>3, EnvironmentUsesWifi DEF FlashIsBacked
<1>5. Environment /\ Boot(creds) => UNCHANGED <<nvs, creds>>
  <2>1. Boot(creds) => nvsReady' /\ boots' # boots
    BY NodeAssumption DEF Boot, TypeOK
  <2>2. SUFFICES ASSUME Environment, boots' # boots, nvsReady'
                 PROVE  UNCHANGED <<nvs, creds>>
    BY <2>1
  <2>3. BleRegisters \/ Restart
    BY <2>2 DEF Environment, ProvCreds, ProvEnd, WifiStarted, WifiUp, WifiDown,
       CustomProvData, NodeConnects, NodeLink, ServerAnswers, FactoryErase,
       nodeVars, boundVars
  <2> QED
    BY <2>2, <2>3 DEF BleRegisters, Restart, flashVars
<1> QED
  BY <1>1, <1>2, <1>3, <1>4, <1>5 DEF Next

(* Whatever is lost, repeated or overtaken in the queue, an event, the     *)
(* handler under way and NODE_STATE only claim what has happened, and what *)
(* it was done with is in the flash until an erase.                        *)
THEOREM NothingClaimedEarly == Spec => []NodeInv
<1>1. Init => NodeInv
  BY InitBacked
<1>2. TypeOK /\ NodeInv /\ [Next]_vars => NodeInv'
  <2> SUFFICES ASSUME TypeOK, EventsBacked, FlashIsBacked, [Next]_vars
               PROVE  EventsBacked' /\ FlashIsBacked'
    BY DEF NodeInv, EventsBacked
  <2>1. CASE SysEvt
    BY <2>1, HandlersBacked, FlashBacked
  <2>2. CASE Environment
    BY <2>2, EnvironmentBacked, FlashBacked
  <2>3. CASE UNCHANGED vars
    <3>1. EventsBacked'
      BY <2>3 DEF vars, mqttVars, nodeVars, linkVars, EventsBacked, LinkIsBacked,
                  HandlerIsBacked, QueueIsBacked, StateIsBacked
    <3> QED
      BY <3>1, FlashBacked
  <2> QED
    BY <2>1, <2>2, <2>3 DEF Next
<1> QED
  BY <1>1, <1>2, TypeCorrect, PTL DEF Spec

-----------------------------------------------------------------------------
(* The node implements NodeLifecycle.                                      *)

\* How many reasons for a state a queue holds.
Count(q, s) == Cardinality(Pending(q, Heralds(s)))

LEMMA HeraldsOf ==
  ASSUME NEW s \in Life!Announced
  PROVE  /\ \A ev \in {"GOT_IP", "PROV_CONNECTED", "CTX_VALID_WIFI_CRED"} :
              ev \in Heralds(s) <=> s = "VALID_WIFI_CRED"
         /\ \A ev \in {"MQTT_CONNECTED", "CTX_VALID_TB_TOKEN"} :
              ev \in Heralds(s) <=> s = "VALID_TB_TOKEN"
         /\ \A ev \in {"MQTT_DATA", "CTX_REGULAR"} : ev \in Heralds(s) <=> s = "REGULAR"
         /\ \A ev \in {"STA_START", "STA_DISCONNECTED", "PROV_CUSTOM_DATA",
                        "MQTT_DISCONNECTED", "MQTT_SUBSCRIBED"} : ev \notin Heralds(s)
  BY DEF Heralds, Life!Announced

LEMMA CountTaken ==
  ASSUME TypeOK, NEW ev, Takes(ev), NEW s
  PROVE  /\ Count(loop, s) \in Nat /\ Count(Tail(loop), s) \in Nat
         /\ Count(Tail(loop), s) =
              IF ev \in Heralds(s) THEN Count(loop, s) - 1 ELSE Count(loop, s)
<1>1. loop # <<>> /\ loop \in Seq(Events) /\ Tail(loop) \in Seq(Events) /\ Head(loop).ev = ev
  BY QueuedTaken DEF Takes
<1> QED
  BY <1>1, PendingFinite, PendingTail DEF Count

LEMMA CountPosted ==
  ASSUME NEW q \in Seq(Events), NEW e \in Events, NEW s
  PROVE  /\ Count(q, s) \in Nat
         /\ Count(Post(q, e), s) =
              IF e.ev \in Heralds(s) /\ HasRoom(q) THEN Count(q, s) + 1 ELSE Count(q, s)
<1>1. Count(q, s) \in Nat
  BY PendingFinite DEF Count
<1>2. CASE e.ev \in Heralds(s)
  BY <1>1, <1>2, PendingPost DEF Count
<1>3. CASE e.ev \notin Heralds(s)
  BY <1>1, <1>3, PendingPost DEF Count
<1> QED
  BY <1>1, <1>2, <1>3

\* There is room for one event where one was taken.
LEMMA TakenMakesRoom ==
  ASSUME TypeOK, NEW ev, Takes(ev)
  PROVE  HasRoom(Tail(loop)) /\ Tail(loop) \in Seq(Events)
<1>1. loop # <<>> /\ loop \in Seq(Events) /\ Len(loop) <= QueueSize
  BY DEF Takes, TypeOK
<1>2. Tail(loop) \in Seq(Events) /\ Len(Tail(loop)) = Len(loop) - 1
  BY <1>1, HeadTailProperties
<1> QED
  BY <1>1, <1>2, LenProperties, QueueSizeAssumption DEF HasRoom

\* The reasons there are, now and after a step.
Subscribing(s, n) == IF s = "VALID_TB_TOKEN" /\ n > 0 THEN 1 ELSE 0

LEMMA ReasonsCounted ==
  /\ Reasons = [s \in Life!Announced |-> Count(loop, s) + Subscribing(s, subNext)]
  /\ Reasons' = [s \in Life!Announced |-> Count(loop', s) + Subscribing(s, subNext')]
  BY DEF Reasons, Life!Announced, Count, Subscribing

LEMMA SameReasons ==
  ASSUME \A s \in Life!Announced :
           Count(loop', s) + Subscribing(s, subNext') = Count(loop, s) + Subscribing(s, subNext)
  PROVE  Reasons' = Reasons
  BY ReasonsCounted

LEMMA OneReason ==
  ASSUME NEW one \in Life!Announced, NEW n,
         Count(loop', one) + Subscribing(one, subNext') = n,
         \A s \in Life!Announced \ {one} :
           Count(loop', s) + Subscribing(s, subNext') = Count(loop, s) + Subscribing(s, subNext)
  PROVE  Reasons' = [Reasons EXCEPT ![one] = n]
  BY ReasonsCounted

LEMMA ReasonsStay ==
  ASSUME loop' = loop, subNext' = subNext
  PROVE  Reasons' = Reasons
  BY ReasonsCounted

\* An event that is no herald comes or goes.
LEMMA OtherTaken ==
  ASSUME TypeOK, loop' = Tail(loop), subNext' = subNext,
         \E ev \in {"STA_START", "STA_DISCONNECTED", "PROV_CUSTOM_DATA",
                    "MQTT_DISCONNECTED", "MQTT_SUBSCRIBED"} : Takes(ev)
  PROVE  Reasons' = Reasons
<1>1. \A s \in Life!Announced : Count(loop', s) = Count(loop, s)
  BY CountTaken, HeraldsOf
<1> QED
  BY <1>1, SameReasons

LEMMA OtherPosted ==
  ASSUME TypeOK, subNext' = subNext, NEW e \in Events, loop' = Post(loop, e),
         e.ev \in {"STA_START", "STA_DISCONNECTED", "PROV_CUSTOM_DATA",
                  "MQTT_DISCONNECTED", "MQTT_SUBSCRIBED"}
  PROVE  Reasons' = Reasons
<1>1. loop \in Seq(Events)
  BY DEF TypeOK
<1>2. \A s \in Life!Announced : Count(loop', s) = Count(loop, s)
  BY <1>1, CountPosted, HeraldsOf
<1> QED
  BY <1>2, SameReasons

\* One herald makes place for the next.
LEMMA HeraldReplaced ==
  ASSUME TypeOK, subNext' = subNext, NEW from, NEW to \in PlainEvents, Takes(from),
         loop' = Post(Tail(loop), Event(to, NoArg)),
         \A s \in Life!Announced : from \in Heralds(s) <=> to \in Heralds(s)
  PROVE  Reasons' = Reasons
<1> DEFINE e == Event(to, NoArg)
<1>1. e \in Events /\ e.ev = to /\ loop' = Post(Tail(loop), e)
  BY EventsTyped DEF Event
<1> HIDE DEF e
<1>2. HasRoom(Tail(loop)) /\ Tail(loop) \in Seq(Events)
  BY TakenMakesRoom
<1>3. \A s \in Life!Announced : Count(loop', s) = Count(loop, s)
  <2> TAKE s \in Life!Announced
  <2>1. /\ Count(loop, s) \in Nat /\ Count(Tail(loop), s) \in Nat
        /\ Count(Tail(loop), s) =
             IF from \in Heralds(s) THEN Count(loop, s) - 1 ELSE Count(loop, s)
    BY CountTaken
  <2>2. Count(loop', s) =
          IF to \in Heralds(s) THEN Count(Tail(loop), s) + 1 ELSE Count(Tail(loop), s)
    BY <1>1, <1>2, CountPosted
  <2> QED
    BY <2>1, <2>2
<1> QED
  BY <1>3, SameReasons

\* The reason a fact is comes with it, or is lost.
LEMMA ReasonPosted ==
  ASSUME TypeOK, subNext' = subNext, NEW e \in Events, NEW one \in Life!Announced,
         loop' = Post(loop, e) \/ loop' = loop,
         \A s \in Life!Announced : e.ev \in Heralds(s) <=> s = one
  PROVE  Reasons' = Reasons \/ Reasons' = [Reasons EXCEPT ![one] = @ + 1]
<1>1. loop \in Seq(Events)
  BY DEF TypeOK
<1>2. CASE loop' = Post(loop, e) /\ HasRoom(loop)
  <2>1. \A s \in Life!Announced :
          /\ Count(loop, s) \in Nat
          /\ Count(loop', s) = IF s = one THEN Count(loop, s) + 1 ELSE Count(loop, s)
    BY <1>1, <1>2, CountPosted
  <2>2. Reasons[one] = Count(loop, one) + Subscribing(one, subNext)
    BY ReasonsCounted
  <2>3. Subscribing(one, subNext) \in Nat
    BY DEF Subscribing
  <2>4. Count(loop', one) + Subscribing(one, subNext') = Reasons[one] + 1
    BY <2>1, <2>2, <2>3
  <2>5. Reasons' = [Reasons EXCEPT ![one] = Reasons[one] + 1]
    BY <2>1, <2>4, OneReason
  <2> QED
    BY <2>5
<1>3. CASE ~(loop' = Post(loop, e) /\ HasRoom(loop))
  BY <1>3, ReasonsStay DEF Post
<1> QED
  BY <1>2, <1>3

\* A state is entered for one of its reasons.
LEMMA ReasonUsed ==
  ASSUME TypeOK, NEW ev, Takes(ev), loop' = Tail(loop), subNext' = subNext,
         NEW one \in Life!Announced, \A s \in Life!Announced : ev \in Heralds(s) <=> s = one
  PROVE  Reasons[one] > 0 /\ Reasons' = [Reasons EXCEPT ![one] = @ - 1]
<1>1. \A s \in Life!Announced :
        /\ Count(loop, s) \in Nat /\ Count(loop', s) \in Nat
        /\ Count(loop', s) = IF s = one THEN Count(loop, s) - 1 ELSE Count(loop, s)
  BY CountTaken
<1>2. Reasons[one] = Count(loop, one) + Subscribing(one, subNext)
  BY ReasonsCounted
<1>3. Subscribing(one, subNext) \in Nat
  BY DEF Subscribing
<1>4. Count(loop', one) + Subscribing(one, subNext') = Reasons[one] - 1 /\ Reasons[one] > 0
  BY <1>1, <1>2, <1>3
<1>5. Reasons' = [Reasons EXCEPT ![one] = Reasons[one] - 1]
  BY <1>1, <1>4, OneReason
<1> QED
  BY <1>4, <1>5

\* The handler that subscribes takes over the reason it was called for.
LEMMA SubscribingKeepsReasons ==
  ASSUME TypeOK, OnMqttConnected
  PROVE  Reasons' = Reasons
<1>1. Takes("MQTT_CONNECTED") /\ loop' = Tail(loop) /\ subNext = 0 /\ subNext' = 1
  BY DEF OnMqttConnected, Takes
<1>2. ASSUME NEW s \in Life!Announced
      PROVE  Count(loop', s) + Subscribing(s, subNext') = Count(loop, s) + Subscribing(s, subNext)
  <2>1. /\ Count(loop, s) \in Nat
        /\ Count(loop', s) = IF s = "VALID_TB_TOKEN" THEN Count(loop, s) - 1 ELSE Count(loop, s)
    BY <1>1, CountTaken, HeraldsOf
  <2> QED
    BY <1>1, <2>1 DEF Subscribing
<1> QED
  BY <1>2, SameReasons

LEMMA SubscribedAnnounces ==
  ASSUME TypeOK, AnnounceToken
  PROVE  \/ Reasons' = Reasons
         \/ /\ Reasons["VALID_TB_TOKEN"] > 0
            /\ Reasons' = [Reasons EXCEPT !["VALID_TB_TOKEN"] = @ - 1]
<1> DEFINE e == Event("CTX_VALID_TB_TOKEN", NoArg)
           tb == "VALID_TB_TOKEN"
<1>1. e \in Events /\ e.ev = "CTX_VALID_TB_TOKEN"
  BY EventsTyped DEF PlainEvents, Event
<1>2. loop' = Post(loop, e) /\ subNext' = 0 /\ subNext > 0 /\ loop \in Seq(Events)
  BY TopicsCounted DEF AnnounceToken, TypeOK
<1> HIDE DEF e
<1>3. \A s \in Life!Announced :
        /\ Count(loop, s) \in Nat
        /\ Count(loop', s) = IF s = tb /\ HasRoom(loop) THEN Count(loop, s) + 1 ELSE Count(loop, s)
  BY <1>1, <1>2, CountPosted, HeraldsOf
<1>4. /\ Subscribing(tb, subNext) = 1
      /\ \A s : Subscribing(s, subNext') = 0
      /\ \A s \in Life!Announced \ {tb} : Subscribing(s, subNext) = 0
  BY <1>2 DEF Subscribing
<1>5. CASE HasRoom(loop)
  BY <1>3, <1>4, <1>5, SameReasons
<1>6. CASE ~HasRoom(loop)
  <2>1. tb \in Life!Announced
    BY DEF Life!Announced
  <2>2. Reasons[tb] = Count(loop, tb) + 1 /\ Count(loop, tb) \in Nat
    BY <1>3, <1>4, <2>1, ReasonsCounted
  <2>3. Count(loop', tb) + Subscribing(tb, subNext') = Reasons[tb] - 1
    BY <1>3, <1>4, <1>6, <2>1, <2>2
  <2>4. \A s \in Life!Announced \ {tb} :
          Count(loop', s) + Subscribing(s, subNext') = Count(loop, s) + Subscribing(s, subNext)
    BY <1>3, <1>4
  <2>5. Reasons' = [Reasons EXCEPT ![tb] = Reasons[tb] - 1]
    BY <2>1, <2>3, <2>4, OneReason
  <2> QED
    BY <2>2, <2>5
<1> QED
  BY <1>5, <1>6

\* What the flash must hold for a state is there as long as nothing was erased.
LEMMA KeptInFlash ==
  ASSUME NodeInv, nvsReady
  PROVE  /\ wifi # "off" => {"creds"} \subseteq InFlash
         /\ mqtt_client /\ wifi # "off" => {"creds", "token"} \subseteq InFlash
         /\ \A s \in Life!Announced :
              Life!Needs(s) \subseteq seen => Life!Keeps(s) \subseteq InFlash
  BY DEF NodeInv, FlashIsBacked, WifiIsUsed, InFlash, Life!Announced, Life!Needs, Life!Keeps

LEMMA AnnouncementsImplement ==
  ASSUME TypeOK, NodeInv, NodeInv', NEW s \in Life!Announced, NEW ev, Takes(ev),
         loop' = Tail(loop), subNext' = subNext, NODE_STATE' = s,
         UNCHANGED <<seen, flashVars>>,
         \A x \in Life!Announced : ev \in Heralds(x) <=> x = s
  PROVE  Life!Announce(s)
<1>1. Reasons[s] > 0 /\ Reasons' = [Reasons EXCEPT ![s] = @ - 1]
  BY ReasonUsed
<1>2. Life!Needs(s) \subseteq seen
  BY DEF NodeInv, StateIsBacked
<1>3. nvsReady => Life!Keeps(s) \subseteq InFlash
  BY <1>2, KeptInFlash
<1>4. UNCHANGED <<InFlash, nvsReady>>
  BY DEF InFlash, flashVars
<1> QED
  BY <1>1, <1>2, <1>3, <1>4 DEF Life!Announce

LEMMA HandlersImplement ==
  ASSUME TypeOK, NodeInv, NodeInv', SysEvt
  PROVE  [Life!Next]_(Life!lifeVars)
<1>1. CASE OnValidWifiCred \/ OnValidTbToken \/ OnRegular
  <2>1. PICK ev \in {"CTX_VALID_WIFI_CRED", "CTX_VALID_TB_TOKEN", "CTX_REGULAR"},
             s \in Life!Announced :
          /\ Takes(ev) /\ loop' = Tail(loop) /\ NODE_STATE' = s
          /\ UNCHANGED <<subNext, seen, flashVars>>
          /\ \A x \in Life!Announced : ev \in Heralds(x) <=> x = s
    <3>1. /\ {"VALID_WIFI_CRED", "VALID_TB_TOKEN", "REGULAR"} = Life!Announced
          /\ \A x \in Life!Announced :
               /\ "CTX_VALID_WIFI_CRED" \in Heralds(x) <=> x = "VALID_WIFI_CRED"
               /\ "CTX_VALID_TB_TOKEN" \in Heralds(x) <=> x = "VALID_TB_TOKEN"
               /\ "CTX_REGULAR" \in Heralds(x) <=> x = "REGULAR"
      BY HeraldsOf DEF Life!Announced
    <3>2. \/ /\ OnValidWifiCred /\ Takes("CTX_VALID_WIFI_CRED") /\ NODE_STATE' = "VALID_WIFI_CRED"
          \/ /\ OnValidTbToken /\ Takes("CTX_VALID_TB_TOKEN") /\ NODE_STATE' = "VALID_TB_TOKEN"
          \/ /\ OnRegular /\ Takes("CTX_REGULAR") /\ NODE_STATE' = "REGULAR"
      BY <1>1 DEF OnValidWifiCred, OnValidTbToken, OnContextCred, OnRegular
    <3>3. loop' = Tail(loop) /\ UNCHANGED <<subNext, seen, flashVars>>
      BY <1>1 DEF OnValidWifiCred, OnValidTbToken, OnContextCred, OnRegular
    <3> QED
      BY <3>1, <3>2, <3>3
  <2>2. Life!Announce(s)
    BY <2>1, AnnouncementsImplement
  <2> QED
    BY <2>2 DEF Life!Next
<1>2. CASE OnCustomData
  <2>1. Reasons' = Reasons
    BY <1>2, OtherTaken DEF OnCustomData
  <2>2. InFlash' = InFlash \/ (nvsReady /\ InFlash' = InFlash \cup {"token"})
    BY <1>2, CustomDataKeepsToken DEF OnCustomData, InFlash
  <2>3. UNCHANGED <<NODE_STATE, nvsReady, seen>>
    BY <1>2 DEF OnCustomData
  <2>4. CASE InFlash' = InFlash
    BY <2>1, <2>3, <2>4 DEF Life!lifeVars
  <2>5. CASE nvsReady /\ InFlash' = InFlash \cup {"token"}
    <3>1. Life!Store("token")
      BY <2>1, <2>3, <2>5 DEF Life!Store
    <3> QED
      BY <3>1 DEF Life!Next
  <2> QED
    BY <2>2, <2>4, <2>5
<1>3. CASE AnnounceToken
  <2>1. UNCHANGED <<NODE_STATE, nvsReady, InFlash, seen>>
    BY <1>3 DEF AnnounceToken, flashVars, InFlash
  <2>2. CASE Reasons' = Reasons
    BY <2>1, <2>2 DEF Life!lifeVars
  <2>3. CASE /\ Reasons["VALID_TB_TOKEN"] > 0
             /\ Reasons' = [Reasons EXCEPT !["VALID_TB_TOKEN"] = @ - 1]
    <3>1. Life!Lose("VALID_TB_TOKEN")
      BY <2>1, <2>3 DEF Life!Lose
    <3> QED
      BY <3>1 DEF Life!Next, Life!Announced
  <2> QED
    BY <1>3, <2>2, <2>3, SubscribedAnnounces
<1>4. CASE \/ OnWifiEvent \/ OnGotIp \/ OnProvConnected \/ OnMqttConnected \/ NodeSubscribes
           \/ SubscribeGoesOn \/ OnMqttDisconnected \/ OnMqttSubscribed \/ OnMqttData
  <2>1. UNCHANGED <<NODE_STATE, nvsReady, InFlash, seen>>
    <3>1. UNCHANGED <<NODE_STATE, nvsReady, seen, creds>>
      BY <1>4 DEF OnWifiEvent, OnGotIp, OnProvConnected, Relay, OnMqttConnected,
         NodeSubscribes, SubscribeGoesOn, OnMqttDisconnected, OnMqttSubscribed, OnMqttData,
         nodeVars, flashVars
    <3>2. nvs'["tb_token"] = nvs["tb_token"]
      BY <1>4, DataKeepsToken DEF OnWifiEvent, OnGotIp, OnProvConnected, Relay,
         OnMqttConnected, NodeSubscribes, SubscribeGoesOn, OnMqttDisconnected,
         OnMqttSubscribed, nodeVars, flashVars
    <3> QED
      BY <3>1, <3>2 DEF InFlash
  <2>2. Reasons' = Reasons
    <3>1. CASE OnWifiEvent \/ OnMqttDisconnected \/ OnMqttSubscribed
      BY <3>1, OtherTaken DEF OnWifiEvent, OnMqttDisconnected, OnMqttSubscribed, nodeVars
    <3>2. CASE OnGotIp \/ OnProvConnected \/ OnMqttData
      <4>1. PICK from \in {"GOT_IP", "PROV_CONNECTED", "MQTT_DATA"}, to \in PlainEvents :
              /\ Takes(from) /\ loop' = Post(Tail(loop), Event(to, NoArg)) /\ subNext' = subNext
              /\ \A s \in Life!Announced : from \in Heralds(s) <=> to \in Heralds(s)
        BY <3>2, HeraldsOf DEF OnGotIp, OnProvConnected, Relay, OnMqttData, nodeVars, PlainEvents
      <4> QED
        BY <4>1, HeraldReplaced
    <3>3. CASE OnMqttConnected
      BY <3>3, SubscribingKeepsReasons
    <3>4. CASE NodeSubscribes
      <4>1. loop' = loop /\ subNext > 0 /\ subNext' > 0
        BY <3>4, TopicsCounted DEF NodeSubscribes, SubscribeCheck
      <4>2. \A s : Subscribing(s, subNext') = Subscribing(s, subNext)
        BY <4>1 DEF Subscribing
      <4> QED
        BY <4>1, <4>2, SameReasons
    <3>5. CASE SubscribeGoesOn
      BY <3>5, ReasonsStay DEF SubscribeGoesOn, SubscribeSend, SubscribeRefused,
         SubscribeRecord, nodeVars
    <3> QED
      BY <1>4, <3>1, <3>2, <3>3, <3>4, <3>5
  <2> QED
    BY <2>1, <2>2 DEF Life!lifeVars
<1> QED
  BY <1>1, <1>2, <1>3, <1>4 DEF SysEvt

\* An address, a session or an answer, with the reason it is.
LEMMA FactsImplement ==
  ASSUME TypeOK, NodeInv, NEW f \in Life!Facts, Life!Before(f) \subseteq seen,
         nvsReady => Life!Keeps(Life!ReasonFor(f)) \subseteq InFlash,
         seen' = seen \cup {f}, UNCHANGED <<NODE_STATE, flashVars, subNext>>,
         NEW e \in Events, loop' = Post(loop, e) \/ loop' = loop,
         \A s \in Life!Announced : e.ev \in Heralds(s) <=> s = Life!ReasonFor(f)
  PROVE  Life!Learn(f)
<1>1. Life!ReasonFor(f) \in Life!Announced
  BY DEF Life!ReasonFor, Life!Facts, Life!Announced
<1>2. Reasons' = Reasons \/ Reasons' = [Reasons EXCEPT ![Life!ReasonFor(f)] = @ + 1]
  BY <1>1, ReasonPosted
<1>3. UNCHANGED <<InFlash, nvsReady>>
  BY DEF InFlash, flashVars
<1> QED
  BY <1>2, <1>3 DEF Life!Learn

LEMMA EnvironmentImplements ==
  ASSUME TypeOK, NodeInv, Environment
  PROVE  [Life!Next]_(Life!lifeVars)
<1> USE DEF wifiVars, boundVars
<1>1. CASE WifiUp
  <2> DEFINE e == Event("GOT_IP", NoArg)
  <2>1. e \in Events /\ \A s \in Life!Announced : e.ev \in Heralds(s) <=> s = "VALID_WIFI_CRED"
    BY EventsTyped, HeraldsOf DEF PlainEvents, Event
  <2>2. loop' = Post(loop, e) /\ seen' = seen \cup {"ip"} /\ wifi # "off"
        /\ UNCHANGED <<NODE_STATE, flashVars, subNext>>
    BY <1>1 DEF WifiUp, PostBlocking, Post
  <2>3. nvsReady => {"creds"} \subseteq InFlash
    BY <2>2, KeptInFlash
  <2> HIDE DEF e
  <2>4. "ip" \in Life!Facts /\ Life!Before("ip") = {} /\ Life!ReasonFor("ip") = "VALID_WIFI_CRED"
        /\ Life!Keeps("VALID_WIFI_CRED") = {"creds"}
    BY DEF Life!Facts, Life!Before, Life!ReasonFor, Life!Keeps
  <2>5. Life!Learn("ip")
    BY <2>1, <2>2, <2>3, <2>4, FactsImplement
  <2> QED
    BY <2>4, <2>5 DEF Life!Next
<1>2. CASE NodeConnects
  <2> DEFINE e == Event("MQTT_CONNECTED", NoArg)
  <2>1. e \in Events /\ \A s \in Life!Announced : e.ev \in Heralds(s) <=> s = "VALID_TB_TOKEN"
    BY EventsTyped, HeraldsOf DEF PlainEvents, Event
  <2>2. loop' = Post(loop, e) /\ seen' = seen \cup {"session"} /\ wifi = "up" /\ mqtt_client
        /\ UNCHANGED <<NODE_STATE, flashVars, subNext>>
    BY <1>2 DEF NodeConnects, MqttConnected
  <2>3. nvsReady => {"creds", "token"} \subseteq InFlash
    BY <2>2, KeptInFlash
  <2>4. "ip" \in seen
    BY <2>2 DEF NodeInv, LinkIsBacked
  <2> HIDE DEF e
  <2>5. /\ "session" \in Life!Facts /\ Life!Before("session") = {"ip"}
        /\ Life!ReasonFor("session") = "VALID_TB_TOKEN"
        /\ Life!Keeps("VALID_TB_TOKEN") = {"creds", "token"}
    BY DEF Life!Facts, Life!Before, Life!ReasonFor, Life!Keeps
  <2>6. Life!Learn("session")
    BY <2>1, <2>2, <2>3, <2>4, <2>5, FactsImplement
  <2> QED
    BY <2>5, <2>6 DEF Life!Next
<1>3. ASSUME NEW m \in outbox, NEW doc \in DocumentsOver(CtxKeys), ServerAnswers(m, doc)
      PROVE  [Life!Next]_(Life!lifeVars)
  <2> DEFINE e == Event("MQTT_DATA", doc)
  <2>1. e \in Events /\ \A s \in Life!Announced : e.ev \in Heralds(s) <=> s = "REGULAR"
    BY EventsTyped, HeraldsOf DEF Event
  <2>2. (loop' = Post(loop, e) \/ loop' = loop) /\ seen' = seen \cup {"answer"}
        /\ session = "up" /\ UNCHANGED <<NODE_STATE, flashVars, subNext>>
    BY <1>3 DEF ServerAnswers
  <2>3. {"ip", "session"} \subseteq seen
    BY <2>2 DEF NodeInv, LinkIsBacked
  <2>4. "VALID_TB_TOKEN" \in Life!Announced
        /\ Life!Needs("VALID_TB_TOKEN") = {"ip", "session"}
        /\ Life!Keeps("VALID_TB_TOKEN") = {"creds", "token"}
    BY DEF Life!Announced, Life!Needs, Life!Keeps
  <2>5. nvsReady => {"creds", "token"} \subseteq InFlash
    BY <2>3, <2>4, KeptInFlash
  <2> HIDE DEF e
  <2>6. /\ "answer" \in Life!Facts /\ Life!Before("answer") = {"ip", "session"}
        /\ Life!ReasonFor("answer") = "REGULAR" /\ Life!Keeps("REGULAR") = {"creds", "token"}
    BY DEF Life!Facts, Life!Before, Life!ReasonFor, Life!Keeps
  <2>7. Life!Learn("answer")
    BY <2>1, <2>2, <2>3, <2>5, <2>6, FactsImplement
  <2> QED
    BY <2>6, <2>7 DEF Life!Next
<1>4. CASE Restart \/ (BleRegisters /\ ~Readable("ble_content"))
  <2>1. Boot(creds) /\ UNCHANGED <<nvs, creds>>
    BY <1>4 DEF Restart, BleRegisters
  <2>2. loop' = <<>> /\ subNext' = 0 /\ seen' = {} /\ NODE_STATE' = "BLANK" /\ nvsReady' = TRUE
        /\ InFlash' = InFlash
    BY <2>1 DEF Boot, InFlash
  <2>3. \A s : Count(loop', s) = 0
    <3>1. \A s : Pending(loop', Heralds(s)) = {}
      BY <2>2, EmptySeq DEF Pending
    <3> QED
      BY <3>1, FS_EmptySet DEF Count
  <2>4. \A s : Subscribing(s, subNext') = 0
    BY <2>2 DEF Subscribing
  <2>5. Reasons' = Life!NoReasons
    BY <2>3, <2>4, ReasonsCounted DEF Life!NoReasons
  <2>6. Life!Reboot
    BY <2>2, <2>5 DEF Life!Reboot
  <2> QED
    BY <2>6 DEF Life!Next
<1>5. CASE ProvCreds
  <2>1. Reasons' = Reasons /\ UNCHANGED <<NODE_STATE, nvsReady, seen>> /\ nvsReady
    BY <1>5, ReasonsStay DEF ProvCreds, mqttVars
  <2>2. InFlash' = InFlash \cup {"creds"}
    BY <1>5 DEF ProvCreds, InFlash
  <2>3. Life!Store("creds")
    BY <2>1, <2>2 DEF Life!Store
  <2> QED
    BY <2>3 DEF Life!Next
<1>6. CASE FactoryErase
  <2>1. Reasons' = Reasons /\ UNCHANGED <<NODE_STATE, seen>> /\ nvsReady' = FALSE
    BY <1>6, ReasonsStay DEF FactoryErase, mqttVars
  <2>2. nvs'["tb_token"] # NULL => nvs["tb_token"] # NULL
    <3>1. PICK ks \in SUBSET Keys : nvs' = Kept(ks)
      BY <1>6 DEF FactoryErase
    <3> QED
      BY <3>1 DEF Kept, Keys, TbKeys
  <2>3. creds' => creds
    BY <1>6 DEF FactoryErase, TypeOK
  <2>4. InFlash' \subseteq InFlash
    BY <2>2, <2>3 DEF InFlash
  <2>5. Life!Erase
    BY <2>1, <2>4 DEF Life!Erase
  <2> QED
    BY <2>5 DEF Life!Next
<1>7. CASE \/ ProvEnd \/ WifiStarted \/ WifiDown \/ NodeLink
           \/ (BleRegisters /\ Readable("ble_content"))
           \/ \E doc \in DocumentsOver(TbKeys) : CustomProvData(doc)
  <2>1. UNCHANGED <<NODE_STATE, nvs, nvsReady, creds, seen, subNext>>
    BY <1>7 DEF ProvEnd, WifiStarted, WifiDown, NodeLink, BleRegisters, CustomProvData,
                nodeVars, flashVars
  <2>2. Reasons' = Reasons
    <3>1. CASE ProvEnd \/ (BleRegisters /\ Readable("ble_content"))
      BY <2>1, <3>1, ReasonsStay DEF ProvEnd, BleRegisters, mqttVars
    <3>2. CASE WifiStarted \/ WifiDown
      <4>1. PICK ev \in {"STA_START", "STA_DISCONNECTED"} : loop' = Post(loop, Event(ev, NoArg))
        BY <3>2 DEF WifiStarted, WifiDown, PostBlocking, Post
      <4>2. Event(ev, NoArg) \in Events /\ Event(ev, NoArg).ev = ev
        BY EventsTyped DEF PlainEvents, Event
      <4> QED
        BY <2>1, <4>1, <4>2, OtherPosted
    <3>3. CASE \E doc \in DocumentsOver(TbKeys) : CustomProvData(doc)
      <4>1. PICK doc \in DocumentsOver(TbKeys) : loop' = Post(loop, Event("PROV_CUSTOM_DATA", doc))
        BY <3>3 DEF CustomProvData
      <4>2. Event("PROV_CUSTOM_DATA", doc) \in Events
            /\ Event("PROV_CUSTOM_DATA", doc).ev = "PROV_CUSTOM_DATA"
        BY EventsTyped DEF Event
      <4> QED
        BY <2>1, <4>1, <4>2, OtherPosted
    <3>4. CASE NodeLink
      <4>1. CASE MqttDisconnected
        <5>1. loop' = Post(loop, Event("MQTT_DISCONNECTED", NoArg))
          BY <4>1 DEF MqttDisconnected
        <5>2. Event("MQTT_DISCONNECTED", NoArg) \in Events
              /\ Event("MQTT_DISCONNECTED", NoArg).ev = "MQTT_DISCONNECTED"
          BY EventsTyped DEF PlainEvents, Event
        <5> QED
          BY <2>1, <5>1, <5>2, OtherPosted
      <4>2. CASE ScanRow
        <5> DEFINE e == Event("MQTT_SUBSCRIBED", [topic |-> subscriptions[scan.row].topic])
        <5>1. subscriptions[scan.row] \in Rows
          BY <4>2, ElementOfSeq, LenProperties DEF ScanRow, TypeOK, MqttStateOK
        <5>2. e \in Events /\ e.ev = "MQTT_SUBSCRIBED"
          BY <5>1 DEF Event, Events, Rows
        <5>3. loop' = Post(loop, e) \/ loop' = loop
          BY <4>2 DEF ScanRow
        <5> HIDE DEF e
        <5>4. CASE loop' = Post(loop, e)
          BY <2>1, <5>2, <5>4, OtherPosted
        <5> QED
          BY <2>1, <5>3, <5>4, ReasonsStay
      <4>3. CASE ConnectFails \/ TransportError \/ ScanEnds \/ \E m \in outbox : SubackArrives(m)
        <5>1. loop' = loop
          BY <4>3 DEF ConnectFails, TransportError, ScanEnds, SubackArrives
        <5> QED
          BY <2>1, <5>1, ReasonsStay
      <4> QED
        BY <3>4, <4>1, <4>2, <4>3 DEF NodeLink
    <3> QED
      BY <1>7, <3>1, <3>2, <3>3, <3>4
  <2> QED
    BY <2>1, <2>2 DEF Life!lifeVars, InFlash
<1> QED
  BY <1>1, <1>2, <1>3, <1>4, <1>5, <1>6, <1>7 DEF Environment

(* NODE_STATE only moves for a reason of this boot, once for each, with    *)
(* the credentials and the token it was had with still in flash, for every *)
(* history of the tasks, the network and the power supply.                 *)
THEOREM LifecycleImplemented == Spec => ImplementsLifecycle
<1>1. Init => Life!Init
  <2> SUFFICES ASSUME Init
               PROVE  Life!Init
    OBVIOUS
  <2>1. loop = <<>> /\ subNext = 0 /\ NODE_STATE = "BLANK" /\ seen = {} /\ nvsReady = TRUE
    BY DEF Init, MqttInit
  <2>2. \A s : Pending(loop, Heralds(s)) = {}
    BY <2>1, EmptySeq DEF Pending
  <2>3. \A s : Cardinality(Pending(loop, Heralds(s))) = 0
    BY <2>2, FS_EmptySet
  <2>4. Reasons = Life!NoReasons
    BY <2>1, <2>3 DEF Reasons, Life!NoReasons, Life!Announced
  <2>5. InFlash = {}
    BY DEF Init, InFlash, Keys, TbKeys
  <2> QED
    BY <2>1, <2>4, <2>5 DEF Life!Init
<1>2. TypeOK /\ NodeInv /\ NodeInv' /\ [Next]_vars => [Life!Next]_(Life!lifeVars)
  <2> SUFFICES ASSUME TypeOK, NodeInv, NodeInv', [Next]_vars
               PROVE  [Life!Next]_(Life!lifeVars)
    OBVIOUS
  <2>1. CASE UNCHANGED vars
    <3>1. Reasons' = Reasons
      BY <2>1, ReasonsStay DEF vars, nodeVars, mqttVars
    <3> QED
      BY <2>1, <3>1 DEF vars, nodeVars, Life!lifeVars, InFlash
  <2> QED
    BY <2>1, HandlersImplement, EnvironmentImplements DEF Next
<1> QED
  BY <1>1, <1>2, TypeCorrect, NothingClaimedEarly, PTL
  DEF Spec, ImplementsLifecycle, Life!Spec

-----------------------------------------------------------------------------
(* The client and its token.                                               *)

\* A client that _start_client starts has read its token.
LEMMA StartAuthenticates ==
  ASSUME TypeOK, AuthenticatedClient, StartStoredClient, "heap" \notin Faults, mqtt_client'
  PROVE  running'.opts["username"] # NULL
<1>t. MqttStateOK /\ NodeStateOK
  BY TypeParts
<1>1. CASE UNCHANGED <<mqtt_client, running>>
  BY <1>1 DEF AuthenticatedClient
<1>2. CASE ~UNCHANGED <<mqtt_client, running>>
  <2> DEFINE c == SetBroker(SetQos(mqtt_config, 1), StoredBroker)
             d == SetField(c, "username", nvs["tb_token"])
  <2>1. Readable("tb_token") /\ StartClient(d)
    BY <1>2 DEF StartStoredClient, SetterOutcomes
  <2>2. Setup /\ running' = InitBroker(d)
    BY <1>2, <2>1 DEF StartClient
  <2>3. c \in Configs
    <3>1. mqtt_config \in Configs /\ 1 \in Int
      BY <1>t DEF MqttStateOK
    <3>2. StoredBroker \in Hosts
      BY <1>t DEF NodeStateOK, StoredBroker, Hosts, Readable, Keys, TbKeys
    <3>3. SetQos(mqtt_config, 1) \in Configs
      BY <3>1, SettersTyped
    <3> QED
      BY <3>2, <3>3, SettersTyped
  <2>4. d = [c EXCEPT !.opts["username"] = nvs["tb_token"]]
    BY <2>2 DEF SetField
  <2>5. d.opts["username"] = nvs["tb_token"]
    BY <2>3, <2>4, NodeAssumption DEF Configs
  <2>6. InitBroker(d).opts = d.opts
    BY <2>3, <2>4 DEF InitBroker, Configs
  <2>7. nvs["tb_token"] # NULL
    BY <2>1 DEF Readable
  <2> QED
    BY <2>2, <2>5, <2>6, <2>7
<1> QED
  BY <1>1, <1>2

(* Without a failing allocation the client never dials without the access  *)
(* token (mqtt_handler.c:99), whatever the flash holds and in whatever     *)
(* order the credentials arrive.                                           *)
THEOREM AlwaysAuthenticated == Spec => []AuthenticatedClient
<1>1. Init => AuthenticatedClient
  BY DEF Init, MqttInit, AuthenticatedClient
<1>2. TypeOK /\ AuthenticatedClient /\ [Next]_vars => AuthenticatedClient'
  <2> SUFFICES ASSUME TypeOK, AuthenticatedClient, [Next]_vars, "heap" \notin Faults,
                      mqtt_client'
               PROVE  running'.opts["username"] # NULL
    BY DEF AuthenticatedClient
  <2>1. CASE OnValidWifiCred \/ OnValidTbToken
    <3>1. StartStoredClient \/ UNCHANGED <<MQTT_STATUS, clientVars>>
      BY <2>1 DEF OnValidWifiCred, OnValidTbToken, OnContextCred
    <3> QED
      BY <3>1, StartAuthenticates DEF AuthenticatedClient, clientVars
  <2>2. CASE ~OnValidWifiCred /\ ~OnValidTbToken
    BY <2>2, ClientLeftAlone DEF AuthenticatedClient
  <2> QED
    BY <2>1, <2>2
<1> QED
  BY <1>1, <1>2, TypeCorrect, PTL DEF Spec

-----------------------------------------------------------------------------
(* The flash.                                                              *)

(* The strengthening of ResetForgets: after a clean erase and the restart  *)
(* nothing is under way that a client, a session or custom data started,   *)
(* and the queue holds the events of Wi-Fi only.                           *)
WifiEvents == {"STA_START", "STA_DISCONNECTED", "GOT_IP", "PROV_CONNECTED",
               "CTX_VALID_WIFI_CRED"}

OnlyWifi(q) == \A i \in 1..Len(q) : q[i].ev \in WifiEvents

Fresh ==
  /\ ~mqtt_client /\ session = "down" /\ ble = "off"
  /\ NODE_STATE \in {"BLANK", "VALID_WIFI_CRED"}
  /\ subNext = 0 /\ subCall = NoCall /\ outbox = {} /\ scan = NoScan
  /\ OnlyWifi(loop)

EmptyFlash == \A k \in Keys : nvs[k] = NULL

ResetInv == reset = "clean" => EmptyFlash /\ (nvsReady => Fresh)

FlashInv == AddressComesWithToken /\ ResetInv

LEMMA OnlyWifiTail ==
  ASSUME NEW q \in Seq(Events), q # <<>>, OnlyWifi(q)
  PROVE  Head(q).ev \in WifiEvents /\ OnlyWifi(Tail(q))
<1>1. Head(q) = q[1] /\ 1 \in 1..Len(q)
  BY EmptySeq, LenProperties
<1>2. \A i \in 1..Len(Tail(q)) : Tail(q)[i] = q[i + 1] /\ i + 1 \in 1..Len(q)
  BY HeadTailProperties, LenProperties
<1> QED
  BY <1>1, <1>2 DEF OnlyWifi

LEMMA OnlyWifiPost ==
  ASSUME NEW q \in Seq(Events), NEW e \in Events, OnlyWifi(q), e.ev \in WifiEvents
  PROVE  OnlyWifi(Post(q, e))
<1>1. CASE HasRoom(q)
  <2>1. \A i \in 1..Len(Append(q, e)) :
          (i \in 1..Len(q) /\ Append(q, e)[i] = q[i]) \/ Append(q, e)[i] = e
    BY AppendProperties, LenProperties
  <2> QED
    BY <1>1, <2>1 DEF Post, OnlyWifi
<1>2. CASE ~HasRoom(q)
  BY <1>2 DEF Post
<1> QED
  BY <1>1, <1>2

\* With no token in flash no event starts a client: only those of Wi-Fi are handled.
LEMMA FreshHandlers ==
  ASSUME TypeOK, EmptyFlash, Fresh, SysEvt
  PROVE  Fresh' /\ UNCHANGED nvs
<1> USE DEF flashVars, wifiVars, boundVars, nodeVars, linkVars, tableVars
<1>t. loop \in Seq(Events)
  BY DEF TypeOK
<1>h. loop # <<>> => Head(loop).ev \in WifiEvents /\ OnlyWifi(Tail(loop))
                     /\ Tail(loop) \in Seq(Events)
  BY <1>t, OnlyWifiTail, HeadTailProperties DEF Fresh
<1>1. CASE OnWifiEvent
  BY <1>1, <1>h DEF OnWifiEvent, Takes, Fresh, clientVars
<1>2. CASE OnGotIp \/ OnProvConnected
  <2>1. PICK to \in {"PROV_CONNECTED", "CTX_VALID_WIFI_CRED"} :
          loop # <<>> /\ loop' = Post(Tail(loop), Event(to, NoArg))
    BY <1>2 DEF OnGotIp, OnProvConnected, Relay, Takes
  <2>2. Event(to, NoArg) \in Events /\ Event(to, NoArg).ev = to
    BY EventsTyped DEF PlainEvents, Event
  <2>3. OnlyWifi(loop')
    BY <1>h, <2>1, <2>2, OnlyWifiPost DEF WifiEvents
  <2> QED
    BY <1>2, <2>3 DEF OnGotIp, OnProvConnected, Relay, Fresh, clientVars
<1>3. CASE OnValidWifiCred
  <2>1. ~Readable("tb_token")
    BY DEF EmptyFlash, Readable, Keys, TbKeys
  <2>2. mqtt_client' = mqtt_client
    BY <1>3, <2>1 DEF OnValidWifiCred, OnContextCred, StartStoredClient, clientVars
  <2> QED
    BY <1>3, <1>h, <2>2 DEF OnValidWifiCred, OnContextCred, Takes, Fresh
<1>4. ~(OnCustomData \/ OnValidTbToken \/ OnRegular \/ OnMqttConnected \/ OnMqttDisconnected
        \/ OnMqttSubscribed \/ OnMqttData)
  BY <1>h DEF OnCustomData, OnValidTbToken, OnContextCred, OnRegular, OnMqttConnected,
              OnMqttDisconnected, OnMqttSubscribed, OnMqttData, Takes, WifiEvents
<1>5. ~(NodeSubscribes \/ SubscribeGoesOn \/ AnnounceToken)
  BY TopicsCounted DEF NodeSubscribes, SubscribeGoesOn, SubscribeSend, SubscribeRefused,
     SubscribeRecord, AnnounceToken, Fresh, NoCall
<1> QED
  BY <1>1, <1>2, <1>3, <1>4, <1>5 DEF SysEvt

\* Nor does anything else, as long as no custom data is accepted.
LEMMA FreshEnvironment ==
  ASSUME TypeOK, Fresh, Environment, ~FactoryErase, ~Boot(creds),
         \A doc \in DocumentsOver(TbKeys) : ~CustomProvData(doc)
  PROVE  Fresh' /\ UNCHANGED nvs
<1> USE DEF flashVars, wifiVars, boundVars, nodeVars, linkVars, tableVars, clientVars
<1>t. loop \in Seq(Events)
  BY DEF TypeOK
<1>1. CASE ProvCreds \/ ProvEnd
  BY <1>1 DEF ProvCreds, ProvEnd, mqttVars, Fresh
<1>2. CASE WifiStarted \/ WifiUp \/ WifiDown
  <2>1. PICK ev \in {"STA_START", "GOT_IP", "STA_DISCONNECTED"} :
          loop' = Post(loop, Event(ev, NoArg))
    BY <1>2 DEF WifiStarted, WifiUp, WifiDown, PostBlocking, Post
  <2>2. Event(ev, NoArg) \in Events /\ Event(ev, NoArg).ev = ev
    BY EventsTyped DEF PlainEvents, Event
  <2>3. OnlyWifi(loop')
    BY <1>t, <2>1, <2>2, OnlyWifiPost DEF Fresh, WifiEvents
  <2> QED
    BY <1>2, <2>3 DEF WifiStarted, WifiUp, WifiDown, Fresh
<1>3. ~NodeConnects /\ ~NodeLink
  BY DEF NodeConnects, NodeLink, MqttConnected, ConnectFails, TransportError,
         MqttDisconnected, SubackArrives, ScanRow, ScanEnds, Fresh
<1>4. ~(\E m \in outbox, doc \in DocumentsOver(CtxKeys) : ServerAnswers(m, doc))
  BY DEF Fresh
<1>5. ~BleRegisters /\ ~Restart
  BY DEF BleRegisters, Restart, Fresh
<1> QED
  BY <1>1, <1>2, <1>3, <1>4, <1>5 DEF Environment

\* A restart after a clean erase starts afresh.
LEMMA BootIsFresh ==
  ASSUME NEW hasCreds, Boot(hasCreds)
  PROVE  Fresh'
<1>1. OnlyWifi(loop')
  BY EmptySeq DEF Boot, OnlyWifi
<1> QED
  BY <1>1 DEF Boot, Fresh

\* The handlers keep both promises ...
LEMMA HandlersKeepFlash ==
  ASSUME TypeOK, FlashInv, SysEvt
  PROVE  FlashInv'
<1>1. UNCHANGED <<nvsReady, reset>>
  BY HandlersLeaveFlash DEF OnCustomData, OnMqttData
<1>2. AddressComesWithToken'
  BY <1>1, HandlersLeaveFlash, CustomDataKeepsToken, DataKeepsToken
  DEF FlashInv, AddressComesWithToken
<1>3. ResetInv'
  <2>1. CASE reset # "clean"
    BY <1>1, <2>1 DEF ResetInv
  <2>2. CASE reset = "clean" /\ nvsReady
    <3>1. Fresh' /\ UNCHANGED nvs
      BY <2>2, FreshHandlers DEF FlashInv, ResetInv
    <3> QED
      BY <2>2, <3>1 DEF FlashInv, ResetInv, EmptyFlash
  <2>3. CASE reset = "clean" /\ ~nvsReady
    <3>1. UNCHANGED nvs
      BY <2>3, HandlersLeaveFlash, CustomDataKeepsToken, DataKeepsToken
    <3> QED
      BY <1>1, <2>3, <3>1 DEF FlashInv, ResetInv, EmptyFlash
  <2> QED
    BY <2>1, <2>2, <2>3
<1> QED
  BY <1>2, <1>3 DEF FlashInv

\* ... and so does everything else.
LEMMA EnvironmentKeepsFlash ==
  ASSUME TypeOK, FlashInv, Environment
  PROVE  FlashInv'
<1>1. CASE FactoryErase
  <2>1. ~nvsReady' /\ reset' \in {"clean", "torn"}
        /\ (reset' = "clean" => \A k \in Keys : nvs'[k] = NULL)
    BY <1>1 DEF FactoryErase, Kept
  <2> QED
    BY <2>1 DEF FlashInv, AddressComesWithToken, ResetInv, EmptyFlash, Keys, TbKeys
<1>2. CASE Restart \/ (BleRegisters /\ ~Readable("ble_content"))
  <2>1. Boot(creds) /\ UNCHANGED <<nvs, reset>>
    BY <1>2 DEF Restart, BleRegisters
  <2> QED
    BY <2>1, BootIsFresh DEF FlashInv, AddressComesWithToken, ResetInv, EmptyFlash
<1>3. ASSUME NEW doc \in DocumentsOver(TbKeys), CustomProvData(doc)
      PROVE  FlashInv'
  <2>1. UNCHANGED <<nvs, nvsReady>> /\ (reset' = "clean" => reset = "clean" /\ ~nvsReady)
        /\ (reset' = "torn" <=> reset = "torn")
    BY <1>3 DEF CustomProvData
  <2>2. reset # "torn" => reset' # "torn"
    BY <2>1
  <2> QED
    BY <2>1 DEF FlashInv, AddressComesWithToken, ResetInv, EmptyFlash
<1>4. CASE /\ ~FactoryErase /\ ~Restart /\ ~(BleRegisters /\ ~Readable("ble_content"))
           /\ \A doc \in DocumentsOver(TbKeys) : ~CustomProvData(doc)
  <2>1. UNCHANGED <<nvs, nvsReady, reset>> /\ UNCHANGED boots
    BY <1>4 DEF Environment, ProvCreds, ProvEnd, WifiStarted, WifiUp, WifiDown,
       NodeConnects, NodeLink, ServerAnswers, BleRegisters, nodeVars, flashVars, boundVars
  <2>2. ~Boot(creds)
    BY <2>1 DEF Boot, TypeOK
  <2>3. nvsReady /\ reset = "clean" => Fresh'
    BY <1>4, <2>2, FreshEnvironment DEF FlashInv, ResetInv
  <2> QED
    BY <2>1, <2>3 DEF FlashInv, AddressComesWithToken, ResetInv, EmptyFlash
<1> QED
  BY <1>1, <1>2, <1>3, <1>4

LEMMA FlashInvariant == Spec => []FlashInv
<1>1. Init => FlashInv
  BY DEF Init, FlashInv, AddressComesWithToken, ResetInv, Keys, TbKeys
<1>2. TypeOK /\ FlashInv /\ [Next]_vars => FlashInv'
  <2> SUFFICES ASSUME TypeOK, FlashInv, [Next]_vars
               PROVE  FlashInv'
    OBVIOUS
  <2>1. CASE UNCHANGED vars
    BY <2>1 DEF vars, nodeVars, mqttVars, linkVars, tableVars, clientVars, FlashInv,
       AddressComesWithToken, ResetInv, EmptyFlash, Fresh, OnlyWifi
  <2> QED
    BY <2>1, HandlersKeepFlash, EnvironmentKeepsFlash DEF Next
<1> QED
  BY <1>1, <1>2, TypeCorrect, PTL DEF Spec

(* A torn pair of writes leaves a token without an address, never the      *)
(* reverse, as long as no erase failed.                                    *)
THEOREM AddressNeverAlone == Spec => []AddressComesWithToken
  BY FlashInvariant, PTL DEF FlashInv

(* After a clean erase nothing of the old life comes back, in this boot or *)
(* a later one, before the node is given custom data again.                *)
THEOREM ResetIsFinal == Spec => []ResetForgets
<1>1. FlashInv => ResetForgets
  BY DEF FlashInv, ResetInv, EmptyFlash, Fresh, ResetForgets
<1> QED
  BY <1>1, FlashInvariant, PTL

-----------------------------------------------------------------------------
(* The rows of the table.                                                  *)

\* The connections the application has not been told of yet.
Untold(q) == Pending(q, {"MQTT_CONNECTED"})

LEMMA UntoldFinite ==
  ASSUME NEW q \in Seq(Events)
  PROVE  IsFiniteSet(Untold(q)) /\ Cardinality(Untold(q)) \in Nat
BY PendingFinite DEF Untold

\* Posting adds a connection only when it is the event posted.
LEMMA UntoldPost ==
  ASSUME NEW q \in Seq(Events), NEW e \in Events
  PROVE  /\ e.ev # "MQTT_CONNECTED" => Untold(Post(q, e)) = Untold(q)
         /\ Cardinality(Untold(Post(q, e))) <= Cardinality(Untold(q)) + 1
<1>1. Cardinality(Untold(q)) \in Nat
  BY UntoldFinite
<1>2. e.ev # "MQTT_CONNECTED" => Untold(Post(q, e)) = Untold(q)
  BY PendingPost DEF Untold
<1>3. e.ev \in {"MQTT_CONNECTED"} =>
        Cardinality(Untold(Post(q, e))) =
          Cardinality(Untold(q)) + IF HasRoom(q) THEN 1 ELSE 0
  BY PendingPost DEF Untold
<1> QED
  BY <1>1, <1>2, <1>3

\* Taking an event takes a connection only when it is that event.
LEMMA UntoldTail ==
  ASSUME NEW q \in Seq(Events), q # <<>>
  PROVE  Cardinality(Untold(Tail(q))) =
           IF Head(q).ev = "MQTT_CONNECTED" THEN Cardinality(Untold(q)) - 1
                                            ELSE Cardinality(Untold(q))
<1>1. Cardinality(Untold(Tail(q))) =
        IF Head(q).ev \in {"MQTT_CONNECTED"} THEN Cardinality(Untold(q)) - 1
                                             ELSE Cardinality(Untold(q))
  BY PendingTail DEF Untold
<1> QED
  BY <1>1

\* The rows the handler under way may still write.
RowsToCome ==
  IF subNext = 0 THEN 0
  ELSE Len(AppTopics) + 1 - subNext + IF subCall = NoCall THEN 0 ELSE 1

(* Every connection is good for as many rows as there are topics: those of *)
(* the connections still in the queue are not written yet.                 *)
RowsInd ==
  /\ subNext = 0 => subCall = NoCall
  /\ Cardinality(Untold(loop)) <= connects
  /\ Len(subscriptions) + RowsToCome
       <= Len(AppTopics) * (connects - Cardinality(Untold(loop)))

LEMMA OneMore ==
  ASSUME NEW n \in Nat, NEW d \in Nat
  PROVE  n * (d + 1) = n * d + n /\ n * d \in Nat
OBVIOUS

LEMMA NoFewer ==
  ASSUME NEW n \in Nat, NEW a \in Nat, NEW b \in Nat, a <= b
  PROVE  n * a <= n * b
<1>1. PICK k \in Nat : b = a + k
  BY b - a \in Nat
<1>2. n * b = n * a + n * k /\ n * k \in Nat /\ n * a \in Nat /\ n * b \in Nat
  BY <1>1
<1>3. \A x, y, z \in Nat : x = y + z => y <= x
  OBVIOUS
<1> QED
  BY <1>2, <1>3

\* What a step leaves of the types, and of the connections not told of.
LEMMA RowsTyped ==
  ASSUME TypeOK
  PROVE  /\ Cardinality(Untold(loop)) \in Nat /\ connects \in Nat /\ Len(AppTopics) \in Nat
         /\ Len(subscriptions) \in Nat /\ subNext \in 0..(Len(AppTopics) + 1)
         /\ loop \in Seq(Events) /\ RowsToCome \in Nat
<1>1. /\ loop \in Seq(Events) /\ connects \in Nat /\ Len(AppTopics) \in Nat
      /\ Len(subscriptions) \in Nat /\ subNext \in 0..(Len(AppTopics) + 1)
  BY MqttAssumption, TopicsCounted, LenProperties DEF TypeOK, MqttStateOK
<1>2. RowsToCome \in Nat
  BY <1>1 DEF RowsToCome
<1> QED
  BY <1>1, <1>2, UntoldFinite

RowsAlone ==
  /\ UNCHANGED <<subscriptions, subCall, subNext>>
  /\ \/ connects' = connects /\ Cardinality(Untold(loop')) = Cardinality(Untold(loop))
     \/ /\ connects' = connects + 1
        /\ Cardinality(Untold(loop')) <= Cardinality(Untold(loop)) + 1

LEMMA RowsLeftAlone ==
  ASSUME TypeOK, TypeOK', RowsInd, RowsAlone
  PROVE  RowsInd'
<1> DEFINE c == Cardinality(Untold(loop))
           e == Cardinality(Untold(loop'))
           n == Len(AppTopics)
<1>1. c \in Nat /\ connects \in Nat /\ n \in Nat /\ c <= connects
  BY RowsTyped DEF RowsInd
<1>2. e \in Nat /\ connects' \in Nat
  <2>1. loop' \in Seq(Events) /\ connects' \in Nat
    BY MqttAssumption DEF TypeOK, MqttStateOK
  <2> QED
    BY <2>1, UntoldFinite
<1>3. e <= connects' /\ connects - c \in Nat /\ connects' - e \in Nat
      /\ connects - c <= connects' - e
  BY <1>1, <1>2 DEF RowsAlone
<1>4. n * (connects - c) <= n * (connects' - e)
      /\ n * (connects - c) \in Int /\ n * (connects' - e) \in Int
  BY <1>1, <1>3, NoFewer
<1>5. /\ Len(subscriptions') = Len(subscriptions) /\ RowsToCome' = RowsToCome
      /\ Len(subscriptions) + RowsToCome \in Int
      /\ Len(subscriptions) + RowsToCome <= n * (connects - c)
  BY RowsTyped DEF RowsAlone, RowsToCome, RowsInd
<1> HIDE DEF c, e, n
<1>6. Len(subscriptions') + RowsToCome' <= n * (connects' - e)
  BY <1>4, <1>5
<1>7. (subNext = 0 => subCall = NoCall)'
  BY DEF RowsAlone, RowsInd
<1> QED
  BY <1>3, <1>6, <1>7 DEF RowsInd, c, e, n

\* The application learns of a connection: as many rows as topics may follow.
LEMMA ConnectionTold ==
  ASSUME TypeOK, RowsInd, OnMqttConnected
  PROVE  RowsInd'
<1> DEFINE c == Cardinality(Untold(loop))
           n == Len(AppTopics)
<1>1. c \in Nat /\ connects \in Nat /\ n \in Nat /\ c <= connects /\ connects - c \in Nat
  BY RowsTyped DEF RowsInd
<1>2. /\ subNext = 0 /\ subNext' = 1 /\ subCall = NoCall
      /\ UNCHANGED <<subscriptions, connects, subCall>>
      /\ loop # <<>> /\ Head(loop).ev = "MQTT_CONNECTED" /\ loop' = Tail(loop)
  BY DEF OnMqttConnected, Takes, tableVars, linkVars, RowsInd
<1>3. Cardinality(Untold(loop')) = c - 1
  BY <1>2, UntoldTail, RowsTyped
<1>4. n * (connects - (c - 1)) = n * (connects - c) + n /\ n * (connects - c) \in Nat
  <2>1. connects - (c - 1) = (connects - c) + 1
    BY <1>1
  <2> QED
    BY <1>1, <2>1, OneMore
<1>5. RowsToCome = 0 /\ RowsToCome' = n
  BY <1>1, <1>2 DEF RowsToCome
<1>6. Len(subscriptions) + 0 <= n * (connects - c) /\ Len(subscriptions) \in Nat
  BY <1>5, RowsTyped DEF RowsInd
<1> HIDE DEF c, n
<1>7. Len(subscriptions) + n <= n * (connects - (c - 1)) /\ c - 1 <= connects
  BY <1>1, <1>4, <1>6
<1> QED
  BY <1>2, <1>3, <1>5, <1>7 DEF RowsInd, c, n

\* Within the handler no row is written that was not to come.
LEMMA HandlerKeepsRows ==
  ASSUME TypeOK, RowsInd, NodeSubscribes \/ SubscribeGoesOn \/ AnnounceToken
  PROVE  RowsInd'
<1> SUFFICES /\ connects' = connects
             /\ Cardinality(Untold(loop')) = Cardinality(Untold(loop))
             /\ (subNext = 0 => subCall = NoCall)'
             /\ Len(subscriptions') \in Nat /\ RowsToCome' \in Nat
             /\ Len(subscriptions') + RowsToCome' <= Len(subscriptions) + RowsToCome
  <2>1. Len(subscriptions) + RowsToCome \in Nat /\ connects \in Nat /\ Len(AppTopics) \in Nat
        /\ Cardinality(Untold(loop)) \in Nat
    BY RowsTyped
  <2>2. Len(AppTopics) * (connects - Cardinality(Untold(loop))) \in Int
    BY <2>1
  <2> QED
    BY <2>1, <2>2 DEF RowsInd
<1>1. CASE NodeSubscribes
  <2>1. /\ subNext \in 1..Len(AppTopics) /\ subNext' = subNext + 1
        /\ UNCHANGED <<loop, subscriptions, connects>> /\ subCall = NoCall
    BY <1>1 DEF NodeSubscribes, SubscribeCheck, linkVars
  <2> QED
    BY <2>1, RowsTyped DEF RowsToCome
<1>2. CASE SubscribeGoesOn
  <2>0. subCall.step # "idle" /\ NoCall.step = "idle" /\ UNCHANGED <<loop, connects>>
    BY <1>2 DEF SubscribeGoesOn, SubscribeSend, SubscribeRefused, SubscribeRecord, linkVars,
                NoCall
  <2>1. UNCHANGED <<loop, connects, subNext>> /\ subCall # NoCall
    BY <1>2, <2>0 DEF SubscribeGoesOn, nodeVars
  <2>2. subNext # 0
    BY <2>1 DEF RowsInd
  <2>3. CASE SubscribeRecord
    <3>1. subCall' = NoCall /\ Len(subscriptions') = Len(subscriptions) + 1
      BY <2>3 DEF SubscribeRecord, TypeOK, MqttStateOK
    <3> QED
      BY <2>1, <2>2, <3>1, RowsTyped DEF RowsToCome
  <2>4. CASE SubscribeSend \/ SubscribeRefused
    <3>1. UNCHANGED subscriptions
      BY <2>4 DEF SubscribeSend, SubscribeRefused
    <3> QED
      BY <2>1, <2>2, <3>1, RowsTyped DEF RowsToCome
  <2> QED
    BY <1>2, <2>3, <2>4 DEF SubscribeGoesOn
<1>3. CASE AnnounceToken
  <2> DEFINE e == Event("CTX_VALID_TB_TOKEN", NoArg)
  <2>1. e \in Events /\ e.ev # "MQTT_CONNECTED"
    BY EventsTyped DEF PlainEvents, Event
  <2>2. Untold(Post(loop, e)) = Untold(loop)
    BY <2>1, UntoldPost, RowsTyped
  <2>3. /\ UNCHANGED <<subscriptions, connects, subCall>> /\ subCall = NoCall
        /\ subNext' = 0 /\ subNext = Len(AppTopics) + 1 /\ loop' = Post(loop, e)
    BY <1>3 DEF AnnounceToken, tableVars, linkVars
  <2> QED
    BY <2>2, <2>3, RowsTyped DEF RowsToCome
<1> QED
  BY <1>1, <1>2, <1>3

\* Queues that differ in events of other kinds only.
SameUntold(q) == Cardinality(Untold(q)) = Cardinality(Untold(loop))

LEMMA OtherEvents ==
  ASSUME TypeOK
  PROVE  /\ SameUntold(loop)
         /\ \A e \in Events : e.ev # "MQTT_CONNECTED" => SameUntold(Post(loop, e))
         /\ \A ev : Takes(ev) /\ ev # "MQTT_CONNECTED" =>
              /\ SameUntold(Tail(loop))
              /\ \A e \in Events : e.ev # "MQTT_CONNECTED" => SameUntold(Post(Tail(loop), e))
<1>1. loop \in Seq(Events)
  BY DEF TypeOK
<1>2. \A e \in Events : e.ev # "MQTT_CONNECTED" => SameUntold(Post(loop, e))
  BY <1>1, UntoldPost DEF SameUntold
<1>3. ASSUME NEW ev, Takes(ev), ev # "MQTT_CONNECTED"
      PROVE  /\ SameUntold(Tail(loop))
             /\ \A e \in Events : e.ev # "MQTT_CONNECTED" => SameUntold(Post(Tail(loop), e))
  <2>1. loop # <<>> /\ Head(loop).ev # "MQTT_CONNECTED" /\ Tail(loop) \in Seq(Events)
    BY <1>1, <1>3, HeadTailProperties DEF Takes
  <2>2. SameUntold(Tail(loop))
    BY <1>1, <2>1, UntoldTail DEF SameUntold
  <2>3. \A e \in Events : e.ev # "MQTT_CONNECTED" =>
          Untold(Post(Tail(loop), e)) = Untold(Tail(loop))
    BY <2>1, UntoldPost
  <2> QED
    BY <2>2, <2>3 DEF SameUntold
<1> QED
  BY <1>2, <1>3 DEF SameUntold

LEMMA OtherPlainEvents ==
  \A ev \in PlainEvents \ {"MQTT_CONNECTED"} :
    Event(ev, NoArg) \in Events /\ Event(ev, NoArg).ev # "MQTT_CONNECTED"
BY EventsTyped DEF Event

LEMMA HandlersLeaveRows ==
  ASSUME TypeOK, SysEvt
  PROVE  RowsAlone \/ OnMqttConnected \/ NodeSubscribes \/ SubscribeGoesOn \/ AnnounceToken
<1> USE DEF tableVars, linkVars, nodeVars
<1>1. SUFFICES ASSUME \/ OnWifiEvent \/ OnGotIp \/ OnProvConnected \/ OnCustomData
                      \/ OnValidWifiCred \/ OnValidTbToken \/ OnRegular
                      \/ OnMqttDisconnected \/ OnMqttSubscribed \/ OnMqttData
               PROVE  UNCHANGED <<subscriptions, subCall, subNext, connects>>
                      /\ SameUntold(loop')
  BY DEF SysEvt, RowsAlone, SameUntold
<1>2. CASE OnWifiEvent \/ OnCustomData \/ OnRegular \/ OnMqttDisconnected \/ OnMqttSubscribed
  <2>1. /\ loop' = Tail(loop) /\ UNCHANGED <<subscriptions, subCall, subNext, connects>>
        /\ \E ev : Takes(ev) /\ ev # "MQTT_CONNECTED"
    BY <1>2 DEF OnWifiEvent, OnCustomData, OnRegular, OnMqttDisconnected, OnMqttSubscribed
  <2> QED
    BY <2>1, OtherEvents
<1>3. CASE OnValidWifiCred \/ OnValidTbToken
  <2>1. /\ loop' = Tail(loop) /\ UNCHANGED <<subscriptions, subCall, subNext, connects>>
        /\ \E ev : Takes(ev) /\ ev # "MQTT_CONNECTED"
    BY <1>3 DEF OnValidWifiCred, OnValidTbToken, OnContextCred
  <2> QED
    BY <2>1, OtherEvents
<1>4. CASE OnGotIp \/ OnProvConnected \/ OnMqttData
  <2>1. UNCHANGED <<subscriptions, subCall, subNext, connects>>
    BY <1>4 DEF OnGotIp, OnProvConnected, Relay, OnMqttData
  <2>2. /\ \E to \in PlainEvents \ {"MQTT_CONNECTED"} : loop' = Post(Tail(loop), Event(to, NoArg))
        /\ \E ev : Takes(ev) /\ ev # "MQTT_CONNECTED"
    BY <1>4 DEF OnGotIp, OnProvConnected, Relay, OnMqttData, PlainEvents
  <2> QED
    BY <2>1, <2>2, OtherEvents, OtherPlainEvents
<1> QED
  BY <1>1, <1>2, <1>3, <1>4

\* A restart, or a step that leaves the rows alone.
LEMMA EnvironmentLeavesRows ==
  ASSUME TypeOK, Environment
  PROVE  RowsAlone \/ Boot(creds)
<1> USE DEF tableVars, linkVars, nodeVars
<1>0. loop \in Seq(Events)
  BY DEF TypeOK
<1>1. CASE ProvCreds \/ ProvEnd \/ FactoryErase \/ Restart \/ BleRegisters
  BY <1>1 DEF ProvCreds, ProvEnd, FactoryErase, Restart, BleRegisters, mqttVars, RowsAlone
<1>2. ASSUME NEW doc \in DocumentsOver(TbKeys), CustomProvData(doc) PROVE RowsAlone
  <2>1. Event("PROV_CUSTOM_DATA", doc) \in Events
        /\ Event("PROV_CUSTOM_DATA", doc).ev # "MQTT_CONNECTED"
    BY EventsTyped DEF Event
  <2> QED
    BY <1>2, <2>1, OtherEvents DEF CustomProvData, RowsAlone, SameUntold
<1>3. CASE WifiStarted \/ WifiUp \/ WifiDown
  <2>1. UNCHANGED <<subscriptions, subCall, subNext, connects>>
    BY <1>3 DEF WifiStarted, WifiUp, WifiDown
  <2>2. \E ev \in PlainEvents \ {"MQTT_CONNECTED"} : loop' = Post(loop, Event(ev, NoArg))
    BY <1>3 DEF WifiStarted, WifiUp, WifiDown, PostBlocking, Post, PlainEvents
  <2> QED
    BY <2>1, <2>2, OtherEvents, OtherPlainEvents DEF RowsAlone, SameUntold
<1>4. CASE NodeConnects
  <2> DEFINE e == Event("MQTT_CONNECTED", NoArg)
  <2>1. e \in Events
    BY EventsTyped DEF PlainEvents
  <2>2. Cardinality(Untold(Post(loop, e))) <= Cardinality(Untold(loop)) + 1
    BY <1>0, <2>1, UntoldPost
  <2>3. /\ UNCHANGED <<subscriptions, subCall, subNext>> /\ connects' = connects + 1
        /\ loop' = Post(loop, e)
    BY <1>4 DEF NodeConnects, MqttConnected
  <2> QED
    BY <2>2, <2>3 DEF RowsAlone
<1>5. CASE NodeLink
  <2>1. CASE ConnectFails
    <3>1. /\ UNCHANGED <<subscriptions, subCall, subNext, loop>> /\ connects' = connects + 1
      BY <1>5, <2>1 DEF NodeLink, ConnectFails
    <3>2. Cardinality(Untold(loop)) <= Cardinality(Untold(loop)) + 1
      BY <1>0, UntoldFinite
    <3> QED
      BY <3>1, <3>2 DEF RowsAlone
  <2>2. CASE TransportError \/ ScanEnds \/ \E m \in outbox : SubackArrives(m)
    BY <1>5, <2>2 DEF NodeLink, TransportError, ScanEnds, SubackArrives, RowsAlone
  <2>3. CASE MqttDisconnected
    <3>1. Event("MQTT_DISCONNECTED", NoArg) \in Events
          /\ Event("MQTT_DISCONNECTED", NoArg).ev # "MQTT_CONNECTED"
      BY OtherPlainEvents DEF PlainEvents
    <3> QED
      BY <1>5, <2>3, <3>1, OtherEvents DEF NodeLink, MqttDisconnected, RowsAlone, SameUntold
  <2>4. CASE ScanRow
    <3> DEFINE e == Event("MQTT_SUBSCRIBED", [topic |-> subscriptions[scan.row].topic])
    <3>1. subscriptions[scan.row] \in Rows
      BY <2>4, ElementOfSeq, LenProperties DEF ScanRow, TypeOK, MqttStateOK
    <3>2. e \in Events /\ e.ev # "MQTT_CONNECTED"
      BY <3>1 DEF Event, Events, Rows
    <3>3. SameUntold(Post(loop, e))
      BY <3>2, OtherEvents
    <3>4. UNCHANGED <<subscriptions, subCall, subNext, connects>>
          /\ (loop' = Post(loop, e) \/ loop' = loop)
      BY <1>5, <2>4 DEF NodeLink, ScanRow
    <3> HIDE DEF e
    <3> QED
      BY <3>3, <3>4 DEF RowsAlone, SameUntold
  <2> QED
    BY <1>5, <2>1, <2>2, <2>3, <2>4 DEF NodeLink
<1>6. ASSUME NEW m \in outbox, NEW doc \in DocumentsOver(CtxKeys), ServerAnswers(m, doc)
      PROVE  RowsAlone
  <2>1. Event("MQTT_DATA", doc) \in Events
        /\ Event("MQTT_DATA", doc).ev # "MQTT_CONNECTED"
    BY EventsTyped DEF Event
  <2> QED
    BY <1>6, <2>1, OtherEvents DEF ServerAnswers, RowsAlone, SameUntold
<1> QED
  BY <1>1, <1>2, <1>3, <1>4, <1>5, <1>6 DEF Environment

LEMMA NoRows ==
  ASSUME loop = <<>>, subscriptions = <<>>, subCall = NoCall, subNext = 0, connects = 0
  PROVE  RowsInd
<1>1. Untold(loop) = {}
  BY EmptySeq DEF Untold, Pending
<1>2. Cardinality(Untold(loop)) = 0
  BY <1>1, FS_EmptySet
<1>3. RowsToCome = 0 /\ Len(subscriptions) = 0
  BY DEF RowsToCome
<1>4. Len(AppTopics) * (connects - Cardinality(Untold(loop))) = 0
  BY <1>2, TopicsCounted
<1> QED
  BY <1>2, <1>3, <1>4 DEF RowsInd

LEMMA RowsNext ==
  ASSUME TypeOK, RowsInd, [Next]_vars
  PROVE  RowsInd'
<1>1. TypeOK'
  BY StepTyped
<1>2. CASE RowsAlone
  BY <1>1, <1>2, RowsLeftAlone
<1>3. CASE OnMqttConnected \/ NodeSubscribes \/ SubscribeGoesOn \/ AnnounceToken
  BY <1>3, ConnectionTold, HandlerKeepsRows
<1>4. CASE Boot(creds)
  <2>1. /\ loop' = <<>> /\ subscriptions' = <<>> /\ subCall' = NoCall /\ subNext' = 0
        /\ connects' = 0
    BY <1>4 DEF Boot, MqttBoot
  <2>2. Untold(loop') = {} /\ Len(subscriptions') = 0 /\ RowsToCome' = 0
    BY <2>1, EmptySeq DEF Untold, Pending, RowsToCome
  <2>3. Cardinality(Untold(loop')) = 0
    BY <2>2, FS_EmptySet
  <2>4. Len(AppTopics) * (connects' - Cardinality(Untold(loop'))) = 0
    BY <2>1, <2>3, TopicsCounted
  <2> QED
    BY <2>1, <2>2, <2>3, <2>4 DEF RowsInd
<1>5. CASE UNCHANGED vars
  BY <1>5 DEF vars, mqttVars, tableVars, linkVars, nodeVars, RowsInd, RowsToCome
<1> QED
  BY <1>2, <1>3, <1>4, <1>5, HandlersLeaveRows, EnvironmentLeavesRows DEF Next

(* The table holds no more rows than the application has topics for every  *)
(* connection of this boot, however the subscriptions are interleaved with *)
(* the connections, the losses of the queue and the acknowledgements.      *)
THEOREM RowsAreBounded == Spec => []RowsPerConnection
<1>1. Init => RowsInd
  BY NoRows DEF Init, MqttInit, MqttBoot
<1>2. TypeOK /\ RowsInd /\ [Next]_vars => RowsInd'
  BY RowsNext
<1>3. TypeOK /\ RowsInd => RowsPerConnection
  <2> SUFFICES ASSUME TypeOK, RowsInd PROVE RowsPerConnection
    OBVIOUS
  <2> DEFINE c == Cardinality(Untold(loop))
             n == Len(AppTopics)
  <2>1. /\ c \in Nat /\ connects \in Nat /\ n \in Nat /\ connects - c \in Nat
        /\ connects - c <= connects /\ Len(subscriptions) \in Nat /\ RowsToCome \in Nat
        /\ Len(subscriptions) + RowsToCome <= n * (connects - c)
    BY RowsTyped DEF RowsInd
  <2>2. /\ n * (connects - c) <= n * connects
        /\ n * (connects - c) \in Int /\ n * connects \in Int
    BY <2>1, NoFewer
  <2> HIDE DEF c, n
  <2>3. Len(subscriptions) <= n * connects
    BY <2>1, <2>2
  <2> QED
    BY <2>3 DEF RowsPerConnection, n
<1> QED
  BY <1>1, <1>2, <1>3, TypeCorrect, PTL DEF Spec

(* The array has a row for every subscription as long as the connections   *)
(* of this boot times the topics are at most its size: with the five       *)
(* topics of mqtt_handler.c, the first two connections.                    *)
THEOREM TableFitsAtFirst ==
  Spec => [](Len(AppTopics) * connects <= MaxSubscriptions => TableFits)
<1>1. TypeOK /\ RowsPerConnection =>
        (Len(AppTopics) * connects <= MaxSubscriptions => TableFits)
  <2> SUFFICES ASSUME TypeOK, RowsPerConnection,
                      Len(AppTopics) * connects <= MaxSubscriptions
               PROVE  TableFits
    OBVIOUS
  <2> DEFINE rows == Len(AppTopics) * connects
  <2>1. rows \in Int /\ Len(subscriptions) \in Int /\ Len(subscriptions) <= rows
    BY RowsTyped DEF RowsPerConnection
  <2>2. rows <= MaxSubscriptions
    OBVIOUS
  <2> HIDE DEF rows
  <2> QED
    BY <2>1, <2>2 DEF TableFits, MaxSubscriptions
<1> QED
  BY <1>1, TypeCorrect, RowsAreBounded, PTL

-----------------------------------------------------------------------------
(* c_mqtt.c within the node: what CMqttProofs shows of it under an         *)
(* application that calls it in any order also holds under the handlers of *)
(* the node, with its power cycles and its queue of other events.          *)

\* Whether _start_client or not, what the context handler leaves in place.
LEMMA StoredClientInd ==
  ASSUME TypeOK, MqttInd, StartStoredClient, UNCHANGED session
  PROVE  MqttInd'
<1> DEFINE q == SetQos(mqtt_config, 1)
           c == SetBroker(q, StoredBroker)
           started == /\ Readable("tb_token")
                      /\ \E user \in SetterOutcomes("username", nvs["tb_token"]) :
                           StartClient(SetField(c, "username", user))
<1>1. mqtt_config \in Configs /\ ConfigKept(mqtt_config)
  BY DEF TypeOK, MqttStateOK, MqttInd, ConfigKept
<1>2. nvs["tb_token"] \in Values \cup {NULL} /\ StoredBroker \in Hosts
  BY DEF TypeOK, StoredBroker, Hosts, Readable, Keys, TbKeys
<1>3. q \in Configs /\ ConfigKept(q)
  BY <1>1, 1 \in Int, SettersTyped, SettersKeep
<1>4. c \in Configs /\ ConfigKept(c)
  <2> HIDE DEF q
  <2> QED
    BY <1>2, <1>3, SettersTyped, SettersKeep
<1>5. CASE started
  <2>1. PICK user \in SetterOutcomes("username", nvs["tb_token"]) :
          StartClient(SetField(c, "username", user))
    BY <1>5
  <2> HIDE DEF c
  <2>2. user \in Values \cup {NULL}
    BY <1>2, <1>5, OutcomesTyped DEF Readable
  <2>3. SetField(c, "username", user) \in Configs /\ ConfigKept(SetField(c, "username", user))
    BY <1>4, <2>2, SettersTyped, SettersKeep, NodeAssumption
  <2> QED
    BY <2>1, <2>3, ConfigInd
<1>6. CASE ~started
  <2>1. mqtt_config' \in {c, q} /\ UNCHANGED <<MQTT_STATUS, mqtt_client, running>>
    BY <1>6 DEF StartStoredClient
  <2> HIDE DEF c, q
  <2> QED
    BY <1>3, <1>4, <2>1, ConfigInd
<1> QED
  BY <1>5, <1>6

\* Who touches the client, its configuration, the status and the session.
LEMMA ClientSteps ==
  ASSUME [Next]_vars
  PROVE  \/ UNCHANGED <<MQTT_STATUS, clientVars, session>>
         \/ StartStoredClient /\ UNCHANGED session
         \/ MqttTask
         \/ Boot(creds)
<1> USE DEF clientVars
<1>1. CASE OnValidWifiCred \/ OnValidTbToken
  BY <1>1 DEF OnValidWifiCred, OnValidTbToken, OnContextCred, linkVars
<1>2. CASE SysEvt /\ ~OnValidWifiCred /\ ~OnValidTbToken
  BY <1>2 DEF SysEvt, OnWifiEvent, OnGotIp, OnProvConnected, Relay, OnCustomData,
     OnRegular, OnMqttConnected, NodeSubscribes, SubscribeCheck, SubscribeGoesOn,
     SubscribeSend, SubscribeRefused, SubscribeRecord, AnnounceToken,
     OnMqttDisconnected, OnMqttSubscribed, OnMqttData, linkVars
<1>3. CASE NodeConnects \/ NodeLink
  BY <1>3 DEF NodeConnects, NodeLink, MqttTask
<1>4. CASE Environment /\ ~NodeConnects /\ ~NodeLink
  BY <1>4 DEF Environment, ProvCreds, ProvEnd, WifiStarted, WifiUp, WifiDown,
     CustomProvData, ServerAnswers, BleRegisters, FactoryErase, Restart, mqttVars, linkVars
<1>5. CASE UNCHANGED vars
  BY <1>5 DEF vars, mqttVars, linkVars
<1> QED
  BY <1>1, <1>2, <1>3, <1>4, <1>5 DEF Next

LEMMA NodeMqttInd == Spec => []MqttInd
<1>1. Init => MqttInd
  BY MqttIndInit DEF Init
<1>2. TypeOK /\ MqttInd /\ [Next]_vars => MqttInd'
  <2> SUFFICES ASSUME TypeOK, MqttInd, [Next]_vars
               PROVE  MqttInd'
    OBVIOUS
  <2>1. CASE UNCHANGED <<MQTT_STATUS, clientVars, session>>
    BY <2>1 DEF MqttInd, clientVars, RunningConfigIsCurrent, BrokerHasOneScheme,
                ConnectedMeansSession, Setup
  <2>2. CASE StartStoredClient /\ UNCHANGED session
    BY <2>2, StoredClientInd
  <2>3. CASE MqttTask
    BY <2>3, MqttTaskInd
  <2>4. CASE Boot(creds)
    BY <2>4 DEF Boot, MqttBoot, MqttInd, RunningConfigIsCurrent, BrokerHasOneScheme,
                ConnectedMeansSession, DefaultConfig, Address
  <2> QED
    BY <2>1, <2>2, <2>3, <2>4, ClientSteps
<1> QED
  BY <1>1, <1>2, TypeCorrect, PTL DEF Spec

(* In the node, too, what mqtt_config says is what the client runs with,   *)
(* the address it dials has one scheme, however often _start_client is     *)
(* called, and MQTT_STATUS says CONNECTED only while there is a session.   *)
THEOREM ClientIsSoundInNode ==
  Spec => [](RunningConfigIsCurrent /\ BrokerHasOneScheme /\ ConnectedMeansSession)
  BY NodeMqttInd, PTL DEF MqttInd

\* The status of a client that could not be made.
StartFailed == ~Setup /\ ~mqtt_client

(* When esp_mqtt_client_init fails (c_mqtt.c:298) the status has left      *)
(* MQTT_SETUP: no event gives the node a client before the next restart,   *)
(* and nothing makes the status SETUP again.                               *)
THEOREM FailedStartIsFinal == Spec => [][StartFailed => StartFailed' \/ Boot(creds)]_vars
<1>1. TypeOK /\ [Next]_vars => [StartFailed => StartFailed' \/ Boot(creds)]_vars
  <2> SUFFICES ASSUME TypeOK, [Next]_vars, StartFailed, ~Boot(creds)
               PROVE  StartFailed'
    OBVIOUS
  <2>1. CASE UNCHANGED <<MQTT_STATUS, clientVars, session>>
    BY <2>1 DEF StartFailed, Setup, clientVars
  <2>2. CASE StartStoredClient
    BY <2>2 DEF StartStoredClient, StartClient, StartFailed, Setup
  <2>3. CASE MqttTask
    BY <2>3 DEF MqttTask, MqttConnected, ConnectFails, TransportError, MqttDisconnected,
       SubackArrives, ScanRow, ScanEnds, clientVars, StartFailed, Setup
  <2> QED
    BY <2>1, <2>2, <2>3, ClientSteps
<1> QED
  BY <1>1, TypeCorrect, PTL DEF Spec

-----------------------------------------------------------------------------
(* The table and the acknowledgements within the node.                     *)

LEMMA NodeTableSteps ==
  ASSUME [Next]_vars
  PROVE  TableStep \/ Boot(creds)
<1> USE DEF TableStep, TableAlone, Subscribes, Recording, tableVars, linkVars, nodeVars
<1>1. CASE NodeSubscribes \/ SubscribeRefused
  BY <1>1 DEF NodeSubscribes, SubscribeCheck, SubscribeRefused, NoCall
<1>2. CASE SubscribeSend \/ SubscribeRecord
  BY <1>2
<1>3. CASE OnMqttSubscribed
  BY <1>3 DEF OnMqttSubscribed, Publish
<1>4. CASE SysEvt /\ ~NodeSubscribes /\ ~SubscribeGoesOn /\ ~OnMqttSubscribed
  BY <1>4 DEF SysEvt, OnWifiEvent, OnGotIp, OnProvConnected, Relay, OnCustomData,
     OnValidWifiCred, OnValidTbToken, OnContextCred, OnRegular, OnMqttConnected,
     AnnounceToken, OnMqttDisconnected, OnMqttData
<1>5. CASE NodeConnects
  BY <1>5 DEF NodeConnects, MqttConnected
<1>6. CASE NodeLink
  BY <1>6 DEF NodeLink, ConnectFails, TransportError, MqttDisconnected
<1>7. ASSUME NEW m \in outbox, NEW doc, ServerAnswers(m, doc)
      PROVE  TableAlone
  BY <1>7 DEF ServerAnswers
<1>8. CASE Environment /\ ~NodeConnects /\ ~NodeLink
           /\ ~(\E m \in outbox, doc \in DocumentsOver(CtxKeys) : ServerAnswers(m, doc))
  BY <1>8 DEF Environment, ProvCreds, ProvEnd, WifiStarted, WifiUp, WifiDown,
     CustomProvData, BleRegisters, FactoryErase, Restart, mqttVars
<1>9. CASE UNCHANGED vars
  BY <1>9 DEF vars, mqttVars
<1> QED
  BY <1>1, <1>2, <1>3, <1>4, <1>5, <1>6, <1>7, <1>8, <1>9 DEF Next, SysEvt, SubscribeGoesOn

\* A power cycle empties the table, the outbox and the queue.
LEMMA BootForgets ==
  ASSUME NEW hasCreds, Boot(hasCreds)
  PROVE  /\ SentHaveRows' /\ SubackFindsRow' /\ IdsAgree' /\ NotificationIsEarned'
BY DEF Boot, MqttBoot, SentHaveRows, Subscribes, SubackFindsRow, IdsAgree, RowsAgree,
       CallAgrees, ScanHasRow, Recording, NoCall, NotificationIsEarned

LEMMA NodeSentHaveRows == Spec => []SentHaveRows
<1>1. Init => SentHaveRows
  BY DEF Init, MqttInit, SentHaveRows, Subscribes
<1>2. TypeOK /\ SentHaveRows /\ [Next]_vars => SentHaveRows'
  BY NodeTableSteps, SentHaveRowsStep, BootForgets DEF TypeOK
<1> QED
  BY <1>1, <1>2, TypeCorrect, PTL DEF Spec

(* In the node every acknowledgement finds its row, where the mqtt task    *)
(* cannot run inside mqtt_subscribe_to_topic.                              *)
THEOREM SubackFindsRowInNode ==
  ASSUME "preempt" \notin Faults
  PROVE  Spec => []SubackFindsRow
<1>1. Init => SubackFindsRow
  BY DEF Init, MqttInit, SubackFindsRow
<1>2. TypeOK /\ SentHaveRows /\ SubackFindsRow /\ [Next]_vars => SubackFindsRow'
  BY NodeTableSteps, SubackFindsRowStep, BootForgets DEF TypeOK
<1> QED
  BY <1>1, <1>2, TypeCorrect, NodeSentHaveRows, PTL DEF Spec

LEMMA NodeIdsAgree ==
  ASSUME "collision" \notin Faults
  PROVE  Spec => []IdsAgree
<1>1. Init => IdsAgree
  BY DEF Init, MqttInit, MqttBoot, IdsAgree, RowsAgree, CallAgrees, ScanHasRow,
         Recording, NoCall
<1>2. TypeOK /\ SentHaveRows /\ IdsAgree /\ [Next]_vars => IdsAgree'
  BY NodeTableSteps, IdsAgreeStep, BootForgets DEF TypeOK
<1> QED
  BY <1>1, <1>2, TypeCorrect, NodeSentHaveRows, PTL DEF Spec

\* The handlers of the node post no SUBSCRIBED of their own ...
LEMMA HandlersEarn ==
  ASSUME TypeOK, NotificationIsEarned, SysEvt
  PROVE  NotificationIsEarned'
<1>1. loop \in Seq(Events) /\ Earned(loop, acked)
  BY DEF TypeOK, NotificationIsEarned, Earned
<1>2. acked' = acked
  BY DEF SysEvt, OnWifiEvent, OnGotIp, OnProvConnected, Relay, OnCustomData,
     OnValidWifiCred, OnValidTbToken, OnContextCred, OnRegular, OnMqttConnected,
     NodeSubscribes, SubscribeCheck, SubscribeGoesOn, SubscribeSend, SubscribeRefused,
     SubscribeRecord, AnnounceToken, OnMqttDisconnected, OnMqttSubscribed, OnMqttData,
     linkVars
<1>3. SUFFICES Earned(loop', acked)
  BY <1>2 DEF NotificationIsEarned, Earned
<1>4. loop # <<>> => Tail(loop) \in Seq(Events) /\ Earned(Tail(loop), acked)
  BY <1>1, HeadTailProperties, EarnedTail
<1>5. \A ev \in PlainEvents :
        /\ Earned(Post(loop, Event(ev, NoArg)), acked)
        /\ loop # <<>> => Earned(Post(Tail(loop), Event(ev, NoArg)), acked)
  <2>1. \A ev \in PlainEvents :
          Event(ev, NoArg) \in Events /\ Event(ev, NoArg).ev # "MQTT_SUBSCRIBED"
    BY EventsTyped DEF Event, PlainEvents
  <2> QED
    BY <1>1, <1>4, <2>1, EarnedPost
<1>6. CASE UNCHANGED loop
  BY <1>1, <1>6
<1>7. CASE loop # <<>> /\ loop' = Tail(loop)
  BY <1>4, <1>7
<1>8. CASE \E ev \in PlainEvents : loop # <<>> /\ loop' = Post(Tail(loop), Event(ev, NoArg))
  BY <1>5, <1>8
<1>9. CASE AnnounceToken
  BY <1>5, <1>9 DEF AnnounceToken, PlainEvents
<1>10. CASE NodeSubscribes \/ SubscribeGoesOn
  BY <1>6, <1>10 DEF NodeSubscribes, SubscribeCheck, SubscribeGoesOn, SubscribeSend,
     SubscribeRefused, SubscribeRecord
<1>11. CASE OnGotIp \/ OnProvConnected \/ OnMqttData
  BY <1>8, <1>11 DEF OnGotIp, OnProvConnected, Relay, OnMqttData, Takes, PlainEvents
<1>12. CASE \/ OnWifiEvent \/ OnCustomData \/ OnValidWifiCred \/ OnValidTbToken
            \/ OnRegular \/ OnMqttConnected \/ OnMqttDisconnected \/ OnMqttSubscribed
  BY <1>7, <1>12 DEF OnWifiEvent, OnCustomData, OnValidWifiCred, OnValidTbToken,
     OnContextCred, OnRegular, OnMqttConnected, OnMqttDisconnected, OnMqttSubscribed, Takes
<1> QED
  BY <1>9, <1>10, <1>11, <1>12 DEF SysEvt

\* ... nor do the other tasks, the mqtt task apart.
LEMMA EnvironmentEarns ==
  ASSUME TypeOK, IdsAgree, NotificationIsEarned, Environment
  PROVE  NotificationIsEarned'
<1>1. loop \in Seq(Events) /\ Earned(loop, acked) /\ LinkEvents \subseteq Events
  BY EventsTyped DEF TypeOK, NotificationIsEarned, Earned
<1>2. CASE NodeConnects \/ NodeLink
  <2>1. MqttTask
    BY <1>2 DEF NodeConnects, NodeLink, MqttTask
  <2>2. Earned(loop', acked')
    BY <1>1, <2>1, MqttTaskEarned DEF TypeOK
  <2> QED
    BY <2>2 DEF Earned, NotificationIsEarned
<1>3. ASSUME NEW e \in Events, e.ev # "MQTT_SUBSCRIBED", loop' = Post(loop, e), acked' = acked
      PROVE  NotificationIsEarned'
  <2>1. Earned(Post(loop, e), acked)
    BY <1>1, <1>3, EarnedPost
  <2> QED
    BY <1>3, <2>1 DEF Earned, NotificationIsEarned
<1>4. CASE WifiStarted \/ WifiUp \/ WifiDown
  <2>1. PICK ev \in PlainEvents : loop' = Post(loop, Event(ev, NoArg))
    BY <1>4 DEF WifiStarted, WifiUp, WifiDown, PostBlocking, Post, PlainEvents
  <2>2. Event(ev, NoArg) \in Events /\ Event(ev, NoArg).ev # "MQTT_SUBSCRIBED"
    BY EventsTyped DEF Event, PlainEvents
  <2>3. acked' = acked
    BY <1>4 DEF WifiStarted, WifiUp, WifiDown, linkVars
  <2> QED
    BY <1>3, <2>1, <2>2, <2>3
<1>5. ASSUME NEW doc \in DocumentsOver(TbKeys), CustomProvData(doc)
      PROVE  NotificationIsEarned'
  BY <1>3, <1>5, EventsTyped DEF CustomProvData, Event, linkVars
<1>6. ASSUME NEW m \in outbox, NEW doc \in DocumentsOver(CtxKeys), ServerAnswers(m, doc)
      PROVE  NotificationIsEarned'
  <2>1. Event("MQTT_DATA", doc) \in Events /\ Event("MQTT_DATA", doc).ev # "MQTT_SUBSCRIBED"
    BY EventsTyped DEF Event
  <2>2. acked' = acked /\ (loop' = Post(loop, Event("MQTT_DATA", doc)) \/ loop' = loop)
    BY <1>6 DEF ServerAnswers
  <2> QED
    BY <1>3, <2>1, <2>2 DEF NotificationIsEarned
<1>7. CASE BleRegisters \/ Restart
  <2>1. Boot(creds) \/ UNCHANGED mqttVars
    BY <1>7 DEF BleRegisters, Restart
  <2> QED
    BY <2>1, BootForgets DEF mqttVars, linkVars, NotificationIsEarned
<1>8. CASE ProvCreds \/ ProvEnd \/ FactoryErase
  BY <1>8 DEF ProvCreds, ProvEnd, FactoryErase, mqttVars, linkVars, NotificationIsEarned
<1> QED
  BY <1>2, <1>4, <1>5, <1>6, <1>7, <1>8 DEF Environment

(* While packet identifiers do not repeat, the SUBSCRIBED event that makes *)
(* the node ask for its attributes (mqtt_handler.c) follows an             *)
(* acknowledgement of the broker in this boot, whatever the table kept.    *)
THEOREM NotificationsAreEarnedInNode ==
  ASSUME "collision" \notin Faults
  PROVE  Spec => []NotificationIsEarned
<1>1. Init => NotificationIsEarned
  BY DEF Init, MqttInit, NotificationIsEarned
<1>2. TypeOK /\ IdsAgree /\ NotificationIsEarned /\ [Next]_vars => NotificationIsEarned'
  <2>1. UNCHANGED vars => (NotificationIsEarned' <=> NotificationIsEarned)
    BY DEF vars, mqttVars, linkVars, NotificationIsEarned
  <2> QED
    BY <2>1, HandlersEarn, EnvironmentEarns DEF Next
<1> QED
  BY <1>1, <1>2, TypeCorrect, NodeIdsAgree, PTL DEF Spec
=============================================================================
