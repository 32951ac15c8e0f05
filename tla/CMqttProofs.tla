----------------------------- MODULE CMqttProofs -----------------------------
(***************************************************************************)
(* What holds of c_mqtt.c for every configuration: any topics, fields and  *)
(* values, any number of connections, any queue, any of the faults.        *)
(***************************************************************************)
EXTENDS CMqtt, SequenceTheorems, TLAPS

-----------------------------------------------------------------------------
(* The event queue.                                                        *)

\* Posting keeps a queue typed and within its capacity.
LEMMA PostTyped ==
  ASSUME NEW E, NEW q \in Seq(E), NEW e \in E, Len(q) <= QueueSize
  PROVE  Post(q, e) \in Seq(E) /\ Len(Post(q, e)) <= QueueSize
  BY QueueSizeAssumption, AppendProperties, LenProperties DEF Post, HasRoom

\* So does taking the first event.
LEMMA TailTyped ==
  ASSUME NEW E, NEW q \in Seq(E), q # <<>>, Len(q) <= QueueSize
  PROVE  Tail(q) \in Seq(E) /\ Len(Tail(q)) <= QueueSize /\ Head(q) \in E
  BY QueueSizeAssumption, HeadTailProperties, LenProperties

-----------------------------------------------------------------------------
(* Types.                                                                  *)

Hosts == Values \cup {NULL, Garbage}

\* The setters and _init_broker return configurations.
LEMMA SettersTyped ==
  ASSUME NEW c \in Configs
  PROVE  /\ \A f \in Fields, v \in Values \cup {NULL} : SetField(c, f, v) \in Configs
         /\ \A h \in Hosts : SetBroker(c, h) \in Configs
         /\ \A q \in Int : SetQos(c, q) \in Configs
         /\ InitBroker(c) \in Configs
<1>1. \A f \in Fields, v \in Values \cup {NULL} : SetField(c, f, v) \in Configs
  BY DEF SetField, Configs
<1>2. \A h \in Hosts : SetBroker(c, h) \in Configs
  BY DEF SetBroker, Configs, Address, Hosts
<1>3. \A q \in Int : SetQos(c, q) \in Configs
  BY DEF SetQos, Configs
<1>4. InitBroker(c) \in Configs
  BY DEF InitBroker, Configs
<1> QED
  BY <1>1, <1>2, <1>3, <1>4

LEMMA DefaultTyped == DefaultConfig \in Configs
  BY DEF DefaultConfig, Configs, Address

\* mqtt_start_client keeps the types of what it assigns.
LEMMA StartClientTyped ==
  ASSUME MqttStateOK, NEW c \in Configs, StartClient(c)
  PROVE  /\ MQTT_STATUS' \in MqttStatuses /\ mqtt_client' \in BOOLEAN
         /\ mqtt_config' \in Configs /\ running' \in Configs
  BY SettersTyped DEF StartClient, MqttStateOK, MqttStatuses

\* What a setter may leave in a field is a value or nothing.
LEMMA OutcomesTyped ==
  ASSUME NEW f, NEW v \in Values, NEW w \in SetterOutcomes(f, v)
  PROVE  w \in Values \cup {NULL}
  BY DEF SetterOutcomes

\* A subscription under way keeps the types.
LEMMA SubscribeTyped ==
  ASSUME MqttStateOK, SubscribeSend \/ SubscribeRefused \/ SubscribeRecord
  PROVE  MqttStateOK'
<1>1. CASE SubscribeSend
  <2>1. PICK id \in NextIds :
          /\ outbox' = outbox \cup
               {[kind |-> "SUBSCRIBE", msg_id |-> id, topic |-> subCall.topic]}
          /\ subCall' = [subCall EXCEPT !.step = "record", !.msg_id = id]
    BY <1>1 DEF SubscribeSend
  <2>2. id \in MsgIds
    <3>1. NextIds \subseteq MsgIds \cup FreshIds
      BY Zenon DEF NextIds
    <3>2. FreshIds \subseteq MsgIds
      BY DEF FreshIds
    <3> QED
      BY <3>1, <3>2
  <2>3. subCall \in [step : {"send"}, topic : Topics, msg_id : {NULL}]
    <3>1. subCall.step = "send" /\ subCall \in Calls
      BY <1>1 DEF SubscribeSend, MqttStateOK
    <3> QED
      BY <3>1 DEF Calls, NoCall
  <2>4. subCall' \in Calls
    <3>1. subCall' = [step |-> "record", topic |-> subCall.topic, msg_id |-> id]
      BY <2>1, <2>3
    <3> QED
      BY <2>2, <2>3, <3>1 DEF Calls
  <2>5. outbox' \subseteq Packets
    BY <2>1, <2>2, <2>3 DEF Packets, MqttStateOK
  <2> QED
    BY <1>1, <2>4, <2>5 DEF SubscribeSend, MqttStateOK, clientVars
<1>2. CASE SubscribeRefused
  BY <1>2 DEF SubscribeRefused, MqttStateOK, clientVars, linkVars, Calls
<1>3. CASE SubscribeRecord
  <2>1. subCall \in [step : {"record"}, topic : Topics, msg_id : MsgIds]
    BY <1>3 DEF SubscribeRecord, MqttStateOK, Calls, NoCall
  <2>2. subscriptions' \in Seq(Rows)
    BY <1>3, <2>1, AppendProperties DEF SubscribeRecord, RecordedRow, Rows, MqttStateOK
  <2> QED
    BY <1>3, <2>2 DEF SubscribeRecord, MqttStateOK, clientVars, linkVars, Calls
<1> QED
  BY <1>1, <1>2, <1>3

LEMMA CheckTyped ==
  ASSUME MqttStateOK, NEW t \in Topics, SubscribeCheck(t)
  PROVE  MqttStateOK'
  BY DEF SubscribeCheck, MqttStateOK, clientVars, linkVars, Calls

LEMMA PublishTyped ==
  ASSUME outbox \subseteq Packets, NEW t \in Topics, Publish(t)
  PROVE  outbox' \subseteq Packets
  BY DEF Publish, Packets

\* So does every callback of the mqtt task.
LEMMA MqttTaskTyped ==
  ASSUME MqttStateOK, MqttTask
  PROVE  MqttStateOK'
<1> USE MqttAssumption DEF MqttStateOK, clientVars, tableVars, MqttStatuses
<1>1. CASE MqttConnected
  BY <1>1 DEF MqttConnected
<1>2. CASE ConnectFails
  BY <1>2 DEF ConnectFails
<1>3. CASE TransportError
  BY <1>3 DEF TransportError
<1>4. CASE MqttDisconnected
  BY <1>4 DEF MqttDisconnected
<1>5. ASSUME NEW m \in outbox, SubackArrives(m)
      PROVE  MqttStateOK'
  BY <1>5 DEF SubackArrives, Packets
<1>6. CASE ScanRow
  BY <1>6 DEF ScanRow
<1>7. CASE ScanEnds
  BY <1>7 DEF ScanEnds, NoScan
<1> QED
  BY <1>1, <1>2, <1>3, <1>4, <1>5, <1>6, <1>7 DEF MqttTask

\* What the mqtt task posts, whatever else the queue may hold.
LinkEvents == [ev : {"MQTT_CONNECTED", "MQTT_DISCONNECTED"}, arg : {NoArg}]
              \cup [ev : {"MQTT_SUBSCRIBED"}, arg : [topic : Topics]]

LEMMA MqttTaskQueue ==
  ASSUME NEW E, LinkEvents \subseteq E, MqttStateOK,
         loop \in Seq(E), Len(loop) <= QueueSize, MqttTask
  PROVE  loop' \in Seq(E) /\ Len(loop') <= QueueSize
<1>1. CASE MqttConnected
  <2>1. Event("MQTT_CONNECTED", NoArg) \in E
    BY DEF Event, LinkEvents
  <2> QED
    BY <1>1, <2>1, PostTyped DEF MqttConnected
<1>2. CASE MqttDisconnected
  <2>1. Event("MQTT_DISCONNECTED", NoArg) \in E
    BY DEF Event, LinkEvents
  <2> QED
    BY <1>2, <2>1, PostTyped DEF MqttDisconnected
<1>3. CASE ScanRow
  <2> DEFINE row == subscriptions[scan.row]
  <2>1. row \in Rows
    BY <1>3, ElementOfSeq, LenProperties DEF ScanRow, MqttStateOK
  <2>2. Event("MQTT_SUBSCRIBED", [topic |-> row.topic]) \in E
    BY <2>1 DEF Event, LinkEvents, Rows
  <2> QED
    BY <1>3, <2>2, PostTyped DEF ScanRow
<1>4. CASE ConnectFails \/ TransportError \/ ScanEnds \/ \E m \in outbox : SubackArrives(m)
  BY <1>4 DEF ConnectFails, TransportError, ScanEnds, SubackArrives
<1> QED
  BY <1>1, <1>2, <1>3, <1>4 DEF MqttTask

-----------------------------------------------------------------------------
(* The component under an application that calls the API in any order.     *)

LEMMA MqttInitTyped == MqttInit => MqttTypeOK
<1> SUFFICES ASSUME MqttInit
             PROVE  MqttTypeOK
  OBVIOUS
<1>1. MqttStateOK
  <2>1. subscriptions \in Seq(Rows) /\ outbox \subseteq Packets /\ acked \subseteq Topics
    BY EmptySeq DEF MqttInit, MqttBoot
  <2>2. scan \in [msg_id : MsgIds \cup {NULL}, row : Nat \ {0}] /\ subCall \in Calls
    BY DEF MqttInit, NoScan, Calls
  <2>3. connects \in 0..MaxConnects
    BY MqttAssumption DEF MqttInit
  <2> QED
    BY DefaultTyped, <2>1, <2>2, <2>3 DEF MqttInit, MqttBoot, MqttStateOK, MqttStatuses
<1>2. loop \in Seq(MqttEvents) /\ Len(loop) <= QueueSize
  BY EmptySeq, QueueSizeAssumption DEF MqttInit
<1> QED
  BY <1>1, <1>2 DEF MqttTypeOK

LEMMA MqttStepTyped == MqttTypeOK /\ [MqttNext]_mqttVars => MqttTypeOK'
<1> SUFFICES ASSUME MqttTypeOK, [MqttNext]_mqttVars
             PROVE  MqttTypeOK'
  OBVIOUS
<1> USE DEF MqttTypeOK
<1>1. ASSUME NEW f \in Fields, NEW v \in Values, AppSetField(f, v)
      PROVE  MqttTypeOK'
  <2>1. mqtt_config' \in Configs
    <3>1. PICK w \in SetterOutcomes(f, v) : mqtt_config' = SetField(mqtt_config, f, w)
      BY <1>1 DEF AppSetField
    <3>2. w \in Values \cup {NULL}
      BY OutcomesTyped
    <3> QED
      BY <3>1, <3>2, SettersTyped DEF MqttStateOK
  <2> QED
    BY <1>1, <2>1 DEF AppSetField, MqttStateOK, tableVars, linkVars
<1>2. ASSUME NEW v \in Values, AppSetBroker(v)
      PROVE  MqttTypeOK'
  <2>1. mqtt_config' \in Configs
    BY <1>2, SettersTyped DEF AppSetBroker, MqttStateOK, Hosts
  <2> QED
    BY <1>2, <2>1 DEF AppSetBroker, MqttStateOK, tableVars, linkVars
<1>3. ASSUME NEW q \in -1..3, AppSetQos(q)
      PROVE  MqttTypeOK'
  <2>1. mqtt_config' \in Configs
    <3>1. q \in Int /\ mqtt_config' = SetQos(mqtt_config, q)
      BY <1>3 DEF AppSetQos
    <3> QED
      BY <3>1, SettersTyped DEF MqttStateOK
  <2> QED
    BY <1>3, <2>1 DEF AppSetQos, MqttStateOK, tableVars, linkVars
<1>4. CASE AppStart
  <2>1. /\ MQTT_STATUS' \in MqttStatuses /\ mqtt_client' \in BOOLEAN
        /\ mqtt_config' \in Configs /\ running' \in Configs
    BY <1>4, StartClientTyped DEF AppStart, MqttStateOK
  <2> QED
    BY <1>4, <2>1 DEF AppStart, MqttStateOK, tableVars, linkVars
<1>5. CASE AppStop
  BY <1>5, DefaultTyped DEF AppStop, MqttStateOK, MqttStatuses, tableVars
<1>6. ASSUME NEW t \in Topics, AppSubscribe(t)
      PROVE  MqttTypeOK'
  BY <1>6, CheckTyped DEF AppSubscribe, SubscribeCheck
<1>7. ASSUME NEW t \in Topics, AppPublish(t)
      PROVE  MqttTypeOK'
  <2>1. outbox' \subseteq Packets
    BY <1>7, PublishTyped DEF AppPublish, MqttStateOK
  <2> QED
    BY <1>7, <2>1 DEF AppPublish, MqttStateOK, clientVars, tableVars
<1>8. CASE SubscribeSend \/ SubscribeRefused \/ SubscribeRecord
  BY <1>8, SubscribeTyped DEF SubscribeSend, SubscribeRefused, SubscribeRecord
<1>9. CASE AppTakesEvent
  BY <1>9, TailTyped DEF AppTakesEvent, MqttStateOK, clientVars, tableVars, linkVars
<1>10. CASE MqttTask
  <2>1. LinkEvents \subseteq MqttEvents
    BY DEF LinkEvents, MqttEvents
  <2> QED
    BY <1>10, <2>1, MqttTaskTyped, MqttTaskQueue
<1>11. ASSUME NEW m \in outbox, PubackArrives(m)
       PROVE  MqttTypeOK'
  BY <1>11 DEF PubackArrives, MqttStateOK, clientVars, tableVars
<1>12. ASSUME NEW t \in Topics, DataArrives([topic |-> t])
       PROVE  MqttTypeOK'
  <2>1. Event("MQTT_DATA", [topic |-> t]) \in MqttEvents
    BY DEF Event, MqttEvents
  <2> QED
    BY <1>12, <2>1, PostTyped
    DEF DataArrives, MqttStateOK, clientVars, tableVars, linkVars
<1>13. CASE UNCHANGED mqttVars
  BY <1>13 DEF mqttVars, clientVars, tableVars, linkVars, MqttStateOK
<1> QED
  BY <1>1, <1>2, <1>3, <1>4, <1>5, <1>6, <1>7, <1>8, <1>9, <1>10, <1>11, <1>12, <1>13
  DEF MqttNext

\* The types of CMqtt, and the capacity of the queue.
THEOREM MqttTypeCorrect == MqttSpec => []MqttTypeOK
<1>1. MqttInit => MqttTypeOK
  BY MqttInitTyped
<1>2. MqttTypeOK /\ [MqttNext]_mqttVars => MqttTypeOK'
  BY MqttStepTyped
<1> QED
  BY <1>1, <1>2, PTL DEF MqttSpec

(* The invariant under the configuration and the status: before the client *)
(* exists the address has no scheme, and without a client no session.      *)
MqttInd ==
  /\ Setup => ~mqtt_client /\ mqtt_config.broker.schemes = 0
  /\ ~mqtt_client => session = "down"
  /\ RunningConfigIsCurrent
  /\ BrokerHasOneScheme
  /\ ConnectedMeansSession

\* What mqtt_config may become without a step that starts or stops the client.
ConfigKept(c) ==
  IF Setup THEN c.broker.schemes = 0
           ELSE c.opts = mqtt_config.opts /\ c.broker = mqtt_config.broker

LEMMA SettersKeep ==
  ASSUME NEW c \in Configs, ConfigKept(c)
  PROVE  /\ \A f \in Fields, v \in Values \cup {NULL} : ConfigKept(SetField(c, f, v))
         /\ \A h \in Hosts : ConfigKept(SetBroker(c, h))
         /\ \A q \in Int : ConfigKept(SetQos(c, q))
<1>1. \A f \in Fields, v \in Values \cup {NULL} : ConfigKept(SetField(c, f, v))
  BY DEF ConfigKept, SetField, Configs
<1>2. \A h \in Hosts : ConfigKept(SetBroker(c, h))
  BY DEF ConfigKept, SetBroker, Address, Configs
<1>3. \A q \in Int : ConfigKept(SetQos(c, q))
  BY DEF ConfigKept, SetQos, Configs
<1> QED
  BY <1>1, <1>2, <1>3

\* The invariant is kept by the setters and mqtt_start_client ...
LEMMA ConfigInd ==
  ASSUME MqttInd, NEW c \in Configs, ConfigKept(c), UNCHANGED session,
         \/ StartClient(c)
         \/ mqtt_config' = c /\ UNCHANGED <<MQTT_STATUS, mqtt_client, running>>
  PROVE  MqttInd'
<1> USE DEF MqttInd, RunningConfigIsCurrent, BrokerHasOneScheme, ConnectedMeansSession,
            Setup, ConfigKept
<1>1. CASE StartClient(c)
  <2>1. InitBroker(c).broker.schemes = c.broker.schemes + 1
    BY DEF InitBroker, Configs
  <2> QED
    BY <1>1, <2>1 DEF StartClient
<1>2. CASE mqtt_config' = c /\ UNCHANGED <<MQTT_STATUS, mqtt_client, running>>
  BY <1>2
<1> QED
  BY <1>1, <1>2

\* ... by the callbacks of the mqtt task, whoever the application is ...
LEMMA MqttTaskInd == MqttInd /\ MqttTask => MqttInd'
  BY DEF MqttInd, RunningConfigIsCurrent, BrokerHasOneScheme, ConnectedMeansSession, Setup,
         MqttTask, MqttConnected, ConnectFails, TransportError, MqttDisconnected,
         SubackArrives, ScanRow, ScanEnds, clientVars

\* ... and by the calls.
LEMMA MqttIndStep ==
  MqttTypeOK /\ MqttInd /\ [MqttNext]_mqttVars => MqttInd'
<1> SUFFICES ASSUME MqttTypeOK, MqttInd, [MqttNext]_mqttVars
             PROVE  MqttInd'
  OBVIOUS
<1>c. mqtt_config \in Configs /\ ConfigKept(mqtt_config)
  BY DEF MqttTypeOK, MqttStateOK, MqttInd, ConfigKept
<1>1. ASSUME NEW f \in Fields, NEW v \in Values, AppSetField(f, v)
      PROVE  MqttInd'
  <2>1. PICK w \in SetterOutcomes(f, v) : mqtt_config' = SetField(mqtt_config, f, w)
    BY <1>1 DEF AppSetField
  <2>2. w \in Values \cup {NULL}
    BY OutcomesTyped
  <2>3. mqtt_config' \in Configs /\ ConfigKept(mqtt_config')
    BY <1>c, <2>1, <2>2, SettersTyped, SettersKeep
  <2> QED
    BY <1>1, <2>3, ConfigInd DEF AppSetField, linkVars
<1>2. ASSUME NEW v \in Values, AppSetBroker(v)
      PROVE  MqttInd'
  <2>1. mqtt_config' \in Configs /\ ConfigKept(mqtt_config')
    BY <1>2, <1>c, SettersTyped, SettersKeep DEF AppSetBroker, Hosts
  <2> QED
    BY <1>2, <2>1, ConfigInd DEF AppSetBroker, linkVars
<1>3. ASSUME NEW q \in -1..3, AppSetQos(q)
      PROVE  MqttInd'
  <2>1. q \in Int /\ mqtt_config' = SetQos(mqtt_config, q)
    BY <1>3 DEF AppSetQos
  <2>2. mqtt_config' \in Configs /\ ConfigKept(mqtt_config')
    BY <1>c, <2>1, SettersTyped, SettersKeep
  <2> QED
    BY <1>3, <2>2, ConfigInd DEF AppSetQos, linkVars
<1>4. CASE AppStart
  BY <1>4, <1>c, ConfigInd DEF AppStart, linkVars
<1> USE DEF MqttInd, RunningConfigIsCurrent, BrokerHasOneScheme, ConnectedMeansSession, Setup
<1>5. CASE AppStop
  BY <1>5 DEF AppStop, DefaultConfig, Address
<1>6. CASE MqttTask
  BY <1>6, MqttTaskInd
<1>7. CASE SubscribeSend \/ SubscribeRefused \/ SubscribeRecord \/ AppTakesEvent
  <2>1. UNCHANGED <<MQTT_STATUS, clientVars, session>>
    BY <1>7 DEF SubscribeSend, SubscribeRefused, SubscribeRecord, AppTakesEvent, linkVars
  <2> QED
    BY <2>1 DEF clientVars
<1>8. ASSUME NEW t \in Topics,
             AppSubscribe(t) \/ AppPublish(t) \/ DataArrives([topic |-> t])
      PROVE  MqttInd'
  BY <1>8 DEF AppSubscribe, SubscribeCheck, AppPublish, DataArrives, clientVars, linkVars
<1>9. ASSUME NEW m \in outbox, PubackArrives(m)
      PROVE  MqttInd'
  BY <1>9 DEF PubackArrives, clientVars
<1>10. CASE UNCHANGED mqttVars
  BY <1>10 DEF mqttVars, clientVars, linkVars
<1> QED
  BY <1>1, <1>2, <1>3, <1>4, <1>5, <1>6, <1>7, <1>8, <1>9, <1>10 DEF MqttNext

LEMMA MqttIndInit == MqttInit => MqttInd
  BY DEF MqttInit, MqttBoot, MqttInd, RunningConfigIsCurrent, BrokerHasOneScheme,
         ConnectedMeansSession, DefaultConfig, Address

LEMMA MqttIndInvariant == MqttSpec => []MqttInd
<1>1. MqttInit => MqttInd
  BY MqttIndInit
<1>2. MqttTypeOK /\ MqttInd /\ [MqttNext]_mqttVars => MqttInd'
  BY MqttIndStep
<1> QED
  BY <1>1, <1>2, MqttTypeCorrect, PTL DEF MqttSpec

(* c_mqtt.h:56,62,68: nothing that is set after the start can make what is *)
(* configured differ from what runs.                                       *)
THEOREM ConfigIsCurrent == MqttSpec => []RunningConfigIsCurrent
  BY MqttIndInvariant, PTL DEF MqttInd

\* The address dialled has one scheme, however often the client is restarted.
THEOREM OneScheme == MqttSpec => []BrokerHasOneScheme
  BY MqttIndInvariant, PTL DEF MqttInd

\* MQTT_STATUS says CONNECTED only while there is a session.
THEOREM StatusIsHonest == MqttSpec => []ConnectedMeansSession
  BY MqttIndInvariant, PTL DEF MqttInd
-----------------------------------------------------------------------------
(* Subscriptions and their acknowledgements.                               *)

Recording == subCall.step = "record"
Subscribes == {m \in outbox : m.kind = "SUBSCRIBE"}

\* A step that leaves the table, the acknowledgements and their look-up alone.
TableAlone ==
  /\ UNCHANGED <<subscriptions, scan, acked>>
  /\ Subscribes' \subseteq Subscribes
  /\ UNCHANGED subCall \/ (~Recording /\ ~Recording')

\* What may happen to the table while the power is on.
TableStep ==
  \/ TableAlone \/ SubscribeSend \/ SubscribeRecord
  \/ (\E m \in outbox : SubackArrives(m)) \/ ScanRow \/ ScanEnds

LEMMA TableSteps == [MqttNext]_mqttVars => TableStep
<1> SUFFICES ASSUME [MqttNext]_mqttVars
             PROVE  TableStep
  OBVIOUS
<1> USE DEF TableStep, TableAlone, Subscribes, Recording, tableVars, linkVars
<1>1. ASSUME NEW f \in Fields, NEW v \in Values, AppSetField(f, v) PROVE TableAlone
  BY <1>1 DEF AppSetField
<1>2. ASSUME NEW v \in Values, AppSetBroker(v) PROVE TableAlone
  BY <1>2 DEF AppSetBroker
<1>3. ASSUME NEW q \in -1..3, AppSetQos(q) PROVE TableAlone
  BY <1>3 DEF AppSetQos
<1>4. CASE AppStart \/ AppStop \/ AppTakesEvent
  BY <1>4 DEF AppStart, AppStop, AppTakesEvent
<1>5. ASSUME NEW t \in Topics, AppSubscribe(t) PROVE TableAlone
  BY <1>5 DEF AppSubscribe, SubscribeCheck, NoCall
<1>6. ASSUME NEW t \in Topics, AppPublish(t) PROVE TableAlone
  BY <1>6 DEF AppPublish, Publish
<1>7. CASE SubscribeRefused
  BY <1>7 DEF SubscribeRefused, NoCall
<1>8. CASE MqttConnected \/ ConnectFails \/ TransportError
  BY <1>8 DEF MqttConnected, ConnectFails, TransportError
<1>9. CASE MqttDisconnected
  BY <1>9 DEF MqttDisconnected
<1>10. ASSUME NEW m \in outbox, PubackArrives(m) PROVE TableAlone
  BY <1>10 DEF PubackArrives
<1>11. ASSUME NEW t \in Topics, DataArrives([topic |-> t]) PROVE TableAlone
  BY <1>11 DEF DataArrives
<1>12. CASE UNCHANGED mqttVars
  BY <1>12 DEF mqttVars
<1> QED
  BY <1>1, <1>2, <1>3, <1>4, <1>5, <1>6, <1>7, <1>8, <1>9, <1>10, <1>11, <1>12
  DEF MqttNext, MqttTask

\* The row a SUBSCRIBE will be looked up by is in the table, or about to be.
HasRow(id) == id \in RowIds \/ (Recording /\ id = subCall.msg_id)
SentHaveRows == \A m \in Subscribes : HasRow(m.msg_id)

\* A row is added, and the others stay where they are.
LEMMA RowRecorded ==
  ASSUME MqttStateOK, SubscribeRecord
  PROVE  /\ Len(subscriptions) \in Nat /\ Len(subscriptions') = Len(subscriptions) + 1
         /\ subscriptions'[Len(subscriptions) + 1].msg_id = subCall.msg_id
         /\ subscriptions'[Len(subscriptions) + 1].topic = subCall.topic
         /\ \A i \in 1..Len(subscriptions) : subscriptions'[i] = subscriptions[i]
         /\ RowIds' = RowIds \cup {subCall.msg_id}
<1> DEFINE n == Len(subscriptions)
<1>1. n \in Nat /\ subscriptions' = Append(subscriptions, RecordedRow)
  BY DEF MqttStateOK, SubscribeRecord
<1>2. /\ Len(subscriptions') = n + 1 /\ subscriptions'[n + 1] = RecordedRow
      /\ \A i \in 1..n : subscriptions'[i] = subscriptions[i]
  BY <1>1 DEF MqttStateOK
<1>3. RecordedRow.msg_id = subCall.msg_id /\ RecordedRow.topic = subCall.topic
  BY DEF RecordedRow
<1> HIDE DEF n
<1>4. RowIds' = RowIds \cup {subCall.msg_id}
  <2>1. 1..(n + 1) = 1..n \cup {n + 1}
    BY <1>1 DEF n
  <2>2. RowIds' = {subscriptions'[i].msg_id : i \in 1..(n + 1)}
    BY <1>2 DEF RowIds
  <2>3. RowIds = {subscriptions[i].msg_id : i \in 1..n}
    BY DEF RowIds, n
  <2> QED
    BY <1>2, <1>3, <2>1, <2>2, <2>3
<1> QED
  BY <1>1, <1>2, <1>3, <1>4 DEF n

LEMMA RecordEnds ==
  ASSUME SubscribeRecord
  PROVE  Recording /\ ~Recording' /\ UNCHANGED <<outbox, Subscribes, scan, acked>>
BY DEF SubscribeRecord, Recording, NoCall, linkVars, Subscribes

LEMMA SendBegins ==
  ASSUME MqttStateOK, SubscribeSend
  PROVE  /\ ~Recording /\ Recording' /\ UNCHANGED <<subscriptions, scan, acked>>
         /\ \E id \in NextIds :
              /\ subCall'.msg_id = id
              /\ \A m \in Subscribes' :
                   m \in Subscribes \/ (m.msg_id = id /\ m.topic = subCall'.topic)
<1>1. subCall \in [step : {"send"}, topic : Topics, msg_id : {NULL}]
  BY DEF SubscribeSend, MqttStateOK, Calls, NoCall
<1>2. PICK id \in NextIds :
        /\ outbox' = outbox \cup
             {[kind |-> "SUBSCRIBE", msg_id |-> id, topic |-> subCall.topic]}
        /\ subCall' = [subCall EXCEPT !.step = "record", !.msg_id = id]
  BY DEF SubscribeSend
<1>3. subCall'.msg_id = id /\ subCall'.step = "record" /\ subCall'.topic = subCall.topic
  BY <1>1, <1>2
<1>4. \A m \in Subscribes' :
        m \in Subscribes \/ (m.msg_id = id /\ m.topic = subCall'.topic)
  BY <1>2, <1>3 DEF Subscribes
<1> QED
  BY <1>3, <1>4 DEF SubscribeSend, Recording

LEMMA ScanGoesOn ==
  ASSUME MqttStateOK, ScanRow
  PROVE  /\ scan # NoScan /\ scan'.msg_id = scan.msg_id
         /\ UNCHANGED <<subscriptions, subCall, outbox, acked>>
BY DEF ScanRow, MqttStateOK, tableVars

LEMMA SentHaveRowsStep ==
  ASSUME MqttStateOK, SentHaveRows, TableStep
  PROVE  SentHaveRows'
<1> USE DEF SentHaveRows, HasRow
<1>1. CASE TableAlone
  BY <1>1 DEF TableAlone, RowIds, Recording
<1>2. CASE SubscribeSend
  BY <1>2, SendBegins DEF RowIds
<1>3. CASE SubscribeRecord
  BY <1>3, RowRecorded, RecordEnds
<1>4. CASE \E m \in outbox : SubackArrives(m)
  BY <1>4 DEF SubackArrives, Subscribes, RowIds, Recording, tableVars
<1>5. CASE ScanRow \/ ScanEnds
  BY <1>5 DEF ScanRow, ScanEnds, Subscribes, RowIds, Recording, tableVars
<1> QED
  BY <1>1, <1>2, <1>3, <1>4, <1>5 DEF TableStep

LEMMA SentHaveRowsAlways == MqttSpec => []SentHaveRows
<1>1. MqttInit => SentHaveRows
  BY DEF MqttInit, SentHaveRows, Subscribes
<1>2. MqttTypeOK /\ SentHaveRows /\ [MqttNext]_mqttVars => SentHaveRows'
  BY SentHaveRowsStep, TableSteps DEF MqttTypeOK
<1> QED
  BY <1>1, <1>2, MqttTypeCorrect, PTL DEF MqttSpec

LEMMA SubackFindsRowStep ==
  ASSUME MqttStateOK, SentHaveRows, SubackFindsRow, TableStep, "preempt" \notin Faults
  PROVE  SubackFindsRow'
<1> USE DEF SubackFindsRow
<1>1. CASE TableAlone
  BY <1>1 DEF TableAlone, RowIds
<1>2. CASE SubscribeSend
  BY <1>2, SendBegins DEF RowIds
<1>3. CASE SubscribeRecord
  BY <1>3, RowRecorded, RecordEnds
<1>4. ASSUME NEW m \in outbox, SubackArrives(m) PROVE SubackFindsRow'
  <2>1. m \in Subscribes /\ ~Recording /\ scan'.msg_id = m.msg_id
    BY <1>4 DEF SubackArrives, Subscribes, MqttTaskRuns, Recording
  <2>2. m.msg_id \in RowIds
    BY <2>1 DEF SentHaveRows, HasRow
  <2> QED
    BY <1>4, <2>1, <2>2 DEF SubackArrives, RowIds, tableVars
<1>5. CASE ScanRow
  BY <1>5, ScanGoesOn DEF RowIds
<1>6. CASE ScanEnds
  BY <1>6 DEF ScanEnds
<1> QED
  BY <1>1, <1>2, <1>3, <1>4, <1>5, <1>6 DEF TableStep

(* Where the mqtt task cannot run inside mqtt_subscribe_to_topic, every    *)
(* acknowledgement finds the row it belongs to.                            *)
THEOREM SubackAlwaysFindsRow ==
  ASSUME "preempt" \notin Faults
  PROVE  MqttSpec => []SubackFindsRow
<1>1. MqttInit => SubackFindsRow
  BY DEF MqttInit, SubackFindsRow
<1>2. MqttTypeOK /\ SentHaveRows /\ SubackFindsRow /\ [MqttNext]_mqttVars => SubackFindsRow'
  BY SubackFindsRowStep, TableSteps DEF MqttTypeOK
<1> QED
  BY <1>1, <1>2, MqttTypeCorrect, SentHaveRowsAlways, PTL DEF MqttSpec

(* Identifiers tell topics apart: those of the rows, of the packets on     *)
(* their way, of the row about to be written and of the look-up.           *)
RowsAgree ==
  \A i \in 1..Len(subscriptions) :
    /\ \A m \in Subscribes :
         m.msg_id = subscriptions[i].msg_id => m.topic = subscriptions[i].topic
    /\ scan # NoScan /\ scan.msg_id = subscriptions[i].msg_id =>
         subscriptions[i].topic \in acked
CallAgrees ==
  Recording =>
    /\ \A m \in Subscribes : m.msg_id = subCall.msg_id => m.topic = subCall.topic
    /\ scan # NoScan /\ scan.msg_id = subCall.msg_id => subCall.topic \in acked
ScanHasRow == scan # NoScan => HasRow(scan.msg_id)
IdsAgree == RowsAgree /\ CallAgrees /\ ScanHasRow

LEMMA IdsAgreeStep ==
  ASSUME MqttStateOK, SentHaveRows, IdsAgree, TableStep, "collision" \notin Faults
  PROVE  IdsAgree'
<1> USE DEF IdsAgree
<1>1. CASE TableAlone
  BY <1>1 DEF TableAlone, RowsAgree, CallAgrees, ScanHasRow, HasRow, RowIds, Recording
<1>2. CASE SubscribeSend
  <2>1. /\ ~Recording /\ Recording' /\ UNCHANGED <<subscriptions, scan, acked>>
    BY <1>2, SendBegins
  <2>2. PICK id \in NextIds :
          /\ subCall'.msg_id = id
          /\ \A m \in Subscribes' :
               m \in Subscribes \/ (m.msg_id = id /\ m.topic = subCall'.topic)
    BY <1>2, SendBegins
  <2>3. id \notin RowIds /\ \A m \in Subscribes : m.msg_id # id
    <3>1. id \in FreshIds
      BY Zenon DEF NextIds
    <3> QED
      BY <3>1 DEF FreshIds, OutboxIds, Subscribes
  <2>4. \A i \in 1..Len(subscriptions) : subscriptions[i].msg_id # id
    BY <2>3 DEF RowIds
  <2>5. scan # NoScan => scan.msg_id \in RowIds
    BY <2>1 DEF ScanHasRow, HasRow
  <2>6. RowsAgree'
    BY <2>1, <2>2, <2>4 DEF RowsAgree
  <2>7. CallAgrees'
    BY <2>1, <2>2, <2>3, <2>5 DEF CallAgrees
  <2>8. ScanHasRow'
    BY <2>1, <2>5 DEF ScanHasRow, HasRow, RowIds
  <2> QED
    BY <2>6, <2>7, <2>8
<1>3. CASE SubscribeRecord
  <2> DEFINE n == Len(subscriptions)
  <2>1. Recording /\ ~Recording' /\ UNCHANGED <<Subscribes, scan, acked>>
    BY <1>3, RecordEnds
  <2>2. /\ n \in Nat /\ Len(subscriptions') = n + 1
        /\ subscriptions'[n + 1].msg_id = subCall.msg_id
        /\ subscriptions'[n + 1].topic = subCall.topic
        /\ \A i \in 1..n : subscriptions'[i] = subscriptions[i]
        /\ RowIds' = RowIds \cup {subCall.msg_id}
    BY <1>3, RowRecorded
  <2> HIDE DEF n
  <2>3. \A i \in 1..(n + 1) : i \in 1..n \/ i = n + 1
    BY <2>2
  <2>4. RowsAgree'
    <3>1. ASSUME NEW i \in 1..n
          PROVE  /\ \A m \in Subscribes : m.msg_id = subscriptions'[i].msg_id
                                            => m.topic = subscriptions'[i].topic
                 /\ scan # NoScan /\ scan.msg_id = subscriptions'[i].msg_id =>
                      subscriptions'[i].topic \in acked
      BY <2>2 DEF RowsAgree, n
    <3>2. /\ \A m \in Subscribes : m.msg_id = subscriptions'[n + 1].msg_id
                                     => m.topic = subscriptions'[n + 1].topic
          /\ scan # NoScan /\ scan.msg_id = subscriptions'[n + 1].msg_id =>
               subscriptions'[n + 1].topic \in acked
      BY <2>1, <2>2 DEF CallAgrees
    <3> QED
      BY <2>1, <2>2, <2>3, <3>1, <3>2 DEF RowsAgree
  <2>5. ScanHasRow'
    BY <2>1, <2>2 DEF ScanHasRow, HasRow
  <2> QED
    BY <2>1, <2>4, <2>5 DEF CallAgrees
<1>4. ASSUME NEW m \in outbox, SubackArrives(m) PROVE IdsAgree'
  <2>1. /\ m \in Subscribes /\ scan'.msg_id = m.msg_id /\ acked' = acked \cup {m.topic}
        /\ Subscribes' \subseteq Subscribes /\ UNCHANGED <<subscriptions, subCall>>
    BY <1>4 DEF SubackArrives, Subscribes, tableVars
  <2>2. HasRow(m.msg_id)
    BY <2>1 DEF SentHaveRows
  <2> QED
    BY <2>1, <2>2 DEF RowsAgree, CallAgrees, ScanHasRow, HasRow, RowIds, Recording
<1>5. CASE ScanRow
  <2>1. /\ scan # NoScan /\ scan'.msg_id = scan.msg_id
        /\ UNCHANGED <<subscriptions, subCall, outbox, acked>>
    BY <1>5, ScanGoesOn
  <2> QED
    BY <2>1 DEF RowsAgree, CallAgrees, ScanHasRow, HasRow, RowIds, Recording, Subscribes
<1>6. CASE ScanEnds
  BY <1>6 DEF ScanEnds, RowsAgree, CallAgrees, ScanHasRow, Recording, Subscribes, tableVars
<1> QED
  BY <1>1, <1>2, <1>3, <1>4, <1>5, <1>6 DEF TableStep

LEMMA IdsAgreeAlways ==
  ASSUME "collision" \notin Faults
  PROVE  MqttSpec => []IdsAgree
<1>1. MqttInit => IdsAgree
  BY DEF MqttInit, MqttBoot, IdsAgree, RowsAgree, CallAgrees, ScanHasRow, Recording, NoCall
<1>2. MqttTypeOK /\ SentHaveRows /\ IdsAgree /\ [MqttNext]_mqttVars => IdsAgree'
  BY IdsAgreeStep, TableSteps DEF MqttTypeOK
<1> QED
  BY <1>1, <1>2, MqttTypeCorrect, SentHaveRowsAlways, PTL DEF MqttSpec

Earned(q, topics) ==
  \A i \in 1..Len(q) : q[i].ev = "MQTT_SUBSCRIBED" => q[i].arg.topic \in topics

LEMMA EarnedPost ==
  ASSUME NEW E, NEW q \in Seq(E), NEW e \in E, NEW topics, Earned(q, topics),
         e.ev = "MQTT_SUBSCRIBED" => e.arg.topic \in topics
  PROVE  Earned(Post(q, e), topics)
<1>1. /\ Len(Append(q, e)) = Len(q) + 1 /\ Append(q, e)[Len(q) + 1] = e /\ Len(q) \in Nat
      /\ \A i \in 1..Len(q) : Append(q, e)[i] = q[i]
  OBVIOUS
<1>2. \A i \in 1..(Len(q) + 1) : i \in 1..Len(q) \/ i = Len(q) + 1
  BY <1>1
<1> QED
  BY <1>1, <1>2 DEF Earned, Post

LEMMA EarnedTail ==
  ASSUME NEW E, NEW q \in Seq(E), q # <<>>, NEW topics, Earned(q, topics)
  PROVE  Earned(Tail(q), topics)
<1>1. /\ Len(Tail(q)) = Len(q) - 1 /\ Len(q) \in Nat
      /\ \A i \in 1..Len(Tail(q)) : Tail(q)[i] = q[i + 1]
  OBVIOUS
<1>2. \A i \in 1..Len(Tail(q)) : i + 1 \in 1..Len(q)
  BY <1>1
<1> QED
  BY <1>1, <1>2 DEF Earned

\* The mqtt task posts SUBSCRIBED for an acknowledged topic only.
LEMMA MqttTaskEarned ==
  ASSUME MqttStateOK, IdsAgree, NEW E, LinkEvents \subseteq E, loop \in Seq(E),
         Earned(loop, acked), MqttTask
  PROVE  Earned(loop', acked')
<1>1. CASE MqttConnected \/ MqttDisconnected
  <2>1. \A ev \in {"MQTT_CONNECTED", "MQTT_DISCONNECTED"} :
          Event(ev, NoArg) \in E /\ Event(ev, NoArg).ev # "MQTT_SUBSCRIBED"
    BY DEF Event, LinkEvents
  <2>2. \A ev \in {"MQTT_CONNECTED", "MQTT_DISCONNECTED"} :
          Earned(Post(loop, Event(ev, NoArg)), acked)
    BY <2>1, EarnedPost
  <2> QED
    BY <1>1, <2>2 DEF MqttConnected, MqttDisconnected
<1>2. CASE ScanRow
  <2> DEFINE row == subscriptions[scan.row]
             e == Event("MQTT_SUBSCRIBED", [topic |-> row.topic])
  <2>1. scan # NoScan /\ scan.row \in 1..Len(subscriptions) /\ acked' = acked
    BY <1>2 DEF ScanRow, MqttStateOK
  <2>2. row \in Rows
    BY <2>1, ElementOfSeq DEF MqttStateOK
  <2>3. e \in E /\ e.arg.topic = row.topic
    BY <2>2 DEF Event, LinkEvents, Rows
  <2>4. RowMatches(row) => row.topic \in acked
    BY <2>1 DEF IdsAgree, RowsAgree, RowMatches
  <2>5. loop' = IF RowMatches(row) THEN Post(loop, e) ELSE loop
    BY <1>2 DEF ScanRow
  <2> HIDE DEF e, row
  <2>6. RowMatches(row) => Earned(Post(loop, e), acked)
    BY <2>3, <2>4, EarnedPost
  <2> QED
    BY <2>1, <2>5, <2>6
<1>3. ASSUME NEW m \in outbox, SubackArrives(m) PROVE Earned(loop', acked')
  BY <1>3 DEF SubackArrives, Earned
<1>4. CASE ConnectFails \/ TransportError \/ ScanEnds
  BY <1>4 DEF ConnectFails, TransportError, ScanEnds
<1> QED
  BY <1>1, <1>2, <1>3, <1>4 DEF MqttTask

(* While packet identifiers do not repeat, no SUBSCRIBED event announces a *)
(* topic the broker did not acknowledge, whatever rows earlier sessions    *)
(* left in the table and whenever the mqtt task looks at it.               *)
THEOREM NotificationsAreEarned ==
  ASSUME "collision" \notin Faults
  PROVE  MqttSpec => []NotificationIsEarned
<1>1. MqttInit => NotificationIsEarned
  BY DEF MqttInit, NotificationIsEarned
<1>2. ASSUME MqttTypeOK, IdsAgree, NotificationIsEarned, [MqttNext]_mqttVars
      PROVE  NotificationIsEarned'
  <2>1. loop \in Seq(MqttEvents) /\ Earned(loop, acked)
    BY <1>2 DEF MqttTypeOK, NotificationIsEarned, Earned
  <2>2. SUFFICES Earned(loop', acked')
    BY DEF NotificationIsEarned, Earned
  <2>3. LinkEvents \subseteq MqttEvents /\ MqttStateOK
    BY <1>2 DEF LinkEvents, MqttEvents, MqttTypeOK
  <2>4. CASE MqttTask
    BY <1>2, <2>1, <2>3, <2>4, MqttTaskEarned
  <2>5. CASE AppTakesEvent
    BY <2>1, <2>5, EarnedTail DEF AppTakesEvent, linkVars
  <2>6. ASSUME NEW t \in Topics, DataArrives([topic |-> t]) PROVE Earned(loop', acked')
    <3>1. /\ Event("MQTT_DATA", [topic |-> t]) \in MqttEvents
          /\ Event("MQTT_DATA", [topic |-> t]).ev # "MQTT_SUBSCRIBED"
      BY DEF Event, MqttEvents
    <3> QED
      BY <2>1, <2>6, <3>1, EarnedPost DEF DataArrives, linkVars
  <2>7. ASSUME UNCHANGED <<loop, acked>> PROVE Earned(loop', acked')
    BY <2>1, <2>7
  <2>8. CASE AppStart \/ AppStop \/ SubscribeSend \/ SubscribeRefused \/ SubscribeRecord
    BY <2>7, <2>8 DEF AppStart, AppStop, SubscribeSend, SubscribeRefused, SubscribeRecord,
                       linkVars
  <2>9. ASSUME NEW t \in Topics, AppSubscribe(t) \/ AppPublish(t)
         PROVE  Earned(loop', acked')
    BY <2>7, <2>9 DEF AppSubscribe, SubscribeCheck, AppPublish, linkVars
  <2>10. ASSUME NEW f \in Fields, NEW v \in Values, AppSetField(f, v)
         PROVE  Earned(loop', acked')
    BY <2>7, <2>10 DEF AppSetField, linkVars
  <2>11. ASSUME NEW v \in Values, AppSetBroker(v) PROVE Earned(loop', acked')
    BY <2>7, <2>11 DEF AppSetBroker, linkVars
  <2>12. ASSUME NEW q \in -1..3, AppSetQos(q) PROVE Earned(loop', acked')
    BY <2>7, <2>12 DEF AppSetQos, linkVars
  <2>13. ASSUME NEW m \in outbox, PubackArrives(m) PROVE Earned(loop', acked')
    BY <2>7, <2>13 DEF PubackArrives
  <2>14. CASE UNCHANGED mqttVars
    BY <2>7, <2>14 DEF mqttVars, linkVars
  <2> QED
    BY <1>2, <2>4, <2>5, <2>6, <2>8, <2>9, <2>10, <2>11, <2>12, <2>13, <2>14 DEF MqttNext
<1> QED
  BY <1>1, <1>2, MqttTypeCorrect, IdsAgreeAlways, PTL DEF MqttSpec
=============================================================================
