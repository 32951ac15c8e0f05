-------------------------------- MODULE CMqtt --------------------------------
(***************************************************************************)
(* components/c_mqtt/c_mqtt.c: the firmware's wrapper around esp-mqtt.     *)
(*                                                                         *)
(* Two tasks meet here.  The application task calls the API (setters,      *)
(* start, stop, subscribe, publish); in this firmware it is sys_evt.  The  *)
(* mqtt task of esp-mqtt runs mqtt_event_handler.  They share MQTT_STATUS  *)
(* and the table subscriptions[], with no lock.                            *)
(*                                                                         *)
(* esp-mqtt, the network and the broker are outside src/; they appear as   *)
(* the session, the outbox of unacknowledged packets and the moments at    *)
(* which esp-mqtt calls back.                                              *)
(***************************************************************************)
EXTENDS EventLoop, FiniteSets

CONSTANTS
  NULL,
  Topics,        \* topics the application may subscribe or publish to
  Fields,        \* mqtt_config members with a plain setter
  Values,        \* values given to the setters
  Garbage,       \* what an uninitialised buffer holds
  MsgIds,        \* packet identifiers esp-mqtt may draw
  MaxConnects,   \* bound: attempts esp-mqtt makes to connect in one boot
  Faults         \* which unlikely things may happen, see FaultKinds

FaultKinds == {
  "heap",        \* an allocation fails
  "flash",       \* an NVS write fails
  "preempt",     \* the mqtt task runs inside mqtt_subscribe_to_topic
  "collision"}   \* a random packet identifier equals one already in the table

ASSUME MqttAssumption ==
  /\ NULL \notin Values /\ NULL \notin Topics /\ NULL \notin MsgIds
  /\ Fields \subseteq {"port", "username", "lwt_message"}
  /\ Garbage \notin Values /\ Garbage # NULL
  /\ MaxConnects \in Nat
  /\ Faults \subseteq FaultKinds

VARIABLES
  MQTT_STATUS,
  mqtt_client,     \* mqtt_client # NULL
  mqtt_config,
  running,         \* the configuration esp_mqtt_client_init copied
  subscriptions,   \* the rows in use; MQTT_SUBSCRIPTION_COUNT is its length
  subCall,         \* the mqtt_subscribe_to_topic call in progress
  session,         \* esp-mqtt: "down", "up", or "failing" (error reported, not yet closed)
  connects,        \* attempts to connect since boot
  outbox,          \* esp-mqtt: packets sent or to be sent, not acknowledged
  scan,            \* the SUBACK the mqtt task is looking up, and the next row
  acked,           \* history: topics whose subscription the broker acknowledged
  loop             \* the default event loop's queue

clientVars == <<mqtt_client, mqtt_config, running>>
tableVars  == <<subscriptions, subCall>>
linkVars   == <<session, connects, outbox, scan, acked>>
mqttVars   == <<MQTT_STATUS, clientVars, tableVars, linkVars, loop>>

MqttStatuses == {"MQTT_SETUP", "MQTT_INIT", "MQTT_CONNECTED", "MQTT_ERR"}
Packets == [kind : {"SUBSCRIBE", "PUBLISH"}, msg_id : MsgIds \cup {NULL}, topic : Topics]
Rows == [msg_id : MsgIds, topic : Topics]

\* A broker address and how many times "mqtt://" was put in front of it.
Address(schemes, host) == [schemes |-> schemes, host |-> host]

\* NULL stands for the value compiled in from Kconfig.
DefaultConfig ==
  [opts |-> [f \in Fields |-> NULL], broker |-> Address(0, NULL), qos |-> 1]

NoCall == [step |-> "idle", topic |-> NULL, msg_id |-> NULL]
NoScan == [msg_id |-> NULL, row |-> 1]
NoArg  == <<>>

\* The statics of c_mqtt.c as they are linked.
MqttBoot ==
  [status |-> "MQTT_SETUP", config |-> DefaultConfig, table |-> <<>>]

MqttInit ==
  /\ MQTT_STATUS = MqttBoot.status
  /\ mqtt_client = FALSE
  /\ mqtt_config = MqttBoot.config
  /\ running = MqttBoot.config
  /\ subscriptions = MqttBoot.table
  /\ subCall = NoCall
  /\ session = "down"
  /\ connects = 0
  /\ outbox = {}
  /\ scan = NoScan
  /\ acked = {}
  /\ loop = <<>>

-----------------------------------------------------------------------------
(* The setters.  Each takes a configuration and returns the one it leaves; *)
(* outside MQTT_SETUP they answer C_MQTT_ERR and change nothing.           *)

Setup == MQTT_STATUS = "MQTT_SETUP"

SetFieldUnguarded(c, f, v) == [c EXCEPT !.opts[f] = v]
SetField(c, f, v) == IF Setup THEN [c EXCEPT !.opts[f] = v] ELSE c

\* A setter that allocates frees the old string first: when malloc fails
\* nothing is left.
SetterOutcomes(f, v) ==
  IF "heap" \in Faults /\ f # "port" THEN {v, NULL} ELSE {v}

\* mqtt_set_broker does not look whether malloc gave it anything (c_mqtt.c:126):
\* without memory the node crashes there, which is a restart (Node).
SetBroker(c, host) ==
  IF Setup THEN [c EXCEPT !.broker = Address(0, host)] ELSE c

\* mqtt_set_qos does not look at the status.
SetQos(c, qos) == IF qos \in 0..2 THEN [c EXCEPT !.qos = qos] ELSE c

InitBroker(c) == [c EXCEPT !.broker.schemes = @ + 1]

(* mqtt_start_client, called with the configuration c in place.  When      *)
(* esp_mqtt_client_init fails, the status is already MQTT_INIT.            *)
StartClient(c) ==
  IF ~mqtt_client /\ Setup
  THEN /\ mqtt_config' = InitBroker(c)
       /\ MQTT_STATUS' = "MQTT_INIT"
       /\ \/ mqtt_client' = TRUE /\ running' = InitBroker(c)
          \/ "heap" \in Faults /\ UNCHANGED <<mqtt_client, running>>
  ELSE mqtt_config' = c /\ UNCHANGED <<MQTT_STATUS, mqtt_client, running>>

AppSetField(f, v) ==
  /\ subCall = NoCall
  /\ \E w \in SetterOutcomes(f, v) : mqtt_config' = SetField(mqtt_config, f, w)
  /\ UNCHANGED <<MQTT_STATUS, mqtt_client, running, tableVars, linkVars, loop>>

AppSetBroker(host) ==
  /\ subCall = NoCall
  /\ mqtt_config' = SetBroker(mqtt_config, host)
  /\ UNCHANGED <<MQTT_STATUS, mqtt_client, running, tableVars, linkVars, loop>>

AppSetQos(qos) ==
  /\ subCall = NoCall
  /\ mqtt_config' = SetQos(mqtt_config, qos)
  /\ UNCHANGED <<MQTT_STATUS, mqtt_client, running, tableVars, linkVars, loop>>

AppStart ==
  /\ subCall = NoCall
  /\ StartClient(mqtt_config)
  /\ UNCHANGED <<tableVars, linkVars, loop>>

(* mqtt_stop_client: waits for the mqtt task to end, whose outbox goes     *)
(* with it.  The table of subscriptions is not emptied.                    *)
StopKeepsBroker ==
  /\ subCall = NoCall
  /\ mqtt_client /\ scan = NoScan
  /\ mqtt_client' = FALSE
  /\ MQTT_STATUS' = "MQTT_SETUP"
  /\ mqtt_config' = [DefaultConfig EXCEPT !.broker = mqtt_config.broker]
  /\ session' = "down" /\ outbox' = {}
  /\ UNCHANGED <<running, tableVars, connects, scan, acked, loop>>

AppStop ==
  /\ subCall = NoCall
  /\ mqtt_client /\ scan = NoScan
  /\ mqtt_client' = FALSE
  /\ MQTT_STATUS' = "MQTT_SETUP"
  /\ mqtt_config' = DefaultConfig
  /\ session' = "down" /\ outbox' = {}
  /\ UNCHANGED <<running, tableVars, connects, scan, acked, loop>>

-----------------------------------------------------------------------------
(* mqtt_subscribe_to_topic, in the three steps other tasks can fall        *)
(* between: the status is checked, the packet is sent, the row is written. *)

SubscribeCheck(t) ==
  /\ subCall = NoCall
  /\ subCall' = IF MQTT_STATUS = "MQTT_CONNECTED"
                THEN [step |-> "send", topic |-> t, msg_id |-> NULL] ELSE NoCall
  /\ UNCHANGED <<MQTT_STATUS, clientVars, subscriptions, linkVars, loop>>

RowIds == {subscriptions[i].msg_id : i \in 1..Len(subscriptions)}
OutboxIds == {m.msg_id : m \in outbox}

\* CONFIG_MQTT_MSG_ID_INCREMENTAL is not set: identifiers are random.  They are
\* only compared with each other, so one fresh identifier stands for all of them.
FreshIds == MsgIds \ (RowIds \cup OutboxIds)
NextIds == IF "collision" \in Faults THEN MsgIds
           ELSE {id \in FreshIds : id = CHOOSE x \in FreshIds : TRUE}

SubscribeSend ==
  /\ subCall.step = "send" /\ session = "up"
  /\ \E id \in NextIds :
       /\ outbox' = outbox \cup
            {[kind |-> "SUBSCRIBE", msg_id |-> id, topic |-> subCall.topic]}
       /\ subCall' = [subCall EXCEPT !.step = "record", !.msg_id = id]
  /\ UNCHANGED <<MQTT_STATUS, clientVars, subscriptions, session, connects, scan,
                 acked, loop>>

\* esp_mqtt_client_subscribe answers -1.
SubscribeRefused ==
  /\ subCall.step = "send" /\ session # "up"
  /\ subCall' = NoCall
  /\ UNCHANGED <<MQTT_STATUS, clientVars, subscriptions, linkVars, loop>>

RecordedRow == [msg_id |-> subCall.msg_id, topic |-> subCall.topic]

SubscribeRecord ==
  /\ subCall.step = "record"
  /\ subscriptions' = Append(subscriptions, RecordedRow)
  /\ subCall' = NoCall
  /\ UNCHANGED <<MQTT_STATUS, clientVars, linkVars, loop>>

(* mqtt_publish_to_topic.  esp-mqtt keeps a packet of QoS 1 or 2 for the   *)
(* next connection when this one is gone.                                  *)
Publish(t) ==
  IF MQTT_STATUS = "MQTT_CONNECTED" /\ (session = "up" \/ mqtt_config.qos > 0)
  THEN outbox' = outbox \cup {[kind |-> "PUBLISH", msg_id |-> NULL, topic |-> t]}
  ELSE outbox' = outbox

-----------------------------------------------------------------------------
(* mqtt_event_handler, run by the mqtt task.  With the priorities of the   *)
(* shipped sdkconfig (one core, sys_evt above mqtt) the mqtt task gets no  *)
(* turn between the return of esp_mqtt_client_subscribe and the store of   *)
(* the row, unless the log call between them blocks: fault "preempt".      *)
MqttTaskRuns ==
  /\ scan = NoScan
  /\ "preempt" \in Faults \/ subCall.step # "record"

\* The last of the MaxConnects attempts succeeds and stays up.
LinkMayFail == connects < MaxConnects

MqttConnectedEmptiesTable ==
  /\ MqttTaskRuns /\ mqtt_client
  /\ session = "down" /\ connects < MaxConnects
  /\ session' = "up" /\ connects' = connects + 1
  /\ MQTT_STATUS' = "MQTT_CONNECTED"
  /\ subscriptions' = <<>>
  /\ loop' = Post(loop, Event("MQTT_CONNECTED", NoArg))
  /\ UNCHANGED <<clientVars, subCall, outbox, scan, acked>>

MqttConnectedOnce ==
  /\ MqttTaskRuns /\ mqtt_client
  /\ session = "down" /\ connects < MaxConnects
  /\ session' = "up" /\ connects' = connects + 1
  /\ MQTT_STATUS' = IF MQTT_STATUS = "MQTT_INIT" THEN "MQTT_CONNECTED" ELSE MQTT_STATUS
  /\ loop' = Post(loop, Event("MQTT_CONNECTED", NoArg))
  /\ UNCHANGED <<clientVars, tableVars, outbox, scan, acked>>

MqttConnected ==
  /\ MqttTaskRuns /\ mqtt_client
  /\ session = "down" /\ connects < MaxConnects
  /\ session' = "up" /\ connects' = connects + 1
  /\ MQTT_STATUS' = "MQTT_CONNECTED"
  /\ loop' = Post(loop, Event("MQTT_CONNECTED", NoArg))
  /\ UNCHANGED <<clientVars, tableVars, outbox, scan, acked>>

\* MQTT_EVENT_ERROR: a connection that could not be made ...
ConnectFails ==
  /\ MqttTaskRuns /\ mqtt_client
  /\ session = "down" /\ connects + 1 < MaxConnects
  /\ session' = "failing" /\ connects' = connects + 1
  /\ MQTT_STATUS' = "MQTT_ERR"
  /\ UNCHANGED <<clientVars, tableVars, outbox, scan, acked, loop>>

\* ... or one that broke.
TransportError ==
  /\ MqttTaskRuns /\ mqtt_client /\ LinkMayFail
  /\ session = "up"
  /\ session' = "failing"
  /\ MQTT_STATUS' = "MQTT_ERR"
  /\ UNCHANGED <<clientVars, tableVars, connects, outbox, scan, acked, loop>>

MqttDisconnectedKeepsStatus ==
  /\ MqttTaskRuns /\ mqtt_client /\ LinkMayFail
  /\ session # "down"
  /\ session' = "down"
  /\ outbox' \in {outbox, {}}
  /\ UNCHANGED MQTT_STATUS
  /\ loop' = Post(loop, Event("MQTT_DISCONNECTED", NoArg))
  /\ UNCHANGED <<clientVars, tableVars, connects, scan, acked>>

MqttDisconnected ==
  /\ MqttTaskRuns /\ mqtt_client /\ LinkMayFail
  /\ session # "down"
  /\ session' = "down"
  /\ outbox' \in {outbox, {}}      \* resent on the next connection, or expired
  /\ MQTT_STATUS' = "MQTT_ERR"
  /\ loop' = Post(loop, Event("MQTT_DISCONNECTED", NoArg))
  /\ UNCHANGED <<clientVars, tableVars, connects, scan, acked>>

\* MQTT_EVENT_SUBSCRIBED: the search of subscriptions[] begins.
SubackArrives(m) ==
  /\ MqttTaskRuns /\ session = "up"
  /\ m \in outbox /\ m.kind = "SUBSCRIBE"
  /\ outbox' = outbox \ {m}
  /\ scan' = [msg_id |-> m.msg_id, row |-> 1]
  /\ acked' = acked \cup {m.topic}
  /\ UNCHANGED <<MQTT_STATUS, clientVars, tableVars, session, connects, loop>>

RowMatchesAny(row) == TRUE
RowMatches(row) == row.msg_id = scan.msg_id

\* One turn of the loop over subscriptions[].  Its bound is read every turn.
ScanRow ==
  /\ scan # NoScan /\ scan.row <= Len(subscriptions)
  /\ LET row == subscriptions[scan.row]
     IN loop' = IF RowMatches(row)
                THEN Post(loop, Event("MQTT_SUBSCRIBED", [topic |-> row.topic]))
                ELSE loop
  /\ scan' = [scan EXCEPT !.row = @ + 1]
  /\ UNCHANGED <<MQTT_STATUS, clientVars, tableVars, session, connects, outbox, acked>>

ScanEnds ==
  /\ scan # NoScan /\ scan.row > Len(subscriptions)
  /\ scan' = NoScan
  /\ UNCHANGED <<MQTT_STATUS, clientVars, tableVars, session, connects, outbox,
                 acked, loop>>

\* MQTT_EVENT_PUBLISHED changes nothing in this module.
PubackArrives(m) ==
  /\ MqttTaskRuns /\ session = "up"
  /\ m \in outbox /\ m.kind = "PUBLISH"
  /\ outbox' = outbox \ {m}
  /\ UNCHANGED <<MQTT_STATUS, clientVars, tableVars, session, connects, scan, acked, loop>>

\* handle_received_data: the copy of the message is posted, or could not be made.
DataArrives(doc) ==
  /\ MqttTaskRuns /\ session = "up"
  /\ \/ loop' = Post(loop, Event("MQTT_DATA", doc))
     \/ "heap" \in Faults /\ loop' = loop
  /\ UNCHANGED <<MQTT_STATUS, clientVars, tableVars, linkVars>>

MqttTask ==
  \/ MqttConnected \/ ConnectFails \/ TransportError \/ MqttDisconnected
  \/ \E m \in outbox : SubackArrives(m)
  \/ ScanRow \/ ScanEnds

-----------------------------------------------------------------------------
(* The component alone, under an application that calls the API in any     *)
(* order.  MaxRows bounds the subscriptions such an application makes in   *)
(* one boot; the C array has CONFIG_MQTT_MAX_SUBSCRIPTIONS rows.           *)
CONSTANT MaxRows

AppSubscribe(t) == Len(subscriptions) < MaxRows /\ SubscribeCheck(t)

AppPublish(t) ==
  /\ subCall = NoCall
  /\ Publish(t)
  /\ UNCHANGED <<MQTT_STATUS, clientVars, tableVars, session, connects, scan, acked, loop>>

AppTakesEvent ==
  /\ subCall = NoCall /\ loop # <<>>
  /\ loop' = Tail(loop)
  /\ UNCHANGED <<MQTT_STATUS, clientVars, tableVars, linkVars>>

MqttNext ==
  \/ \E f \in Fields, v \in Values : AppSetField(f, v)
  \/ \E v \in Values : AppSetBroker(v)
  \/ \E q \in -1..3 : AppSetQos(q)
  \/ AppStart \/ AppStop
  \/ \E t \in Topics : AppSubscribe(t) \/ AppPublish(t)
  \/ SubscribeSend \/ SubscribeRefused \/ SubscribeRecord
  \/ AppTakesEvent
  \/ MqttTask
  \/ \E m \in outbox : PubackArrives(m)
  \/ \E t \in Topics : DataArrives([topic |-> t])

MqttSpec == MqttInit /\ [][MqttNext]_mqttVars

-----------------------------------------------------------------------------
Configs == [opts   : [Fields -> Values \cup {NULL}],
            broker : [schemes : Nat, host : Values \cup {NULL, Garbage}],
            qos    : 0..2]

Calls == {NoCall} \cup [step : {"send"}, topic : Topics, msg_id : {NULL}]
                  \cup [step : {"record"}, topic : Topics, msg_id : MsgIds]

MqttEvents == [ev : {"MQTT_CONNECTED", "MQTT_DISCONNECTED"}, arg : {NoArg}]
              \cup [ev : {"MQTT_SUBSCRIBED", "MQTT_DATA"}, arg : [topic : Topics]]

\* The variables of c_mqtt.c and esp-mqtt have their types; Node uses this too.
MqttStateOK ==
  /\ MQTT_STATUS \in MqttStatuses
  /\ mqtt_client \in BOOLEAN
  /\ mqtt_config \in Configs /\ running \in Configs
  /\ subscriptions \in Seq(Rows)
  /\ subCall \in Calls
  /\ session \in {"down", "up", "failing"} /\ connects \in 0..MaxConnects
  /\ outbox \subseteq Packets
  /\ scan \in [msg_id : MsgIds \cup {NULL}, row : Nat \ {0}]
  /\ acked \subseteq Topics

\* Every variable has its type, and the queue its capacity.
MqttTypeOK ==
  /\ MqttStateOK
  /\ loop \in Seq(MqttEvents) /\ Len(loop) <= QueueSize

(* While a client exists, the options a caller would read back from        *)
(* mqtt_config are those the client really runs with: "Call this function  *)
(* before init_mqtt()" (c_mqtt.h:56,62) is enforced by every setter but    *)
(* that of the QoS.                                                        *)
RunningConfigIsCurrent ==
  mqtt_client => /\ running.opts = mqtt_config.opts
                 /\ running.broker = mqtt_config.broker

(* However often the client is stopped and started, it dials an address    *)
(* with exactly one scheme: _init_broker prepends to whatever is stored    *)
(* and the result is stored in the same place.                             *)
BrokerHasOneScheme == mqtt_client => running.broker.schemes = 1

(* MQTT_STATUS, which the application task reads without a lock before it  *)
(* subscribes or publishes, says CONNECTED only while there is a session.  *)
ConnectedMeansSession ==
  MQTT_STATUS = "MQTT_CONNECTED" => mqtt_client /\ session = "up"

(* A SUBSCRIBED event that waits in the queue names a topic the broker did *)
(* acknowledge, although the table keeps the rows of earlier sessions.     *)
NotificationIsEarned ==
  \A i \in 1..Len(loop) :
    loop[i].ev = "MQTT_SUBSCRIBED" => loop[i].arg.topic \in acked

(* When an acknowledgement is looked up, the row it belongs to is in the   *)
(* table: the application stored it before the broker could answer.        *)
SubackFindsRow == scan # NoScan => scan.msg_id \in RowIds
=============================================================================
