SPECIFICATION MqttSpec
CONSTANTS
  NULL = NULL
  Topics = {t1, t2}
  Fields = {"username"}
  Values = {v1}
  Garbage = Garbage
  MsgIds = {1, 2}
  MaxConnects = 2
  MaxRows = 2
  QueueSize = 2
  Faults = {"heap"}
INVARIANTS MqttTypeOK RunningConfigIsCurrent BrokerHasOneScheme
 ConnectedMeansSession NotificationIsEarned SubackFindsRow
