SPECIFICATION Spec
CONSTANTS
  NULL = NULL
  Topics = {"rpc_response", "request"}
  Fields = {"username"}
  Values = {"v"}
  MsgIds = {1, 2, 3}
  MaxConnects = 2
  MaxRows = 0
  QueueSize = 3
  Faults = {"heap", "flash", "preempt"}
  AppTopics <- OneTopic
  RpcResponse = "rpc_response"
  RpcRequest = "request"
  Garbage = Garbage
  MaxBoots = 1
  MaxProvs = 1
  MaxFlaps = 1
INVARIANTS TypeOK NodeInv AddressComesWithToken
 ResetForgets RowsPerConnection
PROPERTIES ImplementsLifecycle
CHECK_DEADLOCK FALSE
