SPECIFICATION Spec
CONSTANTS
  NULL = NULL
  Topics = {"rpc_request", "rpc_response", "attr_response", "attributes", "fw", "request"}
  Fields = {"username"}
  Values = {"v"}
  MsgIds = {1, 2, 3, 4, 5, 6, 7, 8, 9, 10, 11}
  MaxConnects = 3
  MaxRows = 0
  QueueSize = 32
  Faults = {}
  AppTopics <- FiveTopics
  RpcResponse = "rpc_response"
  RpcRequest = "request"
  Garbage = Garbage
  MaxBoots = 0
  MaxProvs = 1
  MaxFlaps = 0
CHECK_DEADLOCK FALSE
INVARIANT TableFits
CONSTRAINT SlowBroker
