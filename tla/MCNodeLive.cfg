SPECIFICATION FairSpec
CONSTANTS
  NULL = NULL
  Topics = {"rpc_response", "request"}
  Fields = {"username"}
  Values = {"v"}
  MsgIds = {1, 2, 3}
  MaxConnects = 2
  MaxRows = 0
  QueueSize = 32
  Faults = {}
  AppTopics <- OneTopic
  RpcResponse = "rpc_response"
  RpcRequest = "request"
  Garbage = Garbage
  MaxBoots = 0
  MaxProvs = 1
  MaxFlaps = 1
INVARIANT AuthenticatedClient
PROPERTIES StartsOnceProvisioned ReachesRegular
CHECK_DEADLOCK FALSE
