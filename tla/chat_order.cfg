SPECIFICATION JoinedSpec
CONSTANTS
  Clients = {k1, k2, k3, k4}
  Names = {n1, n2, n3, n4}
  MAX_USER = 4
  PipeSize = 2
  MaxRead = 2
  Commands = {"text", "list", "p2p"}
  MaxLines = 2
  MaxAdmin = 0
  Faults = {}
  NoName = NoName
  NoUser = NoUser
CHECK_DEADLOCK FALSE
INVARIANTS
  SameOrderForAll
  EachOnceInOrder
  BroadcastReachesAll
