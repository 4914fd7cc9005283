SPECIFICATION FairSpec
CONSTANTS
  Clients = {k1, k2}
  Names = {n1, n2}
  MAX_USER = 2
  PipeSize = 2
  MaxRead = 2
  Commands = {}
  MaxLines = 0
  MaxAdmin = 0
  Faults = {}
  NoName = NoName
  NoUser = NoUser
CHECK_DEADLOCK FALSE
PROPERTY DeadClientsAreRemoved
