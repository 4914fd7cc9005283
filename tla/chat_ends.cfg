SPECIFICATION FairSpec
CONSTANTS
  Clients = {k1, k2, k3}
  Names = {n1}
  MAX_USER = 1
  PipeSize = 1
  MaxRead = 1
  Commands = {}
  MaxLines = 0
  MaxAdmin = 1
  Faults = {"interrupt"}
  NoName = NoName
  NoUser = NoUser
CHECK_DEADLOCK FALSE
INVARIANTS
  RosterAgrees
PROPERTIES
  RemovedClientsEnd
  ClientsEndWithServer
  Attended
