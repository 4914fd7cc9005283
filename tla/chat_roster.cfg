SPECIFICATION Spec
CONSTANTS
  Clients = {k1, k2}
  Names = {n1, n2}
  MAX_USER = 2
  PipeSize = 1
  MaxRead = 1
  Commands = {"text"}
  MaxLines = 2
  MaxAdmin = 1
  Faults = {"child", "crash", "fork"}
  NoName = NoName
  NoUser = NoUser
SYMMETRY Symmetry
CHECK_DEADLOCK FALSE
INVARIANTS
  TypeOK
  RosterAgrees
PROPERTY Refinement
