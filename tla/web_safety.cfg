SPECIFICATION Spec
CONSTANTS
  Dispatchers = {d1, d2}
  Workers = {w1, w2}
  QueueSize = 1
  Clients = {c1, c2}
  Patient = {}
  Chatty = {c1, c2}
  Files = {f1, f2}
  Big = {f1}
  MaxFD = 4
  BadLine = BadLine
  NoLine = NoLine
  NoItem = NoItem
  NoConn = NoConn
  NoFD = NoFD
  NoThread = NoThread
SYMMETRY Symmetry
CHECK_DEADLOCK FALSE
INVARIANTS
  TypeOK
  OneOwner
  NoHalfReply
PROPERTIES
  Refinement
