SPECIFICATION FairSpec
CONSTANTS
  Dispatchers = {d1}
  Workers = {w1, w2}
  QueueSize = 1
  Clients = {c1, c2, c3}
  Patient = {c1, c2}
  Chatty = {}
  Files = {f1}
  Big = {f1}
  MaxFD = 2
  BadLine = BadLine
  NoLine = NoLine
  NoItem = NoItem
  NoConn = NoConn
  NoFD = NoFD
  NoThread = NoThread
CHECK_DEADLOCK FALSE
PROPERTIES
  Served
