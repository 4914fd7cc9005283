SPECIFICATION Spec
CONSTANTS
  Dispatchers = {d1, d2}
  Workers = {w1, w2, w3}
  Requests = {r1, r2}
  QueueSize = 2
  NoRequest = NoRequest
  NoThread = NoThread
SYMMETRY Symmetry
INVARIANTS
  TypeOK
  StillTrueWhenUsed
  RingConsistent
  NoLostWakeup
  SomeoneAwake
PROPERTY Refinement
