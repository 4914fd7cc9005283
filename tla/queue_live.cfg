SPECIFICATION FairSpec
CONSTANTS
  Dispatchers = {d1, d2}
  Workers = {w1, w2}
  Requests = {r1, r2}
  QueueSize = 1
  NoRequest = NoRequest
  NoThread = NoThread
PROPERTIES
  EventuallyTaken
  SomeoneStores
