SPECIFICATION Spec
CONSTANTS
  Workers = {w1, w2}
  Files = {f1, f2}
  Contents <- TwoContents
  CacheSize = 2
  MaxFreq = 1
  MaxStates = 2
  Missing = Missing
  Unreadable = Unreadable
  NoEntry = NoEntry
  Error = Error
  NoReply = NoReply
  NoThread = NoThread
SYMMETRY Symmetry
INVARIANTS
  TypeOK
  SlotsAgree
  HitStable
  ScanFindsLeastUsed
  AtMostOnePerWorker
  UntouchedFileServed
  SentIsFromTheFile
