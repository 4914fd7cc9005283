SPECIFICATION FairSpec
CONSTANTS
  Targets = {"a", "b", "c"}
  Sources = {"s"}
  Makefiles <- SomeMakefiles
  Initial = "a"
  Root = "root"
  Writes <- Untidy
  MaxTime = 1
CHECK_DEADLOCK FALSE
INVARIANTS
  TypeOK
  RunsAtMostOnce
  ReadyWhenRun
  CallersMarked
PROPERTIES
  StopsAtFailure
  Terminates
