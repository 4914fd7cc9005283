SPECIFICATION FairSpec
CONSTANTS
  Targets = {"a", "b", "c", "d"}
  Sources = {}
  Makefiles <- Diamond
  Initial = "a"
  Root = "root"
  Writes <- OwnOnly
  MaxTime = 1
CHECK_DEADLOCK FALSE
PROPERTY LeftAloneOnlyIfNewer
