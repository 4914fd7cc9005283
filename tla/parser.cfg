SPECIFICATION Spec
CONSTANTS
  Makefiles <- UpToSixLines
  MAX_NODES = 3
  None = None
CHECK_DEADLOCK FALSE
INVARIANTS
  TypeOK
  ParsedAsWritten
  RejectsMalformed
  OverrunsOnlyWhenFull
