\* Every read the memory model allows: the cursor of resync.
SPECIFICATION Spec
CONSTANTS
  Consumers = {c1}
  Cap = 2
  W = 2
  WRITING = 16
  MaxPush = 4
  Loc <- MCLoc
  StaleReads = TRUE
PROPERTIES CursorMonotonic
