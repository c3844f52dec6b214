\* Sequentially consistent reads: refinement and progress.
SPECIFICATION FairSpec
CONSTANTS
  Consumers = {c1}
  Cap = 2
  W = 2
  WRITING = 16
  MaxPush = 5
  Loc <- MCLoc
  StaleReads = FALSE
PROPERTIES BroadcastsLog CatchesUp
