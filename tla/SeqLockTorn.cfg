\* Sequentially consistent reads and a counter that wraps inside one load.
SPECIFICATION Spec
CONSTANTS
  Readers = {r1}
  W = 2
  SeqMod = 4
  MaxStores = 4
  RetryMax = 1
  Loc <- MCLoc
  StaleReads = FALSE
INVARIANTS NoTornSnapshot
