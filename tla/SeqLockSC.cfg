\* Sequentially consistent reads: linearizability, retries and progress.
SPECIFICATION FairSpec
CONSTANTS
  Readers = {r1, r2}
  W = 2
  SeqMod = 32
  MaxStores = 2
  RetryMax = 2
  Loc <- MCLoc
  StaleReads = FALSE
INVARIANTS RetryOnlyUnderWrite
PROPERTIES AtomicCell LoadReturns
