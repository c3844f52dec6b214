\* Every read the memory model allows.
SPECIFICATION Spec
CONSTANTS
  Consumers = {c1}
  Cap = 2
  WRITING = 16
  StaleReads = TRUE
  Loc <- MCLoc
  TopWords = 2
  RecWords = 1
  SeqMod = 32
  RetryMax = 1
  MaxEvents = 3
  MaxResyncs = 1
PROPERTIES SnapshotCoversSkipped
