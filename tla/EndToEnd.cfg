\* Current reads, a ring smaller than the corpus.
SPECIFICATION PipelineSpec
CONSTANTS
  c1 = c1
  c2 = c2
  Consumers = {c1, c2}
  Cap = 2
  WRITING = 16
  StaleReads = FALSE
  Loc <- MCLoc
  TopWords = 1
  RecWords = 1
  SeqMod = 32
  RetryMax = 1
  MaxEvents = 4
  MaxResyncs = 1
  WarmupPolls = 1
  Cells <- MCCells
  Scenes <- MCScenes
INVARIANTS CellTypeOK EveryEventAccounted StartsTogether DemoAsserts
PROPERTIES Terminates
