\* The programs, tests and functions that run alone, one per behaviour.
SPECIFICATION MCSpec
CONSTANTS
  Prices <- MCPrices
  Lots <- MCLots
  HALF = 1
  MAX_SPAN = 8
  RECORD_SIZE = 4
  CountMod = 256
  STEADY_DEPTH = 1
  MinSweep = 6
  BurstCalm = {1, 2}
  BurstLength = {2}
  CrashCalm = {1}
  Configs <- MCConfigs
  WordMod = 65536
  FirstQty = 1000
  QtyMod = 4
  Depths = {1, 2, 4}
  Mid = 100
  I128Max = 60000
  I64Max = 500
  HexDigit <- MCHexDigit
  Values <- MCValues
  Ticks <- MCTicks
  Step <- MCStep
  Bound = 1000
  Chunkings <- MCChunkings
  Spans <- MCSpans
  Originals <- MCOriginals
  BadBytes = {0, 1, 2, 3, 4, 255}
INVARIANTS TypeOK RepresentationsSound PanicsOnlyOutsideBand ObservedSame OfflineTypeOK StreamIsLadder PricesInPlace WrittenTruthfully LadderHeld ConvertsExactly FetchedWhole DatesCount FailsLoudly
PROPERTIES AllAreBTreeBooks TradesAtTouch Generates TimesWhatItNames
CHECK_DEADLOCK FALSE
