\* The depth and the cascade of the code in a band narrower than either.
SPECIFICATION GenSpec
CONSTANTS
  Prices = {}
  Lots = {0}
  RECORD_SIZE = 4
  CountMod = 256
  STEADY_DEPTH = 8
  MinSweep = 20
  BurstCalm = {20}
  BurstLength = {200}
  CrashCalm = {200}
  Configs <- MCNarrow
INVARIANTS TouchInBand
CHECK_DEADLOCK FALSE
