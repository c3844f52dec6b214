\* A gap, an old snapshot, a level beyond the limit, and every limit on events.
SPECIFICATION Spec
CONSTANTS
  Prices <- MCPrices
  Lots <- MCLots
  Keys <- MCKeys
  FirstBook <- MCFirstBook
  Limit = 1
  RECORD_SIZE = 4
  CountMod = 256
  MaxEvents = {2, 4, 20}
  MaxUpdates = 4
  MaxTrades = 1
  MaxLost = 1
  MaxStale = 1
INVARIANTS TypeOK RebuildsExchange SavedWhole ResnapshotsOwed
PROPERTIES StopsAtMax
CHECK_DEADLOCK FALSE
