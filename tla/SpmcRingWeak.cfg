\* Every read the memory model allows, two laps of a two-slot ring.
SPECIFICATION Spec
CONSTANTS
  Consumers = {c1}
  Cap = 2
  W = 2
  WRITING = 16
  MaxPush = 6
  Loc <- MCLoc
  StaleReads = TRUE
INVARIANTS TypeOK NoTornRecord ResyncOnlyWhenLapped NoSilentLoss
PROPERTIES DeliveredInOrder
