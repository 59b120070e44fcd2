SPECIFICATION FairGatewaySpec
CONSTANTS
  Lanes = {main}
  NoLane = NoLane
  MaxEntries = 3
  MaxLimit = 1
  MaxResets = 2
INVARIANTS
  GatewayTypeOK
  OrderlyExitFreesLock
PROPERTIES
  NothingAcceptedInDrain
  OthersLockKept
  StartsWithLockUnlessReleased
  ShutdownEnds
CHECK_DEADLOCK FALSE
