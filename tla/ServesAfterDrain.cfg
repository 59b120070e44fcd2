SPECIFICATION GatewaySpec
CONSTANTS
  Lanes = {main}
  NoLane = NoLane
  MaxEntries = 1
  MaxLimit = 1
  MaxResets = 2
INVARIANTS
  ServesAfterDrain
CHECK_DEADLOCK FALSE
