SPECIFICATION FairRunsSpec
CONSTANTS
  Lanes = {s1, main, cron, nested}
  Sessions = {s1}
  Main = main
  Cron = cron
  Nested = nested
  NoLane = NoLane
  MaxEntries = 5
  MaxLimit = 1
  MaxResets = 1
INVARIANTS
  RunsTypeOK
  OneLiveRunPerSession
PROPERTIES
  OnlyOwnerUnregisters
  EveryRunSettles
CHECK_DEADLOCK FALSE
