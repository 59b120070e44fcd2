SPECIFICATION RunsSpec
CONSTANTS
  Lanes = {s1, main, cron, nested}
  Sessions = {s1}
  Main = main
  Cron = cron
  Nested = nested
  NoLane = NoLane
  MaxEntries = 4
  MaxLimit = 1
  MaxResets = 1
INVARIANTS
  AcceptedRunIsNotRefused
CHECK_DEADLOCK FALSE
