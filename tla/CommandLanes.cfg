SPECIFICATION FairSpec
CONSTANTS
  Lanes = {main, cron}
  NoLane = NoLane
  MaxEntries = 3
  MaxLimit = 2
  MaxResets = 1
INVARIANTS
  TypeOK
  SlotsAreCurrentTasks
  NoIdleLane
  PendingIsSomewhere
  DrainReportSound
PROPERTIES
  StartsWithinLimit
  EveryCallSettles
  ImplementsContract
CHECK_DEADLOCK FALSE
