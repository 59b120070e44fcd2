SPECIFICATION FairSpec
CONSTANTS
  Kinds = {"every", "cron", "at"}
  NoJob = NoJob
  NotLoaded = NotLoaded
  StuckAfter = 0
  MaxTime = 2
  MaxEvents = 2
INVARIANTS
  CronTypeOK
  OneRunPerJob
  MarkerHasRun
PROPERTIES
  SlotNotSkipped
  DueJobRuns
CHECK_DEADLOCK FALSE
