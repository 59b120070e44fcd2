SPECIFICATION FairSpec
CONSTANTS
  Kinds = {"every"}
  NoJob = NoJob
  NotLoaded = NotLoaded
  StuckAfter = 0
  MaxTime = 2
  MaxEvents = 2
PROPERTY RunningJobIsNotRunAgain
CHECK_DEADLOCK FALSE
