SPECIFICATION FairFollowupSpec
CONSTANTS
  Settings <- SettingsInUse
  Routings <- RoutingsInUse
  Unroutable = local
  MaxMessages = 3
  MaxQueues = 2
  MaxFailures = 1
INVARIANTS
  FollowupTypeOK
  OneDrainPerSession
  WaitingIsReachable
  IdleQueueIsTended
PROPERTIES
  DeliveredInOrder
  SkippedOnlyAfterOverflow
  DrainEnds
CHECK_DEADLOCK FALSE
