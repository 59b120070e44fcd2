SPECIFICATION FollowupSpec
CONSTANTS
  Settings <- DefaultSettings
  Routings <- RoutingsInUse
  Unroutable = local
  MaxMessages = 3
  MaxQueues = 2
  MaxFailures = 0
INVARIANTS
  NoMessageSkipped
CHECK_DEADLOCK FALSE
