SPECIFICATION Spec
CONSTANTS
  gateway = gateway
  other = other
  run = run
  compaction = compaction
  command = command
  Procs <- AllProcs
  Tasks <- AllTasks
  ProcOf <- TaskProcesses
  Listeners <- Gateway
  Cleaner = cleanup
  NoFile = NoFile
  MaxDeaths = 1
INVARIANTS
  LockTypeOK
  WritersExclude
  CountIsHolders
PROPERTIES
  LiveRemovalHasCause
SYMMETRY GatewayTasks
CHECK_DEADLOCK FALSE
