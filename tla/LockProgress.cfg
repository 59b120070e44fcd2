SPECIFICATION FairSpec
CONSTANTS
  gateway = gateway
  other = other
  run = run
  compaction = compaction
  command = command
  Procs <- AllProcs
  Tasks <- OneTaskEach
  ProcOf <- EachProcess
  Listeners <- Gateway
  Cleaner = cleanup
  NoFile = NoFile
  MaxDeaths = 1
PROPERTIES
  NoFileBlocksForever
CHECK_DEADLOCK FALSE
