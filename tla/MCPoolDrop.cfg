SPECIFICATION FairSpec
CONSTANTS
  Jobs = {j1}
  WorkerCount = 1
  QueueCapacity = 1
  MaxRestarts = 1
  MaxFaults = 0
  MaxSpawns = 3
PROPERTY DropCompletes
CHECK_DEADLOCK FALSE
