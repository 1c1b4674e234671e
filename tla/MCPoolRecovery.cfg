SPECIFICATION FairSpec
CONSTANTS
  Jobs = {j1}
  WorkerCount = 1
  QueueCapacity = 1
  MaxRestarts = 1
  MaxFaults = 2
  MaxSpawns = 5
PROPERTY PoolRecovers
PROPERTY DropCompletesWhenSeen
CHECK_DEADLOCK FALSE
