SPECIFICATION InTurnSpec
CONSTANTS
  Jobs = {j1, j2}
  WorkerCount = 1
  QueueCapacity = 1
  MaxRestarts = 1
  MaxFaults = 1
  MaxSpawns = 3
PROPERTY EveryCallReturns
PROPERTY QueueDrains
CHECK_DEADLOCK FALSE
