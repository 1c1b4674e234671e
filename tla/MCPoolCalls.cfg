SPECIFICATION Spec
CONSTANTS
  Jobs = {j1, j2}
  WorkerCount = 1
  QueueCapacity = 1
  MaxRestarts = 1
  MaxFaults = 1
  MaxSpawns = 4
SYMMETRY JobSymmetry
INVARIANT TypeOK
INVARIANT AtMostOnce
INVARIANT RefusedLeavesNothing
INVARIANT MainReplyWins
PROPERTY NoStartAfterReturn
CHECK_DEADLOCK FALSE
