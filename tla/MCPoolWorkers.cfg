\* Two workers, three faults, and two calls one at a time.
SPECIFICATION Spec
CONSTANTS
  Jobs = {j1, j2}
  WorkerCount = 2
  QueueCapacity = 1
  MaxRestarts = 1
  MaxFaults = 3
  MaxSpawns = 8
SYMMETRY JobSymmetry
VIEW WithoutHistory
CONSTRAINTS OneCallAtATime NoDeadline
INVARIANT BoundedWorkers
INVARIANT HandlesAccountedFor
INVARIANT CleanTeardown
CHECK_DEADLOCK FALSE
