\* Three calls on two workers and one replacement, with a queue that can fill.
SPECIFICATION Spec
CONSTANTS
  Calls = {c1, c2, c3}
  Workers = {w1, w2, w3}
  FirstIds = {w1, w2}
  Capacity = 1
SYMMETRY Symmetry
INVARIANT BusyCountsGuards
INVARIANT AcceptedOrCompleted
 
CHECK_DEADLOCK FALSE
