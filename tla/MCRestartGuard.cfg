SPECIFICATION GuardSpec
CONSTANTS
  Window = 2
  MaxRestarts = 2
  MaxTime = 9
INVARIANT RateBounded
INVARIANT RefusedOnlyWhenFull
INVARIANT DequeIsRecentHistory
PROPERTY ImplementsRate
