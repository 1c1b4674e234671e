\* Every configuration, the default client and a plugged-in one.
SPECIFICATION FairSpec
CONSTANTS
    MaxInstant = 7
    ClockMax = 20
    MaxSetup = 1
    MaxSize = 2
    Statuses <- MCStatuses
    Endpoints <- MCEndpoints
    Clients = {"default", "custom"}
    RetryDelays = {0, 1, 3}
INVARIANTS WaitsWithinBudget AttemptsBounded LimitIsExact ContentTypeMatchesBody
PROPERTIES OnlyTransientRetried CallSettles
CHECK_DEADLOCK FALSE
