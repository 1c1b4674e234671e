SPECIFICATION FairSpec
CONSTANTS
  MaxInstant = 3
  Delays = {0, 2}
  MaxJobs = 1
  MaxExecutionTime = 2
  MaxRejections = 1
INVARIANT CleanBetweenRuns
INVARIANT ReplyIsMainResult
INVARIANT QuietRunReplies
PROPERTY TimersInOrder
PROPERTY ImplementsJobRun
PROPERTY RunEnds
