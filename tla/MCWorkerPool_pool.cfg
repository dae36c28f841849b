\* Three tasks of two priorities, two workers, timeouts, load errors and a terminate().
SPECIFICATION FairSpec
CONSTANTS
  InitialSize = 1
  MaxQueueSize = 2
  MaxSize = 2
  Priorities <- LowAndHigh
  MaxTasks = 3
  MaxWorkers = 8
  MaxEvents = 2
INVARIANT AnswersAreOwn
PROPERTY EveryTaskEnds
\* Every accepted task has come to its end.
CHECK_DEADLOCK FALSE
