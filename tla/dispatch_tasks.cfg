SPECIFICATION FairSpec
CONSTANTS
  t1 = t1
  t2 = t2
  t3 = t3
  t4 = t4
  Tasks = {t1, t2, t3, t4}
  Batches <- TwoBatches
  MaxConcurrent = 2
  MaxSteps = 1
  MaxTasks = 4
  MaxRetries = 1
  Condition = "OnTransient"
  AttemptMax = 255
  RunSteps = 2
  Unroutable = {t4}
  Deadlined = {t2}
  Guarded = TRUE
CHECK_DEADLOCK FALSE
INVARIANTS CancelStops TaskCap StepOverrunBounded
PROPERTIES PoolSpec EveryTaskAnswered
