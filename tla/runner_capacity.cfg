SPECIFICATION Spec
CONSTANTS
  Sessions = {s1, s2, s3}
  DefaultSteps = 0
  StepLimits = {0}
  DefaultTimeout = 1
  Timeouts = {0, 1}
  DefaultCap = 2
  Caps = {1}
  HostTimes = {4}
  Policies <- WholePolicy
  Ticks = {2}
  MaxTime = 2
  MaxTurns = 1
  MaxRecords = 0
  MaxMsgs = 0
  MaxChunks = 1
  MaxPending = 1
  MaxWritten = 0
SYMMETRY Symmetry
PROPERTIES StreamSurvives OldestGoFirst
