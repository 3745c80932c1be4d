SPECIFICATION Spec
CONSTANTS
  Sessions = {s1}
  DefaultSteps = 1
  StepLimits = {0, 1}
  DefaultTimeout = 1
  Timeouts = {1}
  DefaultCap = 128
  Caps = {1}
  HostTimes = {2}
  Policies <- CutPolicies
  Ticks = {2}
  MaxTime = 2
  MaxTurns = 2
  MaxRecords = 3
  MaxMsgs = 4
  MaxChunks = 0
  MaxPending = 1
  MaxWritten = 5
INVARIANTS EachTurnCommittedOnce MessagesConserved ToolRoundsWithinLimit
