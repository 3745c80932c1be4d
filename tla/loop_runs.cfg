SPECIFICATION FairLoopSpec
CONSTANTS
  builtinTool = builtinTool
  hostTool = hostTool
  unknownTool = unknownTool
  Sessions = {s1}
  Tools <- AllTools
  Known <- KnownTools
  Builtins = {builtinTool}
  Timed = {hostTool}
  MaxRuns = 2
  DefaultSteps = 3
  StepLimits = {2, 3}
  DefaultTimeout = 1
  Timeouts = {1}
  DefaultCap = 1
  Caps = {1}
  Policies <- WholePolicy
  HostTimes = {}
  Ticks = {2}
  MaxTime = 2
  MaxTurns = 20
  MaxRecords = 20
  MaxMsgs = 20
  MaxChunks = 0
  MaxPending = 20
  MaxWritten = 40
CHECK_DEADLOCK FALSE
INVARIANTS ExecutedOnce LoopMatchesFsm SkippedOnlyOnRepeat
PROPERTIES RunsEnd
