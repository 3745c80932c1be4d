SPECIFICATION LoopSpec
CONSTANTS
  builtinTool = builtinTool
  hostTool = hostTool
  unknownTool = unknownTool
  Sessions = {s1}
  Tools <- KnownTools
  Known <- KnownTools
  Builtins = {builtinTool}
  Timed = {hostTool}
  MaxRuns = 1
  DefaultSteps = 3
  StepLimits = {3}
  DefaultTimeout = 0
  Timeouts = {0}
  DefaultCap = 1
  Caps = {1}
  Policies <- WholePolicy
  HostTimes = {}
  Ticks = {2}
  MaxTime = 0
  MaxTurns = 20
  MaxRecords = 20
  MaxMsgs = 20
  MaxChunks = 0
  MaxPending = 20
  MaxWritten = 40
INVARIANTS EveryCallExecuted
CHECK_DEADLOCK FALSE
