SPECIFICATION Spec
CONSTANTS
  Initialize = Initialize
  List = List
  None = None
  Calls = {c1}
  MaxNoise = 0
INVARIANTS ConnectedServes
CHECK_DEADLOCK FALSE
