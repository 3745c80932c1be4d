SPECIFICATION MCSpec
CONSTANTS
  \* ControlChannel
  tool = tool
  hook = hook
  Requests = {tool, hook}
  Hooks = {hook}
  Ttl = 1
  Capacity = 1
  MaxStreams = 2
  Tokens = TRUE
  \* ToolRouter
  t1 = t1
  t2 = t2
  None = None
  Tools = {t1, t2}
  Servers = {m1, m2}
  Calls = {c1}
  Lists <- ThreeLists
  Allowed <- Gate
CHECK_DEADLOCK FALSE
INVARIANTS AcceptedIsTaken PendingIsAwaited RoutedToOwner OwnersCanServe
PROPERTIES SettledOnceByThePeer
