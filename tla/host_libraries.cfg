SPECIFICATION MCSpec
CONSTANTS
  \* RateLimiter
  Sessions = {s1, s2}
  Configs <- AllConfigs
  First <- Usual
  Size <- Sizes
  IdleTimeout = 3
  Interval = 2
  Width = 8
  MaxUpdates = 1
  \* HostAgent and SessionStore
  r1 = r1
  Runs = {r1, r2}
  Ids = {s1}
  Unset = Unset
  MaxSessions = 1
  Budget = 3
  MinHistory = 1
  MaxSteps <- TheSteps
  MaxJsonRetries = 1
  Costs = {2}
  MaxPrunes = 1
  \* SecretManager
  SecretIds = {s1}
  SecretConfigs <- SecretSettings
  FirstConfig <- ByHand
  Lifetime = 2
  MaxStored = 4
  MaxReconfigured = 2
  \* LogStream
  u1 = u1
  u2 = u2
  u3 = u3
  Loggers = {t1, t2}
  Subscribers = {u1, u2, u3}
  Capacity = 2
  Depth = 1
  MaxEntries = 3
  MaxClears = 1
  Nobody = Nobody
  \* TaskGuards
  GuardedTasks = {g1, g2, g3}
  GuardLimit = 1
  GuardWindow = 2
  MaxClock = 3
  Chains <- TheChains
  Policy <- ThePolicy
  Fields <- TheFields
  StepCounts = {0, 1}
  Absent = Absent
  g1 = g1
  g2 = g2
  \* AgentRouting
  q1 = q1
  q2 = q2
  q3 = q3
  q4 = q4
  a1 = a1
  a2 = a2
  w1 = w1
  w2 = w2
  s1 = s1
  s2 = s2
  Agents = {a1, a2}
  Roles = {w1, w2}
  RoutedTasks = {q1, q2, q3, q4}
  Request <- Asks
  Batch <- OneBatch
  Routers <- RouterNames
  CounterWidth = 3
  MaxManaged = 1
  SessionTtl = 1
  Nothing = Nothing
CHECK_DEADLOCK FALSE
INVARIANTS MinuteHolds DayChargesServed SessionsInStep CallsBounded NothingElseVanishes ServesNewestValid BufferConsecutive LiveStaySubscribed LatestWindowHolds RoundRobinEven
PROPERTIES IdleSessionsLeave LogReturns
