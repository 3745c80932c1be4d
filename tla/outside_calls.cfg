SPECIFICATION MCSpec
CONSTANTS
  \* McpStdio
  Initialize = Initialize
  List = List
  None = None
  Calls = {c1, c2}
  MaxNoise = 1
  \* ServerManager
  ToolServers = {v1, v2, v3}
  Configured = {v1, v2}
  Builtin = {v2}
  MgrCalls = {k1, k2, k3}
  NoTransport = NoTransport
  \* LlmProxy
  m1 = m1
  LlmCalls = {m1, m2, m3}
  LlmSessions = {s1}
  Anonymous = Anonymous
  DefaultKey = DefaultKey
  Quota = 1
  KeyLimit = 1
  Providers = {p}
  DefaultProvider = p
  Asked = {p, q}
  Unnamed = Unnamed
  Missing = Missing
  Streams <- TheStreams
  Ways <- TheWays
CHECK_DEADLOCK FALSE
INVARIANTS OwnAnswer HandlesReturn QuotaHolds
PROPERTIES CallsEnd ReplacedByRivalsOnly EveryTokenDelivered
