SPECIFICATION Spec
CONSTANTS
  Sessions = {s1, s2}
  Versions = {v1, v2}
  NoSession = NoSession
  CacheEnabled = TRUE
  MaxSessions = 1
  Expires = TRUE
  Backups = TRUE
  Verify = TRUE
  MaxFaults = 1
SYMMETRY Symmetry
INVARIANTS CacheOrdered CacheCoherent OneWholeCopy
