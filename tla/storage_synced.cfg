SPECIFICATION Spec
CONSTANTS
  Sessions = {s1}
  Versions = {v1, v2}
  NoSession = NoSession
  CacheEnabled = TRUE
  MaxSessions = 1
  Expires = TRUE
  Backups = TRUE
  Verify = TRUE
  MaxFaults = 0
SYMMETRY Symmetry
PROPERTY BackupDeletedWhenSynced
