\* Two requests of any kind, Redis and the database failing now and then.
SPECIFICATION Spec
CONSTANTS
  Entry <- MCEntry
  Own <- MCOwn
  Soon <- MCSoon
  Session = {s1, s2}
  Copies = 1
  RedisFails = TRUE
  DbFails = TRUE
  None = None
SYMMETRY Symmetry
INVARIANT TypeOK
INVARIANT CachedWasCommitted
INVARIANT AloneRefreshes
PROPERTY SyncOverwrites
PROPERTY TermKept
CHECK_DEADLOCK FALSE
