\* Two requests of any kind, nothing failing: a registration and a reader do.
SPECIFICATION Spec
CONSTANTS
  Entry <- MCEntry
  Own <- MCOwn
  Soon <- MCSoon
  Session = {s1, s2}
  Copies = 1
  RedisFails = FALSE
  DbFails = FALSE
  None = None
INVARIANT BufferFresh
CHECK_DEADLOCK FALSE
