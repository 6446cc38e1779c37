SPECIFICATION Spec
CONSTANTS
  Tasks = {t1}
  Symbols = {s1}
  Operations = {"read", "connect", "retry", "disconnect"}
  SetToRunMode = TRUE
  None = None
INVARIANTS
  CachedHandlesAreCurrent
