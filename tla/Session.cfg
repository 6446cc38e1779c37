SPECIFICATION FairSpec
CONSTANTS
  Tasks = {t1, t2}
  Symbols = {s1}
  Operations = {"read", "retry", "disconnect"}
  SetToRunMode = TRUE
  None = None
INVARIANTS
  TypeOK
  OneOpenClient
  ConnectedMeansRunWasSeen
PROPERTIES
  OperationsReturn
  RetrySucceeds
