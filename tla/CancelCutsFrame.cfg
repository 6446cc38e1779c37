SPECIFICATION Spec
CONSTANTS
  Requests = {r1, r2}
  CloseRequests = {}
  IdModulus = 6
  MaxConsecutiveTimeouts = 2
  ReadTimeout = TRUE
  WriteTimeout = FALSE
  SourcePortOpened = FALSE
  Cancellable = {r1}
  PeerFaults = {"gone"}
  None = None
INVARIANTS
  OpenConnectionIsFramed
