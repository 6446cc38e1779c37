SPECIFICATION FairSpec
CONSTANTS
  Requests = {r1, r2}
  CloseRequests = {}
  IdModulus = 6
  MaxConsecutiveTimeouts = 2
  ReadTimeout = TRUE
  WriteTimeout = TRUE
  SourcePortOpened = FALSE
  Cancellable = {}
  PeerFaults = {"shortNotification"}
  None = None
PROPERTIES
  DeadReaderEndsConnection
