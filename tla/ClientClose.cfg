SPECIFICATION FairSpec
CONSTANTS
  Requests = {r1}
  CloseRequests = {d1}
  IdModulus = 6
  MaxConsecutiveTimeouts = 2
  ReadTimeout = TRUE
  WriteTimeout = TRUE
  SourcePortOpened = TRUE
  Cancellable = {r1}
  PeerFaults = {"gone", "badFrame", "shortNotification"}
  None = None
INVARIANTS
  NoWaitAfterEnd
  CutFrameEndsConnection
PROPERTIES
  FirstReasonWins
  EveryCallReturns
  CloseReturns
