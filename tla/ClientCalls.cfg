SPECIFICATION Spec
CONSTANTS
  Requests = {r1, r2}
  CloseRequests = {}
  IdModulus = 6
  MaxConsecutiveTimeouts = 2
  ReadTimeout = TRUE
  WriteTimeout = TRUE
  SourcePortOpened = TRUE
  Cancellable = {r1, r2}
  PeerFaults = {"gone", "badFrame", "shortNotification", "duplicateReply"}
  None = None
SYMMETRY CallSymmetry
INVARIANTS
  IInv
  NoStrandedCaller
  OwnReply
  FailuresHaveReasons
  TimeoutsEndConnection
