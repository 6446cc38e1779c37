SPECIFICATION FairSpecPeerTakesBytes
CONSTANTS
  Requests = {r1, r2}
  CloseRequests = {}
  IdModulus = 6
  MaxConsecutiveTimeouts = 2
  ReadTimeout = FALSE
  WriteTimeout = FALSE
  SourcePortOpened = TRUE
  Cancellable = {}
  PeerFaults = {"gone"}
  None = None
PROPERTIES
  KeepsPromise
  EndWakesCallers
