SPECIFICATION Spec
CONSTANTS
  Subscriptions = {s1, s2}
  Deleters = {close, d1}
  Closer = close
  Handles = {1, 2}
  FreshHandles = TRUE
  QueueCapacity = 1
  MaxSamples = 1
  MaxStream = 1
  None = None
SYMMETRY SubscriptionSymmetry
INVARIANTS
  TypeOK
  EndReachesSubscribers
  LiveStaysSubscribed
  CloseDeletesWhatItFound
