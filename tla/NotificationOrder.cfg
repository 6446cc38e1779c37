SPECIFICATION FairSpec
CONSTANTS
  Subscriptions = {s1}
  Deleters = {close, d1}
  Closer = close
  Handles = {1}
  FreshHandles = TRUE
  QueueCapacity = 2
  MaxSamples = 4
  MaxStream = 3
  None = None
INVARIANTS
  SamplesInOrder
PROPERTIES
  DroppedIsDeleted
