SPECIFICATION Spec
CONSTANTS
  Byte <- Bits
  Unset = Unset
  Field = 2
  LE <- TwoBits
  States <- KnownStates
  Requests <- SmallRequests
  Payloads <- ShortPayloads
INVARIANTS
  DInv
  ErrorsAreOurs
  FilledFromReply
  ReadTellsWhatIsFilled
  OnlyShortRepliesPanic
