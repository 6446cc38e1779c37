SPECIFICATION SymbolsSpec
CONSTANTS
  Uploads <- SmallUploads
  LayoutOf <- SmallLayouts
  Buffer = 4
  ReadBuffer = 120
  Elsewhere = 255
  None = None
  NoOffset = None
  TimeKeys <- TimeNames
  DayOfWeek <- SecondName
  Wanted <- WantedNames
  Lengths <- SampleLengths
  Lower <- Capitals
INVARIANTS
  SlicesNest
  RoundTrip
  DamageIsContained
  CutIsRefused
  FullSamplesAreRead
  TreeAndMapAgree
  MapPanicsWithTree
