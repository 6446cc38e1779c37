SPECIFICATION ReaderSpec
CONSTANTS
  Kinds <- RouterKinds
  MaxFrames = 2
  Packets <- SmallPackets
INVARIANTS
  StaysAligned
  HandsOnExactly
  OnlyStubsKillTheReader
  IteratesWhatWasParsed
  SlicesAreApart
