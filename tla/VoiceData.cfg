CONSTANTS
  Seqs <- MCSeqs
  SeqPage = 6
  HeaderMax = 2
  MaxLostGap = 3
  GitterMax = 100
  PackTime = 80
  Lateness <- MCLateness
  PackSize = 2
  EmptyMax = 3
SPECIFICATION FairSpec
INVARIANTS
  TypeOK
  AheadOfPlayback
  FirstFetchHasFront
  DelayBounded
  OverrunBounded
PROPERTIES
  PlayedInOrder
  AskedMissing
  BufferDrains
  StopEnds
  SilenceEnds
