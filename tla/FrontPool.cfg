CONSTANTS
  a1 = a1
  a2 = a2
  a3 = a3
  a4 = a4
  Addr <- FourFronts
  PoolLimit = 4
  UdpEnabled = TRUE
SPECIFICATION SpecInfoDown
SYMMETRY Symmetry
INVARIANTS
  TypeOK
  NoDuplicates
  HeadLoggedIn
  OneMain
PROPERTIES
  ToldAgrees
  MainLostOnlyByClose
  ChangesThrottled
  GiveUpLeavesTwo
