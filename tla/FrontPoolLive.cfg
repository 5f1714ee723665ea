CONSTANTS
  a1 = a1
  a2 = a2
  a3 = a3
  a4 = a4
  Addr <- ThreeFronts
  PoolLimit = 3
  UdpEnabled = FALSE
SPECIFICATION FairSpec
ACTION_CONSTRAINT Narrow
PROPERTIES
  
  InfoRestored
