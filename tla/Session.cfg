CONSTANTS
  a1 = a1
  a2 = a2
  r1 = r1
  r2 = r2
  NoRoom = NoRoom
  Addr <- TwoFronts
  Room <- TwoRooms
  PoolLimit = 4
  UdpEnabled = FALSE
  LbsMaxTime = 2
  LookupBound = 3
SPECIFICATION FairSpec
INVARIANTS
  NotStranded
  TimerOnlyIdle
PROPERTIES
  ManagerSpec
  LookupEnds
