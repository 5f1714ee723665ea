CONSTANTS
  MaxRetime = 5
  PingMax = 3
  Histories = 2
SPECIFICATION FairSpec
INVARIANTS
  TypeOK
  RetriesBounded
  LoggedInWhole
  AttemptGuarded
PROPERTIES
  LogoutComplete
  AttemptEnds
  RetriesStop
