CONSTANTS
  me = me
  u1 = u1
  c1 = c1
  User <- TwoUsers
  Self = me
  Channel <- OneChannel
  Hall = hall
  Nowhere = nowhere
  MaxSent = 2
SPECIFICATION Spec
INVARIANTS
  OnlyPresent
