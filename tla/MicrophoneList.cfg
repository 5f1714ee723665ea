CONSTANTS
  u1 = u1
  u2 = u2
  u3 = u3
  u4 = u4
  g1 = g1
  User <- FourUsers
  Guest <- OneGuest
  MaxSent = 1
  MaxRequests = 1
SPECIFICATION Spec
SYMMETRY Symmetry
INVARIANTS
  CaughtUp
PROPERTIES
  ViewerSpec
