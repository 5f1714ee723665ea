CONSTANTS
  MaxRetime = 2
  PingMax = 1
  Histories = 1
SPECIFICATION Spec
PROPERTIES
  LoginNotRestarted
