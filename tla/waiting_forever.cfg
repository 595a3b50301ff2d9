SPECIFICATION UserSpec
CONSTANTS
  x1 = x1
  x2 = x2
  Bus = Bus
  XsmpClients = {x1, x2}
  DBusClients = {}
  XTerms = {}
  Stoppable = {}
  Hints = {}
  MaxRestartAttempts = 1
  Wayland = FALSE
  Types = {"logout"}
PROPERTY WaitersAreServed
CHECK_DEADLOCK FALSE
