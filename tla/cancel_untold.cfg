SPECIFICATION Spec
CONSTANTS
  x1 = x1
  d1 = d1
  Bus = Bus
  XsmpClients = {x1}
  DBusClients = {d1}
  XTerms = {}
  Stoppable = {}
  Hints = {}
  MaxRestartAttempts = 1
  Wayland = FALSE
  Types = {"logout"}
PROPERTY CancelIsTold
CHECK_DEADLOCK FALSE
