SPECIFICATION Spec
CONSTANTS
  d1 = d1
  d2 = d2
  Bus = Bus
  XsmpClients = {}
  DBusClients = {d1, d2}
  XTerms = {}
  Stoppable = {d1, d2}
  Hints = {"Anyway", "Immediately"}
  MaxRestartAttempts = 1
  Wayland = TRUE
  Types = {"logout", "sleep"}
PROPERTIES OnlyCheckpointsStore
CHECK_DEADLOCK FALSE
