SPECIFICATION Spec
CONSTANTS
  d1 = d1
  Bus = Bus
  XsmpClients = {}
  DBusClients = {d1}
  XTerms = {}
  Stoppable = {d1}
  Hints = {}
  MaxRestartAttempts = 1
  Wayland = FALSE
  Types = {"logout"}
INVARIANT KillTimersHaveClients
CHECK_DEADLOCK FALSE
