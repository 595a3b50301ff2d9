SPECIFICATION RestoredSpec
CONSTANTS
  x1 = x1
  d1 = d1
  Bus = Bus
  XsmpClients = {x1}
  DBusClients = {d1}
  XTerms = {}
  Stoppable = {x1, d1}
  Hints = {"Anyway", "Immediately"}
  MaxRestartAttempts = 1
  Wayland = FALSE
  Types = {"logout"}
INVARIANTS TypeOK PropertiesHaveOneOwner TimersHaveClients RestartsAreBounded
VIEW WithoutStore
CHECK_DEADLOCK FALSE
