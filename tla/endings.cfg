SPECIFICATION FairSpec
CONSTANTS
  x1 = x1
  d1 = d1
  Bus = Bus
  XsmpClients = {x1}
  DBusClients = {d1}
  XTerms = {x1}
  Stoppable = {d1}
  Hints = {"Never"}
  MaxRestartAttempts = 1
  Wayland = FALSE
  Types = {"ask", "logout", "sleep"}
PROPERTIES SavingEnds DieEnds
VIEW WithoutStore
CHECK_DEADLOCK FALSE
