SPECIFICATION Spec
CONSTANTS
  x1 = x1
  x2 = x2
  d1 = d1
  Bus = Bus
  XsmpClients = {x1, x2}
  DBusClients = {d1}
  XTerms = {}
  Stoppable = {}
  Hints = {}
  MaxRestartAttempts = 1
  Wayland = FALSE
  Types = {"ask", "logout"}
SYMMETRY Symmetry
INVARIANTS OneInteracts SaversAreTimed WaitersAreNotTimed StatesAgree
PROPERTIES Phase2IsBarrier StoredWhenAllSaved RoundIsImplemented
VIEW WithoutOutput
CHECK_DEADLOCK FALSE
