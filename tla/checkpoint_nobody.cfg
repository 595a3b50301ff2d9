SPECIFICATION FairSpec
CONSTANTS
  d1 = d1
  Bus = Bus
  XsmpClients = {}
  DBusClients = {d1}
  XTerms = {}
  Stoppable = {}
  Hints = {}
  MaxRestartAttempts = 1
  Wayland = FALSE
  Types = {"logout"}
PROPERTY CheckpointEnds
CHECK_DEADLOCK FALSE
