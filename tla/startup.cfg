\* The programs of a session stop: the manager may have nothing to do.
SPECIFICATION FairSpec
CHECK_DEADLOCK FALSE
CONSTANTS
  p1 = p1
  p2 = p2
  p3 = p3
  Programs = {p1, p2, p3}
  Prio <- TwoGroups
  MaxRestartAttempts = 2
  MaxOutsiders = 2
INVARIANTS TypeOK PropertiesHaveOneOwner StartersAreTimed NeverStranded CounterIsPositive
PROPERTIES GroupsInOrder ManagerTakesOver StartupEnds
