SPECIFICATION Spec
CONSTANTS
  c1 = c1
  c2 = c2
  a = a
  b = b
  NoValue = NoValue
  NoFile = NoFile
  NoItem = NoItem
  Absent = Absent
  Clients = {c1, c2}
  Values = {a, b}
  SystemValues = {a, NoValue}
  Locks = {"no", "property", "channel"}
  Faults = {"write", "unlink", "timeout", "restart"}
  MaxEvents = 2
  MaxWrites = 2
CONSTRAINT Bounded
SYMMETRY Symmetry
INVARIANTS TypeOK Converged OwnWriteFirst RepliesAreDue BlockedAreAnswered ClosedIsWritten SavedOrDirty DirtyIsTimed LockHolds
CHECK_DEADLOCK FALSE
