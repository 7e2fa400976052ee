CONSTANTS
  p1 = p1
  p2 = p2
  p3 = p3
  None = None
  Procs = {p1, p2, p3}
  Faults = {"crash", "io_error", "remove_lock", "kill_all"}
SPECIFICATION Spec
INVARIANTS
  TypeOK
  ExclusiveUntilTaken
  LockNamesOwner
  NoLockLeftBehind
PROPERTIES
  OnlyStaleIsRemoved
  StaleLockRecovered
