CONSTANTS
  t1 = t1
  t2 = t2
  Threads = {t1, t2}
  BatchSize = 2
  Limits <- OneOrTwo
  Quiet <- FirstIsQuiet
  MaxMessages = 2
  MaxCalls = 3
SPECIFICATION Spec
CHECK_DEADLOCK FALSE
INVARIANTS
  JoinDrains
  ThreadOrder
  RotationKeepsLatest
PROPERTIES
  QueueIsEmptied
  CallsReturn
  ImplementsLog
