CONSTANTS
  r1 = r1  r2 = r2  w1 = w1  w2 = w2
  None = None
  Repos = {r1, r2}
  Workers = {w1, w2}
  CommitTimes = {1, 2}
  Spaced = {r2}
  Fragments = {2}
  Given <- Options
  MaxTimeout = 11
  RespawnMax = 2
  RespawnWindow = 2
  RespawnDelay = 1
  MaxFails = 1
SPECIFICATION Spec
INVARIANTS
  RespawnLimit
PROPERTIES
  SessionIsRecovered
  WorkerComesBack
