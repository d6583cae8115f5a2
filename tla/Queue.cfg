SPECIFICATION Spec
CONSTANTS
  NoRequest = NoRequest
  Models = {m1}
  Requests = {r1, r2}
  TokenCounts = {1, 2}
  Window = 2
  KvBytes = 1
  RequestOverhead = 1
  BatchOverhead = 0
  Figures = {0, 2, 3}
  Priorities = {0}
  QueueTtl = 1
  MaxQueue = 2
  MaxTime = 1
SYMMETRY Symmetry
INVARIANTS TypeOK QueuedIsInQueue LaunchesAreQueuedAndFit
