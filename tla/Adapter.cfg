SPECIFICATION FairSpec
CONSTANTS
  NoRequest = NoRequest
  Unmeasured = Unmeasured
  Models = {m1, m2}
  Requests = {r1}
  TokenCounts = {1, 2, 5}
  Window = 4
  KvBytes = 2
  RequestOverhead = 1
  BatchOverhead = 1
  SafetyMargin = 1
  RuntimeReserve = 1
  FreeReadings = {6, 9}
  Figures = {0, 4, 7}
  Priorities = {0}
  Times = {0}
  QueueTtl = 1
  MaxQueue = 2
INVARIANTS QueueAlwaysEmpty QueueInv AdmittedFits
PROPERTY RequestsAreAnswered
