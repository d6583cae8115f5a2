SPECIFICATION Spec
CONSTANTS
  NoModel = NoModel
  Loop = Loop
  Runtime = Runtime
  Index = index
  Models = {m1}
  Shards = {s1, s2}
  Others = {}
  Workers = {w1}
INVARIANT CachedIsWhole
