SPECIFICATION Spec
CONSTANTS
  NoModel = NoModel
  Loop = Loop
  Runtime = Runtime
  Index = index
  Models = {m1}
  Shards = {s1, s2}
  Others = {config}
  Workers = {w1, w2}
SYMMETRY Symmetry
INVARIANTS DownloadedIsWhole StateNeedsModel StateInv
PROPERTY StateGoesLast
