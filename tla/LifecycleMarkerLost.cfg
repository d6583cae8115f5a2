SPECIFICATION Spec
CONSTANTS
  NoModel = NoModel
  Loop = Loop
  Models = {m1, m2}
  Workers = {w1, w2}
  HasProbe = TRUE

INVARIANT MarkerCoversSwitch
