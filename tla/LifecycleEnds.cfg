SPECIFICATION FairSpec
CONSTANTS
  NoModel = NoModel
  Loop = Loop
  Models = {m1, m2}
  Workers = {w1}
  HasProbe = TRUE
PROPERTIES SwitchStallsOnlyInDownload MarkerIsCleared
