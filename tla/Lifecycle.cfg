SPECIFICATION Spec
CONSTANTS
  NoModel = NoModel
  Loop = Loop
  Models = {m1, m2}
  Workers = {w1, w2}
  HasProbe = TRUE
SYMMETRY Symmetry
INVARIANTS FailedStageWasAnnounced UnmarkedOnlyAfterOverlap MarkerOnlyForSwitch ResidentWasListed LifecycleInv
PROPERTIES ChatAvoidsSwitch ResidentModelStays
