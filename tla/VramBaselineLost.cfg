SPECIFICATION Spec
CONSTANTS
  None = None
  Loop = Loop
  Workers = {w1}
  Total = 3
  Weights = 2
  CrashMidWrite = FALSE
PROPERTY ModelFreeBaselineStays
