SPECIFICATION Spec
CONSTANTS
  Namespaces = {n1, n2}
  Sessions = {s1, s2}
  Names = {f}
  NoBinding = NoBinding
  MaxCompany = 2
  Served = Served
  Scratch = Scratch
  Other = Other
  NoModel = NoModel
  RunTrees <- AtMostOneFile
SYMMETRY Alike
INVARIANTS TypeOK PurgeStaysInScope PurgeAnswersTruly PassedMeansHeld UndisturbedRunPasses ServedWeightsStay
CHECK_DEADLOCK FALSE
