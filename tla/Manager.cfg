SPECIFICATION Spec
CONSTANTS
  NoPid = NoPid
  Operators = {o1, o2}
  Pids = {p1, p2, p3}
SYMMETRY Symmetry
INVARIANTS ManagerInv ServersAreManaged OneServer StopLeavesNone
PROPERTY HealthIsOwn
