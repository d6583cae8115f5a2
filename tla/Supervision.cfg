SPECIFICATION FairSpec
CONSTANTS
  Runtime = Runtime
  Service = Service
INVARIANTS SupervisionInv AloneOnlyAfterEarlyTerm
PROPERTIES ImplementsDeployment EndsTogether WaitingStops
