\* A plan with two pre-delete errands: recreate and both kinds of delete.
SPECIFICATION Spec
CONSTANTS
  Requests = {r1, r2}
  NoRequest = NoRequest
  Pollers = {p1, p2}
  NoPoll = NoPoll
  MaxTasks = 6
  FailedStates = {"error"}
  Types = {"recreate", "delete", "force-delete"}
  PostErrands = 0
  PreErrands = 2
  FaultKinds = {"error", "abandon", "restart"}
  MaxFaults = 1
  ConcurrentPolls = FALSE
  QuickTasks = FALSE
SYMMETRY Symmetry
INVARIANTS
  DeploymentKeepsItsResources
PROPERTIES
  KeepsPromise
