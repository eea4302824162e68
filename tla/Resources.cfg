\* Three requests on a provisioned instance without pre-delete errands.
SPECIFICATION Spec
CONSTANTS
  Requests = {r1, r2, r3}
  NoRequest = NoRequest
  Pollers = {p1, p2}
  NoPoll = NoPoll
  MaxTasks = 9
  FailedStates = {"error"}
  Types = {"update", "recreate", "delete", "force-delete"}
  PostErrands = 1
  PreErrands = 0
  FaultKinds = {}
  MaxFaults = 0
  ConcurrentPolls = FALSE
  QuickTasks = FALSE
SYMMETRY Symmetry
INVARIANTS
  DeletionDropsClient
  DeploymentKeepsItsResources
