\* upgrade-all reaches an instance between its pre-delete errand and its delete.
SPECIFICATION Spec
CONSTANTS
  Requests = {r1, r2}
  NoRequest = NoRequest
  Pollers = {p1, p2}
  NoPoll = NoPoll
  MaxTasks = 6
  FailedStates = {"error"}
  Types = {"upgrade", "delete"}
  PostErrands = 0
  PreErrands = 1
  FaultKinds = {}
  MaxFaults = 0
  ConcurrentPolls = FALSE
  QuickTasks = FALSE
SYMMETRY Symmetry
INVARIANTS
  DeletionIsFinal
