\* A task may end before the poll that started it looks at it.
SPECIFICATION Spec
CONSTANTS
  Requests = {r1, r2}
  NoRequest = NoRequest
  Pollers = {p1, p2}
  NoPoll = NoPoll
  MaxTasks = 6
  FailedStates = {"error"}
  Types = {"create"}
  PostErrands = 1
  PreErrands = 0
  FaultKinds = {}
  MaxFaults = 0
  ConcurrentPolls = FALSE
  QuickTasks = TRUE
SYMMETRY Symmetry
INVARIANTS
  SucceededMeansEveryStepRan
