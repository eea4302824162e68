\* Two polls of one operation at a time.
SPECIFICATION Spec
CONSTANTS
  Requests = {r1, r2}
  NoRequest = NoRequest
  Pollers = {p1, p2}
  NoPoll = NoPoll
  MaxTasks = 6
  FailedStates = {"error"}
  Types = {"create"}
  PostErrands = 1
  PreErrands = 0
  FaultKinds = {}
  MaxFaults = 0
  ConcurrentPolls = TRUE
  QuickTasks = FALSE
SYMMETRY Symmetry
INVARIANTS
  StepsInOrder
