\* A create answered with an error after its deploy began, then a delete.
SPECIFICATION Spec
CONSTANTS
  Requests = {r1, r2}
  NoRequest = NoRequest
  Pollers = {p1, p2}
  NoPoll = NoPoll
  MaxTasks = 6
  FailedStates = {"error"}
  Types = {"create", "delete"}
  PostErrands = 0
  PreErrands = 0
  FaultKinds = {"error"}
  MaxFaults = 1
  ConcurrentPolls = FALSE
  QuickTasks = FALSE
SYMMETRY Symmetry
INVARIANTS
  GoneIsFinal
