\* The client gives up on a delete and sends another one.
SPECIFICATION Spec
CONSTANTS
  Requests = {r1, r2}
  NoRequest = NoRequest
  Pollers = {p1, p2}
  NoPoll = NoPoll
  MaxTasks = 6
  FailedStates = {"error"}
  Types = {"delete"}
  PostErrands = 0
  PreErrands = 0
  FaultKinds = {"abandon"}
  MaxFaults = 1
  ConcurrentPolls = FALSE
  QuickTasks = FALSE
SYMMETRY Symmetry
INVARIANTS
  AcceptedHasTask
