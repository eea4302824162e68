\* A plan with two post-deploy errands: every operation, every kind of fault.
SPECIFICATION Spec
CONSTANTS
  Requests = {r1, r2}
  NoRequest = NoRequest
  Pollers = {p1, p2}
  NoPoll = NoPoll
  MaxTasks = 6
  FailedStates = {"error"}
  Types = {"create", "update", "upgrade", "delete"}
  PostErrands = 2
  PreErrands = 0
  FaultKinds = {"error", "abandon", "restart"}
  MaxFaults = 1
  ConcurrentPolls = FALSE
  QuickTasks = FALSE
SYMMETRY Symmetry
INVARIANTS
  TypeOK
  HandlerTasksExclusive
  StepsInOrder
  DeletionIsFinal
PROPERTIES
  KeepsPromise
