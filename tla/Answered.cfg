\* Errands before and after, failing calls, clients that give up and restarts, under fairness.
SPECIFICATION FairSpec
CONSTANTS
  Requests = {r1, r2}
  NoRequest = NoRequest
  Pollers = {p1, p2}
  NoPoll = NoPoll
  MaxTasks = 4
  FailedStates = {"error"}
  Types = {"create", "upgrade", "recreate", "delete", "force-delete"}
  PostErrands = 1
  PreErrands = 1
  FaultKinds = {"error", "abandon", "restart"}
  MaxFaults = 1
  ConcurrentPolls = FALSE
  QuickTasks = FALSE
PROPERTIES
  AcceptedIsAnswered
