\* An upgrade whose instance is deleted before its errand.  (Types = {"delete"}, PreErrands = 1,
\* FaultKinds = {"abandon"}, MaxFaults = 1 shows the delete sent after one that was given up.)
SPECIFICATION FairSpec
CONSTANTS
  Requests = {r1, r2}
  NoRequest = NoRequest
  Pollers = {p1, p2}
  NoPoll = NoPoll
  MaxTasks = 4
  FailedStates = {"error"}
  Types = {"upgrade", "delete"}
  PostErrands = 1
  PreErrands = 0
  FaultKinds = {}
  MaxFaults = 0
  ConcurrentPolls = FALSE
  QuickTasks = FALSE
PROPERTIES
  AcceptedIsAlwaysAnswered
