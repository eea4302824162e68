\* Two plans, two requests at a time, small limits of every kind.
SPECIFICATION Spec
CONSTANTS
  Plans = {small, large}
  Workers = {w1, w2}
  NoWorker = NoWorker
  NoLimit = NoLimit
  InstanceLimits = {NoLimit, 2}
  PlanResourceLimits = {0, 2}
  GlobalResourceLimits = {NoLimit}
  Costs = {1, 2}
  MaxInstances = 4
INVARIANTS
  TypeOK
  PlanQuotasKept
  GlobalLimitKept
