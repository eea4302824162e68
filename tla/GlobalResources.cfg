\* One request at a time under a global limit on a resource.
SPECIFICATION Spec
CONSTANTS
  Plans = {small, large}
  Workers = {w1}
  NoWorker = NoWorker
  NoLimit = NoLimit
  InstanceLimits = {NoLimit}
  PlanResourceLimits = {0}
  GlobalResourceLimits = {1}
  Costs = {1}
  MaxInstances = 4
INVARIANTS
  GlobalResourcesKept
