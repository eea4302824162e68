\* An instance changes its plan while the instances are listed plan by plan.
SPECIFICATION Spec
CONSTANTS
  small = small
  large = large
  org1 = org1
  org2 = org2
  Plans = {small, large}
  Orgs = {org1, org2}
  Guids = {i1, i2}
  Bindings = {b}
  Keys = {k}
  PlanChanges = TRUE
  MaxFaults = 1
  MaxRuns = 2
  Configs <- MCConfigs
INVARIANT DeletedMeansGone
CHECK_DEADLOCK FALSE
