\* A deletion of all meets an instance whose delete has failed.
SPECIFICATION Spec
CONSTANTS
  small = small
  large = large
  org1 = org1
  org2 = org2
  Plans = {small, large}
  Orgs = {org1, org2}
  Guids = {i1, i2}
  Bindings = {b}
  Keys = {k}
  PlanChanges = FALSE
  MaxFaults = 1
  MaxRuns = 2
  Configs <- MCConfigs
PROPERTY FailedDeleteSentAgain
CHECK_DEADLOCK FALSE
