\* Registration, deletion and purge, two runs, users who do everything but change plans.
SPECIFICATION FairSpec
CONSTANTS
  small = small
  large = large
  org1 = org1
  org2 = org2
  Plans = {small, large}
  Orgs = {org1, org2}
  Guids = {i1, i2}
  Bindings = {b}
  Keys = {k}
  PlanChanges = FALSE
  MaxFaults = 1
  MaxRuns = 2
  Configs <- MCConfigs
INVARIANTS
  TypeOK
  PurgedMeansGone
  DeletedMeansGone
  RegisteredMeansConfigured
PROPERTIES
  MovesOnWhenGone
  AccessOnlyAsConfigured
  ErrandEnds
CHECK_DEADLOCK FALSE
