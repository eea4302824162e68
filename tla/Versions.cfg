\* Three configurations, two redeployments, three requests; one thing at a time.
SPECIFICATION FairSpec
CONSTANTS
  small = small
  large = large
  key = key
  v1 = v1
  v2 = v2
  Plans = {small, large}
  Keys = {key}
  Values = {v1, v2}
  Absent = Absent
  NoInfo = NoInfo
  None = None
  Params = {big}
  Configs <- MCConfigs
  SkipCheckForPendingChanges = FALSE
  UpdatesDuringErrand = FALSE
  RestartsDuringUpdate = FALSE
  MaxRequests = 3
  MaxRestarts = 2
INVARIANTS
  TypeOK
  DecidesAsSpecified

  RecordedPlanIsDeployed
  PlanStaysOffered
PROPERTIES
  UpdateKeepsRelease
  EventuallyCurrent
CHECK_DEADLOCK FALSE
