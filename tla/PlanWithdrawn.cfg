\* The broker is redeployed during a change of plan.
SPECIFICATION Spec
CONSTANTS
  small = small
  large = large
  key = key
  v1 = v1
  v2 = v2
  Plans = {small, large}
  Keys = {key}
  Values = {v1, v2}
  Absent = Absent
  NoInfo = NoInfo
  None = None
  Params = {big}
  Configs <- MCConfigs
  SkipCheckForPendingChanges = FALSE
  UpdatesDuringErrand = FALSE
  RestartsDuringUpdate = TRUE
  MaxRequests = 3
  MaxRestarts = 2
INVARIANT PlanStaysOffered
CHECK_DEADLOCK FALSE
