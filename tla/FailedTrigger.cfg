\* Cloud Foundry answers an upgrade request, or a check, with state failed or one the broker does not know.
SPECIFICATION Spec
CONSTANTS
  NumInstances = 3
  CanaryCounts = {0}
  Selections = {FALSE}
  MaxInFlight = 2
  AttemptLimit = 2
  Strategy = "CF"
INVARIANTS
  SucceededMeansProcessed
