\* More canaries asked for than there are instances.
SPECIFICATION Spec
CONSTANTS
  NumInstances = 3
  CanaryCounts = {4}
  Selections = {FALSE}
  MaxInFlight = 2
  AttemptLimit = 2
  Strategy = "BOSH"
PROPERTIES
  RetriesOnlyBusy
