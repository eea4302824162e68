\* Two canaries, one of them busy.
SPECIFICATION FairSpec
CONSTANTS
  NumInstances = 3
  CanaryCounts = {2}
  Selections = {FALSE}
  MaxInFlight = 1
  AttemptLimit = 2
  Strategy = "BOSH"
PROPERTIES
  TerminatesWithCanaries
