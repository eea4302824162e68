\* Three instances, none to two canaries, chosen or not, two in flight, two attempts.
SPECIFICATION FairSpec
CONSTANTS
  NumInstances = 3
  CanaryCounts = {0, 1, 2}
  Selections = {TRUE, FALSE}
  MaxInFlight = 2
  AttemptLimit = 2
  Strategy = "BOSH"
INVARIANTS
  TypeOK
  AtMostMaxInFlight
  SucceededMeansProcessed
  FailuresReported
PROPERTIES
  ProcessedOnce
  CanariesPassFirst
  RetriesOnlyBusy
  Terminates
