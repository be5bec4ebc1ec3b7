SPECIFICATION FairSpec
CONSTANTS
  MaxRetry = 2
  Waits = 2
  Configs = {TRUE, FALSE}
  MaxFaults = 2
  MaxLosses = 2
  MaxRestarts = 1
INVARIANTS
  OneAttempt
  GivesUpForCause
PROPERTIES
  BoundedReconnects
  Boots
