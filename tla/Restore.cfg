SPECIFICATION FairSpec
CONSTANTS
  MaxCrashes = 2
  MaxFailures = 2
  MaxStops = 1
  MaxStages = 2
  None = None
CHECK_DEADLOCK FALSE
INVARIANTS DataKept OneTroubleIsHarmless
PROPERTY RestoreArrives
