SPECIFICATION Spec
CONSTANTS
  MaxCrashes = 1
  MaxFailures = 1
  MaxStops = 1
  MaxStages = 1
  None = None
CHECK_DEADLOCK FALSE
INVARIANT SiteConsistent
