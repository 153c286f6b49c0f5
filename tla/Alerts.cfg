SPECIFICATION FairSpec
CONSTANTS
  Rules <- BothRules
  Metric <- MetricOf
  Duration <- ShortDuration
  Cooldown <- SomeCooldown
  Levels = {"bad", "between", "good"}
  SweepEvery = 2
  RefreshEvery = 1
  OfflineAfter = 1
  QueueSize = 1
  MaxEnabled = 1
  MaxEdits = 1
  MaxOutages = 1
  MaxRestarts = 1
  None = None
INVARIANT EventsAgree
PROPERTIES FiresRightly RulesConverge OfflineDetected
