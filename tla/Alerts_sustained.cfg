SPECIFICATION FairSpec
CONSTANTS
  Rules <- CpuRule
  Metric <- MetricOf
  Duration <- LongDuration
  Cooldown <- ShortCooldown
  Levels = {"bad"}
  SweepEvery = 1
  RefreshEvery = 2
  OfflineAfter = 1
  QueueSize = 1
  MaxEnabled = 1
  MaxEdits = 0
  MaxOutages = 0
  MaxRestarts = 0
  None = None
PROPERTY SustainedFires
