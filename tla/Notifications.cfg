SPECIFICATION FairSpec
CONSTANTS
  e1 = e1
  c1 = c1
  c2 = c2
  Events <- OneEvent
  Channels <- TwoChannels
  Limit = 2
  Delays <- ShortDelays
  MaxOutages = 1
  MaxRestarts = 1
  MaxToggles = 1
  None = None
CHECK_DEADLOCK FALSE
INVARIANT RecordsTrue
PROPERTY Settles
