SPECIFICATION FairSpec
CONSTANTS
  a = a
  b = b
  Nodes <- TwoNodes
  Conns = {c}
  Cap = 1
  MaxSamples <- TwoAndOne
  MaxChanges = 2
  MaxOpens = 1
  None = None
INVARIANTS HubDelivers
PROPERTIES NeverBackwards AccessIsWithdrawn
CHECK_DEADLOCK FALSE
