SPECIFICATION FairSpec
CONSTANTS
  i1 = i1
  i2 = i2
  bad = bad
  p1 = p1
  p2 = p2
  None = None
  Invalid <- BadRow
  Producers <- TwoProducers
  Item <- FewRows
  Cap = 1
INVARIANTS RowsAccounted
PROPERTIES OrderedDrain ImplementsLedger QueueSettles
