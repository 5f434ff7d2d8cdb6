CONSTANTS
  Writers = {w1, w2}
  Batches = {b}
  Partitions = {1, 2}
  MaxCalls = 2
  MaxFaults = 1
  None = None
SPECIFICATION ReadFairSpec
INVARIANTS AppendedIsRead HalfReadsOverlap RaisesOverlap
PROPERTY QueriesEnd
CHECK_DEADLOCK FALSE
