CONSTANTS
  Writers = {w1, w2}
  Batches = {b}
  Partitions = {1, 2, 3}
  MaxCalls = 2
  MaxFaults = 1
  None = None
SPECIFICATION FairSpec
INVARIANTS AppendedStays AllOrNothing Remains
PROPERTIES NeverExtends CallsEnd
CHECK_DEADLOCK FALSE
