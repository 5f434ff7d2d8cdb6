CONSTANTS
  Batches = {b1}
  Keys = {k1, k2}
  Rules = {"negative_volume", "ohlc_inconsistent", "non_positive_price"}
  MaxRecords = 2
  MaxAttempts = 3
  MaxFaults = 2
  NotJson = garbage
  None = None
SPECIFICATION FairSpec
INVARIANTS EvidenceFirst ReturnedIsStored MismatchExplained
PROPERTY ProcessEnds
CHECK_DEADLOCK FALSE
