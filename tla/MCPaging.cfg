CONSTANTS
  Providers = {"alpaca", "massive", "twelve_data", "lookup"}
  Links = {"a", "b", "c"}
  MaxSeries = 2
  MaxPages = 3
SPECIFICATION FairSpec
INVARIANTS LostPagesExplained ChainComplete
PROPERTY LoopEnds
CHECK_DEADLOCK FALSE
