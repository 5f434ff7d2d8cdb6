CONSTANTS
  Providers = {"massive"}
  Links = {"a"}
  MaxSeries = 1
  MaxPages = 2
SPECIFICATION Spec
INVARIANT EveryPageIsEvidence
CHECK_DEADLOCK FALSE
