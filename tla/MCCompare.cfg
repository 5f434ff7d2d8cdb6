CONSTANTS
  FiveMinute = {"m5"}
  Daily = {"d1"}
  Split = {}
  Dividend = {"dividend"}
  TickerChange = {"ticker"}
  Times = {0, 4, 5, 6}
  Grid = {0, 5}
  MinuteAlignment = 1
  DayAlignment = 4
  Venue = {"volume"}
  Excluded = {"vwap"}
  BarDifferences = {{}, {"volume", "vwap"}, {"session", "currency", "volume"}, {"adjustment", "price", "volume"}}
  MaxKeys = 2
SPECIFICATION Spec
INVARIANTS EveryObservationOnce StandInsAreHonest BlameIsEarned
CHECK_DEADLOCK FALSE
