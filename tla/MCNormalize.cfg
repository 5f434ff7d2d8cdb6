CONSTANTS
  Day = 48
  Offset = 8
  Five = 8
  Milli = 2
  Second = 4
  Open = 16
  Close = 40
  EarlyClose = 24
  SessionDates = {0, 1}
  EarlyDates = {1}
  MaxPoints = 12
  Requested = {"AA", "BB"}
  Batch = {"AA"}
  Symbols = {"AA", "BB", "XX"}
  Points = {0, 7, 8, 9, 23, 24, 25, 32, 48, 49, 56, 72, 79, 80, 96}
  Stamps = {8, 23, 24, 25, 56, 72, 80}
  PageSize = 4
  Tickers = {"XYZ", "xyz", "SQ", "ZZ"}
  Respelled = {"xyz"}
  Ticker = "XYZ"
  Others = {"SQ"}
  Dates = {1, 2, 3, 4}
  MaxRecords = 1
  MaxEvents = 3
SPECIFICATION Spec
INVARIANTS BarsAccounted RequestedBarsArrive ActionsAccounted TimelineHolds
CHECK_DEADLOCK FALSE
