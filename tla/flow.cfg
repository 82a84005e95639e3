SPECIFICATION FairSpec
CHECK_DEADLOCK FALSE
CONSTANTS
  None = None
  Prices = {1, 2}
  Span = 2
  LastIndex = 4
  EndMinute = 5
  Behind = 1
  Days = {1, 2}
  Scenarios <- MCScenarios
INVARIANTS RecordsExact
PROPERTIES TicksKept
