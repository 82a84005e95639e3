SPECIFICATION FairSpec
CHECK_DEADLOCK FALSE
CONSTANTS
  None = None
  Absent = Absent
  Malformed = Malformed
  human = human
  a1 = a1
  a2 = a2
  Notifiers = {human}
  Hooks = {a1}
  Dry = {a2}
  PartialFan = "alert_only"
  HasSource = TRUE
  Scenarios <- MCScenarios
INVARIANTS LegsAccounted JournalLeads
PROPERTIES OrdersInTurn PingedPerLife
