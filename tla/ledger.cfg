SPECIFICATION FairSpec
CHECK_DEADLOCK FALSE
CONSTANTS
  None = None
  g1 = g1
  g2 = g2
  j1 = j1
  j2 = j2
  Groups = {g1, g2}
  CsvHasIds = TRUE
  Jobs = {j1, j2}
  Scenarios <- MCScenarios
INVARIANTS LedgerAddsUp LedgerInStep
PROPERTIES NothingLost
