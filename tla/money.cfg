SPECIFICATION Spec
CHECK_DEADLOCK FALSE
CONSTANTS
  None = None
  Prices <- MCPrices
  Quantities <- MCQuantities
  MaxLoss = 2
  MaxDrawdown = 3
  Basis = "equity"
  Commission = 1
  Live = FALSE
  HasSource = TRUE
  Carry = FALSE
  MaxDay = 1
  MaxEntries = 3
  MaxStarts = 2
INVARIANTS TypeOK DailyIsToday HighWaterCovers
PROPERTIES NoEntryPastDrawdown NoEntryPastDailyLoss
