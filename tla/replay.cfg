SPECIFICATION Spec
CHECK_DEADLOCK FALSE
CONSTANTS
  None = None
  a1 = a1
  a2 = a2
  Accounts = {a1,a2}
  Prices = {1}
  Slots = 4
  Open = 1
  Cutoff = 3
  MaxTime = 7
  MaxGap = 2
  MaxTrades = 1
  Window = 4
  Limits = TRUE
  Live = FALSE
  HasSource = FALSE
  Interval = 0
  Switchable = {}
  Outcomes = {"FILLED"}
  Broker = "mirrors"
  Exits = FALSE
  MaxStarts = 3
  MaxStops = 0
INVARIANTS TypeOK EntriesBounded FlatAfterCutoff BrokerHoldsBelief
PROPERTIES AppliedOnce HaltSurvives SavedEntryNotRepeated
