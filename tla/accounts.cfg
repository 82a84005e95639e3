SPECIFICATION Spec
CHECK_DEADLOCK FALSE
CONSTANTS
  None = None
  a1 = a1
  a2 = a2
  Accounts = {a1,a2}
  Prices = {1}
  Slots = 4
  Open = 1
  Cutoff = 3
  MaxTime = 4
  MaxGap = 1
  MaxTrades = 2
  Window = 0
  Limits = FALSE
  Live = TRUE
  HasSource = TRUE
  Interval = 2
  Switchable = {a2}
  Outcomes = {"FILLED","UNKNOWN"}
  Broker = "free"
  Exits = TRUE
  MaxStarts = 2
  MaxStops = 1
PROPERTIES EntryFromAgreement BeliefFromBroker
