SPECIFICATION FairSpec
CHECK_DEADLOCK FALSE
CONSTANTS
  None = None
  a1 = a1
  Accounts = {a1}
  Prices = {1}
  Slots = 4
  Open = 1
  Cutoff = 3
  MaxTime = 7
  MaxGap = 1
  MaxTrades = 1
  Window = 0
  Limits = TRUE
  Live = TRUE
  HasSource = TRUE
  Interval = 2
  Switchable = {}
  Outcomes = {"FILLED","REJECTED","UNKNOWN"}
  Broker = "never"
  Exits = FALSE
  MaxStarts = 1
  MaxStops = 0
PROPERTIES EventuallyFlat NoEntryInDoubt
