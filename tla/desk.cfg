SPECIFICATION FairSpec
CHECK_DEADLOCK FALSE
CONSTANTS
  None = None
  bull = bull
  bear = bear
  Leans = {bull, bear}
  Days = {1, 2}
  Weekdays = {1, 2}
  LastSlot = 3
  PreOpen = 1
  Close = 3
  OfflineFrom = 0
  OfflineTo = 2
  Cooldown = 1
  SessionMax = 2
  RefusedMax = 2
  Turns = {1, 2, 3, 4, 5}
  ToolRounds = 0
  Retries = 1
  Window = 4
  Every = 4
  Transcript = 6
  Batch = 2
  Forms = {1, 2, 3}
  MaxEntries = 2
  Scenarios <- MCScenarios
INVARIANTS LimitsHold ToldInFull
PROPERTIES DayReadPosted WorkEnds
