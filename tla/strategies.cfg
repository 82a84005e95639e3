SPECIFICATION Spec
CHECK_DEADLOCK FALSE
CONSTANTS
  None = None
  EntrySlots = {1,2,3}
  AllHoursSlots = {0,1,2,4}
  RegularSlots = {1,2,3,4}
  FlatAt = 4
  Blackout = {3}
  Midnight = 5
  MaxEntries = 2
  Hysteresis = 2
  TimeStop = 2
  CalibrationSessions = 1
  Risk = 2
  Slots = 6
  Cutoff = 5
  MaxTime = 7
  MaxGap = 1
  MaxStarts = 2
  MaxStops = 1
  MaxRepairs = 1
  Setups <- AllSetups
  Bars <- SmallBars
INVARIANTS MemoryExact PositionsManaged EntriesWithinCap
PROPERTIES NeverTakenBack
