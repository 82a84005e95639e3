SPECIFICATION Spec
CHECK_DEADLOCK FALSE
CONSTANTS
  None = None
  Scenarios <- AllStudies
  Block = 2
  Strong = 2
  StopTicks = 2
  TargetTicks = 2
  FlattenAt = 8
  FomcCutoff = 8
  Quiet = 1
  TrendBars = 2
  Extended = 3
  Touching = 1
  EntryFirst = 2
  EntryLast = 5
  Cap = 2
  HoldBars = 2
  Window = 2
  TrailBars = 3
  TrailMin = 1
  ExtFirst = 1
  ExtLast = 5
  Room = 1
  GapMin = 2
  GapTrail = 3
  GapTrailMin = 1
  FormFirst = 4
  FormLast = 10
  ArmLast = 12
  GapCap = 2
  SweepFirst = 1
  SweepLast = 6
  ReclaimBars = 2
  BreachTicks = 1
  Near = 2
  InsideMin = 2
  ScanFirst = 1
  ScanLast = 6
  VerdictBars = 2
  Horizon = 1
  MinTouch = 2
  FavMark = 1
  Period = 3
  PoolDays = 2
  PoolMin = 2
  SizeDays = 2
  FitDays = 2
  FitMin = 1
  LabelBars = 4
  LabelMin = 2
  Pct = 50
  Quarter = 2
  Offsets = 1
  Rolls = 1
  Moves = {1, 2}
  Scheduled = {2}
  TrailDays = 3
  TrailNeed = 2
INVARIANTS Tradable AsDefined
PROPERTIES Causal
