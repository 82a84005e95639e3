-------------------------------- MODULE Ict ---------------------------------
(***************************************************************************)
(* The two studies of scripts/ict1_studies.py on one session: fair value   *)
(* gaps entered by a limit at their middle, and sweeps of the previous     *)
(* day's high or low, faded when a five-minute close comes back inside and *)
(* followed when none does.  Counters of the descriptive panels and the    *)
(* flow labels of a trade are left out; fomc marks an FOMC day.            *)
(***************************************************************************)
EXTENDS Tape

CONSTANTS
  GapMin,      \* FVG_MIN_GAP
  GapTrail,    \* FVG_TRAIL
  GapTrailMin, \* the five bars a trailing median needs
  FormFirst,   \* FVG_FORM_FIRST
  FormLast,    \* FVG_FORM_LAST
  ArmLast,     \* FVG_ARM_LAST
  GapCap,      \* FVG_CAP
  SweepFirst,  \* SWEEP_FIRST
  SweepLast,   \* SWEEP_LAST
  ReclaimBars  \* SWEEP_RECLAIM_BARS

Closes(bars) == Ascending(DOMAIN FiveMinutes(bars))
InTime(fomc, close) == fomc => close <= FomcCutoff

(***************************************************************************)
(* ICT-1.1: a gap between the bars around a wide one.                      *)
(***************************************************************************)
Gap(cut, m5, j) ==
  LET a == cut[m5[j - 2]]
      b == cut[m5[j - 1]]
      c == cut[m5[j]]
  IN  IF a.h < c.l /\ b.c > b.o THEN [dir |-> 1, lo |-> a.h, hi |-> c.l]
      ELSE IF a.l > c.h /\ b.c < b.o THEN [dir |-> -1, lo |-> c.h, hi |-> a.l]
      ELSE None

Wide(cut, m5, j) ==
  LET Of(i) == cut[m5[i]].h - cut[m5[i]].l
      from  == Max({1, j - 1 - GapTrail})
      trail == [i \in 1 .. (j - 1 - from) |-> Of(from + i - 1)]
  IN  Len(trail) >= GapTrailMin /\ 4 * Of(j - 1) >= 3 * TwiceMedian(trail)

(* The limit rests in the gap's middle; between two ticks, at the one whose*)
(* print touches it.  It fills at the first touch unless a minute closes   *)
(* through the far side before.                                            *)
Middle(gap) == (gap.lo + gap.hi + IF gap.dir = 1 THEN 0 ELSE 1) \div 2
Fill(bars, gap, close) ==
  LET Touched(k) == FallsTo(bars[k], gap.dir, Middle(gap))
      Dead(k)    == IF gap.dir = 1 THEN bars[k].c < gap.lo ELSE bars[k].c > gap.hi
      k == FirstOf({k \in Present(bars) : /\ close < k /\ k - 1 <= ArmLast
                                          /\ Touched(k) \/ Dead(k)})
  IN  IF k = None THEN None ELSE IF Touched(k) THEN k ELSE None

Idle(close, busy) == close >= busy

StudyFvg(bars, fomc) ==
  LET cut == FiveMinutes(bars)
      m5  == Closes(bars)
      Take(acc, j) ==
        LET gap   == IF j < 3 THEN None ELSE Gap(cut, m5, j)
            close == m5[j]
            fill  == Fill(bars, gap, close)
        IN  IF Len(acc.trades) >= GapCap \/ gap = None THEN acc
            ELSE IF gap.hi - gap.lo < GapMin \/ ~Wide(cut, m5, j) THEN acc
            ELSE IF ~(FormFirst <= close /\ close <= FormLast /\ InTime(fomc, close)) THEN acc
            ELSE IF ~Idle(close, acc.busy) \/ fill = None THEN acc
            ELSE LET exit == BracketWalk(bars, fill, Middle(gap), gap.dir)
                 IN  [trades |-> Append(acc.trades, [signal |-> close, entry |-> Middle(gap),
                                   from |-> fill, dir |-> gap.dir, exit |-> exit]),
                      busy   |-> exit.at]
  IN  FoldLeftDomain(Take, [trades |-> <<>>, busy |-> 0], m5).trades

(***************************************************************************)
(* ICT-1.2: the first minute beyond the level, then the five-minute closes *)
(* from the one at or after the minute's start.                            *)
(***************************************************************************)
Beyond(bar, side, level) == IF side = "high" THEN bar.h > level ELSE bar.l < level
ClosedOut(bar, side, level) == IF side = "high" THEN bar.c > level ELSE bar.c < level
ClosedIn(bar, side, level) == IF side = "high" THEN bar.c < level ELSE bar.c > level

Breach(bars, side, level) ==
  FirstOf({k \in Present(bars) : /\ SweepFirst <= k - 1 /\ k - 1 <= SweepLast
                                 /\ Beyond(bars[k], side, level)})

FromBreach(m5, breach) == {j \in DOMAIN m5 : m5[j] >= breach - 1}

(* The companion trade: the fade's entry with the previous day's middle as *)
(* its target.                                                             *)
Native(bars, entered, mid) ==
  LET d == entered.dir
      Exit(k) == BarExit(bars[k], k, d, entered.entry - d * StopTicks, mid)
      over == FirstOf({k \in Present(bars) : k >= entered.from /\ Exit(k) # None})
  IN  IF d * (mid - entered.entry) <= 1 THEN None
      ELSE IF over = None THEN LastClose(bars) ELSE Exit(over)

SweepTrade(bars, fomc, side, level, mid) ==
  LET cut    == FiveMinutes(bars)
      m5     == Closes(bars)
      d      == IF side = "high" THEN -1 ELSE 1
      breach == Breach(bars, side, level)
      j0     == FirstOf(FromBreach(m5, breach))
      reclaim == FirstOf({j \in j0 .. Min({j0 + ReclaimBars - 1, Len(m5)}) :
                             ClosedIn(cut[m5[j]], side, level)})
      next   == j0 + ReclaimBars
      Enter(kind, close, dir) ==
        LET entered == MarketEntry(bars, close, dir)
        IN  IF close > SweepLast \/ ~InTime(fomc, close) \/ entered = None THEN None
            ELSE [kind |-> kind, side |-> side, breach |-> breach, trade |-> entered,
                  native |-> IF kind = "fade" THEN Native(bars, entered, mid) ELSE None]
  IN  IF breach = None \/ j0 = None THEN None
      ELSE IF reclaim # None THEN Enter("fade", m5[reclaim], d)
      ELSE IF next \notin DOMAIN m5 THEN None
      ELSE IF ~ClosedOut(cut[m5[next]], side, level) THEN None
      ELSE Enter("continuation", m5[next], -d)

StudySweep(bars, fomc, prev) ==
  {SweepTrade(bars, fomc, side, prev[side], (prev["high"] + prev["low"]) \div 2) :
     side \in {"high", "low"}} \ {None}
=============================================================================
