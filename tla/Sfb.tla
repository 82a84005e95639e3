-------------------------------- MODULE Sfb ---------------------------------
(***************************************************************************)
(* The sweep and verdict study (scripts/sfb_study.py) on one session: the  *)
(* levels of its catalog swept for the first time, sweeps of one minute    *)
(* merged, and the flow of the five-minute bars after one as its verdict.  *)
(*                                                                         *)
(* A level is [cls, side, price] and, for a four-hour extreme, from: the   *)
(* candle it is an extreme of.  candles are the four-hour candles of the   *)
(* catalog, [h, l, c, end], end the minute they were complete at (at most  *)
(* 0: before this session).                                                *)
(***************************************************************************)
EXTENDS Tape

CONSTANTS
  BreachTicks, \* B_PTS
  Near,        \* T_TOL
  InsideMin,   \* INSIDE_MIN
  ScanFirst,   \* SWEEP_FIRST
  ScanLast,    \* SWEEP_LAST
  VerdictBars, \* K
  Horizon,     \* max(HORIZONS)
  MinTouch     \* MT_MIN_TOUCH

Rank(cls) == CASE cls = "PW" -> 4 [] cls = "MT" -> 3 [] cls = "PD" -> 2 [] cls = "ON" -> 1
Sign(side) == IF side = "high" THEN 1 ELSE -1

(* The first breach after InsideMin minutes without a trade beyond.        *)
ScanLevel(bars, side, price) ==
  LET Over(k, by) == IF side = "high" THEN bars[k].h - price >= by ELSE price - bars[k].l >= by
      earlier(k)  == {g \in Present(bars) : g < k}
      Rested(k)   == LET out == {g \in earlier(k) : Over(g, 1)} IN
                     Cardinality({g \in earlier(k) : \A b \in out : g > b}) >= InsideMin
  IN  FirstOf({k \in Present(bars) : /\ ScanFirst <= k - 1 /\ k - 1 <= ScanLast
                                     /\ Over(k, BreachTicks) /\ Rested(k)})

(* Touches of a four-hour extreme by the candles complete before a minute, *)
(* up to the first that closes beyond it.                                  *)
MtStatus(level, candles, upto) ==
  LET later == {i \in DOMAIN candles : i > level.from /\ candles[i].end < upto}
      Dead(c)  == IF level.side = "high" THEN c.c > level.price ELSE c.c < level.price
      Touch(c) == IF level.side = "high" THEN c.h >= level.price - Near
                  ELSE c.l <= level.price + Near
  IN  [dead |-> \E i \in later : Dead(candles[i]),
       touches |-> Cardinality({i \in later : Touch(candles[i])})]

Raw(bars, levels, candles) ==
  LET Swept(level) == [level |-> level, at |-> ScanLevel(bars, level.side, level.price)]
      Alive(e) == e.level.cls = "MT" =>
                    LET mt == MtStatus(e.level, candles, e.at)
                    IN  ~mt.dead /\ mt.touches >= MinTouch
  IN  {e \in {e \in {Swept(level) : level \in levels} : e.at # None} : Alive(e)}

(* By side and minute, the highest class first; an event takes in the      *)
(* sweeps that follow it within Near of it.                                *)
InOrder(e, f) ==
  IF e.level.side # f.level.side THEN e.level.side = "high"
  ELSE IF e.at # f.at THEN e.at < f.at
  ELSE IF e.level.cls # f.level.cls THEN Rank(e.level.cls) > Rank(f.level.cls)
  ELSE e.level.price < f.level.price

SameSweep(e, f) ==
  /\ e.level.side = f.level.side /\ e.at = f.at
  /\ Size(e.level.price - f.level.price) <= Near

Merged(raw) ==
  LET Take(acc, e) ==
        IF acc # <<>> /\ SameSweep(Last(acc), e) THEN acc ELSE Append(acc, e)
  IN  FoldLeft(Take, <<>>, Ordered(raw, InOrder))

(***************************************************************************)
(* The verdict of the bars after the sweep's own.                          *)
(***************************************************************************)
Initiative(f1, d) == f1 * d > 0 /\ Size(f1) >= Strong

Classify(side, f1s, ins) ==
  LET sign    == Sign(side)
      reclaim == FirstOf({i \in DOMAIN ins : ins[i]})
  IN  IF \E i \in DOMAIN f1s : f1s[i] = None THEN [verdict |-> "NO_FLOW", bar |-> None]
      ELSE IF reclaim # None
           THEN IF Initiative(f1s[reclaim], -sign) THEN [verdict |-> "REVERSAL", bar |-> reclaim]
                ELSE [verdict |-> "NEITHER", bar |-> VerdictBars]
      ELSE IF Cardinality({i \in DOMAIN f1s : Initiative(f1s[i], sign)}) >= 2
           THEN [verdict |-> "CONTINUATION", bar |-> VerdictBars]
      ELSE [verdict |-> "NEITHER", bar |-> VerdictBars]

SweepBar(at) == Block * ((at - 1) \div Block + 1)

Event(bars, e) ==
  LET cut == FiveMinutes(bars)
      m5  == Ascending(DOMAIN cut)
      j0  == FirstOf({j \in DOMAIN m5 : m5[j] = SweepBar(e.at)})
      inside(j) == IF e.level.side = "high" THEN cut[m5[j]].c < e.level.price
                   ELSE cut[m5[j]].c > e.level.price
      f1s == [i \in 1 .. VerdictBars |-> bars[m5[j0 + i]].f1]
      ins == [i \in 1 .. VerdictBars |-> inside(j0 + i)]
  IN  IF j0 = None THEN [sweep |-> e, verdict |-> "DROPPED", bar |-> None]
      ELSE IF j0 + VerdictBars + Horizon > Len(m5) THEN [sweep |-> e, verdict |-> "DROPPED", bar |-> None]
      ELSE [sweep |-> e] @@ Classify(e.level.side, f1s, ins)

FindEvents(bars, levels, candles) ==
  {Event(bars, e) : e \in ToSet(Merged(Raw(bars, levels, candles)))}
=============================================================================
