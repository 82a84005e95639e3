-------------------------------- MODULE Vpc ---------------------------------
(***************************************************************************)
(* The VWAP pullback study (scripts/run_vpc.py): setups found on the       *)
(* five-minute records of a session, and their sequential simulation.      *)
(*                                                                         *)
(* recs[i] is the i-th five-minute record: f1 its signed flow (None where  *)
(* the decision file has none), spent whether z_eff <= -1, off the close   *)
(* less the VWAP (None where either is missing), h and l its range.  opt   *)
(* is the cell: a fixed trend (the control) or 0, whether flow is asked    *)
(* for, and whether the day is an FOMC day.                                *)
(***************************************************************************)
EXTENDS Tape

CONSTANTS
  Quiet,       \* q50 of |F1|
  TrendBars,   \* N_TREND
  Extended,    \* P_EXT
  Touching,    \* P_TOUCH
  EntryFirst,  \* ENTRY_FIRST, in records
  EntryLast,   \* ENTRY_LAST, in records
  Cap,         \* CAP
  HoldBars     \* T13

ASSUME VpcAssumption == Quiet <= Strong /\ Touching < Extended /\ Touching >= 0

(* One entry per pullback leg: a setup forgets the extension.              *)
Disarm(s) == [s EXCEPT !.ext = None]

(* A strong flow names the trend; the other sign starts a new one.         *)
Impulse(s, f1, i) ==
  IF Size(f1) < Strong \/ f1 = 0 THEN s
  ELSE IF Side(f1) = s.trend THEN [s EXCEPT !.impulse = i]
  ELSE [s EXCEPT !.trend = Side(f1), !.since = i, !.ext = None, !.impulse = i]

FixedTrend(s, trend, i) ==
  [s EXCEPT !.trend = trend, !.since = IF s.ext = None /\ s.since = 0 THEN i ELSE @]

Against(recs, s, i) ==
  {j \in (s.ext + 1) .. i : recs[j].f1 # None /\ recs[j].f1 * s.trend < 0}
IsQuiet(recs, s, i) == \A j \in Against(recs, s, i) : Size(recs[j].f1) < Quiet
IsAbsorbed(recs, s, i) ==
  \E j \in Against(recs, s, i) : Size(recs[j].f1) >= Strong /\ recs[j].spent

Swing(recs, s, i) == IF s.trend = 1 THEN Max({recs[j].h : j \in s.since .. i})
                     ELSE Min({recs[j].l : j \in s.since .. i})

InWindow(opt, i) ==
  EntryFirst <= i /\ i <= EntryLast /\ (opt.fomc => i * Block <= FomcCutoff)

Live(opt, s, i) == opt.trend # 0 \/ (s.trend # 0 /\ i - s.impulse <= TrendBars)

IsSetup(recs, opt, s, i) ==
  LET dist == s.trend * recs[i].off IN
  /\ s.ext # None /\ dist <= Touching /\ Live(opt, s, i) /\ dist > 0
  /\ opt.flow => IsQuiet(recs, s, i) \/ IsAbsorbed(recs, s, i)
  /\ InWindow(opt, i)

ScanRecord(recs, opt, s0, i) ==
  LET r == recs[i]
      s == IF opt.trend # 0 THEN FixedTrend(s0, opt.trend, i) ELSE Impulse(s0, r.f1, i)
      setup == [at |-> i, dir |-> s.trend, swing |-> Swing(recs, s, i), ext |-> s.ext,
                flavor |-> IF IsAbsorbed(recs, s, i) THEN "absorbed" ELSE "quiet"]
  IN  IF r.f1 = None \/ r.off = None THEN s0
      ELSE IF s.trend = 0 THEN s
      ELSE IF s.trend * r.off >= Extended THEN [s EXCEPT !.ext = i]
      ELSE IF IsSetup(recs, opt, s, i) THEN Disarm([s EXCEPT !.found = Append(@, setup)])
      ELSE s

Setups(recs, opt) ==
  FoldLeftDomain(LAMBDA s, i : ScanRecord(recs, opt, s, i),
    [trend |-> 0, since |-> 0, impulse |-> 0, ext |-> None, found |-> <<>>], recs).found

(***************************************************************************)
(* One trade.  bars[k] also carries what the block closing at k knows: off *)
(* and f1 as above.  cell is the exit variant and the stop mode.           *)
(***************************************************************************)
Target(cell, setup, entry) ==
  IF cell.variant = "v_30" THEN entry + setup.dir * TargetTicks
  ELSE IF /\ cell.variant \in {"v_imp", "v_imp_h"} /\ setup.swing # None
          /\ setup.dir * (setup.swing - entry) > 1 THEN setup.swing
  ELSE None

Through(bar, d, mode) ==
  /\ bar.off # None /\ d * bar.off < 0
  /\ mode = "any" \/ (bar.f1 # None /\ bar.f1 * d < 0 /\ Size(bar.f1) >= Strong)

CloseExit(cell, bar, k, setup) ==
  IF k % Block # 0 THEN None
  ELSE IF Through(bar, setup.dir, cell.mode) THEN [px |-> bar.c, why |-> "vwap_stop", at |-> k]
  ELSE IF cell.variant \in {"v_t13", "v_imp_h"} /\ (k - setup.minute) \div Block >= HoldBars
       THEN [px |-> bar.c, why |-> "time_13", at |-> k]
  ELSE None

RunTrade(cell, setup, bars) ==
  LET from  == setup.minute + 1
      d     == setup.dir
      entry == bars[from].o + d
      Exit(k) == LET e == BarExit(bars[k], k, d, entry - d * StopTicks, Target(cell, setup, entry))
                 IN  IF e # None THEN e ELSE CloseExit(cell, bars[k], k, setup)
      over  == FirstOf({k \in Present(bars) : k >= from /\ Exit(k) # None})
  IN  IF from \notin Present(bars) THEN None
      ELSE [entry |-> entry, from |-> from, dir |-> d,
            exit |-> IF over = None THEN LastClose(bars) ELSE Exit(over)]

(* A later five-minute close than the exit bar's: no same-bar re-entry.    *)
Free(setup, busy) == setup.minute > busy

SimulateCell(cell, setups, bars) ==
  LET Take(acc, setup) ==
        LET trade == RunTrade(cell, setup, bars) IN
        IF Len(acc.trades) >= Cap \/ ~Free(setup, acc.busy) \/ trade = None THEN acc
        ELSE [trades |-> Append(acc.trades, trade), busy |-> trade.exit.at]
  IN  FoldLeft(Take, [trades |-> <<>>, busy |-> 0], setups).trades
=============================================================================
