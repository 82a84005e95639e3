----------------------------- MODULE MCStudies ------------------------------
(***************************************************************************)
(* Small sessions for Studies: two minutes to the five-minute bar, windows *)
(* of a few bars, and for each study the pieces of tape its steps tell     *)
(* apart.  A minute is drawn as its open, high, low and close from the     *)
(* last close.                                                             *)
(***************************************************************************)
EXTENDS Studies

Bar(o, h, l, c) == [o |-> o, h |-> h, l |-> l, c |-> c, off |-> None, f1 |-> None]
Knowing(bar, off, f1) == [bar EXCEPT !.off = off, !.f1 = f1]
Flat == Bar(0, 0, 0, 0)

(* VPC: an impulse, an extension, a touch, the same without VWAP, flow     *)
(* against the trend.                                                      *)
Rec(f1, spent, off) == [f1 |-> f1, spent |-> spent, off |-> off, h |-> 1, l |-> 0]
SetupPieces ==
  {<<Rec(2, FALSE, 3)>>, <<Rec(0, FALSE, 3)>>, <<Rec(0, FALSE, 1)>>, <<Rec(-1, FALSE, 1)>>,
   <<Rec(-2, TRUE, 1)>>, <<Rec(-2, TRUE, None)>>, <<Rec(-2, FALSE, -3)>>, <<Rec(0, FALSE, -1)>>,
   <<Rec(None, FALSE, 1)>>}
Cell(trend, flow) == [study |-> "setups", pieces |-> SetupPieces, length |-> 5,
                      opt |-> [trend |-> trend, flow |-> flow, fomc |-> ~flow]]

Trading(dir, variant, mode, swing) ==
  [study |-> "vpc", length |-> 10, dir |-> dir, swing |-> swing,
   cell |-> [variant |-> variant, mode |-> mode],
   pieces |-> {<<Flat, Knowing(Flat, 0, 0)>>, <<Bar(0, 3, -3, 0), Flat>>, <<Bar(0, 3, 0, 3), Flat>>,
               <<Bar(-5, -4, -5, -5), Knowing(Flat, -1, -2)>>, <<Flat, Knowing(Bar(0, 1, -1, 0), 1, 2)>>,
               <<None, Flat>>}]

Gaps == [study |-> "fvg", length |-> 12,
         pieces |-> {<<Flat, Flat>>, <<Bar(0, 2, 0, 2), Bar(0, 2, 0, 2)>>, <<Bar(0, 0, -2, -2), Bar(0, 2, 0, 2)>>,
                     <<Bar(0, 0, -4, -4), Bar(0, 0, -2, -2)>>, <<Bar(0, 0, -3, -3), Flat>>}]

Sweeping == [study |-> "sweep", length |-> 8, prev |-> [high |-> 2, low |-> -6],
             pieces |-> {<<Flat>>, <<Bar(0, 3, 0, 1)>>, <<Bar(0, 3, 0, 3)>>, <<Bar(0, 0, -3, -3)>>}]

Missing == [study |-> "tape", length |-> 8, pieces |-> {<<Flat>>, <<Bar(0, 1, -1, 1)>>, <<None>>}]

Level(cls, price) == [cls |-> cls, side |-> "high", price |-> price, from |-> 1]
Candle(h, c, end) == [h |-> h, l |-> -9, c |-> c, end |-> end]
Catalog(levels) ==
  [study |-> "sfb", length |-> 10, levels |-> levels,
   candles |-> <<Candle(2, 0, -9), Candle(2, 1, -5), Candle(1, 0, 0), Candle(5, 4, 4)>>,
   pieces |-> {<<Flat, Knowing(Flat, None, 0)>>, <<Bar(0, 6, 0, 4), Knowing(Flat, None, 0)>>,
               <<Flat, Knowing(Bar(0, 0, -5, -5), None, -2)>>, <<Flat, Knowing(Bar(0, 0, -5, -5), None, 0)>>,
               <<Flat, Knowing(Flat, None, 2)>>, <<Bar(0, 8, 0, 8), Flat>>}]

(* SMT: NQ at one of three heights, with or without ES, and a displacement *)
(* down; a slot NQ lacks while ES makes a high.                            *)
Nq(h, wide) == IF wide THEN [o |-> h, h |-> h, l |-> h - 3, c |-> h - 3] ELSE [o |-> h, h |-> h, l |-> h - 1, c |-> h]
Slot(nq, es, f1) == [nq |-> nq, es |-> IF es = None THEN None ELSE [h |-> es, l |-> es - 1], f1 |-> f1]
Divergent(ref, esRef, length, pieces) ==
  [study |-> "smt", length |-> length, pieces |-> pieces,
   day |-> [es |-> TRUE, ref |-> [high |-> ref, low |-> None], esRef |-> [high |-> esRef, low |-> None]]]
Diverging == {<<Slot(Nq(2, FALSE), 1, 0)>>, <<Slot(Nq(3, FALSE), 1, 0)>>, <<Slot(Nq(2, TRUE), 1, -2)>>,
              <<Slot(Nq(1, TRUE), 2, -2)>>, <<Slot(None, 2, None)>>}
Heights == {<<Slot(Nq(1, FALSE), 1, 0)>>, <<Slot(Nq(2, FALSE), 2, 0)>>, <<Slot(Nq(3, FALSE), None, 0)>>}

(* Past trades: quiet minutes, both ends of the bracket at once, a run to  *)
(* the target, a gap through the stop, a missing minute.                   *)
Walking(dir) ==
  [study |-> "walks", length |-> 10, dir |-> dir,
   pieces |-> {<<Flat, Flat>>, <<Bar(0, 3, -3, 0), Flat>>, <<Bar(0, 3, 0, 3), Bar(0, 2, 0, 0)>>,
               <<Bar(-5, -4, -5, -5), Bar(5, 5, 4, 4)>>, <<None, Flat>>, <<Flat, None>>}]

(* Sessions: closed, left out by QA, and flows of both signs.              *)
Flows(qa, p95, bars) == [qa |-> qa, p95 |-> p95, bars |-> bars]
FlowDays == {<<None>>, <<Flows(FALSE, 9, <<4, 4>>)>>, <<Flows(TRUE, 1, <<1, -2>>)>>,
             <<Flows(TRUE, 3, <<2, 0>>)>>, <<Flows(TRUE, 2, <<-3, 1>>)>>}
Deciding(study) == [study |-> study, length |-> 5, pieces |-> FlowDays]

(* Two dates to the quarter, the last always a session.                    *)
Rolled == {[ret |-> r, entry |-> TRUE] : r \in {1, -1}}
Rolling ==
  [study |-> "rcp", length |-> 8,
   pieces |-> {<<a, b>> : a \in Rolled \cup {None, [ret |-> None, entry |-> TRUE]}, b \in Rolled}]
Overnight == [study |-> "odc", length |-> 3,
              pieces |-> {<<None>>} \cup {<<[full |-> f, midnight |-> 1, three |-> t, close |-> c]>> :
                            f \in BOOLEAN, t \in {0, 2, None}, c \in {0, 1, None}}]
Paying == [study |-> "paid", length |-> 5,
           pieces |-> {<<None>>} \cup {<<[imb |-> i, entry |-> e]>> : i \in {1, -2, 3, None}, e \in {TRUE}}
                      \cup {<<[imb |-> 2, entry |-> FALSE]>>}]
Shocks(a, b, fomc) == <<[moves |-> (1 :> a) @@ (2 :> b), fomc |-> fomc, entry |-> TRUE]>>
Notes == [study |-> "cst", length |-> 5,
          pieces |-> {<<None>>, Shocks(1, None, FALSE), Shocks(-1, 1, FALSE), Shocks(4, -1, FALSE),
                      Shocks(0, -4, FALSE), Shocks(5, 5, TRUE)}]

AllStudies ==
  {Cell(0, TRUE), Cell(0, FALSE), Cell(1, TRUE),
   Trading(1, "v_t13", "flow", None), Trading(-1, "v_30", "any", None), Trading(1, "v_imp_h", "any", 3),
   Gaps, Sweeping, Missing,
   Catalog({Level("PW", 1), Level("PD", 4), Level("ON", 0)}), Catalog({Level("MT", 2), Level("PD", 1)}),
   Divergent(1, 1, 6, Diverging), Divergent(None, None, 5, Diverging \cup Heights),
   Walking(1), Walking(-1), Deciding("regimes"), Deciding("proxy"), Deciding("rank"),
   Rolling, Overnight, Paying, Notes}
=============================================================================
