---------------------------- MODULE MCStrategies ----------------------------
(* Small instances of Strategies for TLC: one setup per exit mode.         *)
EXTENDS Strategies

Setup(strategy, mode) ==
  [strategy |-> strategy, mode |-> mode, hours |-> "rth", gate |-> "proxy",
   live |-> TRUE, source |-> FALSE]

FlowSetups ==
  {Setup("tfr", "stack"), [Setup("tfr", "fstack") EXCEPT !.live = FALSE],
   [Setup("tfr", "bracket") EXCEPT !.hours = "all"], [Setup("tfr", "t13") EXCEPT !.source = TRUE],
   Setup("afr", "time"), [Setup("afr", "norm") EXCEPT !.source = TRUE]}

PriceSetups ==
  {Setup("naim", "off"), [Setup("naim", "proxy") EXCEPT !.live = FALSE],
   [Setup("sme", "layer A") EXCEPT !.live = FALSE],
   [Setup("sme", "B alone") EXCEPT !.source = TRUE, !.gate = "off"],
   Setup("orb", "none"), Setup("always", "none")}

AllSetups == FlowSetups \cup PriceSetups

(* Bars that stay around the entry, run a full R either way, or open       *)
(* beyond the break-even level.                                            *)
SmallBars == {[low |-> -2, high |-> 0], [low |-> -1, high |-> 1], [low |-> 0, high |-> 2],
              [low |-> 2, high |-> 3], [low |-> -3, high |-> -2]}
=============================================================================
