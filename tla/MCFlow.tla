------------------------------- MODULE MCFlow -------------------------------
(* Tick flow, with: one session and every kind of tick; two sessions; runs *)
(* that stop, are killed and start again; the market state engine.         *)
EXTENDS Flow

Once == [days |-> 1, ticks |-> 3, sides |-> {"A", "N"}, stops |-> 0, kills |-> 0, starts |-> 1, desk |-> FALSE]
Twice == [Once EXCEPT !.days = 2, !.sides = {"N"}, !.ticks = 2, !.stops = 1, !.starts = 2]
Again == [Once EXCEPT !.sides = {"B"}, !.stops = 1, !.kills = 1, !.starts = 3]
Profile == [Once EXCEPT !.ticks = 4, !.sides = {"B"}, !.stops = 1, !.starts = 0, !.desk = TRUE]

MCScenarios == {Once, Twice, Again, Profile}
=============================================================================
