-------------------------------- MODULE Mae ---------------------------------
(***************************************************************************)
(* What the studies of past trades read off the tape: how far a trade went *)
(* against it, and what another stop or target would have made of it       *)
(* (scripts/mae_study.py, ssx_v3_phase1.py, diagnose_sme.py, and the       *)
(* overlays of pfr_study.py).                                              *)
(*                                                                         *)
(* A trade is what the journal says of it: the first minute after its      *)
(* entry, its direction and entry price, and the exit, in the minute that  *)
(* ends at exit.at.  Costs are left out, money is ticks.                   *)
(***************************************************************************)
EXTENDS Tape

CONSTANT FavMark  \* FAV_MARK: the favourable mark

Held(bars, t) == {k \in Present(bars) : t.from <= k /\ k <= t.exit.at}
Adverse(bar, t) == Max({0, IF t.dir = 1 THEN t.entry - bar.l ELSE bar.h - t.entry})
Favourable(bar, t) == Max({0, IF t.dir = 1 THEN bar.h - t.entry ELSE t.entry - bar.l})
Result(t) == t.dir * (t.exit.px - t.entry)

(* walk_excursions, attach_mae: the deepest minute is the first so deep,   *)
(* and comes before a favourable mark made in the same minute.             *)
WalkExcursions(bars, t) ==
  LET held   == Held(bars, t)
      mae    == Max({Adverse(bars[k], t) : k \in held})
      deep   == FirstOf({k \in held : mae > 0 /\ Adverse(bars[k], t) = mae})
      marked == FirstOf({k \in held : Favourable(bars[k], t) >= FavMark})
  IN  IF held = {} THEN None
      ELSE [mae |-> mae, mfe |-> Max({Favourable(bars[k], t) : k \in held}), deep |-> deep,
            maeFirst |-> IF mae = 0 THEN None ELSE marked = None \/ deep <= marked,
            immediate |-> t.dir * (bars[Min(held)].c - t.entry) > 0]

(* resim_panel, overlay: a stop so far away would have been touched.       *)
StopAt(t, mae, distance) == IF mae >= distance THEN -(distance + 1) ELSE Result(t)

(* first_passage of ssx_v3_phase1: from the journalled fill, the bracket   *)
(* before the deadline, whose bar is left at its close.                    *)
Passage(bars, t, deadline) ==
  LET stop   == t.entry - t.dir * StopTicks
      target == t.entry + t.dir * TargetTicks
      Exit(k) == IF FallsTo(bars[k], t.dir, stop) THEN [px |-> stop - t.dir, why |-> "stop", at |-> k]
                 ELSE IF Reaches(bars[k], t.dir, target) THEN [px |-> target, why |-> "target", at |-> k]
                 ELSE IF k >= deadline THEN [px |-> bars[k].c, why |-> "time", at |-> k]
                 ELSE None
      over   == FirstOf({k \in Present(bars) : k >= t.from /\ Exit(k) # None})
  IN  IF over = None THEN LastClose(bars) ELSE Exit(over)

(* excursions of diagnose_sme: the initial stop alone, flat at the close   *)
(* of the deadline's bar, or of the file's last one when neither came.     *)
InitialStopOnly(bars, t) ==
  LET stop == t.entry - t.dir * StopTicks
      Exit(k) == IF FallsTo(bars[k], t.dir, stop)
                 THEN [px |-> IF Gapped(bars[k], t.dir, stop) THEN bars[k].o ELSE stop,
                       why |-> "stop", at |-> k]
                 ELSE IF k >= FlattenAt THEN [px |-> bars[k].c, why |-> "time", at |-> k]
                 ELSE None
      over == FirstOf({k \in Present(bars) : t.from <= k /\ k <= FlattenAt /\ Exit(k) # None})
  IN  IF over = None THEN LastClose(bars) ELSE Exit(over)
=============================================================================
