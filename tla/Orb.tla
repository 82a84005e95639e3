-------------------------------- MODULE Orb --------------------------------
(***************************************************************************)
(* The two strategies that fire once a session and manage nothing:         *)
(* opening range breakout (strategy/orb.py) and always (strategy/          *)
(* always.py).  Their exits are the bracket and the cutoff.  Neither looks *)
(* at the position or at whether the bar is a catch-up bar.                *)
(***************************************************************************)
EXTENDS StrategyBase

OrbInputs == [breaks : {0, 1, -1}, hit : BOOLEAN]

OrbFresh == [phase |-> "active", range |-> FALSE]

(* Closes before every entry slot build the range.                         *)
Building(slot) == \A s \in EntrySlots : slot < s

OrbOnBar(mem, in, slot) ==
  IF mem.phase = "done" THEN Wait(mem)
  ELSE IF Building(slot) THEN Wait([mem EXCEPT !.range = TRUE])
  ELSE IF ~mem.range \/ in.breaks = 0 THEN Wait(mem)
  ELSE Enter(In(mem, "done"), in.breaks)

AlwaysOnBar(mem) ==
  IF mem.phase = "done" THEN Wait(mem) ELSE Enter(In(mem, "done"), 1)
=============================================================================
