-------------------------------- MODULE Sme --------------------------------
(***************************************************************************)
(* Session momentum expansion (strategy/sme.py): a bias from the opening   *)
(* range, a stop entry beyond it behind an order-flow gate, one re-arm,    *)
(* and a virtual stop that moves to break-even and then trails.  Prices    *)
(* are counted from the entry price in steps of the break-even offset; the *)
(* initial risk is Risk steps.  The rolling statistics are kept as the     *)
(* dates they come from.  The FOMC and release blackouts are part of the   *)
(* entry slots.                                                            *)
(***************************************************************************)
EXTENDS StrategyBase

CONSTANTS Risk,   \* the initial risk, in steps
          Bars    \* the [low, high] a bar can have, in steps

ASSUME SmeAssumption ==
  Risk \in Nat \ {0} /\ Bars \subseteq [low : Int, high : Int]

(* What a 1m bar does to the triggers: nothing, a touch in a direction that *)
(* the gate lets pass, a touch the gate stops (near or run away), a touch   *)
(* whose risk is out of bounds, a return inside the opening range.          *)
Tapes == {"quiet", "touch", "gated", "ranaway", "wide", "inside"}

(* The opening is read before the entries begin, the direction of a touch. *)
SmeInputs ==
  [tf : {"1m"}, opening : {0, 1, -1, None}, tape : {"quiet"}, dir : {1}, bar : Bars]
  \cup [tf : {"1m"}, opening : {None}, tape : Tapes, dir : Directions, bar : Bars]
  \cup [tf : {"5m"}, bar : Bars]

SmeFresh == [phase |-> "idle", range |-> FALSE, decided |-> FALSE, bias |-> None,
             entries |-> 0, rearmed |-> FALSE, tradesAtEntry |-> None, dir |-> None,
             vstop |-> None, be |-> FALSE, day |-> FALSE, samples |-> FALSE,
             ranges |-> <<>>, rets |-> <<>>, banked |-> <<>>, calibrated |-> FALSE]

SmeReset(mem) ==
  [SmeFresh EXCEPT !.ranges = mem.ranges, !.rets = mem.rets, !.banked = mem.banked,
                   !.calibrated = mem.calibrated]

SmeEnded(mem, date) ==
  [mem EXCEPT !.ranges = IF mem.day THEN Append(@, date) ELSE @,
              !.banked = IF mem.samples THEN Append(@, date) ELSE @]

Enough(series) == Len(series) >= CalibrationSessions

(* _decide: an opening range and an ATR (None is neither); with layer A,   *)
(* only after enough sessions, and only with an opening that is neither    *)
(* neutral nor exhausted (0).                                              *)
Armed(mem, opening, setup) ==
  mem.range /\ opening # None /\ (setup.mode = "layer A" =>
                  Enough(mem.rets) /\ Enough(mem.ranges) /\ opening # 0)

(* _calibrate_gate and _evaluate_bias, once a session.                     *)
Decided(mem, opening, date, setup) ==
  LET armed == Armed(mem, opening, setup)
  IN  [mem EXCEPT !.decided = TRUE,
                  !.calibrated = @ \/ Enough(mem.banked),
                  !.bias = IF armed /\ setup.mode = "layer A" THEN opening ELSE None,
                  !.rets = IF mem.range THEN Append(@, date) ELSE @,
                  !.phase = IF armed THEN "armed" ELSE "done"]

Cleared(mem) == [mem EXCEPT !.vstop = None, !.be = FALSE, !.dir = None]

(* _to_wait_rearm: one re-entry cycle a day.                               *)
WaitRearm(mem) ==
  IF mem.rearmed \/ mem.entries >= MaxEntries THEN In(mem, "done")
  ELSE [mem EXCEPT !.rearmed = TRUE, !.phase = "wait_rearm"]

Rearmed(mem, in) ==
  IF mem.phase = "wait_rearm" /\ in.tape = "inside" THEN In(mem, "armed") ELSE mem

SmeSettled(mem, ctx) ==
  LET settled == [mem EXCEPT !.tradesAtEntry = None]
  IN  IF mem.phase # "pending" THEN mem
      ELSE CASE Fate(mem, ctx) = "filled" ->
                  [settled EXCEPT !.phase = "in_trade", !.entries = @ + 1, !.dir = ctx.pos.dir]
             [] Fate(mem, ctx) = "stopped" ->
                  WaitRearm([Cleared(settled) EXCEPT !.entries = @ + 1])
             [] Fate(mem, ctx) = "refused" -> In(Cleared(settled), "done")

Tighter(dir, a, b) == IF dir = 1 THEN (IF a > b THEN a ELSE b) ELSE (IF a < b THEN a ELSE b)
Beyond(dir, a, b) == a * dir > b * dir
Excursion(dir, bar) == IF dir = 1 THEN bar.high ELSE - bar.low
Reaches(dir, bar, stop) == IF dir = 1 THEN bar.low <= stop ELSE bar.high >= stop

(* One R of favourable excursion moves the virtual stop to break-even.     *)
BrokenEven(mem, bar, dir) ==
  IF mem.be \/ Excursion(dir, bar) < Risk THEN mem
  ELSE [mem EXCEPT !.vstop = Tighter(dir, @, dir), !.be = TRUE]

(* _manage with a position, in warmup as on a live bar: the clock, then    *)
(* break-even, then the virtual stop where it is tighter than the real one.*)
SmeStopped(mem, ctx, in) ==
  LET dir == ctx.pos.dir
  IN  /\ Reaches(dir, in.bar, mem.vstop)
      /\ ctx.pos.stop = None \/ Beyond(dir, mem.vstop, ctx.pos.stop)

SmeManage(mem, ctx, in, slot) ==
  LET moved == BrokenEven(mem, in.bar, ctx.pos.dir)
  IN  IF slot >= FlatAt THEN Leave(In(Cleared(mem), "done"), ctx.pos.dir)
      ELSE IF ~SmeStopped(moved, ctx, in) THEN Wait(moved)
      ELSE Leave(IF moved.be THEN In(Cleared(moved), "done") ELSE WaitRearm(Cleared(moved)),
                 ctx.pos.dir)

(* Mutant: the trail follows every bar, down as well as up.                *)
TrailedLoose(mem, bar) ==
  IF mem.phase # "in_trade" \/ ~mem.be \/ mem.vstop = None THEN mem
  ELSE [mem EXCEPT !.vstop = IF mem.dir = 1 THEN bar.low ELSE bar.high]

(* _trail: after break-even, behind each completed 5m bar.                 *)
Trailed(mem, bar) ==
  IF mem.phase # "in_trade" \/ ~mem.be \/ mem.vstop = None THEN mem
  ELSE [mem EXCEPT !.vstop = Tighter(mem.dir, @, IF mem.dir = 1 THEN bar.low ELSE bar.high)]

(* _try_enter and _enter.                                                  *)
SmeGate(mem, setup) == setup.gate = "off" \/ mem.calibrated

SmeTries(mem, in, ctx, slot, setup) ==
  IF mem.phase # "armed" THEN Wait(mem)
  ELSE IF slot \notin EntrySlots THEN Wait(In(mem, "done"))
  ELSE IF ctx.warmup \/ ctx.pos # None \/ mem.bias \notin {None, in.dir} THEN Wait(mem)
  ELSE IF in.tape = "ranaway" /\ setup.gate # "off" THEN Wait(WaitRearm(mem))
  ELSE IF in.tape = "wide" /\ SmeGate(mem, setup) THEN Wait(In(mem, "done"))
  ELSE IF in.tape = "touch" /\ SmeGate(mem, setup)
       THEN Enter([mem EXCEPT !.phase = "pending", !.tradesAtEntry = ctx.trades,
                              !.vstop = - Risk * in.dir, !.be = FALSE], in.dir)
  ELSE Wait(mem)

(* A 1m bar past the opening range.                                        *)
SmeOnMinute(old, in, ctx, slot, date, setup) ==
  LET begun == [old EXCEPT !.day = TRUE]
      mem == SmeSettled(IF begun.decided THEN begun ELSE Decided(begun, None, date, setup), ctx)
  IN  IF mem.phase = "in_trade"
      THEN IF ctx.pos = None THEN Wait(Rearmed(WaitRearm(Cleared(mem)), in))
           ELSE SmeManage(mem, ctx, in, slot)
      ELSE SmeTries(Rearmed(mem, in), in, ctx, slot, setup)

SmeOpening(mem, in, date, setup) ==
  IF mem.decided THEN mem
  ELSE Decided([mem EXCEPT !.range = TRUE, !.day = TRUE], in.opening, date, setup)

SmeFiveMinutes(mem, in, slot, setup) ==
  Trailed(IF setup.gate # "off" /\ slot \in EntrySlots
          THEN [mem EXCEPT !.samples = TRUE] ELSE mem, in.bar)

SmeOnBar(mem, in, ctx, slot, date, setup) ==
  IF in.tf = "5m"
  THEN Wait(IF slot \in RegularSlots THEN SmeFiveMinutes(mem, in, slot, setup) ELSE mem)
  ELSE IF \A s \in RegularSlots : slot < s THEN Wait(SmeOpening(mem, in, date, setup))
  ELSE SmeOnMinute(mem, in, ctx, slot, date, setup)

SmeMemory ==
  [phase : Phases, range : BOOLEAN, decided : BOOLEAN, bias : Directions \cup {None},
   entries : 0 .. MaxEntries, rearmed : BOOLEAN, tradesAtEntry : Nat \cup {None},
   dir : Directions \cup {None}, vstop : Int \cup {None}, be : BOOLEAN, day : BOOLEAN,
   samples : BOOLEAN, ranges : Seq(Nat), rets : Seq(Nat), banked : Seq(Nat),
   calibrated : BOOLEAN]
=============================================================================
