-------------------------------- MODULE Tfr --------------------------------
(***************************************************************************)
(* Tick-flow regime (strategy/tfr.py): entries with extreme flow while the *)
(* regime is armed, exits when the thesis dies.  The decision record of a  *)
(* bar is abstracted to its flow (beyond the entry percentile is 2 or -2), *)
(* the standing of the regime, and whether the bar is off the model's map. *)
(* The FOMC block is part of the entry slots.                              *)
(***************************************************************************)
EXTENDS StrategyBase

(* "lost" is a regime that is no longer AF and whose retention probability *)
(* has collapsed; "armed" is AF with every entry condition but the flow.   *)
Regimes == {"armed", "af", "fading", "gone", "lost"}
TfrRecords ==
  [flow : {-2, -1, 1, 2}, regime : Regimes, off : {FALSE}]
  \cup [flow : {2}, regime : {"armed"}, off : {TRUE}]
(* Without the decisions of the day (book) no record is looked up.         *)
TfrInputs == [book : {TRUE}, rec : TfrRecords \cup {None}, hit : BOOLEAN]
             \cup [book : {FALSE}, rec : {None}, hit : BOOLEAN]

TfrFresh == [phase |-> "idle", day |-> FALSE, entries |-> 0, tradesAtEntry |-> None,
             held |-> 0, regime |-> 0, prob |-> 0, decay |-> 0, stale |-> 0,
             reverse |-> None]

(* Mutant: the entries of the day are not restored.                        *)
TfrRestoredUncounted(saved) == [saved EXCEPT !.day = FALSE, !.entries = 0]

(* restore_state: everything but the day's decisions, which are derived.   *)
TfrRestored(saved) == [saved EXCEPT !.day = FALSE]

TfrDay(mem, in) ==
  IF mem.day \/ mem.phase = "done" THEN mem
  ELSE IF ~in.book THEN In(mem, "done")
  ELSE [mem EXCEPT !.day = TRUE, !.phase = IF @ = "idle" THEN "active" ELSE @]

TfrAged(mem, rec) ==
  IF mem.day /\ mem.phase \in {"active", "pending", "in_trade"}
  THEN [mem EXCEPT !.stale = IF rec = None THEN @ + 1 ELSE 0]
  ELSE mem

Blind(mem) == mem.day /\ mem.phase \in {"active", "pending", "in_trade"} /\ mem.stale > 2

OffMap(mem, rec) == rec # None /\ mem.phase \in {"active", "pending"} /\ rec.off

TfrEntered(mem) ==
  [mem EXCEPT !.phase = "in_trade", !.entries = @ + 1, !.tradesAtEntry = None,
              !.held = 0, !.regime = 0, !.prob = 0]

TfrSettled(mem, ctx) ==
  IF mem.phase # "pending" THEN mem
  ELSE CASE Fate(mem, ctx) = "filled" -> TfrEntered(mem)
         [] Fate(mem, ctx) = "stopped" ->
              [mem EXCEPT !.phase = "active", !.entries = @ + 1, !.tradesAtEntry = None]
         [] Fate(mem, ctx) = "refused" ->
              [mem EXCEPT !.phase = "done", !.tradesAtEntry = None]

TfrExit(mem, ctx, phase) ==
  Leave([mem EXCEPT !.held = 0, !.regime = 0, !.prob = 0, !.decay = 0, !.phase = phase],
        ctx.pos.dir)

Against(rec, dir) == rec.flow * dir < 0
Hostile(rec, dir) == rec.flow * dir = -2
EntryDirection(rec) ==
  IF rec.regime = "armed" /\ rec.flow \in {2, -2} THEN rec.flow \div 2 ELSE None

(* The consecutive-bar counters of the exit modes that keep one.           *)
Counted(mem, rec, dir, mode) ==
  LET run(n, holds) == IF holds THEN Up(n, Hysteresis) ELSE 0
      decays == mode \in {"fd", "fstack"}
      watches == mode \in {"ri", "stack"}
  IN  [mem EXCEPT !.decay = IF decays THEN run(@, Against(rec, dir)) ELSE @,
                  !.regime = IF watches THEN run(@, rec.regime \in {"gone", "lost"}) ELSE @,
                  !.prob = IF watches THEN run(@, rec.regime \in {"fading", "lost"}) ELSE @]

ThesisDead(mem, rec, dir, mode) ==
  \/ mode \in {"hf", "stack", "fstack"} /\ Hostile(rec, dir)
  \/ mode \in {"fd", "fstack"} /\ mem.decay >= Hysteresis
  \/ mode \in {"ri", "stack"} /\ (mem.regime >= Hysteresis \/ mem.prob >= Hysteresis)
  \/ mode = "t13" /\ mem.held >= TimeStop

Reverses(rec, dir) == EntryDirection(rec) = - dir

(* _manage on a live bar, once the position is known to be there.          *)
TfrManaged(mem, rec, ctx, slot, setup) ==
  LET dir == ctx.pos.dir
      next == IF rec = None THEN mem ELSE Counted(mem, rec, dir, setup.mode)
      ends == IF setup.hours = "rth" THEN FlatAt ELSE Midnight
  IN  IF slot >= ends THEN TfrExit(mem, ctx, "done")
      ELSE IF \/ setup.hours = "all" /\ slot \in Blackout
              \/ setup.mode = "bracket" /\ mem.held >= TimeStop
           THEN TfrExit(mem, ctx, "active")
      ELSE IF setup.mode = "bracket" \/ rec = None THEN Wait(mem)
      ELSE IF ThesisDead(next, rec, dir, setup.mode) THEN TfrExit(next, ctx, "active")
      ELSE IF Reverses(rec, dir)
           THEN TfrExit([next EXCEPT !.reverse = - dir], ctx, "active")
      ELSE Wait(next)

(* Mutant: exits are decided in warmup too, where they are suppressed.     *)
TfrManageInWarmup(mem, rec, ctx, slot, setup) ==
  IF ctx.pos = None THEN Wait(In(mem, "active"))
  ELSE TfrManaged([mem EXCEPT !.held = Up(@, TimeStop)], rec, ctx, slot, setup)

TfrManage(mem, rec, ctx, slot, setup) ==
  LET held == [mem EXCEPT !.held = Up(@, TimeStop)]
  IN  IF ctx.pos = None THEN Wait(In(mem, "active"))
      ELSE IF ctx.warmup THEN Wait(held)
      ELSE TfrManaged(held, rec, ctx, slot, setup)

TfrTries(mem, rec, ctx, slot, setup) ==
  LET window == IF setup.hours = "rth" THEN EntrySlots ELSE AllHoursSlots
      forgot == [mem EXCEPT !.reverse = None]
  IN  IF mem.phase # "active" \/ slot \notin window THEN Wait(mem)
      ELSE IF mem.entries >= MaxEntries THEN Wait(In(mem, "done"))
      ELSE IF ctx.warmup \/ ctx.pos # None \/ rec = None THEN Wait(mem)
      ELSE IF EntryDirection(rec) = None \/ mem.reverse \notin {None, EntryDirection(rec)}
           THEN Wait(forgot)
      ELSE Enter([forgot EXCEPT !.phase = "pending", !.tradesAtEntry = ctx.trades],
                 EntryDirection(rec))

TfrOnBar(old, in, ctx, slot, setup) ==
  LET day == TfrDay(old, in)
      rec == IF day.day THEN in.rec ELSE None
      mem == TfrAged(day, rec)
      settled == TfrSettled(mem, ctx)
      managed == IF settled.phase = "in_trade"
                 THEN TfrManage(settled, rec, ctx, slot, setup) ELSE Wait(settled)
  IN  IF setup.hours = "rth" /\ slot \notin RegularSlots THEN Wait(old)
      ELSE IF Blind(mem)
           THEN IF mem.phase = "in_trade" /\ ctx.pos # None
                THEN TfrExit(mem, ctx, "done") ELSE Wait(In(mem, "done"))
      ELSE IF OffMap(mem, rec) THEN Wait(In(mem, "done"))
      ELSE IF managed.signal # None THEN managed
      ELSE TfrTries(managed.mem, rec, ctx, slot, setup)

TfrMemory ==
  [phase : Phases, day : BOOLEAN, entries : 0 .. MaxEntries,
   tradesAtEntry : Nat \cup {None}, held : 0 .. TimeStop, regime : 0 .. Hysteresis,
   prob : 0 .. Hysteresis, decay : 0 .. Hysteresis, stale : 0 .. 3,
   reverse : Directions \cup {None}]
=============================================================================
