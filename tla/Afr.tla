-------------------------------- MODULE Afr --------------------------------
(***************************************************************************)
(* Absorption fade (strategy/afr.py): enter against an aggressor whose     *)
(* flow is absorbed, leave when it continues, when the flow normalises or  *)
(* after a number of bars.  A bar's record is its flow (2 or -2 is beyond  *)
(* the absorption percentile) and whether price gave way to it.            *)
(***************************************************************************)
EXTENDS StrategyBase

AfrRecords == [flow : -2 .. 2, effort : {"absorbed", "low", "normal"}]
AfrInputs == [book : {TRUE}, rec : AfrRecords \cup {None}, hit : BOOLEAN]
             \cup [book : {FALSE}, rec : {None}, hit : BOOLEAN]

AfrFresh == [phase |-> "idle", day |-> FALSE, entries |-> 0, tradesAtEntry |-> None,
             held |-> 0, aggressor |-> 0]

AfrRestored(saved) == [saved EXCEPT !.day = FALSE]

AfrDay(mem, in) ==
  IF mem.day \/ mem.phase = "done" THEN mem
  ELSE IF ~in.book THEN In(mem, "done")
  ELSE [mem EXCEPT !.day = TRUE, !.phase = IF @ = "idle" THEN "active" ELSE @]

AfrSettled(mem, ctx) ==
  IF mem.phase # "pending" THEN mem
  ELSE CASE Fate(mem, ctx) = "filled" ->
              [mem EXCEPT !.phase = "in_trade", !.entries = @ + 1, !.tradesAtEntry = None,
                          !.held = 0]
         [] Fate(mem, ctx) = "stopped" ->
              [mem EXCEPT !.phase = "active", !.entries = @ + 1, !.tradesAtEntry = None]
         [] Fate(mem, ctx) = "refused" ->
              [mem EXCEPT !.phase = "done", !.tradesAtEntry = None]

AfrExit(mem, ctx, phase) ==
  Leave([mem EXCEPT !.held = 0, !.aggressor = 0, !.phase = phase], ctx.pos.dir)

(* A-CONT: the original aggressor reasserts itself past the percentile.    *)
Continues(mem, rec) ==
  IF mem.aggressor > 0 THEN rec.flow = 2 ELSE rec.flow = -2

AfrManage(mem, rec, ctx, slot, setup) ==
  LET held == [mem EXCEPT !.held = Up(@, TimeStop)]
  IN  IF ctx.pos = None THEN Wait(In(mem, "active"))
      ELSE IF ctx.warmup THEN Wait(held)
      ELSE IF slot >= FlatAt THEN AfrExit(held, ctx, "done")
      ELSE IF \/ rec # None /\ Continues(held, rec)
              \/ rec # None /\ setup.mode = "norm" /\ rec.effort = "normal"
              \/ setup.mode = "time" /\ held.held >= TimeStop
           THEN AfrExit(held, ctx, "active")
      ELSE Wait(held)

AfrTries(mem, rec, ctx, slot) ==
  IF mem.phase # "active" \/ slot \notin EntrySlots THEN Wait(mem)
  ELSE IF mem.entries >= MaxEntries THEN Wait(In(mem, "done"))
  ELSE IF ctx.warmup \/ ctx.pos # None \/ rec = None THEN Wait(mem)
  ELSE IF rec.flow \notin {2, -2} \/ rec.effort # "absorbed" THEN Wait(mem)
  ELSE Enter([mem EXCEPT !.phase = "pending", !.tradesAtEntry = ctx.trades,
                         !.aggressor = rec.flow \div 2], - (rec.flow \div 2))

AfrOnBar(old, in, ctx, slot, setup) ==
  LET mem == AfrSettled(AfrDay(old, in), ctx)
      rec == IF mem.day THEN in.rec ELSE None
      managed == IF mem.phase = "in_trade" THEN AfrManage(mem, rec, ctx, slot, setup)
                 ELSE Wait(mem)
  IN  IF slot \notin RegularSlots THEN Wait(old)
      ELSE IF managed.signal # None THEN managed
      ELSE AfrTries(managed.mem, rec, ctx, slot)

AfrMemory ==
  [phase : Phases, day : BOOLEAN, entries : 0 .. MaxEntries,
   tradesAtEntry : Nat \cup {None}, held : 0 .. TimeStop, aggressor : {0, 1, -1}]
=============================================================================
