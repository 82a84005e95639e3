-------------------------------- MODULE Naim --------------------------------
(***************************************************************************)
(* Noise-area intraday momentum (strategy/naim.py): entries when a 1m bar  *)
(* closes outside the noise band, a structural stop back inside it.  The   *)
(* band and the VWAP are abstracted to where a bar closes; what the        *)
(* strategy remembers across sessions is kept as the dates whose gate      *)
(* samples it banked; the previous close only places the band.             *)
(***************************************************************************)
EXTENDS StrategyBase

NaimInputs ==
  [tf : {"1m"}, curve : BOOLEAN, breaks : {0, 1, -1}, gate : BOOLEAN, inside : BOOLEAN,
   hit : BOOLEAN]
  \cup [tf : {"5m"}, hit : BOOLEAN]

NaimFresh == [phase |-> "idle", entries |-> 0, tradesAtEntry |-> None,
              samples |-> FALSE, banked |-> <<>>, calibrated |-> FALSE]

NaimReset(mem) == [NaimFresh EXCEPT !.banked = mem.banked, !.calibrated = mem.calibrated]

(* on_session_end: today's gate samples join the memory.                   *)
NaimEnded(mem, date) ==
  [mem EXCEPT !.banked = IF mem.samples THEN Append(@, date) ELSE @]

NaimBegun(mem, in) ==
  IF mem.phase # "idle" THEN mem
  ELSE [mem EXCEPT !.phase = IF in.curve THEN "active" ELSE "done",
                   !.calibrated = @ \/ Len(mem.banked) >= CalibrationSessions]

NaimSettled(mem, ctx) ==
  IF mem.phase # "pending" THEN mem
  ELSE CASE Fate(mem, ctx) = "filled" ->
              [mem EXCEPT !.phase = "in_trade", !.entries = @ + 1, !.tradesAtEntry = None]
         [] Fate(mem, ctx) = "stopped" ->
              [mem EXCEPT !.phase = "active", !.entries = @ + 1, !.tradesAtEntry = None]
         [] Fate(mem, ctx) = "refused" ->
              [mem EXCEPT !.phase = "done", !.tradesAtEntry = None]

(* _manage: in warmup as on a live bar.                                    *)
NaimManage(mem, in, ctx, slot) ==
  IF ctx.pos = None THEN Wait(In(mem, "active"))
  ELSE IF slot >= FlatAt THEN Leave(In(mem, "done"), ctx.pos.dir)
  ELSE IF in.inside THEN Leave(In(mem, "active"), ctx.pos.dir)
  ELSE Wait(mem)

NaimGate(mem, in, setup) == setup.mode = "off" \/ (mem.calibrated /\ in.gate)

NaimTries(mem, in, ctx, slot, setup) ==
  IF mem.phase # "active" \/ slot \notin EntrySlots THEN Wait(mem)
  ELSE IF mem.entries >= MaxEntries THEN Wait(In(mem, "done"))
  ELSE IF ctx.warmup \/ ctx.pos # None THEN Wait(mem)
  ELSE IF in.breaks = 0 \/ ~NaimGate(mem, in, setup) THEN Wait(mem)
  ELSE Enter([mem EXCEPT !.phase = "pending", !.tradesAtEntry = ctx.trades], in.breaks)

NaimOnMinute(old, in, ctx, slot, setup) ==
  LET mem == NaimSettled(NaimBegun(old, in), ctx)
      managed == IF mem.phase = "in_trade" THEN NaimManage(mem, in, ctx, slot) ELSE Wait(mem)
  IN  IF managed.signal # None THEN managed
      ELSE NaimTries(managed.mem, in, ctx, slot, setup)

(* The 5m closes of the entry window are samples for later gates.          *)
NaimSampled(mem, slot, setup) ==
  IF setup.mode # "off" /\ slot \in EntrySlots THEN [mem EXCEPT !.samples = TRUE] ELSE mem

NaimOnBar(mem, in, ctx, slot, setup) ==
  IF in.tf = "5m" THEN Wait(NaimSampled(mem, slot, setup))
  ELSE IF slot \notin RegularSlots THEN Wait(mem)
  ELSE NaimOnMinute(mem, in, ctx, slot, setup)

NaimMemory ==
  [phase : Phases, entries : 0 .. MaxEntries, tradesAtEntry : Nat \cup {None},
   samples : BOOLEAN, banked : Seq(Nat), calibrated : BOOLEAN]
=============================================================================
