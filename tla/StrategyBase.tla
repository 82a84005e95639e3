---------------------------- MODULE StrategyBase ----------------------------
(***************************************************************************)
(* What the trading strategies share (strategy/base.py and the state       *)
(* machine tfr.py, afr.py, naim.py and sme.py each write out): a strategy  *)
(* is a memory and a function of that memory, one bar and the context the  *)
(* engine shows it, which returns the next memory and at most one signal.  *)
(* A direction is 1 (LONG) or -1 (SHORT).  A session is a few bar closes,  *)
(* one slot per part of the day that the strategies tell apart.            *)
(***************************************************************************)
EXTENDS Integers, FiniteSets, Sequences

CONSTANTS
  None,           \* absent value
  EntrySlots,     \* closes inside the entry window of the regular session
  AllHoursSlots,  \* closes at which the all-hours mode may enter
  RegularSlots,   \* closes in (09:30, 16:00]
  FlatAt,         \* the first close at or after 15:55
  Blackout,       \* closes in the 16:30-18:00 blackout of the all-hours mode
  Midnight,       \* the first close of the midnight flatten of the all-hours mode
  MaxEntries,     \* max_entries_per_day
  Hysteresis,     \* hysteresis_bars and fd_hysteresis_bars
  TimeStop,       \* the bar-count exits: t13, t3..t13, bracket_backstop
  CalibrationSessions  \* ofi_min_sessions, stat_window

ASSUME StrategyAssumption ==
  /\ UNION {EntrySlots, AllHoursSlots, RegularSlots, Blackout} \subseteq Nat
  /\ {FlatAt, Midnight} \subseteq Nat
  /\ {MaxEntries, Hysteresis, TimeStop, CalibrationSessions} \subseteq Nat \ {0}
  /\ None \notin Int

(* Every entry window closes before the flatten (entry_end is 15:00, and   *)
(* 15:30 for sme).                                                         *)
ASSUME WindowAssumption == \A slot \in EntrySlots : slot < FlatAt

Phases == {"idle", "active", "armed", "pending", "in_trade", "wait_rearm", "done"}
Directions == {1, -1}
Signals == [intent : {"ENTRY", "FLATTEN"}, dir : Directions]

ASSUME SignalAssumption == None \notin Signals

Wait(mem) == [mem |-> mem, signal |-> None]
Enter(mem, dir) == [mem |-> mem, signal |-> [intent |-> "ENTRY", dir |-> dir]]
Leave(mem, dir) == [mem |-> mem, signal |-> [intent |-> "FLATTEN", dir |-> dir]]

In(mem, phase) == [mem EXCEPT !.phase = phase]

(* Counters saturate where nothing looks further (bound).                  *)
Up(n, cap) == IF n < cap THEN n + 1 ELSE cap

(* What became of a pending entry: the engine counted a trade and still    *)
(* holds it, counted one and has already closed it, or counted none.       *)
Fate(mem, ctx) ==
  IF ctx.trades <= mem.tradesAtEntry THEN "refused"
  ELSE IF ctx.pos # None THEN "filled" ELSE "stopped"
=============================================================================
