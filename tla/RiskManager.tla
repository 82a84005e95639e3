---------------------------- MODULE RiskManager ----------------------------
(***************************************************************************)
(* The money side of risk/limits.py (RiskManager), as the bar loop of      *)
(* main.py drives it: what the account has realised, the open position     *)
(* marked to market, the day's opening mark, the high-water mark, and the  *)
(* two limits measured on them, across session rollovers, saves, crashes   *)
(* and restarts.  Engine models when the loop reads the limits; this       *)
(* module models what they measure.                                        *)
(*                                                                         *)
(* Money is counted in ticks of one contract (point value 1).  A step is   *)
(* what one bar does up to the decision, the decision itself, and the save.*)
(***************************************************************************)
EXTENDS Integers

CONSTANTS
  Prices,        \* the prices a bar can close or fill at
  Quantities,    \* signed position sizes
  None,          \* no position, no limit, no saved row
  MaxLoss,       \* risk.max_daily_loss as a magnitude, or None
  MaxDrawdown,   \* risk.max_trailing_drawdown as a magnitude, or None
  Basis,         \* risk.trailing_drawdown_basis
  Commission,    \* contract.commission_per_round_turn, per contract
  Live,          \* live_binding, or replay_binding
  HasSource,     \* whether reconciliation may replace the position
  Carry,         \* whether a position may still be open at a session rollover
  MaxDay,        \* bound: the last session date
  MaxEntries,    \* bound: positions opened or replaced
  MaxStarts      \* bound: process starts

Days == 0 .. MaxDay
Position == [qty : Quantities, entry : Prices]

ASSUME MoneyAssumption ==
  /\ Prices \subseteq Int /\ Prices # {}
  /\ Quantities \subseteq Int \ {0}
  /\ Commission \in Nat
  /\ Basis \in {"equity", "closed"}

ASSUME LimitAssumption ==
  /\ MaxLoss # None => MaxLoss \in Nat
  /\ MaxDrawdown # None => MaxDrawdown \in Nat

ASSUME BoundAssumption ==
  /\ MaxDay \in Nat /\ MaxEntries \in Nat /\ MaxStarts \in Nat
  /\ {Live, HasSource, Carry} \subseteq BOOLEAN

ASSUME NoneAssumption ==
  None \notin Position \cup [daily : Int, equity : Int, high : Int, mark : Int,
                             pos : Position \cup {None}]

VARIABLES
  money,     \* _daily_pnl, _equity, _high_water, _unrealised, _session_open_mark
  pos,       \* PositionTracker
  price,     \* close of the last bar
  day,       \* the session date the process is in
  pc,        \* "down", "startup", "warmup", "bar", "decide", "persist"
  store,     \* the saved risk_state and position, per session date
  entries, starts,   \* bounds
  now, saved, life   \* for the properties: what the account was worth at the
                     \* day's opening, what earlier processes made of it, and
                     \* its peak; as of each save; as of the last save

ghosts == <<now, saved, life>>
vars == <<money, pos, price, day, pc, store, entries, starts, ghosts>>

Larger(a, b) == IF a >= b THEN a ELSE b

-----------------------------------------------------------------------------
(* Position.pnl and Engine._realised_pnl.                                  *)
Pnl(p, at) == p.qty * (at - p.entry)

Size(p) == IF p.qty > 0 THEN p.qty ELSE - p.qty

Realised(p, at) == Pnl(p, at) - Commission * Size(p)

(* RiskManager.start_session.                                              *)
StartSession(m) ==
  [daily |-> 0, equity |-> m.equity, high |-> m.high, open |-> m.open, mark |-> m.open]

(* RiskManager.record_realised_pnl.                                        *)
Record(m, amount) ==
  [daily |-> m.daily + amount, equity |-> m.equity + amount,
   high |-> Larger(m.high, m.equity + amount), open |-> m.open, mark |-> m.mark]

(* RiskManager.mark_to_market.                                             *)
(* Mutants: the mark outlives its position; the peak follows realised      *)
(* equity alone.                                                           *)
MarkToMarketKeepsMark(m, p, at) ==
  LET open == IF p = None THEN 0 ELSE Pnl(p, at)
  IN  [daily |-> m.daily, equity |-> m.equity,
       high |-> IF Basis = "equity" THEN Larger(m.high, m.equity + open) ELSE m.high,
       open |-> open, mark |-> m.mark]

MarkToMarketClosed(m, p, at) ==
  [daily |-> m.daily, equity |-> m.equity, high |-> m.high,
   open |-> IF p = None THEN 0 ELSE Pnl(p, at),
   mark |-> IF p = None THEN 0 ELSE m.mark]

MarkToMarket(m, p, at) ==
  LET open == IF p = None THEN 0 ELSE Pnl(p, at)
  IN  [daily |-> m.daily, equity |-> m.equity,
       high |-> IF Basis = "equity" THEN Larger(m.high, m.equity + open) ELSE m.high,
       open |-> open,
       mark |-> IF p = None THEN 0 ELSE m.mark]

(* RiskManager.breach.                                                     *)
DailyBreach(m) == MaxLoss # None /\ -(m.daily + m.open - m.mark) >= MaxLoss

DrawdownBreach(m) ==
  MaxDrawdown # None /\ m.high - (m.equity + m.open) >= MaxDrawdown

Breach(m) == DailyBreach(m) \/ DrawdownBreach(m)

(* RiskManager.snapshot and restore: everything but the open position's    *)
(* value, which the first bar marks again.                                 *)
(* Mutants: the day's loss, the peak is not saved.                         *)
SnapshotNoDaily ==
  [daily |-> 0, equity |-> money.equity, high |-> money.high,
   mark |-> money.mark, pos |-> pos]

SnapshotNoPeak ==
  [daily |-> money.daily, equity |-> money.equity, high |-> money.equity,
   mark |-> money.mark, pos |-> pos]

Snapshot ==
  [daily |-> money.daily, equity |-> money.equity, high |-> money.high,
   mark |-> money.mark, pos |-> pos]

(* Mutant: restore leaves the open value unset.                            *)
RestoredUnmarked(row) ==
  [daily |-> row.daily, equity |-> row.equity, high |-> row.high, mark |-> row.mark]

Restored(row) ==
  [daily |-> row.daily, equity |-> row.equity, high |-> row.high,
   open |-> 0, mark |-> row.mark]

NoMoney == [daily |-> 0, equity |-> 0, high |-> 0, open |-> 0, mark |-> 0]
NoHistory == [opening |-> 0, base |-> 0, peak |-> 0]

-----------------------------------------------------------------------------
Init ==
  /\ money = NoMoney /\ pos = None /\ price \in Prices
  /\ day = 0 /\ pc = "down"
  /\ store = [d \in Days |-> None]
  /\ entries = 0 /\ starts = 0
  /\ now = NoHistory /\ saved = [d \in Days |-> NoHistory]
  /\ life = [equity |-> 0, peak |-> 0]

(* StateStore.load_latest: no later date has a row.                        *)
IsLatest(d) ==
  IF \A e \in Days : store[e] = None THEN d = 0
  ELSE store[d] # None /\ \A e \in Days : e > d => store[e] = None

(* run_from_config: a live process looks for the row of the date it starts *)
(* on, a replay for the latest row; no row is an account at zero.          *)
Start(d) ==
  /\ pc = "down" /\ starts < MaxStarts
  /\ IF Live THEN d >= day ELSE IsLatest(d)
  /\ IF store[d] = None
     THEN /\ money' = NoMoney /\ pos' = None
          /\ now' = [opening |-> 0, base |-> life.equity, peak |-> life.peak]
     ELSE /\ money' = Restored(store[d]) /\ pos' = store[d].pos
          /\ now' = saved[d]
  /\ day' = d /\ pc' = "startup" /\ starts' = starts + 1
  /\ UNCHANGED <<price, store, entries, saved, life>>

-----------------------------------------------------------------------------
(* _bar_loop up to the decision: the tracker may close the position at a   *)
(* stop or target, the session may roll, the close is booked, and what is  *)
(* open is marked at the bar's close.  The first bars of a process may     *)
(* close at or before backfill_until: nothing is decided or saved on them. *)
Bar(at, rolls, fill) ==
  /\ pc \in {"startup", "warmup", "bar"}
  /\ rolls => day < MaxDay /\ (pos = None \/ Carry)
  /\ fill # None => pos # None
  /\ LET left == IF fill # None THEN None ELSE pos
         rolled == IF rolls THEN StartSession(money) ELSE money
         booked == IF fill # None THEN Record(rolled, Realised(pos, fill)) ELSE rolled
         value == booked.equity + (IF left = None THEN 0 ELSE Pnl(left, at))
     IN  /\ money' = MarkToMarket(booked, left, at)
         /\ pos' = left
         /\ now' = [opening |-> IF ~rolls THEN now.opening
                               ELSE money.equity + (IF pos = None THEN 0 ELSE money.open),
                    base |-> now.base,
                    peak |-> IF Basis = "equity"
                             THEN Larger(Larger(now.peak, now.base + booked.equity),
                                         now.base + value)
                             ELSE Larger(now.peak, now.base + booked.equity)]
  /\ price' = at /\ day' = (IF rolls THEN day + 1 ELSE day)
  /\ pc' \in IF pc = "bar" THEN {"decide"} ELSE {"decide", "warmup"}
  /\ UNCHANGED <<store, entries, starts, saved, life>>

(* _handle_signal of a FLATTEN, from the cutoff, a breached limit or the   *)
(* strategy: the position is closed at the bar's close and booked.         *)
Exit ==
  /\ pc = "decide" /\ pos # None
  /\ money' = Record(money, Realised(pos, price))
  /\ pos' = None /\ pc' = "persist"
  /\ now' = [now EXCEPT !.peak = Larger(@, now.base + money'.equity)]
  /\ UNCHANGED <<price, day, store, entries, starts, saved, life>>

(* _handle_signal of an ENTRY that check() lets through.                   *)
Enter(p) ==
  /\ pc = "decide" /\ pos = None /\ entries < MaxEntries
  /\ ~Breach(money)
  /\ pos' = p /\ pc' = "persist" /\ entries' = entries + 1
  /\ UNCHANGED <<money, price, day, store, starts, ghosts>>

(* No signal.  A breach with a position on leaves here only while the      *)
(* belief is in doubt and the flatten is withheld.                         *)
Hold ==
  /\ pc = "decide" /\ (Breach(money) /\ pos # None => HasSource)
  /\ pc' = "persist"
  /\ UNCHANGED <<money, pos, price, day, store, entries, starts, ghosts>>

(* _persist.                                                               *)
Save ==
  /\ store' = [store EXCEPT ![day] = Snapshot]
  /\ saved' = [saved EXCEPT ![day] = now]
  /\ life' = [equity |-> now.base + money.equity, peak |-> now.peak]

Persist ==
  /\ pc = "persist" /\ pc' = "bar"
  /\ Save
  /\ UNCHANGED <<money, pos, price, day, entries, starts, now>>

(* Engine.reconcile: a position is adopted, dropped, or given the price    *)
(* that was really paid.  No money is booked (bound: counts as an entry).  *)
Reconcile(p) ==
  /\ HasSource /\ pc \in {"startup", "bar", "persist"} /\ p # pos /\ entries < MaxEntries
  /\ pos # None /\ p # None => p.qty = pos.qty
  /\ pos' = p /\ entries' = entries + 1
  /\ UNCHANGED <<money, price, day, pc, store, starts, ghosts>>

Forget == pc' = "down" /\ money' = NoMoney /\ pos' = None /\ now' = NoHistory

Crash ==
  /\ pc # "down"
  /\ Forget
  /\ UNCHANGED <<price, day, store, entries, starts, saved, life>>

(* The stream ends or the loop raises: _teardown saves the session it was  *)
(* in, whatever the last bar had got to.                                   *)
Teardown ==
  /\ pc \notin {"down", "startup"}
  /\ Save
  /\ Forget
  /\ UNCHANGED <<price, day, entries, starts>>

Next ==
  \/ \E d \in Days : Start(d)
  \/ \E at \in Prices, rolls \in BOOLEAN, fill \in Prices \cup {None} : Bar(at, rolls, fill)
  \/ Exit
  \/ \E p \in Position : Enter(p)
  \/ Hold
  \/ Persist
  \/ \E p \in Position \cup {None} : Reconcile(p)
  \/ Crash
  \/ Teardown

Spec == Init /\ [][Next]_vars

-----------------------------------------------------------------------------
Money == [daily : Int, equity : Int, high : Int, open : Int, mark : Int]
Row == [daily : Int, equity : Int, high : Int, mark : Int, pos : Position \cup {None}]
Ghost == [opening : Int, base : Int, peak : Int]

(* Every variable holds a value the program could hold.                    *)
TypeOK ==
  /\ money \in Money
  /\ pos \in Position \cup {None}
  /\ price \in Prices
  /\ day \in Days
  /\ pc \in {"down", "startup", "warmup", "bar", "decide", "persist"}
  /\ store \in [Days -> Row \cup {None}]
  /\ entries \in Nat /\ starts \in Nat
  /\ now \in Ghost /\ saved \in [Days -> Ghost] /\ life \in [equity : Int, peak : Int]

(* What the daily limit measures is the account's move since its session   *)
(* opened: taking the day's figure, less the mark carried in, off the      *)
(* realised equity leaves the value at which the day began (breach():      *)
(* "the open position's move since the session started, not since entry"). *)
DailyIsToday ==
  pc # "down" => money.equity - money.daily + money.mark = now.opening

(* The high-water mark never falls below what the account has realised,    *)
(* nor, on the equity basis, below its marked value when limits are read.  *)
HighWaterCovers ==
  /\ money.high >= money.equity /\ money.high >= 0
  /\ (pc = "decide" /\ Basis = "equity") => money.high >= money.equity + money.open

(* No position is opened while the account is further below the peak of    *)
(* its life than the trailing drawdown allows, across restarts             *)
(* (start_session: "measured over the life of the account, not the day").  *)
NoEntryPastDrawdown ==
  [][(pc = "decide" /\ pos = None /\ pos' # None /\ MaxDrawdown # None)
       => now.peak - (now.base + money.equity + money.open)
            < MaxDrawdown]_vars

(* No position is opened on a day the account is down its daily limit,     *)
(* whatever was restarted since (snapshot: "a restart that forgets the     *)
(* day's losses is a restart that resumes trading straight through the     *)
(* limit that had just stopped it").                                       *)
NoEntryPastDailyLoss ==
  [][(pc = "decide" /\ pos = None /\ pos' # None /\ MaxLoss # None)
       => now.opening - (money.equity + money.open) < MaxLoss]_vars
=============================================================================
