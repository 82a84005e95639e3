------------------------------- MODULE Engine -------------------------------
(***************************************************************************)
(* The trading agent's bar loop (nq_agent/main.py, Engine), with the parts *)
(* it owns: the session manager and its cutoff flatten (session.py), the   *)
(* believed position (position.py), the risk veto (risk/limits.py), the    *)
(* fan-out to the order accounts (router.py), reconciliation, and the      *)
(* state saved after every live bar (state.py), through crashes, orderly   *)
(* teardowns and restarts.                                                 *)
(*                                                                         *)
(* Time is counted in bar closes.  Slots consecutive closes make one       *)
(* session date; entries are allowed from slot Open up to slot Cutoff.     *)
(* Money is abstracted to the one bit the loop reads: whether a limit is   *)
(* breached on this bar (RiskManager computes it).  A step of the engine   *)
(* is what runs between two awaits at which the outside world can move:    *)
(* the next bar, an order on the wire, a position query, a save.           *)
(***************************************************************************)
EXTENDS Reconciliation, FiniteSets

CONSTANTS
  Slots, Open, Cutoff,   \* the session calendar
  MaxTime,               \* bound: the last bar close
  MaxGap,                \* bound: how many bar closes may go by without a bar
  MaxTrades,             \* risk.max_trades_per_day
  Window,                \* risk.duplicate_window_seconds, in bar closes
  Limits,                \* whether a money limit is configured
  Live,                  \* live_binding, or replay_binding
  HasSource,             \* whether a PositionSource is wired
  Interval,              \* risk.reconcile_interval_bars, 0 for off
  Switchable,            \* accounts the operator may switch off at any time
  Outcomes,              \* the order outcomes the executors can return
  Broker,                \* when the broker's bracket fires: "mirrors", "free", "never"
  Exits,                 \* whether the strategy emits its own FLATTEN
  MaxStarts, MaxStops    \* bounds: process starts, orderly teardowns

NoTime == -1
NoDate == -1
Times == 0 .. MaxTime

Day(t) == t \div Slots
Slot(t) == t % Slots
Dates == {Day(t) : t \in Times}

ASSUME CalendarAssumption ==
  /\ Slots \in Nat \ {0} /\ Open \in Nat /\ Cutoff \in Nat
  /\ MaxTime \in Nat /\ MaxGap \in Nat \ {0}

ASSUME ConfigAssumption ==
  /\ MaxTrades \in Nat /\ Window \in Nat /\ Interval \in Nat
  /\ MaxStarts \in Nat /\ MaxStops \in Nat
  /\ {Limits, Live, HasSource, Exits} \subseteq BOOLEAN
  /\ Broker \in {"mirrors", "free", "never"}
  /\ Switchable \subseteq Accounts
  /\ Outcomes \subseteq {"FILLED", "REJECTED", "UNKNOWN"} /\ Outcomes # {}

VARIABLES
  wall,      \* the wall clock of a live deployment, in bar closes
  held,      \* what the broker holds, per account
  limbo,     \* quantity of an unanswered order that may still fill, per account
  store,     \* StateStore: the saved session state, per session date
  pc,        \* where the process is
  cursor,    \* the feed's position: close of the last bar delivered
  last,      \* Engine._last_bar_time
  win,       \* the resume windows: resume_from and backfill_until
  sess,      \* SessionManager
  pos,       \* PositionTracker: the believed position
  book,      \* trades_taken, is_halted and the duplicate window
  recon,     \* RiskManager.reconciliation_required
  bar,       \* what the current bar leaves for the rest of its iteration
  order,     \* the signal being routed, or None
  since,     \* bars since the last interval reconciliation
  starts, stops,  \* bounds: starts and teardowns so far
  history    \* bookkeeping for the properties only

world == <<wall, held, limbo>>
memory == <<cursor, last, win, sess, pos, book, recon, bar, order, since>>
bounds == <<starts, stops>>
vars == <<world, store, pc, memory, bounds, history>>

-----------------------------------------------------------------------------
(* What a process holds in memory before anything is restored into it.     *)
FreshWin == [resume |-> NoTime, backfill |-> NoTime]
FreshSess == [date |-> NoDate, flattened |-> NoDate, pending |-> FALSE, resumed |-> NoDate]
FreshBook == [trades |-> 0, halted |-> FALSE, recent |-> {}]
FreshBar == [breach |-> FALSE, seen |-> None]

Init ==
  /\ wall = 0
  /\ held = [a \in Accounts |-> None]
  /\ limbo = [a \in Accounts |-> 0]
  /\ store = [d \in Dates |-> None]
  /\ pc = "down"
  /\ cursor = 0 /\ last = NoTime /\ win = FreshWin /\ sess = FreshSess
  /\ pos = None /\ book = FreshBook /\ recon = FALSE
  /\ bar = FreshBar /\ order = None /\ since = 0
  /\ starts = 0 /\ stops = 0
  /\ history = [applied |-> NoTime, saved |-> [d \in Dates |-> NoTime],
                sent |-> [d \in Dates |-> 0], uncounted |-> 0, unsaved |-> FALSE,
                known |-> "nothing", doubt |-> FALSE]

-----------------------------------------------------------------------------
(* Engine._persist: one row per session date, overwritten.                 *)
Snapshot == [trades |-> book.trades, halted |-> book.halted, recent |-> book.recent,
             last |-> last, pos |-> pos]

(* StateStore.load and load_latest: a live process resumes the session     *)
(* running now, a replay the latest one saved, if there is a row.          *)
Resumed(d) ==
  \/ /\ d \in Dates /\ store[d] # None
     /\ IF Live THEN d = Day(wall) ELSE \A e \in Dates : e > d => store[e] = None
  \/ /\ d = NoDate
     /\ IF Live THEN store[Day(wall)] = None ELSE \A e \in Dates : store[e] = None

(* run_from_config and RiskManager.restore: what a saved session puts back *)
(* into the counters.  Mutants: the count or the window starts afresh.     *)
RestoredUncounted(prior) == [trades |-> 0, halted |-> prior.halted, recent |-> prior.recent]
RestoredBlind(prior) == [trades |-> prior.trades, halted |-> prior.halted, recent |-> {}]

Restored(prior) == [trades |-> prior.trades, halted |-> prior.halted, recent |-> prior.recent]

(* run_from_config, Engine.__init__ and run() up to the first bar.  A live *)
(* feed is asked for everything after resume_from, or for the present when *)
(* there is none; a replay always starts from the top.                     *)
Start(date) ==
  /\ pc = "down" /\ starts < MaxStarts
  /\ Resumed(date)
  /\ LET prior == store[date]
     IN  IF date = NoDate
         THEN /\ win' = [resume |-> NoTime, backfill |-> IF Live THEN wall ELSE NoTime]
              /\ cursor' = IF Live THEN wall ELSE 0
              /\ sess' = FreshSess /\ pos' = None /\ book' = FreshBook
              /\ pc' = "bar"
              /\ history' = [history EXCEPT !.applied = NoTime, !.known = "nothing"]
         ELSE /\ win' = [resume |-> prior.last, backfill |-> IF Live THEN wall ELSE NoTime]
              /\ cursor' = IF Live THEN prior.last ELSE 0
              /\ sess' = [FreshSess EXCEPT !.pending = TRUE, !.resumed = date]
              /\ pos' = prior.pos
              /\ book' = Restored(prior)
              /\ pc' = IF HasSource THEN "startup" ELSE "bar"
              /\ history' = [history EXCEPT !.applied = history.saved[date],
                                            !.known = "nothing"]
  /\ last' = NoTime /\ recon' = FALSE /\ bar' = FreshBar /\ order' = None /\ since' = 0
  /\ starts' = starts + 1
  /\ UNCHANGED <<world, store, stops>>

-----------------------------------------------------------------------------
(* Engine.reconcile against what the broker holds now.  Without a source   *)
(* it reports agreement and changes nothing; a failed query blocks.        *)
Agrees(p) == \A a \in Accounts : Qty(held[a]) = Qty(p)

ReconcileAnswers ==
  IF ~HasSource THEN {[pos |-> pos, block |-> recon, known |-> history.known]}
  ELSE { [pos |-> pos, block |-> TRUE, known |-> "failed"],
         [pos |-> Reconciled(pos, held).pos, block |-> Reconciled(pos, held).block,
          known |-> IF Agrees(pos) THEN "agreed" ELSE "differs"] }

Reconcile(answer) ==
  /\ pos' = answer.pos /\ recon' = answer.block
  /\ history' = [history EXCEPT !.known = answer.known,
                                !.doubt = @ /\ answer.known # "agreed"]

StartupReconcile ==
  /\ pc = "startup"
  /\ \E answer \in ReconcileAnswers : Reconcile(answer)
  /\ pc' = "bar"
  /\ UNCHANGED <<world, store, cursor, last, win, sess, book, bar, order, since, bounds>>

-----------------------------------------------------------------------------
(* SessionManager.on_bar: adopt or roll the session, then decide the       *)
(* cutoff flatten, once per session date.                                  *)
(* Mutants: the cutoff bar itself is let by; one flatten per process.      *)
SessionOnBarLate(t, p) ==
  LET date == Day(t)
      cut == p # None /\ sess.flattened # date /\ Slot(t) > Cutoff
  IN  [sess |-> [sess EXCEPT !.date = date,
                             !.pending = @ /\ sess.date = date,
                             !.flattened = IF cut THEN date ELSE @],
       flatten |-> cut]

SessionOnBarOnce(t, p) ==
  LET date == Day(t)
      cut == p # None /\ sess.flattened = NoDate /\ Slot(t) >= Cutoff
  IN  [sess |-> [sess EXCEPT !.date = date,
                             !.pending = @ /\ sess.date = date,
                             !.flattened = IF cut THEN date ELSE @],
       flatten |-> cut]

SessionOnBar(t, p) ==
  LET date == Day(t)
      cut == p # None /\ sess.flattened # date /\ Slot(t) >= Cutoff
  IN  [sess |-> [sess EXCEPT !.date = date,
                             !.pending = @ /\ sess.date = date,
                             !.flattened = IF cut THEN date ELSE @],
       flatten |-> cut]

(* Engine._reset_after_rollover.                                           *)
(* Mutant: any first bar counts as a rollover.                             *)
RolledAtFirst(date) == date # sess.date

Rolled(date) ==
  IF sess.date # NoDate THEN date # sess.date
  ELSE sess.resumed # NoDate /\ date # sess.resumed

AfterRollover(date) ==
  IF Rolled(date) THEN [book EXCEPT !.trades = 0, !.halted = FALSE] ELSE book

(* build_protective_flatten closes what is believed; a strategy closes its *)
(* own unit of quantity in the direction its context shows.                *)
Flatten(qty, by) == [intent |-> "FLATTEN", qty |-> qty, price |-> None, by |-> by,
                     unknown |-> FALSE]
Entry(qty, price) == [intent |-> "ENTRY", qty |-> qty, price |-> price, by |-> "strategy",
                      unknown |-> FALSE]
Sign(q) == IF q > 0 THEN 1 ELSE -1

(* The resume window of stream(): reflected in the restored state already. *)
(* Mutant: the last saved bar is not.                                      *)
SkipsBefore(t) == t < win.resume

Skips(t) == t <= win.resume

Warmup == last <= win.backfill

(* A bar the feed can deliver next; bar closes without trades are absent.  *)
Deliverable(t) == t > cursor /\ t <= cursor + MaxGap

Deliver(t) ==
  /\ pc = "bar" /\ Deliverable(t)
  /\ cursor' = t /\ last' = t
  /\ wall' = IF Live /\ t > wall THEN t ELSE wall

(* _bar_loop, window 1: the restored state already reflects the bar.  The  *)
(* session manager still sees it, from the resumed session on.             *)
SkipBar(t) ==
  /\ Deliver(t) /\ Skips(t)
  /\ IF sess.resumed = NoDate \/ Day(t) >= sess.resumed
     THEN sess' = SessionOnBar(t, pos).sess /\ book' = AfterRollover(Day(t))
     ELSE UNCHANGED <<sess, book>>
  /\ UNCHANGED <<held, limbo, store, pc, win, pos, recon, bar, order, since, bounds,
                 history>>

(* _bar_loop, windows 2 and 3, up to the strategy call: the tracker tests  *)
(* the bar against stop and target, the session rolls and decides the      *)
(* cutoff flatten, the context is set, and a breached limit asks for a     *)
(* flatten unless the belief is in doubt.  In warmup nothing is routed.    *)
(* An entry order carries the same stop and target to the broker, whose    *)
(* bracket a "mirrors" broker fires on the bar on which the tracker closes.*)
ProcessBar(t) ==
  /\ Deliver(t) /\ ~Skips(t)
  /\ \E exit \in BOOLEAN, breach \in BOOLEAN :
       /\ exit => pos # None /\ pos.managed
       /\ breach => Limits
       /\ LET p == IF exit THEN None ELSE pos
              session == SessionOnBar(t, p)
              warm == t <= win.backfill
              risk == ~session.flatten /\ ~warm /\ p # None /\ breach /\ ~recon
          IN  /\ pos' = p
              /\ sess' = session.sess
              /\ book' = [AfterRollover(Day(t)) EXCEPT !.halted = @ \/ risk]
              /\ bar' = [breach |-> breach, seen |-> p]
              /\ IF ~warm /\ (session.flatten \/ risk)
                 THEN order' = Flatten(p.qty, "engine") /\ pc' = "dispatch"
                 ELSE order' = None /\ pc' = "strategy"
       /\ held' = IF exit /\ Broker = "mirrors" THEN [a \in Accounts |-> None] ELSE held
  /\ history' = [history EXCEPT !.applied = t]
  /\ UNCHANGED <<limbo, store, win, recon, since, bounds>>

-----------------------------------------------------------------------------
(* RiskManager.check, for the part of it that is not the halt file or the  *)
(* account list: those are read from disk and may veto any entry.          *)
WithinWindow(recent) == { r \in recent : r.at > last - Window }

Duplicate(sig, recent) == \E r \in WithinWindow(recent) : r.long = (sig.qty > 0)

(* Mutants: without the trade count, without the reconciliation block.     *)
ApprovedUncounted(sig) ==
  \/ sig.intent = "FLATTEN"
  \/ /\ ~recon
     /\ Slot(last) >= Open /\ Slot(last) < Cutoff
     /\ ~bar.breach
     /\ ~Duplicate(sig, book.recent)

ApprovedUnblocked(sig) ==
  \/ sig.intent = "FLATTEN"
  \/ /\ Slot(last) >= Open /\ Slot(last) < Cutoff
     /\ ~bar.breach
     /\ book.trades < MaxTrades
     /\ ~Duplicate(sig, book.recent)

Approved(sig) ==
  \/ sig.intent = "FLATTEN"
  \/ /\ ~recon
     /\ Slot(last) >= Open /\ Slot(last) < Cutoff
     /\ ~bar.breach
     /\ book.trades < MaxTrades
     /\ ~Duplicate(sig, book.recent)

AfterStrategy == IF Warmup THEN "bar" ELSE "persist"

(* The strategy is not called (halted), returns nothing, or its signal is  *)
(* suppressed in warmup or vetoed.                                         *)
StrategyQuiet ==
  /\ pc = "strategy" /\ pc' = AfterStrategy
  /\ UNCHANGED <<world, store, memory, bounds, history>>

(* _run_strategy: a raise halts the session and nothing else.              *)
StrategyRaises ==
  /\ pc = "strategy" /\ ~book.halted
  /\ book' = [book EXCEPT !.halted = TRUE]
  /\ pc' = AfterStrategy
  /\ UNCHANGED <<world, store, cursor, last, win, sess, pos, recon, bar, order, since,
                 bounds, history>>

(* Strategies enter only from a context that shows no position and exit    *)
(* only what it shows (orb and always do not look: see Strategies).        *)
StrategySignals(sig) ==
  /\ pc = "strategy" /\ ~Warmup /\ ~book.halted
  /\ Approved(sig)
  /\ order' = sig /\ pc' = "dispatch"
  /\ UNCHANGED <<world, store, cursor, last, win, sess, pos, book, recon, bar, since,
                 bounds, history>>

Signals ==
  IF bar.seen = None
  THEN {Entry(q, p) : q \in {1, -1}, p \in Prices}
  ELSE IF Exits THEN {Flatten(Sign(bar.seen.qty), "strategy")} ELSE {}

(* RiskManager.record_accepted: only an ENTRY enters the window.           *)
Accepted ==
  IF order.intent = "ENTRY"
  THEN WithinWindow(book.recent \cup {[at |-> last, long |-> order.qty > 0]})
  ELSE book.recent

-----------------------------------------------------------------------------
(* Router.dispatch: the accounts enabled at this moment each get the order *)
(* and answer.  An UNKNOWN order was filled, was not, or is still on its   *)
(* way (bound: one per account).                                           *)
Fill(h, delta, price) ==
  LET q == Qty(h) + delta
  IN  IF q = 0 THEN None ELSE [qty |-> q, price |-> price]

Answers ==
  { r \in [outcome : Outcomes, effect : {"filled", "none", "later"}] :
      /\ r.outcome = "FILLED" => r.effect = "filled"
      /\ r.outcome = "REJECTED" => r.effect = "none" }

(* Mutant: a FLATTEN sent with the position's own side.                    *)
DeltaSameSide(sig) == sig.qty

Delta(sig) == IF sig.intent = "ENTRY" THEN sig.qty ELSE - sig.qty

NeedsReconciliation(answer, sentTo) == \E a \in sentTo : answer[a].outcome = "UNKNOWN"

Dispatch ==
  /\ pc = "dispatch"
  /\ \E off \in SUBSET Switchable, answer \in [Accounts -> Answers], price \in Prices :
       /\ \A a \in Accounts : answer[a].effect = "later" => limbo[a] = 0
       /\ held' = [a \in Accounts |->
                     IF a \notin off /\ answer[a].effect = "filled"
                     THEN Fill(held[a], Delta(order), price) ELSE held[a]]
       /\ limbo' = [a \in Accounts |->
                     IF a \notin off /\ answer[a].effect = "later"
                     THEN Delta(order) ELSE limbo[a]]
       /\ order' = [order EXCEPT !.unknown = NeedsReconciliation(answer, Accounts \ off)]
       /\ history' = [history EXCEPT
            !.doubt = @ \/ \E a \in Accounts \ off : answer[a].outcome = "UNKNOWN",
            !.sent[sess.date] = IF order.intent = "ENTRY" THEN @ + 1 ELSE @,
            !.unsaved = @ \/ order.intent = "ENTRY"]
  /\ pc' = "settle"
  /\ UNCHANGED <<wall, store, cursor, last, win, sess, pos, book, recon, bar, since, bounds>>

(* _handle_signal once the fan-out has answered: the duplicate window, a   *)
(* reconciliation when a leg is UNKNOWN, and only then the tracker.        *)
Settle ==
  /\ pc = "settle"
  /\ \E answer \in IF order.unknown THEN ReconcileAnswers
                   ELSE {[pos |-> pos, block |-> recon, known |-> history.known]} :
       LET opens == order.intent = "ENTRY" /\ answer.pos = None
       IN  /\ recon' = (answer.block \/ (order.unknown /\ ~HasSource))
           /\ pos' = IF order.intent = "FLATTEN" THEN None
                     ELSE IF opens
                          THEN [qty |-> order.qty, price |-> order.price, managed |-> TRUE]
                          ELSE answer.pos
           /\ book' = [book EXCEPT !.recent = Accepted,
                                   !.trades = IF opens THEN @ + 1 ELSE @]
           /\ history' = [history EXCEPT
                !.known = answer.known,
                !.doubt = @ /\ ~(order.unknown /\ answer.known = "agreed"),
                !.uncounted = IF order.intent = "ENTRY" /\ ~opens THEN @ + 1 ELSE @,
                !.unsaved = @ /\ ~(order.intent = "ENTRY" /\ ~opens)]
  /\ order' = None
  /\ pc' = IF order.by = "engine" THEN "strategy" ELSE "persist"
  /\ UNCHANGED <<world, store, cursor, last, win, sess, bar, since, bounds>>

-----------------------------------------------------------------------------
(* The end of a live bar: save, then reconcile every Interval bars.        *)
Saved ==
  /\ store' = [store EXCEPT ![sess.date] = Snapshot]
  /\ history' = [history EXCEPT !.saved[sess.date] = history.applied, !.unsaved = FALSE]

Persist ==
  /\ pc = "persist"
  /\ Saved
  /\ IF Interval # 0 /\ since + 1 >= Interval
     THEN since' = 0 /\ pc' = "interval"
     ELSE since' = (IF Interval = 0 THEN 0 ELSE since + 1) /\ pc' = "bar"
  /\ UNCHANGED <<world, cursor, last, win, sess, pos, book, recon, bar, order, bounds>>

IntervalReconcile ==
  /\ pc = "interval"
  /\ \E answer \in ReconcileAnswers : Reconcile(answer)
  /\ pc' = "bar"
  /\ UNCHANGED <<world, store, cursor, last, win, sess, book, bar, order, since, bounds>>

-----------------------------------------------------------------------------
(* The process goes away: memory is lost.                                  *)
Forget ==
  /\ pc' = "down"
  /\ cursor' = 0 /\ last' = NoTime /\ win' = FreshWin /\ sess' = FreshSess
  /\ pos' = None /\ book' = FreshBook /\ recon' = FALSE
  /\ bar' = FreshBar /\ order' = None /\ since' = 0

(* Killed between any two steps: nothing runs, nothing is saved.           *)
Crash ==
  /\ pc # "down"
  /\ Forget
  /\ history' = [history EXCEPT !.unsaved = FALSE,
                                !.uncounted = IF history.unsaved THEN @ + 1 ELSE @]
  /\ UNCHANGED <<world, store, bounds>>

(* The stream ends, or anything in the loop raises: run() tears down, and  *)
(* _end_session_and_persist saves the session it was in.  The save may     *)
(* fail; teardown swallows it.                                             *)
Stop ==
  /\ pc \notin {"down", "startup"} /\ stops < MaxStops
  /\ Forget /\ stops' = stops + 1
  /\ \/ /\ sess.date # NoDate
        /\ store' = [store EXCEPT ![sess.date] = Snapshot]
        /\ history' = [history EXCEPT
             !.saved[sess.date] = history.applied, !.unsaved = FALSE,
             !.uncounted = IF history.unsaved /\ pc = "settle" THEN @ + 1 ELSE @]
     \/ /\ history' = [history EXCEPT !.unsaved = FALSE,
                                      !.uncounted = IF history.unsaved THEN @ + 1 ELSE @]
        /\ UNCHANGED store
  /\ UNCHANGED <<world, starts>>

-----------------------------------------------------------------------------
(* The world: time passes while a live process is down; an order in limbo  *)
(* fills or dies; the broker's own stop, target or margin close fires.     *)
Tick ==
  /\ Live /\ pc = "down" /\ wall < MaxTime
  /\ wall' = wall + 1
  /\ UNCHANGED <<held, limbo, store, pc, memory, bounds, history>>

LateAnswer(a) ==
  /\ limbo[a] # 0
  /\ \/ \E price \in Prices : held' = [held EXCEPT ![a] = Fill(@, limbo[a], price)]
     \/ UNCHANGED held
  /\ limbo' = [limbo EXCEPT ![a] = 0]
  /\ UNCHANGED <<wall, store, pc, memory, bounds, history>>

BrokerCloses(a) ==
  /\ Broker = "free" /\ held[a] # None
  /\ held' = [held EXCEPT ![a] = None]
  /\ UNCHANGED <<wall, limbo, store, pc, memory, bounds, history>>

-----------------------------------------------------------------------------
BarStep == \E t \in Times : SkipBar(t) \/ ProcessBar(t)

Next ==
  \/ \E date \in Dates \cup {NoDate} : Start(date)
  \/ StartupReconcile
  \/ BarStep
  \/ StrategyQuiet \/ StrategyRaises
  \/ \E sig \in Signals : StrategySignals(sig)
  \/ Dispatch \/ Settle \/ Persist \/ IntervalReconcile
  \/ Crash \/ Stop
  \/ Tick
  \/ \E a \in Accounts : LateAnswer(a) \/ BrokerCloses(a)

Spec == Init /\ [][Next]_vars

(* The engine's own next step is taken: each await it makes is bounded by  *)
(* a timeout, and a feed that keeps running delivers its next bar.         *)
EngineStep ==
  \/ StartupReconcile \/ BarStep
  \/ StrategyQuiet \/ StrategyRaises \/ \E sig \in Signals : StrategySignals(sig)
  \/ Dispatch \/ Settle \/ Persist \/ IntervalReconcile

FairSpec == Spec /\ WF_vars(EngineStep)

-----------------------------------------------------------------------------
Windows == SUBSET [at : Times, long : BOOLEAN]
SessionState == [trades : 0 .. MaxTrades, halted : BOOLEAN, recent : Windows,
                 last : Times, pos : Position \cup {None}]
Signal == [intent : {"ENTRY", "FLATTEN"}, qty : Quantities, price : Prices \cup {None},
           by : {"engine", "strategy"}, unknown : BOOLEAN]

ASSUME SignalAssumption == None \notin Signal
ASSUME RowAssumption == None \notin SessionState

(* Every variable holds a value the program could hold; the trade count    *)
(* never passes the limit it is checked against, in memory or on disk.     *)
TypeOK ==
  /\ wall \in Times
  /\ held \in [Accounts -> BrokerPosition \cup {None}]
  /\ limbo \in [Accounts -> Int]
  /\ store \in [Dates -> SessionState \cup {None}]
  /\ pc \in {"down", "startup", "bar", "strategy", "dispatch", "settle", "persist", "interval"}
  /\ cursor \in Times /\ last \in Times \cup {NoTime}
  /\ win \in [resume : Times \cup {NoTime}, backfill : Times \cup {NoTime}]
  /\ sess \in [date : Dates \cup {NoDate}, flattened : Dates \cup {NoDate},
               pending : BOOLEAN, resumed : Dates \cup {NoDate}]
  /\ pos \in Position \cup {None}
  /\ book \in [trades : 0 .. MaxTrades, halted : BOOLEAN, recent : Windows]
  /\ recon \in BOOLEAN
  /\ bar \in [breach : BOOLEAN, seen : Position \cup {None}]
  /\ order \in Signal \cup {None}
  /\ since \in Nat /\ starts \in Nat /\ stops \in Nat

Routes(intent) == order = None /\ order' # None /\ order'.intent = intent

(* A bar is applied at most once to the state a process works on, however  *)
(* that state came back from disk ("replaying them would double-count      *)
(* state that is already there", feed/base.py).                            *)
AppliedOnce == [][\A t \in Times : ProcessBar(t) => t > history.applied]_vars

(* Entries sent in a session stay within risk.max_trades_per_day, but for  *)
(* those whose count was lost: the process died before the save, or the    *)
(* tracker refused the position.                                           *)
EntriesBounded == \A d \in Dates : history.sent[d] <= MaxTrades + history.uncounted

(* A session saved as halted routes no strategy order again, in whatever   *)
(* process (the RUNBOOK's "a restart does not silently un-halt it").       *)
HaltSurvives ==
  [][pc = "strategy" /\ pc' = "dispatch"
       => store[sess.date] = None \/ ~store[sess.date].halted]_vars

(* An entry that was saved is not repeated within the duplicate window,    *)
(* by the process that sent it or by one restarted after it.               *)
SavedEntryNotRepeated ==
  [][Routes("ENTRY") => \/ store[sess.date] = None
                        \/ ~Duplicate(order', store[sess.date].recent)]_vars

(* With a position source, the last answer before an entry, if there was   *)
(* one, found agent and broker holding the same.                           *)
EntryFromAgreement ==
  [][Routes("ENTRY") => history.known \in {"nothing", "agreed"}]_vars

(* No entry leaves while an UNKNOWN order has not been followed by an      *)
(* answer that agrees (RiskManager.clear_reconciliation).                  *)
NoEntryInDoubt == [][Routes("ENTRY") => ~history.doubt]_vars

(* Startup and interval reconciliation change what is believed only to     *)
(* what every account reports.                                             *)
BeliefFromBroker ==
  [][(pc \in {"startup", "interval"} /\ pc' = "bar" /\ Qty(pos') # Qty(pos))
       => Agrees(pos')]_vars

(* Once an UNKNOWN order has been handled and entries are open again, the  *)
(* agent and the broker agree (RiskManager.require_reconciliation).        *)
UnblockedMeansAgreed ==
  [][pc = "settle" /\ pc' # "down" /\ order.unknown /\ ~recon'
       => Agrees(pos')]_vars

(* After a live bar at or past the cutoff nothing is believed open.        *)
FlatAfterCutoff ==
  pc = "bar" /\ ~Skips(last) /\ ~Warmup /\ Slot(last) >= Cutoff => pos = None

(* Between the bars of a first process every account holds what the agent  *)
(* believes, as long as orders fill and the broker's bracket fires with    *)
(* the tracker's (a kill may lose an entry that was not saved yet).        *)
BrokerHoldsBelief == pc = "bar" /\ starts = 1 => Agrees(pos)

(* A position does not stay on: it is closed by the bar that reaches its   *)
(* stop or target, by a limit, or by the next cutoff (bound: positions of  *)
(* the last bar of the horizon are left out, no cutoff follows them).      *)
EventuallyFlat == pos # None /\ last < MaxTime ~> pos = None
=============================================================================
