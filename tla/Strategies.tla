----------------------------- MODULE Strategies -----------------------------
(***************************************************************************)
(* A strategy inside the engine (main.py): one of the strategies of        *)
(* strategy/, chosen with its options for the whole run, is called once    *)
(* per bar with the position and the trade count of that bar; its signal   *)
(* is suppressed in warmup, vetoed, or moves the position; its memory is   *)
(* saved with the position after every live bar, and restored into a new   *)
(* process.  The session callbacks are those of session.py.                *)
(***************************************************************************)
EXTENDS Naim, Sme, Tfr, Afr, Orb

CONSTANTS
  Slots,        \* bar closes in a session
  Cutoff,       \* the slot of the session cutoff
  MaxTime,      \* bound: the last bar close
  MaxGap,       \* bound: how many closes may go by without a bar
  Setups,       \* the strategies and options explored
  MaxStarts, MaxStops, MaxRepairs  \* bounds: starts, teardowns, reconciliations

NoTime == -1
NoDate == -1
Times == 0 .. MaxTime
Day(t) == t \div Slots
Slot(t) == t % Slots
Dates == {Day(t) : t \in Times}

ASSUME HostAssumption ==
  /\ Slots \in Nat \ {0} /\ {Cutoff, MaxTime} \subseteq Nat /\ MaxGap \in Nat \ {0}
  /\ {MaxStarts, MaxStops, MaxRepairs} \subseteq Nat

VARIABLES
  setup,     \* the strategy, its options and the binding, fixed for the run
  wall,      \* the wall clock, in bar closes
  store,     \* the session saved last, or None
  pc,        \* "down", "bar" (waiting for one) or "save"
  clock,     \* close of the last bar
  five,      \* whether the 5m bar of this close is still to come
  backfill,  \* backfill_until
  sess,      \* SessionManager: its date, the date it may adopt, the one flattened
  mem,       \* the strategy
  pos,       \* the believed position
  trades,    \* Engine.trades_taken
  starts, stops, repairs,  \* bounds
  history,   \* for the properties: what the process, and the row, know of the session
  wire,      \* for the properties: what left in each session, whoever remembers it
  due        \* for the properties: what left on the bar that is not saved yet

process == <<pc, clock, five, backfill, sess, mem, pos, trades>>
bounds == <<starts, stops, repairs>>
bookkeeping == <<history, wire, due>>
vars == <<setup, wall, store, process, bounds, bookkeeping>>

kind == setup.strategy
FreshSess == [date |-> NoDate, resumed |-> NoDate, flattened |-> NoDate]
FreshNotes == [orphan |-> "no", refused |-> FALSE, sent |-> 0]
Quiet == [sent |-> 0, refused |-> 0, lost |-> 0, forgotten |-> 0]

(* STRATEGIES of main.py, but for the stub, which never signals.           *)
ASSUME SetupAssumption ==
  \A s \in Setups : s.strategy \in {"tfr", "afr", "naim", "sme", "orb", "always"}

-----------------------------------------------------------------------------
(* The strategy the run was set up with.                                   *)
Fresh ==
  CASE kind = "tfr" -> TfrFresh [] kind = "afr" -> AfrFresh [] kind = "naim" -> NaimFresh
    [] kind = "sme" -> SmeFresh [] kind \in {"orb", "always"} -> OrbFresh

SessionStart(m) ==
  CASE kind = "naim" -> NaimReset(m) [] kind = "sme" -> SmeReset(m)
    [] kind \in {"tfr", "afr", "orb", "always"} -> Fresh

SessionEnd(m, date) ==
  CASE kind = "naim" -> NaimEnded(m, date) [] kind = "sme" -> SmeEnded(m, date)
    [] kind \in {"tfr", "afr", "orb", "always"} -> m

(* Mutant: a restart forgets that the opening range was evaluated.         *)
RestoreStateUndecided(saved) ==
  IF kind = "sme" THEN [saved EXCEPT !.decided = FALSE] ELSE saved

RestoreState(saved) ==
  CASE kind = "tfr" -> TfrRestored(saved) [] kind = "afr" -> AfrRestored(saved)
    [] kind \in {"naim", "sme", "orb", "always"} -> saved

Inputs ==
  CASE kind = "tfr" -> TfrInputs [] kind = "afr" -> AfrInputs [] kind = "naim" -> NaimInputs
    [] kind = "sme" -> SmeInputs [] kind \in {"orb", "always"} -> OrbInputs

OnBar(m, in, ctx, t) ==
  CASE kind = "tfr" -> TfrOnBar(m, in, ctx, Slot(t), setup)
    [] kind = "afr" -> AfrOnBar(m, in, ctx, Slot(t), setup)
    [] kind = "naim" -> NaimOnBar(m, in, ctx, Slot(t), setup)
    [] kind = "sme" -> SmeOnBar(m, in, ctx, Slot(t), Day(t), setup)
    [] kind = "orb" -> OrbOnBar(m, in, Slot(t))
    [] kind = "always" -> AlwaysOnBar(m)

(* The stop the strategy sends with an entry; only sme's is looked at.     *)
StopOf(dir) == IF kind = "sme" THEN - Risk * dir ELSE 0

(* PositionTracker.on_bar: the bracket of a managed position is reached.   *)
Hit(in) ==
  /\ pos # None /\ pos.stop # None
  /\ IF kind = "sme" THEN Reaches(pos.dir, in.bar, pos.stop) ELSE in.hit

-----------------------------------------------------------------------------
Init ==
  /\ setup \in Setups
  /\ wall = NoTime /\ store = None
  /\ pc = "down" /\ clock = NoTime /\ five = FALSE /\ backfill = NoTime
  /\ sess = FreshSess /\ mem = None /\ pos = None /\ trades = 0
  /\ starts = 0 /\ stops = 0 /\ repairs = 0
  /\ history = FreshNotes /\ wire = [d \in Dates |-> Quiet] /\ due = "nothing"

(* run_from_config.  A live process resumes the session of today, if there *)
(* is one, and catches up to now; a replay resumes the session saved last, *)
(* whose skipped bars adopt it.                                            *)
Resumes == store # None /\ (setup.live => store.date = Day(wall))

Start ==
  /\ pc = "down" /\ starts < MaxStarts
  /\ pc' = "bar" /\ starts' = starts + 1 /\ five' = FALSE
  /\ backfill' = IF setup.live THEN wall ELSE NoTime
  /\ IF Resumes
     THEN /\ clock' = store.last
          /\ sess' = [FreshSess EXCEPT !.date = IF setup.live THEN NoDate ELSE store.date,
                                       !.resumed = store.date]
          /\ mem' = RestoreState(store.mem)
          /\ pos' = store.pos /\ trades' = store.trades
          /\ history' = store.history
     ELSE /\ clock' = IF setup.live THEN wall ELSE NoTime
          /\ sess' = FreshSess /\ mem' = Fresh /\ pos' = None /\ trades' = 0
          /\ history' = FreshNotes
  /\ UNCHANGED <<setup, wall, store, stops, repairs, wire, due>>

-----------------------------------------------------------------------------
(* SessionManager.on_bar: at a new date the session is adopted once, or    *)
(* the old one is ended and the new one started.                           *)
Changed(t) == sess.date # Day(t)
Adopts(t) == sess.date = NoDate /\ sess.resumed = Day(t)

Called(t) ==
  IF ~Changed(t) \/ Adopts(t) THEN mem
  ELSE SessionStart(IF sess.date = NoDate THEN mem ELSE SessionEnd(mem, sess.date))

(* Engine._reset_after_rollover.                                           *)
Rolled(t) == Changed(t) /\ ~Adopts(t) /\ (sess.date # NoDate \/ sess.resumed # NoDate)

Opened(dir, own) == [dir |-> dir, own |-> own, stop |-> IF own THEN StopOf(dir) ELSE None]

(* What the engine makes of the signal: nothing in warmup; a FLATTEN       *)
(* always goes out; an ENTRY is vetoed, opens the position, or comes back  *)
(* UNKNOWN and is adopted before the tracker sees it.                      *)
Outcomes(signal, warm) ==
  IF signal = None \/ warm THEN {"nothing"}
  ELSE IF signal.intent = "FLATTEN" THEN {"closed"}
  ELSE {"vetoed", "opened"} \cup (IF setup.source THEN {"adopted"} ELSE {})

Settled(p, signal, outcome) ==
  CASE outcome \in {"nothing", "vetoed"} -> p
    [] outcome = "closed" -> None
    [] outcome \in {"opened", "adopted"} ->
         IF p = None THEN Opened(signal.dir, outcome = "opened") ELSE p

(* How a strategy that holds a position can stop managing it on this bar.  *)
Orphans(m, t, out, p, warm) ==
  IF p # None /\ Changed(t) /\ ~Adopts(t) THEN "carried"
  ELSE IF p = None \/ m.phase \notin {"pending", "in_trade"} THEN "no"
  ELSE IF warm /\ out.signal # None
       THEN IF kind = "tfr" /\ m.stale >= 2 THEN "blind" ELSE "suppressed"
  ELSE IF out.mem.phase = "done" /\ out.signal = None
       THEN IF kind \in {"tfr", "afr"} /\ ~m.day THEN "nobook" ELSE "offmap"
  ELSE "no"

(* An entry leaves when it is dispatched, and no kill takes it back; the   *)
(* one that is killed before the bar's save leaves no trace in the row.    *)
Bit(b) == IF b THEN 1 ELSE 0

Leaving(outcome) ==
  CASE outcome \in {"vetoed", "adopted"} -> "refusal" [] outcome = "opened" -> "entry"
    [] OTHER -> "nothing"

Told(of, what) ==
  [sent |-> of.sent + Bit(what # "nothing"), refused |-> of.refused + Bit(what = "refusal"),
   lost |-> of.lost, forgotten |-> of.forgotten]

Untold(of, what) ==
  [sent |-> of.sent, refused |-> of.refused,
   lost |-> of.lost + Bit(what # "nothing"), forgotten |-> of.forgotten + Bit(what = "refusal")]

(* The body of Engine._bar_loop for one bar: the bracket, the session and  *)
(* its cutoff flatten, the counters, the strategy and its signal.  The     *)
(* strategy sees the position as it was before the cutoff flatten.         *)
Process(t, in) ==
  LET warm == t <= backfill
      seen == IF Hit(in) THEN None ELSE pos
      called == Called(t)
      count == IF Rolled(t) THEN 0 ELSE trades
      cuts == seen # None /\ Slot(t) >= Cutoff /\ sess.flattened # Day(t)
      left == IF cuts /\ ~warm THEN None ELSE seen
      out == OnBar(called, in, [pos |-> seen, trades |-> count, warmup |-> warm], t)
  IN  \E outcome \in Outcomes(out.signal, warm) :
        /\ mem' = out.mem
        /\ pos' = Settled(left, out.signal, outcome)
        /\ trades' = IF outcome = "opened" /\ left = None THEN count + 1 ELSE count
        /\ sess' = [date |-> Day(t), resumed |-> NoDate,
                    flattened |-> IF cuts THEN Day(t) ELSE sess.flattened]
        /\ history' = [orphan |-> IF pos' = None \/ left = None THEN "no"
                                  ELSE IF history.orphan # "no" THEN history.orphan
                                  ELSE Orphans(called, t, out, left, warm),
                       refused |-> \/ history.refused /\ ~Rolled(t)
                                   \/ outcome \in {"vetoed", "adopted"},
                       sent |-> (IF Rolled(t) THEN 0 ELSE history.sent)
                                + (IF outcome \in {"vetoed", "opened", "adopted"}
                                   THEN 1 ELSE 0)]
        /\ wire' = [wire EXCEPT ![Day(t)] = Told(@, Leaving(outcome))]
        /\ due' = Leaving(outcome)

(* naim and sme take both timeframes: the 1m bar of a close, then its 5m   *)
(* bar, if it has one.  The others are shown the bars they decide on.      *)
Delivers(t, in) ==
  IF kind \in {"naim", "sme"} /\ in.tf = "5m" THEN five /\ t = clock
  ELSE ~five /\ t > clock /\ t <= clock + MaxGap /\ (pos = None /\ kind # "sme" => ~in.hit)

Bar(t) ==
  /\ pc = "bar"
  /\ \E in \in Inputs : Delivers(t, in) /\ Process(t, in)
  /\ five' \in IF kind \in {"naim", "sme"} /\ ~five THEN BOOLEAN ELSE {FALSE}
  /\ clock' = t /\ wall' = IF t > wall THEN t ELSE wall
  /\ pc' = IF t <= backfill THEN "bar" ELSE "save"
  /\ UNCHANGED <<setup, store, backfill, bounds>>

(* Engine._persist: strategy, position and counters in one row.            *)
Row(m) == [date |-> sess.date, last |-> clock, mem |-> m, pos |-> pos, trades |-> trades,
           history |-> history]

Save ==
  /\ pc = "save" /\ pc' = "bar"
  /\ store' = Row(mem) /\ due' = "nothing"
  /\ UNCHANGED <<setup, wall, clock, five, backfill, sess, mem, pos, trades, bounds, history, wire>>

(* A reconciliation drops a phantom, or adopts what every account holds.   *)
Repair ==
  /\ pc = "bar" /\ setup.source /\ sess.date # NoDate /\ clock > backfill
  /\ repairs < MaxRepairs /\ repairs' = repairs + 1
  /\ pos' \in IF pos = None THEN {Opened(dir, FALSE) : dir \in Directions} ELSE {None}
  /\ history' = [history EXCEPT !.orphan = "no"]
  /\ UNCHANGED <<setup, wall, store, pc, clock, five, backfill, sess, mem, trades, starts, stops,
                 wire, due>>

-----------------------------------------------------------------------------
Forget ==
  /\ pc' = "down" /\ clock' = NoTime /\ five' = FALSE /\ backfill' = NoTime
  /\ sess' = FreshSess /\ mem' = None /\ pos' = None /\ trades' = 0
  /\ history' = FreshNotes /\ due' = "nothing"

Crash ==
  /\ pc # "down" /\ starts < MaxStarts
  /\ Forget
  /\ wire' = [d \in Dates |-> IF d = sess.date THEN Untold(wire[d], due) ELSE wire[d]]
  /\ UNCHANGED <<setup, wall, store, bounds>>

(* _teardown: on_session_end, then a save of what ending it changed.       *)
Stop ==
  /\ pc # "down" /\ stops < MaxStops /\ stops' = stops + 1
  /\ store' = IF sess.date = NoDate THEN store ELSE Row(SessionEnd(mem, sess.date))
  /\ Forget
  /\ UNCHANGED <<setup, wall, starts, repairs, wire>>

(* Time goes by while a live process is down.                              *)
Tick ==
  /\ setup.live /\ pc = "down" /\ wall < MaxTime
  /\ wall' = wall + 1
  /\ UNCHANGED <<setup, store, process, bounds, bookkeeping>>

Next == Start \/ (\E t \in Times : Bar(t)) \/ Save \/ Repair \/ Crash \/ Stop \/ Tick

Spec == Init /\ [][Next]_vars

-----------------------------------------------------------------------------
Memory ==
  CASE kind = "tfr" -> TfrMemory [] kind = "afr" -> AfrMemory [] kind = "naim" -> NaimMemory
    [] kind = "sme" -> SmeMemory
    [] kind \in {"orb", "always"} -> [phase : Phases, range : BOOLEAN]

Position == [dir : Directions, own : BOOLEAN, stop : Int \cup {None}]
Notes == [orphan : {"no", "carried", "blind", "suppressed", "nobook", "offmap"}, refused : BOOLEAN,
          sent : Nat]
Counts == [sent : Nat, refused : Nat, lost : Nat, forgotten : Nat]

(* What a session can be saved with.                                       *)
Memories ==
  UNION {TfrMemory, AfrMemory, NaimMemory, SmeMemory, [phase : Phases, range : BOOLEAN]}

Rows == [date : Dates, last : Times, mem : Memories, pos : Position \cup {None}, trades : Nat,
         history : Notes]

ASSUME RowAssumption == None \notin Rows

(* Every variable holds a value the program could hold, in memory and in   *)
(* the saved row; no strategy counts more entries than it may take.        *)
TypeOK ==
  /\ setup \in Setups
  /\ {wall, clock, backfill} \subseteq Times \cup {NoTime}
  /\ pc \in {"down", "bar", "save"} /\ five \in BOOLEAN
  /\ sess \in [date : Dates \cup {NoDate}, resumed : Dates \cup {NoDate},
               flattened : Dates \cup {NoDate}]
  /\ mem = None \/ mem \in Memory
  /\ pos \in Position \cup {None}
  /\ trades \in Nat /\ {starts, stops, repairs} \subseteq Nat
  /\ history \in Notes
  /\ wire \in [Dates -> Counts] /\ due \in {"nothing", "entry", "refusal"}
  /\ store # None =>
       /\ store.date \in Dates /\ store.last \in Times /\ store.mem \in Memory
       /\ store.pos \in Position \cup {None} /\ store.trades \in Nat
       /\ store.history \in Notes

Managing == {"pending", "in_trade"}
Managed == kind \in {"tfr", "afr", "naim", "sme"}

(* The paths on which a strategy stops managing its own open position: a   *)
(* new session starts with it still open, a data-health halt or an exit in *)
(* warmup whose FLATTEN is suppressed, no decisions after a restart, an    *)
(* off-map bar right after an entry.                                       *)
KnownOrphans ==
  CASE kind = "tfr" -> {"carried", "blind", "nobook", "offmap"}
    [] kind = "afr" -> {"carried", "nobook"}
    [] kind \in {"naim", "sme"} -> {"carried", "suppressed"}
    [] kind \in {"orb", "always"} -> {}

(* A position a strategy entered stays managed, across crashes, catch-up   *)
(* and restarts, but for the paths above ("leaving the still-open position *)
(* unmanaged for the rest of the day", tfr.py).                            *)
OpenIsManaged ==
  (Managed /\ pos # None /\ pos.own /\ mem.phase \notin Managing)
    => history.orphan \in KnownOrphans

(* At most max_entries_per_day entries leave in a session, whatever was    *)
(* refused, stopped out, re-armed or restored in between, and one more for *)
(* each kill between the dispatch of an entry and the save of its bar: the *)
(* process that comes back does not know of it.                            *)
EntriesWithinCap ==
  Managed => \A d \in Dates : wire[d].sent <= MaxEntries + wire[d].lost

(* "the governor said no; do not argue": an entry leaves only when every   *)
(* refusal of the session so far, a veto or an entry that came back as an  *)
(* adopted position, was forgotten by a kill before the save of its bar.   *)
RefusedIsFinal ==
  [][\A d \in Dates :
       wire'[d].sent # wire[d].sent => wire[d].refused = wire[d].forgotten]_vars

(* What the strategies assert before they read it: the trade count of a    *)
(* pending entry, and sme's virtual stop, are there, after a restart too.  *)
AssertionsHold ==
  mem # None =>
    /\ Managed /\ mem.phase = "pending" => mem.tradesAtEntry # None
    /\ kind = "sme" /\ mem.phase \in Managing => mem.vstop # None

(* afr watches for continuation of the side it faded: the position it      *)
(* manages is against that side, after a restart too.                      *)
FadesTheAggressor ==
  (kind = "afr" /\ mem # None /\ mem.phase = "in_trade" /\ pos # None /\ pos.own)
    => mem.aggressor = - pos.dir

(* sme's virtual stop "tightens or holds, never loosens" within a trade.   *)
StopOnlyTightens ==
  [][(kind = "sme" /\ mem # None /\ mem' # None /\ pos # None /\ pos' = pos /\ pos.own
        /\ mem.phase = "in_trade" /\ mem'.phase = "in_trade")
       => ~Beyond(pos.dir, mem.vstop, mem'.vstop)]_vars

(* The long memory takes each session once, but for one more time per      *)
(* teardown inside it; the opening range's statistics exactly once.        *)
Count(series, d) == Cardinality({i \in DOMAIN series : series[i] = d})

BankedOnce ==
  (kind \in {"naim", "sme"} /\ mem # None) =>
    \A d \in Dates :
      /\ Count(mem.banked, d) <= 1 + stops
      /\ kind = "sme" => Count(mem.ranges, d) <= 1 + stops /\ Count(mem.rets, d) <= 1

(* A replay goes on from everything that was banked and saved, through     *)
(* rollovers and restarts; a live process only within one date.            *)
MemorySurvives ==
  (kind \in {"naim", "sme"} /\ mem # None /\ store # None
     /\ (setup.live => store.date = sess.date)) =>
    \A d \in Dates : Count(store.mem.banked, d) <= Count(mem.banked, d)

(* After a live bar between 15:55 and 16:00 a strategy that flattens there *)
(* holds no position of its own that it still manages.                     *)
FlatByClose ==
  (pc = "save" /\ Managed /\ setup.hours = "rth" /\ Slot(clock) >= FlatAt
     /\ Slot(clock) \in RegularSlots /\ pos # None /\ pos.own)
    => history.orphan # "no"

-----------------------------------------------------------------------------
(* What a strategy remembers is what happened: through stops, crashes and  *)
(* rollovers it restores what it asserts, what it banked, and that once.   *)
MemoryExact == TypeOK /\ AssertionsHold /\ BankedOnce /\ MemorySurvives

(* A position a strategy opened is managed to its end, on the side it      *)
(* was opened, and is out before the close.                                *)
PositionsManaged == OpenIsManaged /\ FadesTheAggressor /\ FlatByClose

(* Within a session no entry follows a refusal, within a trade no stop is  *)
(* loosened.                                                               *)
NeverTakenBack == RefusedIsFinal /\ StopOnlyTightens
=============================================================================
