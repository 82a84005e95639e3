---------------------------- MODULE EngineProofs ----------------------------
(***************************************************************************)
(* What holds of the bar loop for any calendar, any horizon, any number of *)
(* accounts, processes, crashes, kills, teardowns and restarts: what a     *)
(* reconciliation pass leaves behind, the types, when entries may leave,   *)
(* and what a restart keeps - bars applied once, a halt, the duplicate     *)
(* window, entries within the limit, positions closed at the cutoff, and   *)
(* accounts that hold what the agent believes.                             *)
(***************************************************************************)
EXTENDS Engine, TLAPS

-----------------------------------------------------------------------------
(* What a reconciliation pass leaves behind.                               *)

Reports == [Accounts -> BrokerPosition \cup {None}]

(* A reported position is not the absence of one, and has a size.          *)
LEMMA QtyFacts ==
  ASSUME NEW p \in Position \cup BrokerPosition \cup {None}
  PROVE  Qty(p) \in Int /\ (p # None <=> Qty(p) # 0)
BY NoneAssumption DEF Qty, Position, BrokerPosition, Quantities

(* An account that does not diverge in a blocking way holds the size the   *)
(* agent believes; a phantom is an account that is flat (_compare).        *)
LEMMA CompareFacts ==
  ASSUME NEW agent \in Position \cup {None}, NEW broker \in BrokerPosition \cup {None}
  PROVE  /\ Compare(agent, broker) \notin Blocking => Qty(broker) = Qty(agent)
         /\ Compare(agent, broker) = "AGENT_ONLY" => broker = None
<1>1. agent # None => agent.qty \in Int /\ agent.qty # 0
  BY DEF Position, Quantities
<1>2. broker # None => broker.qty \in Int /\ broker.qty # 0
  BY DEF BrokerPosition, Quantities
<1>3. CASE agent = None \/ broker = None
  BY <1>3 DEF Compare, Blocking, Qty
<1>4. CASE agent # None /\ broker # None
  BY <1>1, <1>2, <1>4 DEF Compare, Blocking, Qty
<1> QED BY <1>3, <1>4

(* The consensus is what every account reports (_consensus).               *)
LEMMA ConsensusFacts ==
  ASSUME NEW reported \in Reports
  PROVE  /\ Consensus(reported) \in BrokerPosition \cup {None}
         /\ Consensus(reported) # None =>
              \A a \in Accounts : reported[a] = Consensus(reported)
<1> DEFINE first == reported[CHOOSE a \in Accounts : TRUE]
<1>1. (CHOOSE a \in Accounts : TRUE) \in Accounts
  BY AccountsAssumption
<1>2. first \in BrokerPosition \cup {None}
  BY <1>1 DEF Reports
<1>3. Consensus(reported) = IF \A a \in Accounts : reported[a] = first THEN first ELSE None
  BY DEF Consensus
<1> HIDE DEF first
<1> QED BY <1>2, <1>3

(* Reconciliation leaves a position or none.                               *)
LEMMA ReconciledType ==
  ASSUME NEW agent \in Position \cup {None}, NEW reported \in Reports
  PROVE  /\ Reconciled(agent, reported).pos \in Position \cup {None}
         /\ Reconciled(agent, reported).block = IsBlocking(agent, reported)
<1> DEFINE consensus == Consensus(reported)
<1>1. consensus \in BrokerPosition \cup {None}
  BY ConsensusFacts
<1> HIDE DEF consensus
<1>2. consensus # None => Adopted(consensus) \in Position
  BY <1>1 DEF Adopted, Position, BrokerPosition
<1>3. agent # None /\ consensus # None =>
        [agent EXCEPT !.price = consensus.price] \in Position
  BY <1>1 DEF Position, BrokerPosition
<1>4. IsBlocking(agent, reported) \in BOOLEAN
  BY DEF IsBlocking
<1> QED BY <1>2, <1>3, <1>4 DEF Reconciled, consensus

(* A pass that does not block found every account holding the size the     *)
(* agent believes, and leaves that size alone (is_blocking).               *)
LEMMA UnblockedAgrees ==
  ASSUME NEW agent \in Position \cup {None}, NEW reported \in Reports,
         ~Reconciled(agent, reported).block
  PROVE  \A a \in Accounts : Qty(reported[a]) = Qty(agent)
<1>1. ~IsBlocking(agent, reported)
  BY ReconciledType
<1>2. ASSUME NEW a \in Accounts PROVE Qty(reported[a]) = Qty(agent)
  <2>1. reported[a] \in BrokerPosition \cup {None}
    BY DEF Reports
  <2>2. Compare(agent, reported[a]) \notin Blocking
    BY <1>1 DEF IsBlocking
  <2> QED BY <2>1, <2>2, CompareFacts
<1> QED BY <1>2

(* A pass that changes the believed size leaves one that every account     *)
(* reports: a position is adopted from all, or dropped because of all      *)
(* (adoptable_position, Engine.reconcile).                                 *)
LEMMA ChangeComesFromAll ==
  ASSUME NEW agent \in Position \cup {None}, NEW reported \in Reports,
         Qty(Reconciled(agent, reported).pos) # Qty(agent)
  PROVE  \A a \in Accounts : Qty(reported[a]) = Qty(Reconciled(agent, reported).pos)
<1> DEFINE consensus == Consensus(reported)
           phantom == \A a \in Accounts : Compare(agent, reported[a]) = "AGENT_ONLY"
           left == Reconciled(agent, reported).pos
<1>1. /\ consensus \in BrokerPosition \cup {None}
      /\ consensus # None => \A a \in Accounts : reported[a] = consensus
  BY ConsensusFacts
<1>2. left = IF IsBlocking(agent, reported)
             THEN IF agent = None /\ consensus # None THEN Adopted(consensus)
                  ELSE IF agent # None /\ phantom THEN None
                  ELSE agent
             ELSE IF agent # None /\ consensus # None
                  THEN [agent EXCEPT !.price = consensus.price]
                  ELSE agent
  BY DEF Reconciled
<1>3. phantom => \A a \in Accounts : reported[a] = None
  BY CompareFacts DEF Reports
<1> HIDE DEF consensus, phantom, left
<1>4. agent # None /\ consensus # None =>
        Qty([agent EXCEPT !.price = consensus.price]) = Qty(agent)
  <2> SUFFICES ASSUME agent # None, consensus # None
               PROVE  Qty([agent EXCEPT !.price = consensus.price]) = Qty(agent)
    OBVIOUS
  <2>1. [agent EXCEPT !.price = consensus.price] \in Position
        /\ [agent EXCEPT !.price = consensus.price].qty = agent.qty
    BY <1>1 DEF Position, BrokerPosition
  <2> QED BY <2>1, NoneAssumption DEF Qty
<1>5. consensus # None => Qty(Adopted(consensus)) = Qty(consensus)
  <2> SUFFICES ASSUME consensus # None
               PROVE  Qty(Adopted(consensus)) = Qty(consensus)
    OBVIOUS
  <2>1. Adopted(consensus) \in Position /\ Adopted(consensus).qty = consensus.qty
    BY <1>1 DEF Adopted, Position, BrokerPosition
  <2> QED BY <2>1, NoneAssumption DEF Qty
<1>6. CASE left = Adopted(consensus) /\ consensus # None
  BY <1>1, <1>5, <1>6 DEF left
<1>7. CASE left = None /\ phantom
  BY <1>3, <1>7 DEF left, Qty
<1> QED BY <1>2, <1>4, <1>6, <1>7 DEF left
-----------------------------------------------------------------------------
(* Types.                                                                  *)

Working == {"strategy", "dispatch", "settle", "persist", "interval"}

(* TypeOK is not inductive by itself: a save needs the session and the bar *)
(* it belongs to, and an accepted entry needs room under the trade limit   *)
(* until it is counted.                                                    *)
TypeInv ==
  /\ TypeOK
  /\ sess.date # NoDate => last \in Times
  /\ pc \in Working => sess.date \in Dates
  /\ pc \in {"dispatch", "settle"} =>
       /\ order \in Signal
       /\ order.intent = "ENTRY" => order.price \in Prices /\ book.trades < MaxTrades

Book == [trades : 0 .. MaxTrades, halted : BOOLEAN, recent : Windows]
Session == [date : Dates \cup {NoDate}, flattened : Dates \cup {NoDate},
            pending : BOOLEAN, resumed : Dates \cup {NoDate}]

LEMMA DayFacts == \A t \in Times : Day(t) \in Dates /\ Day(t) # NoDate
<1> SUFFICES ASSUME NEW t \in Times PROVE Day(t) \in Dates /\ Day(t) # NoDate
  OBVIOUS
<1>1. t \in Nat /\ Slots \in Nat \ {0}
  BY CalendarAssumption DEF Times
<1>2. t \div Slots # -1
  BY <1>1, SMT
<1> QED BY <1>2 DEF Day, Dates, NoDate

LEMMA FreshFacts ==
  /\ FreshBook \in Book /\ FreshSess \in Session /\ FreshSess.date = NoDate
  /\ FreshWin \in [resume : Times \cup {NoTime}, backfill : Times \cup {NoTime}]
  /\ FreshBar \in [breach : BOOLEAN, seen : Position \cup {None}]
BY ConfigAssumption
   DEF FreshBook, FreshSess, FreshWin, FreshBar, Book, Session, Windows

(* A saved row is a session state, and restoring it a book.                *)
LEMMA RowFacts ==
  /\ book \in Book /\ last \in Times /\ pos \in Position \cup {None}
       => Snapshot \in SessionState
  /\ \A row \in SessionState : Restored(row) \in Book
BY DEF Book, Snapshot, SessionState, Restored

(* The session manager ends on the bar's own date (SessionManager.on_bar). *)
LEMMA SessionFacts ==
  ASSUME sess \in Session, NEW t \in Times, NEW p
  PROVE  /\ SessionOnBar(t, p).sess \in Session
         /\ SessionOnBar(t, p).sess.date = Day(t)
<1> DEFINE cut == p # None /\ sess.flattened # Day(t) /\ Slot(t) >= Cutoff
           pending == sess.pending /\ sess.date = Day(t)
           flattened == IF cut THEN Day(t) ELSE sess.flattened
           after == [sess EXCEPT !.date = Day(t), !.pending = pending,
                                 !.flattened = flattened]
<1>1. pending \in BOOLEAN /\ flattened \in Dates \cup {NoDate}
  BY DayFacts DEF Session
<1>2. SessionOnBar(t, p).sess = after
  BY DEF SessionOnBar
<1> HIDE DEF cut, pending, flattened
<1>3. after \in Session /\ after.date = Day(t)
  BY <1>1, DayFacts DEF Session
<1> HIDE DEF after
<1> QED BY <1>2, <1>3

(* Only an open position is flattened at the cutoff.                       *)
LEMMA CutoffFacts ==
  ASSUME NEW t, NEW p, SessionOnBar(t, p).flatten
  PROVE  p # None
BY DEF SessionOnBar

LEMMA RolloverFacts ==
  ASSUME book \in Book, NEW d
  PROVE  AfterRollover(d) \in Book
<1>1. 0 \in 0 .. MaxTrades
  BY ConfigAssumption
<1>2. [book EXCEPT !.trades = 0, !.halted = FALSE] \in Book
  BY <1>1 DEF Book
<1> QED BY <1>2, Zenon DEF AfterRollover

(* Whatever a position query answers, the belief stays a position or none, *)
(* a pass that does not block has agreed, and a belief whose size changed  *)
(* is what every account holds (Engine.reconcile).                         *)
LEMMA AnswerFacts ==
  ASSUME pos \in Position \cup {None}, recon \in BOOLEAN,
         held \in [Accounts -> BrokerPosition \cup {None}],
         NEW answer \in ReconcileAnswers
  PROVE  /\ answer.pos \in Position \cup {None} /\ answer.block \in BOOLEAN
         /\ HasSource /\ ~answer.block => answer.known = "agreed"
         /\ ~HasSource => /\ answer.pos = pos /\ answer.block = recon
                          /\ answer.known = history.known
         /\ Qty(answer.pos) # Qty(pos) => Agrees(answer.pos)
<1> DEFINE failed == [pos |-> pos, block |-> TRUE, known |-> "failed"]
           asked == [pos |-> Reconciled(pos, held).pos, block |-> Reconciled(pos, held).block,
                     known |-> IF Agrees(pos) THEN "agreed" ELSE "differs"]
           idle == [pos |-> pos, block |-> recon, known |-> history.known]
<1>1. held \in Reports
  BY DEF Reports
<1>2. IF HasSource THEN answer \in {failed, asked} ELSE answer = idle
  BY DEF ReconcileAnswers
<1>3. asked.pos \in Position \cup {None} /\ asked.block \in BOOLEAN
  BY <1>1, ReconciledType DEF IsBlocking
<1>4. ~asked.block => asked.known = "agreed"
  BY <1>1, UnblockedAgrees DEF Agrees
<1>5. Qty(asked.pos) # Qty(pos) => Agrees(asked.pos)
  BY <1>1, ChangeComesFromAll DEF Agrees
<1>6. CASE ~HasSource
  BY <1>2, <1>6
<1>7. CASE HasSource /\ answer = failed
  BY <1>7
<1>8. CASE HasSource /\ answer = asked
  <2> HIDE DEF asked
  <2> QED BY <1>3, <1>4, <1>5, <1>8
<1> QED BY <1>2, <1>6, <1>7, <1>8

-----------------------------------------------------------------------------
LEMMA InitType == Init => TypeInv
<1> SUFFICES ASSUME Init PROVE TypeInv
  OBVIOUS
<1>1. 0 \in Times /\ NoTime \notin Times
  BY CalendarAssumption DEF Times, NoTime
<1>2. book \in Book /\ sess \in Session /\ sess.date = NoDate
      /\ win \in [resume : Times \cup {NoTime}, backfill : Times \cup {NoTime}]
      /\ bar \in [breach : BOOLEAN, seen : Position \cup {None}]
  BY FreshFacts DEF Init
<1>3. /\ held \in [Accounts -> BrokerPosition \cup {None}]
      /\ limbo \in [Accounts -> Int] /\ store \in [Dates -> SessionState \cup {None}]
  BY DEF Init
<1>4. TypeOK
  BY <1>1, <1>2, <1>3 DEF Init, TypeOK, Book, Session
<1> QED BY <1>2, <1>4 DEF Init, TypeInv, Working

LEMMA StartType ==
  ASSUME TypeInv, NEW date \in Dates \cup {NoDate}, Start(date)
  PROVE  TypeInv'
<1>1. 0 \in Times /\ wall \in Times
  BY CalendarAssumption DEF Times, TypeInv, TypeOK
<1>2. /\ last' = NoTime /\ recon' = FALSE /\ bar' = FreshBar /\ order' = None
      /\ since' = 0 /\ starts' = starts + 1 /\ stops' = stops
      /\ wall' = wall /\ held' = held /\ limbo' = limbo /\ store' = store
  BY DEF Start, world
<1>3. /\ win' \in [resume : Times \cup {NoTime}, backfill : Times \cup {NoTime}]
      /\ cursor' \in Times /\ pos' \in Position \cup {None} /\ pc' \in {"startup", "bar"}
      /\ sess' \in Session /\ sess'.date = NoDate /\ book' \in Book
  <2>1. CASE date = NoDate
    <3>1. /\ win' = [resume |-> NoTime, backfill |-> IF Live THEN wall ELSE NoTime]
          /\ cursor' = IF Live THEN wall ELSE 0
          /\ sess' = FreshSess /\ pos' = None /\ book' = FreshBook /\ pc' = "bar"
      BY <2>1, Zenon DEF Start
    <3> QED BY <1>1, <3>1, FreshFacts
  <2>2. CASE date # NoDate
    <3>1. store[date] \in SessionState /\ date \in Dates
      BY <2>2 DEF Start, Resumed, TypeInv, TypeOK
    <3>2. /\ win' = [resume |-> store[date].last, backfill |-> IF Live THEN wall ELSE NoTime]
          /\ cursor' = (IF Live THEN store[date].last ELSE 0)
          /\ sess' = [FreshSess EXCEPT !.pending = TRUE, !.resumed = date]
          /\ pos' = store[date].pos /\ book' = Restored(store[date])
          /\ pc' = IF HasSource THEN "startup" ELSE "bar"
      BY <2>2, Zenon DEF Start
    <3>3. store[date].last \in Times /\ store[date].pos \in Position \cup {None}
      BY <3>1 DEF SessionState
    <3>4. sess' \in Session /\ sess'.date = NoDate
      BY <3>1, <3>2 DEF FreshSess, Session
    <3>5. book' \in Book
      BY <3>1, <3>2, RowFacts
    <3> QED BY <1>1, <3>2, <3>3, <3>4, <3>5
  <2> QED BY <2>1, <2>2
<1>4. bar' \in [breach : BOOLEAN, seen : Position \cup {None}] /\ recon' \in BOOLEAN
  BY <1>2, FreshFacts
<1>5. /\ wall' \in Times /\ held' \in [Accounts -> BrokerPosition \cup {None}]
      /\ limbo' \in [Accounts -> Int] /\ store' \in [Dates -> SessionState \cup {None}]
      /\ since' \in Nat /\ starts' \in Nat /\ stops' \in Nat
  BY <1>2 DEF TypeInv, TypeOK
<1>6. last' \in Times \cup {NoTime} /\ order' \in Signal \cup {None}
  BY <1>2
<1>7. TypeOK'
  BY <1>3, <1>4, <1>5, <1>6 DEF TypeOK, Book, Session
<1> QED BY <1>2, <1>3, <1>7 DEF TypeInv, Working

(* Startup and interval reconciliation.                                    *)
LEMMA ReconcileType ==
  ASSUME TypeInv, StartupReconcile \/ IntervalReconcile
  PROVE  TypeInv'
<1>1. PICK answer \in ReconcileAnswers : Reconcile(answer)
  BY DEF StartupReconcile, IntervalReconcile
<1>2. pos' \in Position \cup {None} /\ recon' \in BOOLEAN
  BY <1>1, AnswerFacts DEF TypeInv, TypeOK, Reconcile
<1>3. /\ pc' = "bar" /\ UNCHANGED <<world, store, cursor, last, win, sess, book>>
      /\ UNCHANGED <<bar, order, since, bounds>>
  BY DEF StartupReconcile, IntervalReconcile
<1> QED BY <1>2, <1>3 DEF TypeInv, TypeOK, Working, world, bounds

LEMMA DeliverType ==
  ASSUME TypeInv, NEW t \in Times, Deliver(t)
  PROVE  wall' \in Times /\ cursor' \in Times /\ last' = t
BY DEF TypeInv, TypeOK, Deliver

LEMMA SkipType ==
  ASSUME TypeInv, NEW t \in Times, SkipBar(t)
  PROVE  TypeInv'
<1>1. wall' \in Times /\ cursor' \in Times /\ last' \in Times
  BY DeliverType DEF SkipBar
<1>2. sess \in Session /\ book \in Book
  BY DEF TypeInv, TypeOK, Session, Book
<1>3. sess' \in Session /\ book' \in Book
  BY <1>2, SessionFacts, RolloverFacts DEF SkipBar
<1>4. pc' = "bar"
  BY DEF SkipBar, Deliver
<1> QED BY <1>1, <1>3, <1>4 DEF SkipBar, TypeInv, TypeOK, Working, Session, Book, bounds

LEMMA FlattenType ==
  ASSUME NEW q \in Quantities, NEW by \in {"engine", "strategy"}
  PROVE  Flatten(q, by) \in Signal /\ Flatten(q, by).intent = "FLATTEN"
BY DEF Flatten, Signal

LEMMA ProcessType ==
  ASSUME TypeInv, NEW t \in Times, ProcessBar(t)
  PROVE  TypeInv'
<1>1. wall' \in Times /\ cursor' \in Times /\ last' \in Times
  BY DeliverType DEF ProcessBar
<1>2. sess \in Session /\ book \in Book
  BY DEF TypeInv, TypeOK, Session, Book
<1>3. PICK exit \in BOOLEAN, breach \in BOOLEAN :
        LET p == IF exit THEN None ELSE pos
            session == SessionOnBar(t, p)
            warm == t <= win.backfill
            risk == ~session.flatten /\ ~warm /\ p # None /\ breach /\ ~recon
        IN  /\ pos' = p
            /\ sess' = session.sess
            /\ book' = [AfterRollover(Day(t)) EXCEPT
                          !.halted = AfterRollover(Day(t)).halted \/ risk]
            /\ bar' = [breach |-> breach, seen |-> p]
            /\ IF ~warm /\ (session.flatten \/ risk)
               THEN order' = Flatten(p.qty, "engine") /\ pc' = "dispatch"
               ELSE order' = None /\ pc' = "strategy"
  BY DEF ProcessBar
<1> DEFINE p == IF exit THEN None ELSE pos
           risk == /\ ~SessionOnBar(t, p).flatten /\ ~(t <= win.backfill)
                   /\ p # None /\ breach /\ ~recon
<1>4. p \in Position \cup {None}
  BY DEF TypeInv, TypeOK
<1>5. pos' = p /\ bar' = [breach |-> breach, seen |-> p]
  BY <1>3
<1>6. sess' \in Session /\ sess'.date \in Dates
  BY <1>2, <1>3, SessionFacts, DayFacts
<1>7. book' \in Book
  <2>1. AfterRollover(Day(t)) \in Book
    BY <1>2, RolloverFacts
  <2>2. risk \in BOOLEAN
    OBVIOUS
  <2>3. book' = [AfterRollover(Day(t)) EXCEPT
                   !.halted = AfterRollover(Day(t)).halted \/ risk]
    BY <1>3
  <2> HIDE DEF risk
  <2> QED BY <2>1, <2>2, <2>3 DEF Book
<1>8. \/ order' = None /\ pc' = "strategy"
      \/ /\ order' = Flatten(p.qty, "engine") /\ pc' = "dispatch" /\ p # None
  BY <1>3, CutoffFacts, Zenon
<1> HIDE DEF p, risk
<1>9. bar' \in [breach : BOOLEAN, seen : Position \cup {None}]
  BY <1>4, <1>5
<1>10. held' \in [Accounts -> BrokerPosition \cup {None}]
  BY DEF ProcessBar, TypeInv, TypeOK
<1>11. \/ order' = None /\ pc' = "strategy"
       \/ order' \in Signal /\ order'.intent = "FLATTEN" /\ pc' = "dispatch"
  BY <1>4, <1>8, FlattenType DEF Position
<1>12. TypeOK'
  BY <1>1, <1>4, <1>5, <1>6, <1>7, <1>9, <1>10, <1>11
     DEF ProcessBar, TypeInv, TypeOK, Session, Book, bounds
<1> QED BY <1>1, <1>6, <1>11, <1>12 DEF TypeInv, Working

(* The strategy is called, or a signal of it goes out.                     *)
LEMMA StrategyType ==
  ASSUME TypeInv, \/ StrategyQuiet \/ StrategyRaises
                  \/ \E sig \in Signals : StrategySignals(sig)
  PROVE  TypeInv'
<1>1. CASE StrategyQuiet
  BY <1>1 DEF StrategyQuiet, AfterStrategy, TypeInv, TypeOK, Working, world, memory, bounds
<1>2. CASE StrategyRaises
  <2>1. pc = "strategy" /\ pc' \in {"bar", "persist"}
    BY <1>2 DEF StrategyRaises, AfterStrategy
  <2>2. book' \in Book
    BY <1>2 DEF StrategyRaises, TypeInv, TypeOK, Book
  <2>3. UNCHANGED <<world, store, cursor, last, win, sess, pos, recon, bar, order, since, bounds>>
    BY <1>2 DEF StrategyRaises
  <2> QED BY <2>1, <2>2, <2>3 DEF TypeInv, TypeOK, Working, Book, world, bounds
<1>3. ASSUME NEW sig \in Signals, StrategySignals(sig) PROVE TypeInv'
  <2>1. sig \in Signal /\ (sig.intent = "ENTRY" => sig.price \in Prices)
    <3>1. CASE bar.seen = None
      <4>1. PICK q \in {1, -1}, p \in Prices : sig = Entry(q, p)
        BY <1>3, <3>1 DEF Signals
      <4> QED BY <4>1 DEF Entry, Signal, Quantities
    <3>2. CASE bar.seen # None
      <4>1. sig = Flatten(Sign(bar.seen.qty), "strategy")
        BY <1>3, <3>2 DEF Signals
      <4>2. Sign(bar.seen.qty) \in Quantities
        BY DEF Sign, Quantities
      <4> QED BY <4>1, <4>2, FlattenType
    <3> QED BY <3>1, <3>2
  <2>2. sig.intent = "ENTRY" => book.trades < MaxTrades
    BY <1>3 DEF StrategySignals, Approved
  <2>3. /\ pc = "strategy" /\ pc' = "dispatch" /\ order' = sig
        /\ UNCHANGED <<world, store, cursor, last, win, sess, pos, book, recon, bar, since, bounds>>
    BY <1>3 DEF StrategySignals
  <2> QED BY <2>1, <2>2, <2>3 DEF TypeInv, TypeOK, Working, world, bounds
<1> QED BY <1>1, <1>2, <1>3

LEMMA FillType ==
  ASSUME NEW h \in BrokerPosition \cup {None}, NEW delta \in Int, NEW price \in Prices
  PROVE  Fill(h, delta, price) \in BrokerPosition \cup {None}
<1>1. Qty(h) \in Int
  BY QtyFacts
<1> QED BY <1>1 DEF Fill, BrokerPosition, Quantities

LEMMA DispatchType == TypeInv /\ Dispatch => TypeInv'
<1> SUFFICES ASSUME TypeInv, Dispatch PROVE TypeInv'
  OBVIOUS
<1>1. order \in Signal /\ Delta(order) \in Int
  BY DEF TypeInv, Dispatch, Signal, Delta, Quantities
<1>2. PICK off \in SUBSET Switchable, answer \in [Accounts -> Answers], price \in Prices :
        /\ held' = [a \in Accounts |->
                     IF a \notin off /\ answer[a].effect = "filled"
                     THEN Fill(held[a], Delta(order), price) ELSE held[a]]
        /\ limbo' = [a \in Accounts |->
                      IF a \notin off /\ answer[a].effect = "later"
                      THEN Delta(order) ELSE limbo[a]]
        /\ order' = [order EXCEPT !.unknown = NeedsReconciliation(answer, Accounts \ off)]
  BY DEF Dispatch
<1>3. held' \in [Accounts -> BrokerPosition \cup {None}]
  BY <1>1, <1>2, FillType DEF TypeInv, TypeOK
<1>4. limbo' \in [Accounts -> Int]
  BY <1>1, <1>2 DEF TypeInv, TypeOK
<1>5. /\ order' \in Signal /\ order'.intent = order.intent /\ order'.price = order.price
  BY <1>1, <1>2 DEF Signal, NeedsReconciliation
<1>6. /\ pc = "dispatch" /\ pc' = "settle"
      /\ UNCHANGED <<wall, store, cursor, last, win, sess, pos, book, recon, bar, since, bounds>>
  BY DEF Dispatch
<1> QED BY <1>3, <1>4, <1>5, <1>6 DEF TypeInv, TypeOK, Working, bounds

(* Settling an order stores what AnswerFacts allows, and counts an entry   *)
(* only where Approved left room for it.                                   *)
LEMMA SettleType == TypeInv /\ Settle => TypeInv'
<1> SUFFICES ASSUME TypeInv, Settle PROVE TypeInv'
  OBVIOUS
<1>1. /\ pc = "settle" /\ order \in Signal /\ last \in Times /\ order' = None
      /\ pc' \in {"strategy", "persist"} /\ sess.date \in Dates
      /\ UNCHANGED <<world, store, cursor, last, win, sess, bar, since, bounds>>
  <2>1. sess.date \in Dates /\ pc = "settle" /\ order \in Signal
    BY DEF Settle, TypeInv, Working
  <2>2. \A t \in Times : Day(t) # NoDate
    BY DayFacts
  <2>3. sess.date # NoDate
    BY <2>1, <2>2 DEF Dates
  <2> QED BY <2>1, <2>3 DEF Settle, TypeInv
<1>2. PICK answer \in (IF order.unknown THEN ReconcileAnswers
                       ELSE {[pos |-> pos, block |-> recon, known |-> history.known]}) :
        LET opens == order.intent = "ENTRY" /\ answer.pos = None
        IN  /\ recon' = (answer.block \/ (order.unknown /\ ~HasSource))
            /\ pos' = IF order.intent = "FLATTEN" THEN None
                      ELSE IF opens
                           THEN [qty |-> order.qty, price |-> order.price, managed |-> TRUE]
                           ELSE answer.pos
            /\ book' = [book EXCEPT !.recent = Accepted,
                                    !.trades = IF opens THEN book.trades + 1 ELSE book.trades]
  BY DEF Settle
<1>3. answer.pos \in Position \cup {None} /\ answer.block \in BOOLEAN
  BY <1>2, AnswerFacts DEF TypeInv, TypeOK
<1>4. recon' \in BOOLEAN
  BY <1>2, <1>3
<1>5. pos' \in Position \cup {None}
  <2>1. order.intent # "FLATTEN" => order.intent = "ENTRY"
    BY <1>1 DEF Signal
  <2>2. order.intent = "ENTRY" =>
          [qty |-> order.qty, price |-> order.price, managed |-> TRUE] \in Position
    BY <1>1 DEF TypeInv, Signal, Position
  <2> QED BY <1>2, <1>3, <2>1, <2>2
<1>6. book' \in Book
  <2>1. Accepted \in Windows
    <3>1. book.recent \in Windows
      BY DEF TypeInv, TypeOK
    <3>2. [at |-> last, long |-> order.qty > 0] \in [at : Times, long : BOOLEAN]
      BY <1>1
    <3>3. book.recent \cup {[at |-> last, long |-> order.qty > 0]} \in Windows
      BY <3>1, <3>2 DEF Windows
    <3>4. \A recent \in Windows : WithinWindow(recent) \in Windows
      BY DEF WithinWindow, Windows
    <3> QED BY <3>1, <3>3, <3>4 DEF Accepted
  <2> DEFINE opens == order.intent = "ENTRY" /\ answer.pos = None
             trades == IF opens THEN book.trades + 1 ELSE book.trades
  <2>2. opens => book.trades < MaxTrades
    BY <1>1 DEF TypeInv
  <2>3. book \in Book
    BY DEF TypeInv, TypeOK, Book
  <2>4. trades \in 0 .. MaxTrades
    BY <2>2, <2>3, ConfigAssumption DEF Book
  <2>5. book' = [book EXCEPT !.recent = Accepted, !.trades = trades]
    BY <1>2, Zenon
  <2> HIDE DEF opens, trades
  <2> QED BY <2>1, <2>3, <2>4, <2>5 DEF Book
<1> QED BY <1>1, <1>4, <1>5, <1>6 DEF TypeInv, TypeOK, Working, Book, world, bounds

-----------------------------------------------------------------------------
LEMMA SavedType ==
  ASSUME TypeInv, sess.date # NoDate, store' = [store EXCEPT ![sess.date] = Snapshot]
  PROVE  store' \in [Dates -> SessionState \cup {None}]
<1>1. Snapshot \in SessionState
  BY RowFacts DEF TypeInv, TypeOK, Book
<1> QED BY <1>1 DEF TypeInv, TypeOK

LEMMA PersistType == TypeInv /\ Persist => TypeInv'
<1> SUFFICES ASSUME TypeInv, Persist PROVE TypeInv'
  OBVIOUS
<1>1. sess.date # NoDate
  BY DayFacts DEF Persist, TypeInv, Working, Dates
<1>2. store' \in [Dates -> SessionState \cup {None}]
  BY <1>1, SavedType DEF Persist, Saved
<1>3. since' \in Nat /\ pc' \in {"bar", "interval"}
  BY DEF Persist, TypeInv, TypeOK
<1>4. /\ pc = "persist"
      /\ UNCHANGED <<world, cursor, last, win, sess, pos, book, recon, bar, order, bounds>>
  BY DEF Persist
<1> QED BY <1>2, <1>3, <1>4 DEF TypeInv, TypeOK, Working, world, bounds

(* A process that is gone leaves the world and the store as they are.      *)
LEMMA ForgetType ==
  ASSUME TypeInv, Forget, UNCHANGED world, UNCHANGED starts, stops' \in Nat,
         store' \in [Dates -> SessionState \cup {None}]
  PROVE  TypeInv'
<1>1. book' \in Book /\ sess' \in Session /\ sess'.date = NoDate
      /\ win' \in [resume : Times \cup {NoTime}, backfill : Times \cup {NoTime}]
      /\ bar' \in [breach : BOOLEAN, seen : Position \cup {None}]
  BY FreshFacts DEF Forget
<1>2. /\ pc' = "down" /\ cursor' = 0 /\ last' = NoTime /\ pos' = None /\ recon' = FALSE
      /\ order' = None /\ since' = 0
  BY DEF Forget
<1>3. cursor' \in Times
  BY <1>2, CalendarAssumption DEF Times
<1>4. recon' \in BOOLEAN
  BY <1>2
<1>5. /\ wall' \in Times /\ held' \in [Accounts -> BrokerPosition \cup {None}]
      /\ limbo' \in [Accounts -> Int] /\ starts' \in Nat
  BY DEF TypeInv, TypeOK, world
<1>6. TypeOK'
  BY <1>1, <1>2, <1>3, <1>4, <1>5 DEF TypeOK, Book, Session
<1> QED BY <1>1, <1>2, <1>6 DEF TypeInv, Working

LEMMA WorldType ==
  ASSUME TypeInv, Tick \/ \E a \in Accounts : LateAnswer(a) \/ BrokerCloses(a)
  PROVE  TypeInv'
<1>1. CASE Tick
  <2>1. wall' \in Times
    BY <1>1, CalendarAssumption DEF Tick, TypeInv, TypeOK, Times
  <2>2. UNCHANGED <<held, limbo, store, pc, memory, bounds>>
    BY <1>1 DEF Tick
  <2> QED BY <2>1, <2>2 DEF TypeInv, TypeOK, Working, memory, bounds
<1>2. ASSUME NEW a \in Accounts, LateAnswer(a) PROVE TypeInv'
  <2>1. held' \in [Accounts -> BrokerPosition \cup {None}]
    BY <1>2, FillType DEF LateAnswer, TypeInv, TypeOK
  <2>2. limbo' \in [Accounts -> Int]
    BY <1>2 DEF LateAnswer, TypeInv, TypeOK
  <2>3. UNCHANGED <<wall, store, pc, memory, bounds>>
    BY <1>2 DEF LateAnswer
  <2> QED BY <2>1, <2>2, <2>3 DEF TypeInv, TypeOK, Working, memory, bounds
<1>3. ASSUME NEW a \in Accounts, BrokerCloses(a) PROVE TypeInv'
  <2>1. held' \in [Accounts -> BrokerPosition \cup {None}]
    BY <1>3 DEF BrokerCloses, TypeInv, TypeOK
  <2>2. UNCHANGED <<wall, limbo, store, pc, memory, bounds>>
    BY <1>3 DEF BrokerCloses
  <2> QED BY <2>1, <2>2 DEF TypeInv, TypeOK, Working, memory, bounds
<1> QED BY <1>1, <1>2, <1>3

LEMMA TypeInductive == Spec => []TypeInv
<1>1. TypeInv /\ [Next]_vars => TypeInv'
  <2> SUFFICES ASSUME TypeInv, [Next]_vars PROVE TypeInv'
    OBVIOUS
  <2>1. ASSUME NEW date \in Dates \cup {NoDate}, Start(date) PROVE TypeInv'
    BY <2>1, StartType
  <2>2. CASE StartupReconcile \/ IntervalReconcile
    BY <2>2, ReconcileType
  <2>3. CASE BarStep
    BY <2>3, SkipType, ProcessType DEF BarStep
  <2>4. CASE StrategyQuiet \/ StrategyRaises \/ \E sig \in Signals : StrategySignals(sig)
    BY <2>4, StrategyType
  <2>5. CASE Dispatch
    BY <2>5, DispatchType
  <2>6. CASE Settle
    BY <2>6, SettleType
  <2>7. CASE Persist
    BY <2>7, PersistType
  <2>8. CASE Crash
    BY <2>8, ForgetType DEF Crash, bounds, TypeInv, TypeOK
  <2>9. CASE Stop
    <3>1. store' \in [Dates -> SessionState \cup {None}]
      BY <2>9, SavedType DEF Stop, TypeInv, TypeOK
    <3>2. stops' \in Nat /\ Forget /\ UNCHANGED world /\ UNCHANGED starts
      BY <2>9 DEF Stop, TypeInv, TypeOK
    <3> QED BY <3>1, <3>2, ForgetType
  <2>10. CASE Tick \/ \E a \in Accounts : LateAnswer(a) \/ BrokerCloses(a)
    BY <2>10, WorldType
  <2>11. CASE UNCHANGED vars
    BY <2>11 DEF vars, TypeInv, TypeOK, Working, world, memory, bounds
  <2> QED BY <2>1, <2>2, <2>3, <2>4, <2>5, <2>6, <2>7, <2>8, <2>9, <2>10, <2>11 DEF Next
<1> QED BY <1>1, InitType, PTL DEF Spec

(* An entry comes from the strategy: only the cutoff and the limits route  *)
(* from a bar, and they flatten.                                           *)
LEMMA EntrySteps ==
  ASSUME TypeInv, [Next]_vars, Routes("ENTRY")
  PROVE  \E sig \in Signals : StrategySignals(sig)
<1>1. order = None /\ order' # None /\ order'.intent = "ENTRY"
  BY DEF Routes
<1>2. ASSUME NEW t \in Times, ProcessBar(t) PROVE FALSE
  <2>1. order' = None \/ \E q : order' = Flatten(q, "engine")
    BY <1>2, Zenon DEF ProcessBar
  <2> QED BY <1>1, <2>1 DEF Flatten
<1>3. ~Dispatch
  BY <1>1, SignalAssumption DEF Dispatch, TypeInv
<1>4. CASE \/ \E date \in Dates \cup {NoDate} : Start(date)
           \/ \E t \in Times : SkipBar(t)
           \/ StartupReconcile \/ IntervalReconcile \/ StrategyQuiet \/ StrategyRaises
           \/ Settle \/ Persist \/ Crash \/ Stop
           \/ Tick \/ (\E a \in Accounts : LateAnswer(a) \/ BrokerCloses(a))
           \/ UNCHANGED vars
  <2>1. order' = None \/ order' = order
    BY <1>4 DEF Start, SkipBar, StartupReconcile, IntervalReconcile, StrategyQuiet,
       StrategyRaises, Settle, Persist, Crash, Stop, Forget, Tick, LateAnswer, BrokerCloses,
       memory, vars
  <2> QED BY <1>1, <2>1
<1> QED BY <1>2, <1>3, <1>4 DEF Next, BarStep

(* Every variable stays within the values the program can hold, and the    *)
(* trade count within risk.max_trades_per_day, in memory and on disk.      *)
THEOREM TypeCorrect == Spec => []TypeOK
<1>1. TypeInv => TypeOK
  BY DEF TypeInv
<1> QED BY <1>1, TypeInductive, PTL

-----------------------------------------------------------------------------
(* When entries may leave, and where a changed belief comes from: the      *)
(* reconciliation block, through fills, failed queries and restarts.       *)

(* The block is what tells a process that its last answer disagreed.       *)
BlockedUnlessAgreed ==
  /\ {"known", "doubt"} \subseteq DOMAIN history
  /\ pc # "down" /\ ~recon => history.known \in {"nothing", "agreed"}

(* Before the first start nothing is in doubt, and within one process a    *)
(* doubt is either blocked or about to be, in _handle_signal.              *)
DoubtIsBlocked ==
  /\ starts = 0 => pc = "down" /\ ~history.doubt
  /\ pc # "down" /\ history.doubt => recon \/ (pc = "settle" /\ order.unknown)

(* Startup and interval reconciliation: agreed or blocked, and a belief    *)
(* whose size changed is what every account holds.                         *)
LEMMA ReconcileSteps ==
  ASSUME TypeInv, BlockedUnlessAgreed, StartupReconcile \/ IntervalReconcile
  PROVE  /\ BlockedUnlessAgreed'
         /\ Qty(pos') # Qty(pos) => Agrees(pos')
         /\ DoubtIsBlocked => DoubtIsBlocked'
<1>1. PICK answer \in ReconcileAnswers : Reconcile(answer)
  BY DEF StartupReconcile, IntervalReconcile
<1>2. pos' = answer.pos /\ recon' = answer.block
  BY <1>1 DEF Reconcile
<1> DEFINE doubt == history.doubt /\ answer.known # "agreed"
<1>3. history' = [history EXCEPT !.known = answer.known, !.doubt = doubt]
  BY <1>1 DEF Reconcile
<1>4. history'.known = answer.known /\ history'.doubt = doubt
      /\ {"known", "doubt"} \subseteq DOMAIN history'
  <2> HIDE DEF doubt
  <2> QED BY <1>3 DEF BlockedUnlessAgreed
<1>5. /\ HasSource /\ ~answer.block => answer.known = "agreed"
      /\ ~HasSource => answer.block = recon /\ answer.known = history.known
      /\ Qty(answer.pos) # Qty(pos) => Agrees(answer.pos)
  BY AnswerFacts DEF TypeInv, TypeOK
<1>6. pc \in {"startup", "interval"} /\ pc' = "bar" /\ starts' = starts /\ held' = held
  BY DEF StartupReconcile, IntervalReconcile, bounds, world
<1>7. BlockedUnlessAgreed'
  BY <1>2, <1>4, <1>5, <1>6 DEF BlockedUnlessAgreed
<1>8. Agrees(answer.pos) => Agrees(pos)'
  BY <1>2, <1>6 DEF Agrees
<1>9. ASSUME DoubtIsBlocked PROVE DoubtIsBlocked'
  <2>1. starts # 0
    BY <1>6, <1>9 DEF DoubtIsBlocked
  <2>2. history'.doubt => recon'
    BY <1>2, <1>4, <1>5, <1>6, <1>9, Zenon DEF DoubtIsBlocked
  <2> QED BY <2>1, <2>2, <1>6 DEF DoubtIsBlocked
<1> QED BY <1>2, <1>5, <1>7, <1>8, <1>9, <1>6 DEF Agrees

(* _handle_signal: an UNKNOWN order ends agreed or blocked.                *)
LEMMA SettleSteps ==
  ASSUME TypeInv, BlockedUnlessAgreed, Settle
  PROVE  /\ BlockedUnlessAgreed'
         /\ DoubtIsBlocked => DoubtIsBlocked'
<1>1. PICK answer \in (IF order.unknown THEN ReconcileAnswers
                       ELSE {[pos |-> pos, block |-> recon, known |-> history.known]}) :
        LET opens == order.intent = "ENTRY" /\ answer.pos = None
        IN  /\ recon' = (answer.block \/ (order.unknown /\ ~HasSource))
            /\ history' = [history EXCEPT
                 !.known = answer.known,
                 !.doubt = history.doubt /\ ~(order.unknown /\ answer.known = "agreed"),
                 !.uncounted = IF order.intent = "ENTRY" /\ ~opens
                               THEN history.uncounted + 1 ELSE history.uncounted,
                 !.unsaved = history.unsaved /\ ~(order.intent = "ENTRY" /\ ~opens)]
  BY DEF Settle
<1> DEFINE opens == order.intent = "ENTRY" /\ answer.pos = None
           doubt == history.doubt /\ ~(order.unknown /\ answer.known = "agreed")
           uncounted == IF order.intent = "ENTRY" /\ ~opens
                        THEN history.uncounted + 1 ELSE history.uncounted
           unsaved == history.unsaved /\ ~(order.intent = "ENTRY" /\ ~opens)
<1>2. history' = [history EXCEPT !.known = answer.known, !.doubt = doubt,
                                 !.uncounted = uncounted, !.unsaved = unsaved]
  BY <1>1, Zenon
<1>3. history'.known = answer.known /\ history'.doubt = doubt
      /\ {"known", "doubt"} \subseteq DOMAIN history'
  <2> HIDE DEF doubt, uncounted, unsaved
  <2> QED BY <1>2 DEF BlockedUnlessAgreed
<1>4. order.unknown =>
        /\ HasSource /\ ~answer.block => answer.known = "agreed"
        /\ ~HasSource => answer.block = recon /\ answer.known = history.known
  BY <1>1, AnswerFacts DEF TypeInv, TypeOK
<1>5. ~order.unknown => answer.block = recon /\ answer.known = history.known
  BY <1>1
<1>6. recon' = (answer.block \/ (order.unknown /\ ~HasSource))
  BY <1>1
<1>7. pc = "settle" /\ pc' \in {"strategy", "persist"} /\ starts' = starts
  BY DEF Settle, bounds
<1> HIDE DEF opens
<1>8. BlockedUnlessAgreed'
  <2>1. ASSUME ~recon' PROVE history'.known \in {"nothing", "agreed"}
    <3>1. CASE order.unknown
      BY <1>3, <1>4, <1>6, <2>1, <3>1
    <3>2. CASE ~order.unknown
      BY <1>3, <1>5, <1>6, <1>7, <2>1, <3>2 DEF BlockedUnlessAgreed
    <3> QED BY <3>1, <3>2
  <2> QED BY <1>3, <2>1 DEF BlockedUnlessAgreed
<1>9. ASSUME DoubtIsBlocked PROVE DoubtIsBlocked'
  <2>1. starts # 0
    BY <1>7, <1>9 DEF DoubtIsBlocked
  <2>2. history'.doubt => recon'
    <3>1. CASE order.unknown
      BY <1>3, <1>4, <1>6, <3>1, Zenon
    <3>2. CASE ~order.unknown
      BY <1>3, <1>5, <1>6, <1>7, <1>9, <3>2, Zenon DEF DoubtIsBlocked
    <3> QED BY <3>1, <3>2
  <2> QED BY <2>1, <2>2, <1>7 DEF DoubtIsBlocked
<1> QED BY <1>8, <1>9

(* The fan-out only puts a process in doubt it has a reconciliation for.   *)
LEMMA DispatchSteps ==
  ASSUME TypeInv, BlockedUnlessAgreed, Dispatch
  PROVE  /\ BlockedUnlessAgreed'
         /\ DoubtIsBlocked => DoubtIsBlocked'
<1>1. PICK off \in SUBSET Switchable, answer \in [Accounts -> Answers] :
        /\ order' = [order EXCEPT !.unknown = NeedsReconciliation(answer, Accounts \ off)]
        /\ history' = [history EXCEPT
             !.doubt = history.doubt \/ \E a \in Accounts \ off : answer[a].outcome = "UNKNOWN",
             !.sent[sess.date] = IF order.intent = "ENTRY" THEN history.sent[sess.date] + 1
                                 ELSE history.sent[sess.date],
             !.unsaved = history.unsaved \/ order.intent = "ENTRY"]
  BY ZenonT(60) DEF Dispatch
<1> DEFINE unknown == NeedsReconciliation(answer, Accounts \ off)
           doubt == history.doubt \/ \E a \in Accounts \ off : answer[a].outcome = "UNKNOWN"
           sent == IF order.intent = "ENTRY" THEN history.sent[sess.date] + 1
                   ELSE history.sent[sess.date]
           unsaved == history.unsaved \/ order.intent = "ENTRY"
<1>2. doubt = (history.doubt \/ unknown)
  BY Zenon DEF NeedsReconciliation
<1>3. order' = [order EXCEPT !.unknown = unknown]
      /\ history' = [history EXCEPT !.doubt = doubt, !.sent[sess.date] = sent,
                                    !.unsaved = unsaved]
  BY <1>1, Zenon
<1>4. order'.unknown = unknown /\ order \in Signal
  <2>1. order \in Signal
    BY DEF Dispatch, TypeInv
  <2> HIDE DEF unknown, doubt, sent, unsaved
  <2> QED BY <1>3, <2>1 DEF Signal
<1>5. history'.known = history.known /\ history'.doubt = doubt
      /\ {"known", "doubt"} \subseteq DOMAIN history'
  <2> HIDE DEF unknown, doubt, sent, unsaved
  <2> QED BY <1>3 DEF BlockedUnlessAgreed
<1>6. pc = "dispatch" /\ pc' = "settle" /\ recon' = recon /\ starts' = starts
  BY DEF Dispatch, bounds
<1>7. BlockedUnlessAgreed'
  BY <1>5, <1>6 DEF BlockedUnlessAgreed
<1>8. ASSUME DoubtIsBlocked PROVE DoubtIsBlocked'
  <2> HIDE DEF unknown, doubt
  <2>1. history'.doubt => recon' \/ order'.unknown
    BY <1>2, <1>4, <1>5, <1>6, <1>8, Zenon DEF DoubtIsBlocked
  <2> QED BY <2>1, <1>6, <1>8 DEF DoubtIsBlocked
<1> QED BY <1>7, <1>8

(* A process starts knowing nothing and unblocked; what an earlier process *)
(* left in doubt stays in doubt.                                           *)
LEMMA StartSteps ==
  ASSUME TypeInv, BlockedUnlessAgreed,
         NEW date \in Dates \cup {NoDate}, Start(date)
  PROVE  /\ BlockedUnlessAgreed'
         /\ history'.doubt = history.doubt
<1>1. PICK applied :
        history' = [history EXCEPT !.applied = applied, !.known = "nothing"]
  <2>1. CASE date = NoDate
    BY <2>1 DEF Start
  <2>2. CASE date # NoDate
    BY <2>2 DEF Start
  <2> QED BY <2>1, <2>2
<1> QED BY <1>1 DEF BlockedUnlessAgreed

(* What leaves the block, the belief about it and the answers alone.       *)
LEMMA OtherSteps ==
  ASSUME TypeInv, BlockedUnlessAgreed,
         \/ BarStep \/ StrategyQuiet \/ StrategyRaises
         \/ \E sig \in Signals : StrategySignals(sig)
         \/ Persist
         \/ Tick \/ \E a \in Accounts : LateAnswer(a) \/ BrokerCloses(a)
         \/ UNCHANGED vars
  PROVE  /\ BlockedUnlessAgreed'
         /\ DoubtIsBlocked => DoubtIsBlocked'
<1>1. /\ history'.known = history.known /\ history'.doubt = history.doubt
      /\ {"known", "doubt"} \subseteq DOMAIN history'
  <2>1. CASE BarStep
    BY <2>1 DEF BarStep, SkipBar, ProcessBar, BlockedUnlessAgreed
  <2>2. CASE Persist
    <3>1. PICK saved : history' = [history EXCEPT !.saved = saved, !.unsaved = FALSE]
      BY <2>2 DEF Persist, Saved
    <3> QED BY <3>1 DEF BlockedUnlessAgreed
  <2>3. CASE ~BarStep /\ ~Persist
    <3>1. history' = history
      BY <2>3 DEF StrategyQuiet, StrategyRaises, StrategySignals, Tick, LateAnswer,
                  BrokerCloses, vars
    <3> QED BY <3>1 DEF BlockedUnlessAgreed
  <2> QED BY <2>1, <2>2, <2>3
<1>2. /\ recon' = recon /\ starts' = starts /\ (pc = "down" <=> pc' = "down")
      /\ pc = "settle" => pc' = "settle" /\ order' = order
  <2>1. CASE BarStep
    BY <2>1 DEF BarStep, SkipBar, ProcessBar, Deliver, bounds
  <2>2. CASE ~BarStep
    BY <2>2 DEF StrategyQuiet, StrategyRaises, StrategySignals, AfterStrategy, Persist, Tick,
                LateAnswer, BrokerCloses, vars, memory, bounds
  <2> QED BY <2>1, <2>2
<1>3. BlockedUnlessAgreed'
  BY <1>1, <1>2 DEF BlockedUnlessAgreed
<1>4. ASSUME DoubtIsBlocked PROVE DoubtIsBlocked'
  BY <1>1, <1>2, <1>4 DEF DoubtIsBlocked
<1> QED BY <1>3, <1>4

(* A kill or a teardown ends the process and with it the block.            *)
LEMMA EndSteps ==
  ASSUME TypeInv, BlockedUnlessAgreed, Crash \/ Stop
  PROVE  /\ BlockedUnlessAgreed'
         /\ DoubtIsBlocked => DoubtIsBlocked'
<1>1. {"known", "doubt"} \subseteq DOMAIN history'
  <2>1. ASSUME NEW saved, NEW uncounted,
               \/ history' = [history EXCEPT !.unsaved = FALSE, !.uncounted = uncounted]
               \/ history' = [history EXCEPT !.saved = saved, !.unsaved = FALSE,
                                             !.uncounted = uncounted]
        PROVE  {"known", "doubt"} \subseteq DOMAIN history'
    BY <2>1 DEF BlockedUnlessAgreed
  <2> DEFINE saved == [history.saved EXCEPT ![sess.date] = history.applied]
             dead == IF history.unsaved THEN history.uncounted + 1 ELSE history.uncounted
             settling == IF history.unsaved /\ pc = "settle"
                         THEN history.uncounted + 1 ELSE history.uncounted
  <2>2. \/ history' = [history EXCEPT !.unsaved = FALSE, !.uncounted = dead]
        \/ history' = [history EXCEPT !.saved = saved, !.unsaved = FALSE,
                                      !.uncounted = settling]
    BY Zenon DEF Crash, Stop
  <2> HIDE DEF saved, dead, settling
  <2> QED BY <2>1, <2>2
<1>2. pc # "down" /\ pc' = "down" /\ starts' = starts
  BY DEF Crash, Stop, Forget, bounds
<1>3. BlockedUnlessAgreed'
  BY <1>1, <1>2 DEF BlockedUnlessAgreed
<1>4. DoubtIsBlocked => DoubtIsBlocked'
  BY <1>2 DEF DoubtIsBlocked
<1> QED BY <1>3, <1>4

-----------------------------------------------------------------------------
(* Every step keeps the block where the last answer disagreed.             *)
LEMMA AgreementStep ==
  ASSUME TypeInv, BlockedUnlessAgreed, [Next]_vars
  PROVE  BlockedUnlessAgreed'
<1>1. ASSUME NEW date \in Dates \cup {NoDate}, Start(date) PROVE BlockedUnlessAgreed'
  BY <1>1, StartSteps
<1>2. CASE StartupReconcile \/ IntervalReconcile
  BY <1>2, ReconcileSteps
<1>3. CASE Dispatch
  BY <1>3, DispatchSteps
<1>4. CASE Settle
  BY <1>4, SettleSteps
<1>5. CASE Crash \/ Stop
  BY <1>5, EndSteps
<1> QED BY <1>1, <1>2, <1>3, <1>4, <1>5, OtherSteps DEF Next

LEMMA AgreementInductive == Spec => [](TypeInv /\ BlockedUnlessAgreed)
<1>1. Init => BlockedUnlessAgreed
  BY DEF Init, BlockedUnlessAgreed
<1> QED BY <1>1, AgreementStep, TypeInductive, PTL DEF Spec

(* What Approved let by was not blocked (RiskManager.check).               *)
LEMMA EntryUnblocked ==
  ASSUME TypeInv, [Next]_vars, Routes("ENTRY")
  PROVE  pc = "strategy" /\ ~recon
BY EntrySteps DEF StrategySignals, Approved, Routes

(* EntryFromAgreement: however many processes have come and gone, and with *)
(* whatever answers, an entry that leaves follows an answer that agreed,   *)
(* or none at all (Engine.reconcile, RiskManager.check).                   *)
THEOREM EntriesFromAgreement == Spec => EntryFromAgreement
<1>1. TypeInv /\ BlockedUnlessAgreed /\ [Next]_vars
        => [Routes("ENTRY") => history.known \in {"nothing", "agreed"}]_vars
  BY EntryUnblocked DEF BlockedUnlessAgreed
<1> QED BY <1>1, AgreementInductive, PTL DEF Spec, EntryFromAgreement

(* BeliefFromBroker: startup and interval reconciliation never change the  *)
(* size believed to one some account does not hold (Engine.reconcile).     *)
THEOREM BeliefsFromBroker == Spec => BeliefFromBroker
<1>1. TypeInv /\ BlockedUnlessAgreed /\ [Next]_vars
        => [(pc \in {"startup", "interval"} /\ pc' = "bar" /\ Qty(pos') # Qty(pos))
              => Agrees(pos')]_vars
  <2> SUFFICES ASSUME TypeInv, BlockedUnlessAgreed, [Next]_vars,
                      pc \in {"startup", "interval"}, pc' = "bar", Qty(pos') # Qty(pos)
               PROVE  Agrees(pos')
    OBVIOUS
  <2>1. CASE StartupReconcile \/ IntervalReconcile
    BY <2>1, ReconcileSteps
  <2>2. CASE ~(StartupReconcile \/ IntervalReconcile)
    BY <2>2 DEF Next, Start, BarStep, SkipBar, ProcessBar, Deliver, StrategyQuiet,
       StrategyRaises, StrategySignals, Dispatch, Settle, Persist, Crash, Stop, Forget, Tick,
       LateAnswer, BrokerCloses, vars
  <2> QED BY <2>1, <2>2
<1> QED BY <1>1, AgreementInductive, PTL DEF Spec, BeliefFromBroker

(* With one start there is no restart to forget the block.                 *)
LEMMA DoubtStep ==
  ASSUME MaxStarts <= 1, TypeInv, BlockedUnlessAgreed, DoubtIsBlocked, [Next]_vars
  PROVE  DoubtIsBlocked'
<1>1. ASSUME NEW date \in Dates \cup {NoDate}, Start(date) PROVE DoubtIsBlocked'
  <2>1. starts = 0 /\ starts' = 1 /\ ~history.doubt
    BY <1>1, ConfigAssumption DEF Start, DoubtIsBlocked, TypeInv, TypeOK
  <2>2. ~history'.doubt
    BY <1>1, <2>1, StartSteps
  <2> QED BY <2>1, <2>2 DEF DoubtIsBlocked
<1>2. CASE StartupReconcile \/ IntervalReconcile
  BY <1>2, ReconcileSteps
<1>3. CASE Dispatch
  BY <1>3, DispatchSteps
<1>4. CASE Settle
  BY <1>4, SettleSteps
<1>5. CASE Crash \/ Stop
  BY <1>5, EndSteps
<1> QED BY <1>1, <1>2, <1>3, <1>4, <1>5, OtherSteps DEF Next

(* NoEntryInDoubt, for one process: between an UNKNOWN answer and one that *)
(* agrees no entry leaves (Engine._handle_signal, require_reconciliation). *)
(* The block is not saved, so a restart needs the startup reconciliation.  *)
THEOREM NoEntriesInDoubt == MaxStarts <= 1 /\ Spec => NoEntryInDoubt
<1> SUFFICES ASSUME MaxStarts <= 1 PROVE Spec => NoEntryInDoubt
  OBVIOUS
<1>1. Init => DoubtIsBlocked
  BY DEF Init, DoubtIsBlocked
<1>2. TypeInv /\ BlockedUnlessAgreed /\ DoubtIsBlocked /\ [Next]_vars => DoubtIsBlocked'
  BY DoubtStep
<1>3. TypeInv /\ DoubtIsBlocked /\ [Next]_vars => [Routes("ENTRY") => ~history.doubt]_vars
  BY EntryUnblocked DEF DoubtIsBlocked
<1> QED BY <1>1, <1>2, <1>3, AgreementInductive, PTL DEF Spec, NoEntryInDoubt
-----------------------------------------------------------------------------
(* What a restart keeps.                                                   *)

(* The clock: later bars lie on later dates, or later in the same session. *)
LEMMA ClockFacts ==
  ASSUME NEW s \in Times, NEW t \in Times, s <= t
  PROVE  /\ Day(s) \in Nat /\ Day(t) \in Nat /\ Day(s) <= Day(t)
         /\ Day(s) = Day(t) => Slot(s) <= Slot(t)
<1>1. s \in Nat /\ t \in Nat /\ Slots \in Nat \ {0}
  BY CalendarAssumption DEF Times
<1> DEFINE p == s \div Slots  q == t \div Slots
<1>2. /\ p \in Nat /\ q \in Nat
      /\ s = Slots * p + (s % Slots) /\ t = Slots * q + (t % Slots)
      /\ s % Slots \in 0 .. Slots - 1 /\ t % Slots \in 0 .. Slots - 1
  BY <1>1, SMT
<1>3. p <= q
  <2> SUFFICES ASSUME q + 1 <= p PROVE FALSE
    BY <1>2
  <2> HIDE DEF p, q
  <2>1. Slots * (q + 1) <= Slots * p
    BY <1>1, <1>2
  <2> QED BY <1>1, <1>2, <2>1
<1>4. p = q => s % Slots <= t % Slots
  BY <1>1, <1>2
<1> QED BY <1>2, <1>3, <1>4 DEF Day, Slot

LEMMA DateFacts == /\ Dates \subseteq Nat /\ Times \subseteq Nat
                   /\ \A t \in Times : Day(t) \in Dates
<1>1. \A t \in Times : Day(t) \in Nat
  BY ClockFacts DEF Times
<1> QED BY <1>1 DEF Dates, Times

LEMMA BarFacts ==
  ASSUME NEW t \in Times
  PROVE  t \in Nat /\ Day(t) \in Nat /\ Slot(t) \in Nat /\ Day(t) <= Day(t) /\ Cutoff \in Nat
<1>1. t \in Nat /\ Slots \in Nat \ {0} /\ Cutoff \in Nat
  BY CalendarAssumption DEF Times
<1>2. Slot(t) \in Nat
  BY <1>1 DEF Slot
<1>3. Day(t) \in Nat
  BY DateFacts
<1> QED BY <1>1, <1>2, <1>3

LEMMA ClockTypes ==
  ASSUME TypeInv
  PROVE  /\ last \in Int /\ cursor \in Int /\ wall \in Int
         /\ win.resume \in Int /\ win.backfill \in Int
<1>1. Times \cup {NoTime} \subseteq Int
  BY DateFacts DEF NoTime
<1>2. last \in Times \cup {NoTime} /\ cursor \in Times /\ wall \in Times
  BY DEF TypeInv, TypeOK
<1>3. win.resume \in Times \cup {NoTime} /\ win.backfill \in Times \cup {NoTime}
  BY DEF TypeInv, TypeOK
<1> QED BY <1>1, <1>2, <1>3

-----------------------------------------------------------------------------
(* The session a process is in, or the one it was resumed in and has not   *)
(* come back to; and the last date whose row it may find on disk.          *)
Home == IF sess.date # NoDate THEN sess.date ELSE sess.resumed

Reached == IF Home # NoDate THEN Home ELSE Day(cursor) - 1

(* Time goes forward.  The session is the one of the last bar, a row is of *)
(* the session of its last bar, and no row is of a later session than the  *)
(* process is in: what it rolls into it starts from nothing.               *)
ClockInv ==
  /\ last # NoTime => last = cursor
  /\ sess.date # NoDate => sess.date = Day(last)
  /\ sess.date # NoDate /\ sess.resumed # NoDate => sess.resumed <= sess.date
  /\ sess.resumed # NoDate => win.resume \in Times /\ Day(win.resume) = sess.resumed
  /\ sess.resumed = NoDate => win.resume = NoTime
  /\ pc \in Working => last > win.resume
  /\ \A d \in Dates : store[d] # None => Day(store[d].last) = d
  /\ Live => /\ \A d \in Dates : store[d] # None => d <= Day(wall)
             /\ last <= wall
  /\ pc # "down" => \A d \in Dates : store[d] # None => d <= Reached

(* What SessionManager.on_bar leaves.                                      *)
LEMMA SessionAfter ==
  ASSUME sess \in Session, NEW t \in Times, NEW p
  PROVE  LET after == SessionOnBar(t, p)
             cut == p # None /\ sess.flattened # Day(t) /\ Slot(t) >= Cutoff
         IN  /\ after.sess.date = Day(t) /\ after.sess.resumed = sess.resumed
             /\ after.sess.flattened = IF cut THEN Day(t) ELSE sess.flattened
             /\ after.flatten = cut
<1> DEFINE cut == p # None /\ sess.flattened # Day(t) /\ Slot(t) >= Cutoff
           pending == sess.pending /\ sess.date = Day(t)
           flattened == IF cut THEN Day(t) ELSE sess.flattened
           after == [sess EXCEPT !.date = Day(t), !.pending = pending,
                                 !.flattened = flattened]
<1>1. SessionOnBar(t, p) = [sess |-> after, flatten |-> cut]
  BY DEF SessionOnBar
<1>2. after.date = Day(t) /\ after.resumed = sess.resumed /\ after.flattened = flattened
  BY DEF Session
<1> HIDE DEF after
<1> QED BY <1>1, <1>2

LEMMA InitClock == Init => ClockInv
BY DEF Init, ClockInv, FreshSess, FreshWin, Working, NoTime, NoDate

(* run_from_config, taken apart: without a row, and with one.              *)
LEMMA StartEffects ==
  ASSUME NEW date \in Dates \cup {NoDate}, Start(date)
  PROVE  /\ pc = "down" /\ starts < MaxStarts
         /\ last' = NoTime /\ recon' = FALSE /\ bar' = FreshBar /\ order' = None
         /\ starts' = starts + 1 /\ stops' = stops
         /\ wall' = wall /\ held' = held /\ limbo' = limbo /\ store' = store
         /\ sess' = [date |-> NoDate, flattened |-> NoDate, pending |-> date # NoDate,
                     resumed |-> date]
         /\ win'.backfill = (IF Live THEN wall ELSE NoTime)
         /\ date = NoDate =>
              /\ IF Live THEN store[Day(wall)] = None ELSE \A e \in Dates : store[e] = None
              /\ win'.resume = NoTime /\ cursor' = (IF Live THEN wall ELSE 0)
              /\ pos' = None /\ book' = FreshBook /\ pc' = "bar"
         /\ date # NoDate =>
              /\ date \in Dates /\ store[date] # None
              /\ IF Live THEN date = Day(wall)
                 ELSE \A e \in Dates : e > date => store[e] = None
              /\ win'.resume = store[date].last
              /\ cursor' = (IF Live THEN store[date].last ELSE 0)
              /\ pos' = store[date].pos /\ book' = Restored(store[date])
              /\ pc' = (IF HasSource THEN "startup" ELSE "bar")
<1>1. /\ pc = "down" /\ starts < MaxStarts /\ Resumed(date)
      /\ last' = NoTime /\ recon' = FALSE /\ bar' = FreshBar /\ order' = None
      /\ starts' = starts + 1 /\ stops' = stops
      /\ wall' = wall /\ held' = held /\ limbo' = limbo /\ store' = store
  BY Zenon DEF Start, world
<1>2. NoDate \notin Dates
  BY DateFacts DEF NoDate
<1>3. CASE date = NoDate
  <2>1. /\ win' = [resume |-> NoTime, backfill |-> IF Live THEN wall ELSE NoTime]
        /\ cursor' = (IF Live THEN wall ELSE 0)
        /\ sess' = FreshSess /\ pos' = None /\ book' = FreshBook /\ pc' = "bar"
    BY <1>3, Zenon DEF Start
  <2>2. IF Live THEN store[Day(wall)] = None ELSE \A e \in Dates : store[e] = None
    BY <1>1, <1>2, <1>3 DEF Resumed
  <2> QED BY <1>1, <1>3, <2>1, <2>2 DEF FreshSess
<1>4. CASE date # NoDate
  <2>1. /\ win' = [resume |-> store[date].last, backfill |-> IF Live THEN wall ELSE NoTime]
        /\ cursor' = (IF Live THEN store[date].last ELSE 0)
        /\ sess' = [FreshSess EXCEPT !.pending = TRUE, !.resumed = date]
        /\ pos' = store[date].pos /\ book' = Restored(store[date])
        /\ pc' = (IF HasSource THEN "startup" ELSE "bar")
    BY <1>4, Zenon DEF Start
  <2>2. sess' = [date |-> NoDate, flattened |-> NoDate, pending |-> TRUE, resumed |-> date]
    BY <2>1 DEF FreshSess
  <2>3. /\ date \in Dates /\ store[date] # None
        /\ IF Live THEN date = Day(wall) ELSE \A e \in Dates : e > date => store[e] = None
    BY <1>1, <1>4 DEF Resumed
  <2>4. win'.resume = store[date].last /\ win'.backfill = (IF Live THEN wall ELSE NoTime)
    BY <2>1
  <2> QED BY <1>1, <1>4, <2>1, <2>2, <2>3, <2>4
<1> QED BY <1>3, <1>4

LEMMA StartClock ==
  ASSUME TypeInv, ClockInv, NEW date \in Dates \cup {NoDate}, Start(date)
  PROVE  ClockInv'
<1>1. /\ last' = NoTime /\ store' = store /\ wall' = wall
      /\ sess'.date = NoDate /\ sess'.resumed = date
      /\ pc' \in {"startup", "bar"} /\ wall \in Times
  <2>1. wall \in Times
    BY DEF TypeInv, TypeOK
  <2>2. sess' = [date |-> NoDate, flattened |-> NoDate, pending |-> date # NoDate,
                 resumed |-> date]
    BY StartEffects, Zenon
  <2>3. last' = NoTime /\ store' = store /\ wall' = wall
    BY StartEffects, Zenon
  <2>4. pc' \in {"startup", "bar"}
    BY StartEffects, Zenon
  <2> QED BY <2>1, <2>2, <2>3, <2>4
<1>2. Home' = date
  BY <1>1 DEF Home
<1>3. /\ \A d \in Dates : store[d] # None => Day(store[d].last) = d
      /\ Live => \A d \in Dates : store[d] # None => d <= Day(wall)
      /\ NoTime <= wall
  BY <1>1, DateFacts DEF ClockInv, NoTime
<1>4. CASE date = NoDate
  <2>1. win'.resume = NoTime /\ cursor' = IF Live THEN wall ELSE 0
    BY <1>4, StartEffects
  <2>2. Reached' = Day(cursor') - 1 /\ Day(cursor') \in Nat
    <3>1. cursor' \in Times
      BY <1>1, <2>1, CalendarAssumption DEF Times
    <3> QED BY <1>2, <1>4, <3>1, DateFacts DEF Reached
  <2>3. \A d \in Dates : store[d] # None => d <= Reached'
    <3>1. CASE Live
      <4>1. store[Day(wall)] = None
        BY <1>4, <3>1, StartEffects
      <4>2. Reached' = Day(wall) - 1 /\ Day(wall) \in Nat
        BY <2>1, <2>2, <3>1
      <4> SUFFICES ASSUME NEW d \in Dates, store[d] # None PROVE d <= Reached'
        OBVIOUS
      <4>3. d \in Nat /\ d <= Day(wall) /\ d # Day(wall)
        BY <1>3, <3>1, <4>1, DateFacts
      <4> QED BY <4>2, <4>3
    <3>2. CASE ~Live
      BY <1>4, <3>2, StartEffects
    <3> QED BY <3>1, <3>2
  <2> QED BY <1>1, <1>3, <1>4, <2>1, <2>3 DEF ClockInv, Working
<1>5. CASE date # NoDate
  <2>1. /\ date \in Dates /\ store[date] # None /\ win'.resume = store[date].last
        /\ IF Live THEN date = Day(wall) ELSE \A e \in Dates : e > date => store[e] = None
    BY <1>5, StartEffects
  <2>2. store[date].last \in Times /\ Day(store[date].last) = date
    BY <1>3, <2>1 DEF TypeInv, TypeOK, SessionState
  <2>3. Reached' = date
    BY <1>2, <1>5 DEF Reached
  <2>4. \A d \in Dates : store[d] # None => d <= date
    BY <1>3, <2>1, DateFacts
  <2> QED BY <1>1, <1>3, <1>5, <2>1, <2>2, <2>3, <2>4 DEF ClockInv, Working
<1> QED BY <1>4, <1>5

(* A bar that is delivered is later than all before it.                    *)
LEMMA DeliverClock ==
  ASSUME TypeInv, ClockInv, NEW t \in Times, Deliver(t)
  PROVE  /\ pc = "bar" /\ cursor' = t /\ last' = t /\ t > cursor /\ t > last
         /\ Day(cursor) <= Day(t)
         /\ sess.date # NoDate => sess.date <= Day(t)
         /\ Live => t <= wall' /\ Day(wall) <= Day(wall') /\ Day(t) <= Day(wall')
<1>1. /\ pc = "bar" /\ cursor' = t /\ last' = t /\ t > cursor
      /\ wall' = IF Live /\ t > wall THEN t ELSE wall
  BY DEF Deliver, Deliverable
<1>2. cursor \in Times /\ wall \in Times /\ wall' \in Times /\ last \in Times \cup {NoTime}
  BY <1>1 DEF TypeInv, TypeOK
<1>3. Day(cursor) <= Day(t)
  BY <1>1, <1>2, ClockFacts, DateFacts
<1>4. t > last
  BY <1>1, <1>2, DateFacts DEF ClockInv, NoTime
<1>5. sess.date # NoDate => sess.date <= Day(t)
  <2> SUFFICES ASSUME sess.date # NoDate PROVE sess.date <= Day(t)
    OBVIOUS
  <2>1. last \in Times /\ sess.date = Day(last)
    BY DEF TypeInv, ClockInv
  <2>2. last <= t
    BY <1>4, <2>1, DateFacts
  <2> QED BY <2>1, <2>2, ClockFacts
<1>6. t <= wall' \/ ~Live
  BY <1>1, <1>2, DateFacts
<1>7. wall <= wall'
  BY <1>1, <1>2, DateFacts
<1> QED BY <1>1, <1>2, <1>3, <1>4, <1>5, <1>6, <1>7, ClockFacts

(* Where the session of a bar is not the one the process was in, it has no *)
(* row yet; the counters are reset unless the process had no session.      *)
LEMMA TurnFacts ==
  ASSUME TypeInv, ClockInv, NEW t \in Times, Deliver(t),
         sess.resumed # NoDate => Day(t) >= sess.resumed
  PROVE  /\ \A d \in Dates : store[d] # None => d <= Day(t)
         /\ store[Day(t)] # None => Home = Day(t)
         /\ Rolled(Day(t)) <=> Home # NoDate /\ Home # Day(t)
<1>1. /\ pc = "bar" /\ Day(cursor) <= Day(t) /\ Day(cursor) \in Nat /\ Day(t) \in Nat
      /\ sess.date # NoDate => sess.date <= Day(t)
  <2>1. cursor \in Times
    BY DEF TypeInv, TypeOK
  <2> QED BY <2>1, DeliverClock, DateFacts
<1>2. sess.date \in Dates \cup {NoDate} /\ sess.resumed \in Dates \cup {NoDate}
  BY DEF TypeInv, TypeOK
<1>3. Home # NoDate => Home <= Day(t)
  BY <1>1 DEF Home
<1>4. IF Home = NoDate THEN Reached < Day(t) ELSE Reached = Home
  BY <1>1, DateFacts DEF Reached
<1>5. \A d \in Dates : store[d] # None => d <= Reached
  BY <1>1 DEF ClockInv
<1>6. Home \in Dates \cup {NoDate} /\ Dates \subseteq Nat
  BY <1>2, DateFacts DEF Home
<1>7. Rolled(Day(t)) <=> Home # NoDate /\ Home # Day(t)
  BY DEF Rolled, Home
<1>8. \A d \in Dates : store[d] # None => d <= Day(t)
  BY <1>1, <1>3, <1>4, <1>5, <1>6 DEF Reached
<1>9. store[Day(t)] # None => Home = Day(t)
  <2>1. Day(t) \in Dates
    BY DateFacts
  <2>2. store[Day(t)] # None => Day(t) <= Reached
    BY <1>5, <2>1
  <2> QED BY <1>1, <1>3, <1>4, <1>6, <2>2 DEF Reached
<1> QED BY <1>7, <1>8, <1>9

(* The counters after a bar's session is known (_reset_after_rollover).    *)
LEMMA AfterRolloverFacts ==
  ASSUME book \in Book, NEW d
  PROVE  LET after == AfterRollover(d)
         IN  /\ after \in Book /\ after.recent = book.recent
             /\ after.trades = IF Rolled(d) THEN 0 ELSE book.trades
             /\ after.halted = IF Rolled(d) THEN FALSE ELSE book.halted
<1> DEFINE fresh == [book EXCEPT !.trades = 0, !.halted = FALSE]
<1>1. fresh.recent = book.recent /\ fresh.trades = 0 /\ fresh.halted = FALSE
  BY DEF Book
<1>2. AfterRollover(d) = IF Rolled(d) THEN fresh ELSE book
  BY Zenon DEF AfterRollover
<1> HIDE DEF fresh
<1> QED BY <1>1, <1>2, RolloverFacts

(* The first window of stream(): the session manager and the counters see  *)
(* a bar of the resumed session or a later one, nothing else does.         *)
LEMMA SkipEffects ==
  ASSUME TypeInv, NEW t \in Times, SkipBar(t)
  PROVE  /\ Deliver(t) /\ t <= win.resume /\ pc' = pc
         /\ IF sess.resumed = NoDate \/ Day(t) >= sess.resumed
            THEN /\ sess'.date = Day(t) /\ sess'.resumed = sess.resumed
                 /\ sess'.flattened =
                      IF pos # None /\ sess.flattened # Day(t) /\ Slot(t) >= Cutoff
                      THEN Day(t) ELSE sess.flattened
                 /\ book'.recent = book.recent
                 /\ book'.trades = (IF Rolled(Day(t)) THEN 0 ELSE book.trades)
                 /\ book'.halted = (IF Rolled(Day(t)) THEN FALSE ELSE book.halted)
            ELSE sess' = sess /\ book' = book
         /\ held' = held /\ limbo' = limbo /\ store' = store /\ win' = win /\ pos' = pos
         /\ order' = order /\ starts' = starts /\ stops' = stops /\ history' = history
<1>1. /\ Deliver(t) /\ t <= win.resume /\ pc' = pc
      /\ held' = held /\ limbo' = limbo /\ store' = store /\ win' = win /\ pos' = pos
      /\ order' = order /\ starts' = starts /\ stops' = stops /\ history' = history
  BY DEF SkipBar, Skips, bounds
<1>2. IF sess.resumed = NoDate \/ Day(t) >= sess.resumed
      THEN sess' = SessionOnBar(t, pos).sess /\ book' = AfterRollover(Day(t))
      ELSE sess' = sess /\ book' = book
  BY DEF SkipBar
<1>3. sess \in Session /\ book \in Book
  BY DEF TypeInv, TypeOK, Session, Book
<1>4. CASE sess.resumed = NoDate \/ Day(t) >= sess.resumed
  BY <1>1, <1>2, <1>3, <1>4, SessionAfter, AfterRolloverFacts, Zenon
<1>5. CASE ~(sess.resumed = NoDate \/ Day(t) >= sess.resumed)
  BY <1>1, <1>2, <1>5
<1> QED BY <1>4, <1>5

(* The other windows: stop and target, the session, the cutoff flatten and *)
(* the limits, up to the strategy.                                         *)
LEMMA ProcessEffects ==
  ASSUME TypeInv, NEW t \in Times, ProcessBar(t)
  PROVE  /\ Deliver(t) /\ t > win.resume
         /\ pos' \in {pos, None} /\ bar'.seen = pos'
         /\ Broker = "mirrors" => \/ pos' = pos /\ held' = held
                                  \/ pos' = None /\ held' = [a \in Accounts |-> None]
         /\ sess'.date = Day(t) /\ sess'.resumed = sess.resumed
         /\ LET cut == pos' # None /\ sess.flattened # Day(t) /\ Slot(t) >= Cutoff
            IN  /\ sess'.flattened = IF cut THEN Day(t) ELSE sess.flattened
                /\ \/ /\ order' = None /\ pc' = "strategy"
                      /\ cut => t <= win.backfill
                   \/ /\ order' = Flatten(pos'.qty, "engine") /\ pc' = "dispatch"
                      /\ pos' # None
         /\ book'.recent = book.recent
         /\ book'.trades = (IF Rolled(Day(t)) THEN 0 ELSE book.trades)
         /\ book.halted /\ ~Rolled(Day(t)) => book'.halted
         /\ limbo' = limbo /\ store' = store /\ win' = win
         /\ starts' = starts /\ stops' = stops
         /\ history' = [history EXCEPT !.applied = t]
<1>1. /\ Deliver(t) /\ ~Skips(t) /\ history' = [history EXCEPT !.applied = t]
      /\ limbo' = limbo /\ store' = store /\ win' = win
      /\ starts' = starts /\ stops' = stops
  BY Zenon DEF ProcessBar, bounds
<1>2. t > win.resume
  BY <1>1, DateFacts DEF Skips, TypeInv, TypeOK, NoTime
<1>3. sess \in Session /\ book \in Book
  BY DEF TypeInv, TypeOK, Session, Book
<1>4. PICK exit \in BOOLEAN, breach \in BOOLEAN :
        /\ exit => pos # None
        /\ LET p == IF exit THEN None ELSE pos
               session == SessionOnBar(t, p)
               warm == t <= win.backfill
               risk == ~session.flatten /\ ~warm /\ p # None /\ breach /\ ~recon
           IN  /\ pos' = p
               /\ sess' = session.sess
               /\ book' = [AfterRollover(Day(t)) EXCEPT
                             !.halted = AfterRollover(Day(t)).halted \/ risk]
               /\ bar' = [breach |-> breach, seen |-> p]
               /\ IF ~warm /\ (session.flatten \/ risk)
                  THEN order' = Flatten(p.qty, "engine") /\ pc' = "dispatch"
                  ELSE order' = None /\ pc' = "strategy"
        /\ held' = IF exit /\ Broker = "mirrors" THEN [a \in Accounts |-> None] ELSE held
  BY DEF ProcessBar
<1> DEFINE p == IF exit THEN None ELSE pos
           cut == p # None /\ sess.flattened # Day(t) /\ Slot(t) >= Cutoff
           warm == t <= win.backfill
           risk == ~SessionOnBar(t, p).flatten /\ ~warm /\ p # None /\ breach /\ ~recon
           after == AfterRollover(Day(t))
<1>5. /\ pos' = p /\ bar' = [breach |-> breach, seen |-> p] /\ p \in {pos, None}
      /\ sess' = SessionOnBar(t, p).sess
      /\ book' = [after EXCEPT !.halted = after.halted \/ risk]
  BY <1>4
<1>6. /\ sess'.date = Day(t) /\ sess'.resumed = sess.resumed
      /\ sess'.flattened = (IF cut THEN Day(t) ELSE sess.flattened)
      /\ SessionOnBar(t, p).flatten = cut
  BY <1>3, <1>5, SessionAfter, Zenon
<1>7. \/ /\ order' = None /\ pc' = "strategy" /\ (cut => warm)
      \/ /\ order' = Flatten(p.qty, "engine") /\ pc' = "dispatch" /\ p # None
  BY <1>4, <1>6, Zenon
<1>8. \/ pos' = pos /\ held' = held
      \/ pos' = None /\ (Broker = "mirrors" => held' = [a \in Accounts |-> None])
  BY <1>4
<1>9. /\ book'.recent = book.recent
      /\ book'.trades = (IF Rolled(Day(t)) THEN 0 ELSE book.trades)
      /\ book.halted /\ ~Rolled(Day(t)) => book'.halted
  <2>1. /\ after \in Book /\ after.recent = book.recent
        /\ after.trades = (IF Rolled(Day(t)) THEN 0 ELSE book.trades)
        /\ after.halted = (IF Rolled(Day(t)) THEN FALSE ELSE book.halted)
    BY <1>3, AfterRolloverFacts, Zenon
  <2> DEFINE halted == after.halted \/ risk
  <2>2. book' = [after EXCEPT !.halted = halted]
    BY <1>5
  <2>3. after.halted => halted
    OBVIOUS
  <2> HIDE DEF after, halted
  <2>4. book'.recent = after.recent /\ book'.trades = after.trades /\ book'.halted = halted
    BY <2>1, <2>2 DEF Book
  <2> QED BY <2>1, <2>3, <2>4
<1>10. /\ pos' \in {pos, None} /\ bar'.seen = pos'
       /\ sess'.flattened = (IF pos' # None /\ sess.flattened # Day(t) /\ Slot(t) >= Cutoff
                             THEN Day(t) ELSE sess.flattened)
  BY <1>5, <1>6
<1>11. LET c == pos' # None /\ sess.flattened # Day(t) /\ Slot(t) >= Cutoff
       IN  \/ /\ order' = None /\ pc' = "strategy" /\ (c => t <= win.backfill)
           \/ /\ order' = Flatten(pos'.qty, "engine") /\ pc' = "dispatch" /\ pos' # None
  BY <1>5, <1>7
<1> HIDE DEF p, cut, warm, risk, after
<1> QED BY <1>1, <1>2, <1>6, <1>8, <1>9, <1>10, <1>11, Zenon

LEMMA RowsAndWall ==
  ASSUME TypeInv, ClockInv, wall' \in Times, wall <= wall',
         NEW d \in Dates, store[d] # None
  PROVE  Day(store[d].last) = d /\ (Live => d <= Day(wall'))
<1>1. Day(store[d].last) = d /\ (Live => d <= Day(wall))
  BY DEF ClockInv
<1>2. ASSUME Live PROVE d <= Day(wall')
  <2>1. d \in Nat /\ wall \in Times
    BY DateFacts DEF TypeInv, TypeOK
  <2>2. Day(wall) \in Nat /\ Day(wall') \in Nat /\ Day(wall) <= Day(wall')
    BY <1>2, <2>1, ClockFacts
  <2> QED BY <1>1, <1>2, <2>1, <2>2
<1> QED BY <1>1, <1>2

(* Before the first bar of the resumed session a process is in none.       *)
LEMMA EarlierSession ==
  ASSUME TypeInv, ClockInv, NEW t \in Times, Deliver(t),
         ~(sess.resumed = NoDate \/ Day(t) >= sess.resumed)
  PROVE  sess.date = NoDate
<1> SUFFICES ASSUME sess.date # NoDate PROVE FALSE
  OBVIOUS
<1>1. sess.resumed # NoDate /\ sess.resumed <= sess.date /\ sess.date <= Day(t)
  BY DeliverClock DEF ClockInv
<1>2. sess.resumed \in Nat /\ sess.date \in Nat /\ Day(t) \in Nat
  BY <1>1, DateFacts DEF TypeInv, TypeOK
<1> QED BY <1>1, <1>2

LEMMA SkipClock ==
  ASSUME TypeInv, ClockInv, NEW t \in Times, SkipBar(t)
  PROVE  ClockInv'
<1>1. /\ Deliver(t) /\ t <= win.resume /\ pc = "bar" /\ pc' = pc /\ t > last
      /\ cursor' = t /\ last' = t /\ store' = store /\ win' = win
      /\ sess.date # NoDate => sess.date <= Day(t)
      /\ Live => t <= wall' /\ Day(wall) <= Day(wall')
  BY SkipEffects, DeliverClock DEF SkipBar, Deliver
<1>2. \A d \in Dates : store[d] # None => /\ Day(store[d].last) = d
                                          /\ Live => d <= Day(wall')
  <2>1. wall' \in Times /\ wall <= wall'
    BY DeliverType, DateFacts DEF SkipBar, Deliver, TypeInv, TypeOK
  <2> QED BY <2>1, RowsAndWall
<1>3. /\ sess.resumed \in Dates \cup {NoDate} /\ sess.date \in Dates \cup {NoDate}
      /\ Day(t) \in Dates /\ Dates \subseteq Nat
  BY DateFacts DEF TypeInv, TypeOK
<1>4. CASE sess.resumed = NoDate \/ Day(t) >= sess.resumed
  <2>1. sess'.date = Day(t) /\ sess'.resumed = sess.resumed
    BY <1>4, SkipEffects
  <2>2. Reached' = Day(t)
    BY <1>3, <2>1 DEF Reached, Home, NoDate
  <2>3. \A d \in Dates : store[d] # None => d <= Day(t)
    BY <1>1, <1>3, <1>4, TurnFacts
  <2> QED BY <1>1, <1>2, <1>3, <1>4, <2>1, <2>2, <2>3 DEF ClockInv, Working
<1>5. CASE ~(sess.resumed = NoDate \/ Day(t) >= sess.resumed)
  <2>1. sess' = sess
    BY <1>5, SkipEffects, Zenon
  <2>2. sess.date = NoDate
    BY <1>1, <1>5, EarlierSession
  <2>3. Reached' = sess.resumed /\ Reached = sess.resumed
    BY <1>5, <2>1, <2>2 DEF Reached, Home
  <2> QED BY <1>1, <1>2, <2>1, <2>2, <2>3 DEF ClockInv, Working
<1> QED BY <1>4, <1>5

LEMMA ProcessClock ==
  ASSUME TypeInv, ClockInv, NEW t \in Times, ProcessBar(t)
  PROVE  ClockInv' /\ (sess.resumed # NoDate => Day(t) >= sess.resumed)
<1>1. /\ Deliver(t) /\ t > win.resume /\ pc = "bar" /\ cursor' = t /\ last' = t
      /\ store' = store /\ win' = win
      /\ sess'.date = Day(t) /\ sess'.resumed = sess.resumed
      /\ Live => t <= wall' /\ Day(wall) <= Day(wall')
  BY ProcessEffects, DeliverClock
<1>2. \A d \in Dates : store[d] # None => /\ Day(store[d].last) = d
                                          /\ Live => d <= Day(wall')
  <2>1. wall' \in Times /\ wall <= wall'
    BY DeliverType, DateFacts DEF ProcessBar, Deliver, TypeInv, TypeOK
  <2> QED BY <2>1, RowsAndWall
<1>3. /\ sess.resumed \in Dates \cup {NoDate} /\ Day(t) \in Dates /\ Dates \subseteq Nat
  BY DateFacts DEF TypeInv, TypeOK
<1>4. sess.resumed # NoDate => Day(t) >= sess.resumed
  <2> SUFFICES ASSUME sess.resumed # NoDate PROVE Day(t) >= sess.resumed
    OBVIOUS
  <2>1. win.resume \in Times /\ Day(win.resume) = sess.resumed
    BY DEF ClockInv
  <2>2. win.resume <= t
    BY <1>1, <2>1 DEF Times
  <2> QED BY <1>3, <2>1, <2>2, ClockFacts, DateFacts
<1>5. Reached' = Day(t)
  BY <1>1, <1>3 DEF Reached, Home, NoDate
<1>6. \A d \in Dates : store[d] # None => d <= Day(t)
  BY <1>1, <1>4, TurnFacts
<1> QED BY <1>1, <1>2, <1>3, <1>4, <1>5, <1>6 DEF ClockInv

(* A save writes the row of the session of the last bar (Engine._persist). *)
LEMMA SaveClock ==
  ASSUME TypeInv, ClockInv, sess.date # NoDate,
         store' = [store EXCEPT ![sess.date] = Snapshot]
  PROVE  \A d \in Dates :
           /\ store'[d] = IF d = sess.date THEN Snapshot ELSE store[d]
           /\ store'[d] # None => /\ Day(store'[d].last) = d
                                  /\ Live => d <= Day(wall)
                                  /\ pc # "down" => d <= Reached
<1>1. /\ sess.date \in Dates /\ last \in Times /\ sess.date = Day(last)
      /\ Snapshot.last = last /\ Reached = sess.date
      /\ \A d \in Dates : store'[d] = IF d = sess.date THEN Snapshot ELSE store[d]
  BY DEF TypeInv, TypeOK, ClockInv, Snapshot, Reached, Home
<1>2. Live => sess.date <= Day(wall)
  BY <1>1, ClockFacts DEF TypeInv, TypeOK, ClockInv
<1> QED BY <1>1, <1>2, DateFacts DEF ClockInv

LEMMA PersistClock ==
  ASSUME TypeInv, ClockInv, Persist
  PROVE  ClockInv'
<1>1. /\ pc = "persist" /\ pc' \in {"interval", "bar"}
      /\ store' = [store EXCEPT ![sess.date] = Snapshot]
      /\ UNCHANGED <<wall, cursor, last, win, sess>>
  BY Zenon DEF Persist, Saved, world
<1>2. sess.date # NoDate
  BY <1>1, DateFacts DEF TypeInv, Working, NoDate
<1>3. Reached' = Reached
  BY <1>1 DEF Reached, Home
<1> QED BY <1>1, <1>2, <1>3, SaveClock DEF ClockInv, Working

(* A process that ends leaves the rows, and at a teardown one more.        *)
LEMMA EndClock ==
  ASSUME TypeInv, ClockInv, Crash \/ Stop
  PROVE  ClockInv'
<1>1. /\ pc # "down" /\ pc' = "down" /\ last' = NoTime /\ win'.resume = NoTime
      /\ sess'.date = NoDate /\ sess'.resumed = NoDate /\ wall' = wall /\ wall \in Times
  BY DEF Crash, Stop, Forget, FreshWin, FreshSess, world, TypeInv, TypeOK
<1>2. \/ store' = store
      \/ sess.date # NoDate /\ store' = [store EXCEPT ![sess.date] = Snapshot]
  BY Zenon DEF Crash, Stop
<1>3. \A d \in Dates : store'[d] # None => /\ Day(store'[d].last) = d
                                           /\ Live => d <= Day(wall)
  BY <1>2, SaveClock DEF ClockInv
<1> QED BY <1>1, <1>3, DateFacts DEF ClockInv, Working, NoTime

(* The rest of an iteration, and the world, touch neither clock nor rows.  *)
Rest ==
  \/ StartupReconcile \/ IntervalReconcile
  \/ StrategyQuiet \/ StrategyRaises \/ \E sig \in Signals : StrategySignals(sig)
  \/ Dispatch \/ Settle
  \/ Tick \/ \E a \in Accounts : LateAnswer(a) \/ BrokerCloses(a)
  \/ UNCHANGED vars

LEMMA RestFacts ==
  ASSUME Rest
  PROVE  /\ cursor' = cursor /\ last' = last /\ win' = win /\ sess' = sess
         /\ store' = store /\ starts' = starts /\ stops' = stops
         /\ wall' = wall \/ (wall' = wall + 1 /\ wall < MaxTime)
         /\ pc' # "down" => pc # "down"
         /\ pc' \in Working => pc \in Working
         /\ book' = book \/ StrategyRaises \/ Settle
BY DEF Rest, StartupReconcile, IntervalReconcile, StrategyQuiet, StrategyRaises, StrategySignals,
   AfterStrategy, Dispatch, Settle, Tick, LateAnswer, BrokerCloses, vars, world, memory,
   bounds, Working

LEMMA RestClock ==
  ASSUME TypeInv, ClockInv, Rest
  PROVE  ClockInv'
<1>1. /\ UNCHANGED <<cursor, last, win, sess, store>>
      /\ wall' = wall \/ (wall' = wall + 1 /\ wall < MaxTime)
      /\ pc' # "down" => pc # "down"
      /\ pc' \in Working => pc \in Working
  BY RestFacts
<1>2. Reached' = Reached
  BY <1>1 DEF Reached, Home
<1>3. Live => Day(wall) <= Day(wall') /\ last <= wall'
  <2>1. wall \in Times /\ wall' \in Times
    BY <1>1, CalendarAssumption DEF TypeInv, TypeOK, Times
  <2>2. wall <= wall'
    BY <1>1, <2>1, DateFacts
  <2>3. last \in Int
    BY DateFacts DEF TypeInv, TypeOK, NoTime
  <2>4. wall \in Int /\ wall' \in Int /\ Day(wall) <= Day(wall')
    BY <2>1, <2>2, ClockFacts, DateFacts
  <2>5. Live => last <= wall
    BY DEF ClockInv
  <2> QED BY <2>2, <2>3, <2>4, <2>5
<1>4. \A d \in Dates : store[d] # None => Day(store[d].last) = d /\ (Live => d <= Day(wall'))
  <2>1. wall' \in Times /\ wall <= wall'
    BY <1>1, CalendarAssumption DEF TypeInv, TypeOK, Times
  <2> QED BY <2>1, RowsAndWall
<1> QED BY <1>1, <1>2, <1>3, <1>4 DEF ClockInv

LEMMA ClockInductive == Spec => [](TypeInv /\ ClockInv)
<1>1. TypeInv /\ ClockInv /\ [Next]_vars => ClockInv'
  <2> SUFFICES ASSUME TypeInv, ClockInv, [Next]_vars PROVE ClockInv'
    OBVIOUS
  <2>1. ASSUME NEW date \in Dates \cup {NoDate}, Start(date) PROVE ClockInv'
    BY <2>1, StartClock
  <2>2. ASSUME NEW t \in Times, SkipBar(t) \/ ProcessBar(t) PROVE ClockInv'
    BY <2>2, SkipClock, ProcessClock
  <2>3. CASE Persist
    BY <2>3, PersistClock
  <2>4. CASE Crash \/ Stop
    BY <2>4, EndClock
  <2>5. CASE Rest
    BY <2>5, RestClock
  <2> QED BY <2>1, <2>2, <2>3, <2>4, <2>5, Zenon DEF Next, BarStep, Rest
<1> QED BY <1>1, InitClock, TypeInductive, PTL DEF Spec

-----------------------------------------------------------------------------
(* The properties' own bookkeeping.                                        *)
History == [applied : Times \cup {NoTime}, saved : [Dates -> Times \cup {NoTime}],
            sent : [Dates -> Nat], uncounted : Nat, unsaved : BOOLEAN,
            known : {"nothing", "agreed", "differs", "failed"}, doubt : BOOLEAN]

LEMMA PersistHistory ==
  ASSUME history \in History, sess.date \in Dates, Persist
  PROVE  /\ history' \in History
         /\ history'.applied = history.applied /\ history'.sent = history.sent
         /\ history'.uncounted = history.uncounted /\ history'.unsaved = FALSE
         /\ \A d \in Dates : history'.saved[d] = IF d = sess.date THEN history.applied
                                                 ELSE history.saved[d]
<1> DEFINE saved == [history.saved EXCEPT ![sess.date] = history.applied]
<1>1. history' = [history EXCEPT !.saved = saved, !.unsaved = FALSE]
  BY DEF Persist, Saved
<1>2. /\ saved \in [Dates -> Times \cup {NoTime}]
      /\ \A d \in Dates : saved[d] = IF d = sess.date THEN history.applied
                                     ELSE history.saved[d]
  BY DEF History
<1> HIDE DEF saved
<1> QED BY <1>1, <1>2 DEF History

LEMMA StopHistory ==
  ASSUME history \in History, Stop, sess \in Session
  PROVE  /\ history' \in History
         /\ history'.applied = history.applied /\ history'.sent = history.sent
         /\ history'.unsaved = FALSE
         /\ \/ /\ sess.date # NoDate /\ store' = [store EXCEPT ![sess.date] = Snapshot]
               /\ history'.uncounted = IF history.unsaved /\ pc = "settle"
                                       THEN history.uncounted + 1 ELSE history.uncounted
               /\ \A d \in Dates : history'.saved[d] = IF d = sess.date THEN history.applied
                                                       ELSE history.saved[d]
            \/ /\ store' = store /\ history'.saved = history.saved
               /\ history'.uncounted = IF history.unsaved THEN history.uncounted + 1
                                       ELSE history.uncounted
<1> DEFINE saved == [history.saved EXCEPT ![sess.date] = history.applied]
           lost == IF history.unsaved /\ pc = "settle" THEN history.uncounted + 1
                   ELSE history.uncounted
           gone == IF history.unsaved THEN history.uncounted + 1 ELSE history.uncounted
<1>1. \/ /\ sess.date # NoDate /\ store' = [store EXCEPT ![sess.date] = Snapshot]
         /\ history' = [history EXCEPT !.saved = saved, !.unsaved = FALSE, !.uncounted = lost]
      \/ /\ store' = store
         /\ history' = [history EXCEPT !.unsaved = FALSE, !.uncounted = gone]
  BY DEF Stop
<1>2. sess.date # NoDate =>
        /\ saved \in [Dates -> Times \cup {NoTime}]
        /\ \A d \in Dates : saved[d] = IF d = sess.date THEN history.applied
                                       ELSE history.saved[d]
  BY DEF History, Session
<1>3. lost \in Nat /\ gone \in Nat
  BY DEF History
<1> HIDE DEF saved, lost, gone
<1>4. CASE store' = store /\ history' = [history EXCEPT !.unsaved = FALSE, !.uncounted = gone]
  <2>1. /\ history' \in History /\ history'.applied = history.applied
        /\ history'.sent = history.sent /\ history'.unsaved = FALSE
        /\ history'.saved = history.saved /\ history'.uncounted = gone
    BY <1>3, <1>4 DEF History
  <2> QED BY <1>4, <2>1 DEF gone
<1>5. CASE /\ sess.date # NoDate /\ store' = [store EXCEPT ![sess.date] = Snapshot]
           /\ history' = [history EXCEPT !.saved = saved, !.unsaved = FALSE, !.uncounted = lost]
  <2>1. /\ history' \in History /\ history'.applied = history.applied
        /\ history'.sent = history.sent /\ history'.unsaved = FALSE
        /\ history'.saved = saved /\ history'.uncounted = lost
    BY <1>2, <1>3, <1>5 DEF History
  <2> QED BY <1>2, <1>5, <2>1 DEF lost
<1> QED BY <1>1, <1>4, <1>5

LEMMA CrashHistory ==
  ASSUME history \in History, Crash
  PROVE  /\ history' \in History
         /\ history'.applied = history.applied /\ history'.sent = history.sent
         /\ history'.saved = history.saved /\ history'.unsaved = FALSE
         /\ history'.uncounted = IF history.unsaved THEN history.uncounted + 1
                                 ELSE history.uncounted
<1> DEFINE gone == IF history.unsaved THEN history.uncounted + 1 ELSE history.uncounted
<1>1. history' = [history EXCEPT !.unsaved = FALSE, !.uncounted = gone]
  BY DEF Crash
<1>2. gone \in Nat
  BY DEF History
<1> HIDE DEF gone
<1>3. /\ history' \in History /\ history'.applied = history.applied
      /\ history'.sent = history.sent /\ history'.unsaved = FALSE
      /\ history'.saved = history.saved /\ history'.uncounted = gone
  BY <1>1, <1>2 DEF History
<1> QED BY <1>3 DEF gone

LEMMA StartHistory ==
  ASSUME history \in History, NEW date \in Dates \cup {NoDate}, Start(date)
  PROVE  /\ history' \in History
         /\ history'.applied = IF date = NoDate THEN NoTime ELSE history.saved[date]
         /\ history'.sent = history.sent /\ history'.saved = history.saved
         /\ history'.unsaved = history.unsaved /\ history'.uncounted = history.uncounted
<1> DEFINE applied == IF date = NoDate THEN NoTime ELSE history.saved[date]
<1>1. history' = [history EXCEPT !.applied = applied, !.known = "nothing"]
  <2>1. CASE date = NoDate
    BY <2>1, Zenon DEF Start
  <2>2. CASE date # NoDate
    BY <2>2, Zenon DEF Start
  <2> QED BY <2>1, <2>2
<1>2. applied \in Times \cup {NoTime}
  BY DEF History
<1> HIDE DEF applied
<1>3. /\ history' \in History /\ history'.applied = applied
      /\ history'.sent = history.sent /\ history'.saved = history.saved
      /\ history'.unsaved = history.unsaved /\ history'.uncounted = history.uncounted
  BY <1>1, <1>2 DEF History
<1> QED BY <1>3 DEF applied

LEMMA BarHistory ==
  ASSUME history \in History, NEW t \in Times, ProcessBar(t)
  PROVE  /\ history' \in History /\ history'.applied = t
         /\ history'.sent = history.sent /\ history'.saved = history.saved
         /\ history'.unsaved = history.unsaved /\ history'.uncounted = history.uncounted
<1>1. history' = [history EXCEPT !.applied = t]
  BY Zenon DEF ProcessBar
<1> QED BY <1>1 DEF History

LEMMA DispatchHistory ==
  ASSUME history \in History, sess.date \in Dates, order.intent \in {"ENTRY", "FLATTEN"}, Dispatch
  PROVE  /\ history' \in History
         /\ history'.applied = history.applied /\ history'.saved = history.saved
         /\ history'.uncounted = history.uncounted
         /\ history'.unsaved = (history.unsaved \/ order.intent = "ENTRY")
         /\ \A d \in Dates : history'.sent[d] = IF d = sess.date /\ order.intent = "ENTRY"
                                                THEN history.sent[d] + 1 ELSE history.sent[d]
<1>1. PICK off \in SUBSET Switchable, answer \in [Accounts -> Answers] :
        history' = [history EXCEPT
          !.doubt = history.doubt \/ \E a \in Accounts \ off : answer[a].outcome = "UNKNOWN",
          !.sent[sess.date] = IF order.intent = "ENTRY" THEN history.sent[sess.date] + 1
                              ELSE history.sent[sess.date],
          !.unsaved = history.unsaved \/ order.intent = "ENTRY"]
  BY Zenon DEF Dispatch
<1> DEFINE doubt == history.doubt \/ \E a \in Accounts \ off : answer[a].outcome = "UNKNOWN"
           more == IF order.intent = "ENTRY" THEN history.sent[sess.date] + 1
                   ELSE history.sent[sess.date]
           sent == [history.sent EXCEPT ![sess.date] = more]
           unsaved == history.unsaved \/ order.intent = "ENTRY"
<1>2. history' = [history EXCEPT !.doubt = doubt, !.sent = sent, !.unsaved = unsaved]
  BY <1>1
<1>3. more \in Nat
  BY DEF History
<1>4. doubt \in BOOLEAN /\ unsaved \in BOOLEAN
  BY DEF History
<1> HIDE DEF doubt, unsaved, more
<1>5. /\ sent \in [Dates -> Nat]
      /\ \A d \in Dates : sent[d] = IF d = sess.date THEN more ELSE history.sent[d]
  BY <1>3 DEF History
<1> HIDE DEF sent
<1>6. /\ history' \in History /\ history'.applied = history.applied
      /\ history'.saved = history.saved /\ history'.uncounted = history.uncounted
      /\ history'.unsaved = unsaved /\ history'.sent = sent
  BY <1>2, <1>4, <1>5 DEF History
<1> QED BY <1>5, <1>6 DEF unsaved, more

(* A reconciliation moves only what it learned.                            *)
LEMMA ReconcileHistory ==
  ASSUME history \in History, TypeInv, NEW answer \in ReconcileAnswers, Reconcile(answer)
  PROVE  /\ history' \in History
         /\ history'.applied = history.applied /\ history'.saved = history.saved
         /\ history'.sent = history.sent /\ history'.unsaved = history.unsaved
         /\ history'.uncounted = history.uncounted
<1> DEFINE doubt == history.doubt /\ answer.known # "agreed"
           known == answer.known
<1>1. history' = [history EXCEPT !.known = known, !.doubt = doubt]
  BY DEF Reconcile
<1>2. known \in {"nothing", "agreed", "differs", "failed"}
  BY DEF ReconcileAnswers, History
<1>3. doubt \in BOOLEAN
  BY DEF History
<1> HIDE DEF doubt, known
<1> QED BY <1>1, <1>2, <1>3 DEF History

(* Once the fan-out has answered (_handle_signal): an entry is counted     *)
(* where the tracker opens it, and lost to the count where it does not.    *)
LEMMA SettleEffects ==
  ASSUME history \in History, TypeInv, Settle
  PROVE  /\ pc = "settle" /\ order \in Signal /\ order' = None
         /\ pc' = IF order.by = "engine" THEN "strategy" ELSE "persist"
         /\ book'.recent = Accepted /\ book'.halted = book.halted
         /\ history' \in History
         /\ history'.applied = history.applied /\ history'.saved = history.saved
         /\ history'.sent = history.sent
         /\ order.intent = "FLATTEN" =>
              /\ pos' = None /\ book'.trades = book.trades
              /\ history'.uncounted = history.uncounted
              /\ history'.unsaved = history.unsaved
         /\ order.intent = "ENTRY" =>
              \/ /\ pos' = [qty |-> order.qty, price |-> order.price, managed |-> TRUE]
                 /\ book'.trades = book.trades + 1
                 /\ history'.uncounted = history.uncounted
                 /\ history'.unsaved = history.unsaved
              \/ /\ book'.trades = book.trades /\ (order.unknown \/ pos # None)
                 /\ history'.uncounted = history.uncounted + 1
                 /\ history'.unsaved = FALSE
<1>1. /\ pc = "settle" /\ order \in Signal /\ order' = None
      /\ pc' = IF order.by = "engine" THEN "strategy" ELSE "persist"
  BY DEF Settle, TypeInv
<1>2. PICK answer \in (IF order.unknown THEN ReconcileAnswers
                       ELSE {[pos |-> pos, block |-> recon, known |-> history.known]}) :
        LET opens == order.intent = "ENTRY" /\ answer.pos = None
        IN  /\ recon' = (answer.block \/ (order.unknown /\ ~HasSource))
            /\ pos' = IF order.intent = "FLATTEN" THEN None
                      ELSE IF opens
                           THEN [qty |-> order.qty, price |-> order.price, managed |-> TRUE]
                           ELSE answer.pos
            /\ book' = [book EXCEPT !.recent = Accepted,
                                    !.trades = IF opens THEN book.trades + 1 ELSE book.trades]
            /\ history' = [history EXCEPT
                 !.known = answer.known,
                 !.doubt = history.doubt /\ ~(order.unknown /\ answer.known = "agreed"),
                 !.uncounted = IF order.intent = "ENTRY" /\ ~opens
                               THEN history.uncounted + 1 ELSE history.uncounted,
                 !.unsaved = history.unsaved /\ ~(order.intent = "ENTRY" /\ ~opens)]
  BY Zenon DEF Settle
<1> DEFINE opens == order.intent = "ENTRY" /\ answer.pos = None
           trades == IF opens THEN book.trades + 1 ELSE book.trades
           recent == Accepted
           known == answer.known
           doubt == history.doubt /\ ~(order.unknown /\ answer.known = "agreed")
           uncounted == IF order.intent = "ENTRY" /\ ~opens
                        THEN history.uncounted + 1 ELSE history.uncounted
           unsaved == history.unsaved /\ ~(order.intent = "ENTRY" /\ ~opens)
<1>3. /\ known \in {"nothing", "agreed", "differs", "failed"} /\ doubt \in BOOLEAN
      /\ unsaved \in BOOLEAN
  <2>1. known \in {"nothing", "agreed", "differs", "failed"}
    BY DEF ReconcileAnswers, History
  <2> QED BY <2>1 DEF History
<1>4. uncounted \in Nat
  BY DEF History
<1>5. /\ book' = [book EXCEPT !.recent = recent, !.trades = trades]
      /\ history' = [history EXCEPT !.known = known, !.doubt = doubt,
                                    !.uncounted = uncounted, !.unsaved = unsaved]
  BY <1>2, Zenon
<1>6. /\ pos' = IF order.intent = "FLATTEN" THEN None
                ELSE IF opens
                     THEN [qty |-> order.qty, price |-> order.price, managed |-> TRUE]
                     ELSE answer.pos
      /\ ~order.unknown => answer.pos = pos
  BY <1>2
<1>7. book \in Book
  BY DEF TypeInv, TypeOK, Book
<1>8. order.intent \in {"ENTRY", "FLATTEN"}
  BY <1>1 DEF Signal
<1> HIDE DEF opens, trades, recent, known, doubt, uncounted, unsaved
<1>9. book'.recent = recent /\ book'.trades = trades /\ book'.halted = book.halted
  BY <1>5, <1>7 DEF Book
<1>10. /\ history' \in History
       /\ history'.applied = history.applied /\ history'.saved = history.saved
       /\ history'.sent = history.sent /\ history'.uncounted = uncounted
       /\ history'.unsaved = unsaved
  BY <1>3, <1>4, <1>5 DEF History
<1>11. CASE order.intent = "FLATTEN"
  BY <1>1, <1>6, <1>9, <1>10, <1>11 DEF opens, trades, uncounted, unsaved, recent, History
<1>12. CASE order.intent = "ENTRY" /\ opens
  <2>1. trades = book.trades + 1 /\ uncounted = history.uncounted /\ unsaved = history.unsaved
    BY <1>12 DEF trades, uncounted, unsaved, History
  <2> QED BY <1>1, <1>6, <1>9, <1>10, <1>12, <2>1 DEF recent
<1>13. CASE order.intent = "ENTRY" /\ ~opens
  <2>1. trades = book.trades /\ uncounted = history.uncounted + 1 /\ unsaved = FALSE
    BY <1>13 DEF trades, uncounted, unsaved
  <2>2. order.unknown \/ pos # None
    BY <1>6, <1>13 DEF opens
  <2> QED BY <1>1, <1>9, <1>10, <1>13, <2>1, <2>2 DEF recent
<1> QED BY <1>8, <1>11, <1>12, <1>13

LEMMA HistoryInductive == Spec => [](TypeInv /\ ClockInv /\ history \in History)
<1>1. Init => history \in History
  BY DEF Init, History
<1>2. TypeInv /\ history \in History /\ [Next]_vars => (history \in History)'
  <2> SUFFICES ASSUME TypeInv, history \in History, [Next]_vars PROVE history' \in History
    OBVIOUS
  <2>1. ASSUME NEW date \in Dates \cup {NoDate}, Start(date) PROVE history' \in History
    BY <2>1, StartHistory
  <2>2. CASE StartupReconcile \/ IntervalReconcile
    BY <2>2, ReconcileHistory DEF StartupReconcile, IntervalReconcile
  <2>3. ASSUME NEW t \in Times, SkipBar(t) \/ ProcessBar(t) PROVE history' \in History
    BY <2>3, BarHistory DEF SkipBar
  <2>4. CASE Dispatch
    BY <2>4, DispatchHistory DEF TypeInv, Working, Signal, Dispatch
  <2>5. CASE Settle
    BY <2>5, SettleEffects
  <2>6. CASE Persist
    BY <2>6, PersistHistory DEF TypeInv, Working, Persist
  <2>7. CASE Crash
    BY <2>7, CrashHistory
  <2>8. CASE Stop
    BY <2>8, StopHistory DEF TypeInv, TypeOK, Session
  <2>9. ASSUME history' = history PROVE history' \in History
    BY <2>9
  <2> QED BY <2>1, <2>2, <2>3, <2>4, <2>5, <2>6, <2>7, <2>8, <2>9, Zenon
          DEF Next, BarStep, StrategyQuiet, StrategyRaises, StrategySignals, Tick, LateAnswer,
              BrokerCloses, vars
<1> QED BY <1>1, <1>2, ClockInductive, PTL DEF Spec

-----------------------------------------------------------------------------
(* What the row of its session says, the process still knows: the halt,    *)
(* and every accepted entry that is within the duplicate window.           *)
MemoryInv ==
  pc # "down" /\ Home # NoDate /\ store[Home] # None =>
    /\ store[Home].halted => book.halted
    /\ \A r \in store[Home].recent : r.at > last - Window => r \in book.recent

(* What is forgotten is only what has left the window.                     *)
LEMMA LaterWindow ==
  ASSUME TypeInv, NEW r \in [at : Times, long : BOOLEAN], last' \in Times, last <= last',
         r.at > last' - Window
  PROVE  r.at > last - Window
<1>1. last \in Int /\ last' \in Int /\ Window \in Int
  BY DateFacts, ConfigAssumption DEF TypeInv, TypeOK, NoTime
<1>2. r.at \in Times
  OBVIOUS
<1>3. r.at \in Int
  BY <1>2, CalendarAssumption DEF Times
<1> QED BY <1>1, <1>3

LEMMA RowTypes ==
  ASSUME TypeInv, NEW d \in Dates, store[d] # None
  PROVE  /\ store[d] \in SessionState /\ store[d].last \in Times
         /\ \A r \in store[d].recent : r \in [at : Times, long : BOOLEAN]
BY DEF TypeInv, TypeOK, SessionState, Windows

LEMMA HomeType == TypeInv => Home \in Dates \cup {NoDate}
BY DEF TypeInv, TypeOK, Home

LEMMA StartMemory ==
  ASSUME TypeInv, NEW date \in Dates \cup {NoDate}, Start(date)
  PROVE  MemoryInv'
<1>1. /\ sess' = [date |-> NoDate, flattened |-> NoDate, pending |-> date # NoDate,
                  resumed |-> date]
      /\ store' = store
  BY StartEffects, Zenon
<1>2. Home' = date
  BY <1>1 DEF Home
<1>3. date # NoDate => book' = Restored(store[date])
  BY StartEffects, Zenon
<1> QED BY <1>1, <1>2, <1>3 DEF MemoryInv, Restored

(* A bar of the session the process is in keeps what it knows; the session *)
(* a bar rolls into has no row.                                            *)
LEMMA BarMemory ==
  ASSUME TypeInv, ClockInv, MemoryInv, NEW t \in Times, SkipBar(t) \/ ProcessBar(t)
  PROVE  MemoryInv'
<1>1. Deliver(t) /\ store' = store /\ book'.recent = book.recent
  BY SkipEffects, ProcessEffects
<1>2. last' = t /\ t > last /\ pc = "bar" /\ last \in Int
  BY <1>1, DeliverClock, DateFacts DEF TypeInv, TypeOK, NoTime
<1>3. CASE sess' = sess /\ book' = book
  <2> SUFFICES ASSUME Home # NoDate, store[Home] # None,
                      NEW r \in store[Home].recent, r.at > last' - Window
               PROVE  r.at > last - Window
    BY <1>1, <1>2, <1>3 DEF MemoryInv, Home
  <2>1. r \in [at : Times, long : BOOLEAN]
    BY HomeType, RowTypes
  <2>2. last' \in Times /\ last <= last'
    BY <1>2, DateFacts
  <2> QED BY <2>1, <2>2, LaterWindow
<1>4. CASE /\ sess.resumed # NoDate => Day(t) >= sess.resumed
           /\ sess'.date = Day(t)
           /\ book.halted /\ ~Rolled(Day(t)) => book'.halted
  <2>1. Home' = Day(t) /\ Day(t) \in Dates
    BY <1>4, DateFacts DEF Home, NoDate
  <2> SUFFICES ASSUME store[Day(t)] # None
               PROVE  /\ store[Day(t)].halted => book'.halted
                      /\ \A r \in store[Day(t)].recent : r.at > t - Window => r \in book.recent
    BY <1>1, <1>2, <2>1 DEF MemoryInv
  <2>2. Home = Day(t) /\ ~Rolled(Day(t))
    BY <1>1, <1>4, TurnFacts
  <2>3. Home # NoDate
    BY <2>1, <2>2, DateFacts DEF NoDate
  <2>4. ASSUME NEW r \in store[Day(t)].recent, r.at > t - Window PROVE r.at > last - Window
    <3>1. r \in [at : Times, long : BOOLEAN]
      BY <2>1, RowTypes
    <3>2. last' \in Times /\ last <= last' /\ r.at > last' - Window
      BY <1>2, <2>4, DateFacts
    <3> QED BY <3>1, <3>2, LaterWindow
  <2> QED BY <1>2, <1>4, <2>2, <2>3, <2>4 DEF MemoryInv
<1>5. CASE SkipBar(t)
  BY <1>3, <1>4, <1>5, SkipEffects
<1>6. CASE ProcessBar(t)
  BY <1>4, <1>6, ProcessEffects, ProcessClock
<1> QED BY <1>5, <1>6

LEMMA PersistMemory ==
  ASSUME TypeInv, MemoryInv, Persist
  PROVE  MemoryInv'
<1>1. /\ pc = "persist" /\ store' = [store EXCEPT ![sess.date] = Snapshot]
      /\ UNCHANGED <<last, sess, book>>
  BY Zenon DEF Persist, Saved
<1>2. sess.date \in Dates /\ sess.date # NoDate /\ store \in [Dates -> SessionState \cup {None}]
  BY <1>1, DateFacts DEF TypeInv, TypeOK, Working, NoDate
<1>3. Home' = sess.date /\ store'[sess.date] = Snapshot
  BY <1>1, <1>2 DEF Home
<1> QED BY <1>1, <1>3 DEF MemoryInv, Snapshot

LEMMA RestMemory ==
  ASSUME TypeInv, MemoryInv, history \in History, Rest
  PROVE  MemoryInv'
<1>1. /\ UNCHANGED <<last, sess, store>> /\ (pc' # "down" => pc # "down")
      /\ book' = book \/ StrategyRaises \/ Settle
  BY RestFacts
<1>2. Home' = Home
  BY <1>1 DEF Home
<1>3. CASE book' = book
  BY <1>1, <1>2, <1>3 DEF MemoryInv
<1>4. CASE StrategyRaises
  <2>1. book'.halted /\ book'.recent = book.recent
    BY <1>4 DEF StrategyRaises, TypeInv, TypeOK
  <2> QED BY <1>1, <1>2, <2>1 DEF MemoryInv
<1>5. CASE Settle
  <2>1. book'.recent = Accepted /\ book'.halted = book.halted
    BY <1>5, SettleEffects
  <2>2. \A r \in book.recent : r.at > last - Window => r \in Accepted
    BY DEF Accepted, WithinWindow
  <2> QED BY <1>1, <1>2, <2>1, <2>2 DEF MemoryInv
<1> QED BY <1>1, <1>3, <1>4, <1>5

LEMMA MemoryInductive == Spec => [](TypeInv /\ ClockInv /\ MemoryInv)
<1>1. Init => MemoryInv
  BY DEF Init, MemoryInv
<1>2. TypeInv /\ ClockInv /\ history \in History /\ MemoryInv /\ [Next]_vars => MemoryInv'
  <2> SUFFICES ASSUME TypeInv, ClockInv, history \in History, MemoryInv, [Next]_vars
               PROVE  MemoryInv'
    OBVIOUS
  <2>1. ASSUME NEW date \in Dates \cup {NoDate}, Start(date) PROVE MemoryInv'
    BY <2>1, StartMemory
  <2>2. ASSUME NEW t \in Times, SkipBar(t) \/ ProcessBar(t) PROVE MemoryInv'
    BY <2>2, BarMemory
  <2>3. CASE Persist
    BY <2>3, PersistMemory
  <2>4. CASE Crash \/ Stop
    BY <2>4 DEF Crash, Stop, Forget, MemoryInv
  <2>5. CASE Rest
    BY <2>5, RestMemory
  <2> QED BY <2>1, <2>2, <2>3, <2>4, <2>5, Zenon DEF Next, BarStep, Rest
<1> QED BY <1>1, <1>2, HistoryInductive, PTL DEF Spec

(* A step that sends a signal of the strategy on its way.                  *)
LEMMA SendFacts ==
  ASSUME TypeInv, [Next]_vars, pc = "strategy", pc' = "dispatch"
  PROVE  \E sig \in Signals : StrategySignals(sig)
BY DEF Next, Start, StartupReconcile, BarStep, SkipBar, ProcessBar, Deliver, StrategyQuiet,
   StrategyRaises, AfterStrategy, Dispatch, Settle, Persist, IntervalReconcile, Crash, Stop,
   Forget, Tick, LateAnswer, BrokerCloses, vars

(* A session saved as halted routes no strategy order again, in whatever   *)
(* process (the RUNBOOK's "a restart does not silently un-halt it").       *)
THEOREM HaltHolds == Spec => HaltSurvives
<1>1. TypeInv /\ MemoryInv /\ [Next]_vars =>
        [pc = "strategy" /\ pc' = "dispatch"
           => store[sess.date] = None \/ ~store[sess.date].halted]_vars
  <2> SUFFICES ASSUME TypeInv, MemoryInv, [Next]_vars, pc = "strategy", pc' = "dispatch"
               PROVE  store[sess.date] = None \/ ~store[sess.date].halted
    OBVIOUS
  <2>1. ~book.halted
    BY SendFacts DEF StrategySignals
  <2>2. Home = sess.date /\ Home # NoDate
    BY DateFacts DEF TypeInv, Working, Home, NoDate
  <2> QED BY <2>1, <2>2 DEF MemoryInv
<1> QED BY <1>1, MemoryInductive, PTL DEF Spec, HaltSurvives

(* An entry that was saved is not repeated within the duplicate window, by *)
(* the process that sent it or by one restarted after it.                  *)
THEOREM NoSavedEntryAgain == Spec => SavedEntryNotRepeated
<1>1. TypeInv /\ MemoryInv /\ [Next]_vars =>
        [Routes("ENTRY") => \/ store[sess.date] = None
                            \/ ~Duplicate(order', store[sess.date].recent)]_vars
  <2> SUFFICES ASSUME TypeInv, MemoryInv, [Next]_vars, Routes("ENTRY"),
                      store[sess.date] # None, Duplicate(order', store[sess.date].recent)
               PROVE  FALSE
    OBVIOUS
  <2>1. PICK sig \in Signals : StrategySignals(sig)
    BY EntrySteps
  <2>2. pc = "strategy" /\ order' = sig /\ ~Duplicate(sig, book.recent)
    BY <2>1 DEF StrategySignals, Approved, Routes
  <2>3. Home = sess.date /\ Home # NoDate
    BY <2>2, DateFacts DEF TypeInv, Working, Home, NoDate
  <2>4. \A r \in store[sess.date].recent : r.at > last - Window => r \in book.recent
    BY <2>2, <2>3 DEF MemoryInv
  <2> QED BY <2>2, <2>4 DEF Duplicate, WithinWindow
<1> QED BY <1>1, MemoryInductive, PTL DEF Spec, SavedEntryNotRepeated

-----------------------------------------------------------------------------
(* Entries sent in a session against those its row counts: one more while  *)
(* the bar's save is still to come, and those whose count was lost.        *)
Row(d) == IF store[d] = None THEN 0 ELSE store[d].trades

Loose(d) == IF history.unsaved /\ d = sess.date THEN 1 ELSE 0

Flying == IF pc = "settle" /\ order.intent = "ENTRY" THEN 1 ELSE 0

CountInv ==
  /\ history.unsaved => pc = "persist" \/ (pc = "settle" /\ order.intent = "ENTRY")
  /\ pc = "settle" /\ order.intent = "ENTRY" => history.unsaved
  /\ pc \in {"dispatch", "settle"} /\ order.intent = "ENTRY" => order.by = "strategy"
  /\ Home = NoDate => book.trades = 0
  /\ \A d \in Dates : history.sent[d] <= Row(d) + history.uncounted + Loose(d)
  /\ pc # "down" /\ Home # NoDate
       => history.sent[Home] <= book.trades + history.uncounted + Flying

(* A save writes a row, of what the process knows.                         *)
LEMMA SnapshotFacts ==
  ASSUME TypeInv, sess.date # NoDate
  PROVE  /\ Snapshot \in SessionState /\ Snapshot # None
         /\ Snapshot.trades = book.trades /\ Snapshot.last = last /\ Snapshot.pos = pos
<1>1. Snapshot \in SessionState
  BY RowFacts DEF TypeInv, TypeOK, Book
<1> QED BY <1>1, RowAssumption DEF Snapshot

LEMMA CountTypes ==
  ASSUME TypeInv, history \in History
  PROVE  /\ history.uncounted \in Nat /\ book.trades \in 0 .. MaxTrades /\ MaxTrades \in Nat
         /\ \A d \in Dates : history.sent[d] \in Nat /\ Row(d) \in 0 .. MaxTrades
<1>1. history.uncounted \in Nat /\ \A d \in Dates : history.sent[d] \in Nat
  BY DEF History
<1>2. book.trades \in 0 .. MaxTrades /\ MaxTrades \in Nat
  BY ConfigAssumption DEF TypeInv, TypeOK
<1>3. ASSUME NEW d \in Dates PROVE Row(d) \in 0 .. MaxTrades
  <2>1. CASE store[d] = None
    BY <1>2, <2>1 DEF Row
  <2>2. CASE store[d] # None
    BY <2>2, RowTypes DEF Row, SessionState
  <2> QED BY <2>1, <2>2
<1> QED BY <1>1, <1>2, <1>3

LEMMA StartCount ==
  ASSUME TypeInv, history \in History, CountInv,
         NEW date \in Dates \cup {NoDate}, Start(date)
  PROVE  CountInv'
<1>1. /\ pc = "down" /\ pc' \in {"startup", "bar"} /\ store' = store
      /\ date # NoDate => date \in Dates /\ store[date] # None /\ book' = Restored(store[date])
      /\ date = NoDate => book' = FreshBook
  BY StartEffects, Zenon
<1>2. sess' = [date |-> NoDate, flattened |-> NoDate, pending |-> date # NoDate,
               resumed |-> date]
  BY StartEffects, Zenon
<1>3. Home' = date
  BY <1>2 DEF Home
<1>4. /\ history'.sent = history.sent /\ history'.uncounted = history.uncounted
      /\ history'.unsaved = FALSE
  BY <1>1, StartHistory DEF CountInv, History
<1>5. \A d \in Dates : /\ history.sent[d] <= Row(d) + history.uncounted
                       /\ Row(d)' = Row(d) /\ Loose(d)' = 0
  BY <1>1, <1>4, StartHistory, CountTypes DEF CountInv, Loose, Row
<1>6. Flying' = 0
  BY <1>1 DEF Flying
<1>7. date # NoDate => book'.trades = Row(date)
  BY <1>1 DEF Row, Restored
<1>8. date = NoDate => book'.trades = 0
  BY <1>1 DEF FreshBook
<1>9. date # NoDate => history.sent[date] <= book'.trades + history.uncounted
  BY <1>1, <1>5, <1>7
<1>10. \A d \in Dates : history'.sent[d] <= Row(d)' + history'.uncounted + Loose(d)'
  BY <1>4, <1>5, CountTypes
<1>11. date # NoDate => history'.sent[date] <= book'.trades + history'.uncounted + Flying'
  <2> SUFFICES ASSUME date # NoDate
               PROVE  history'.sent[date] <= book'.trades + history'.uncounted + Flying'
    OBVIOUS
  <2> QED BY <1>1, <1>4, <1>6, <1>7, <1>9, CountTypes
<1> QED BY <1>1, <1>3, <1>4, <1>8, <1>10, <1>11 DEF CountInv

(* A bar keeps the count of its session, and a session rolled into starts  *)
(* from zero, with nothing sent in it but what no row counts.              *)
LEMMA BarCount ==
  ASSUME TypeInv, ClockInv, history \in History, CountInv,
         NEW t \in Times, SkipBar(t) \/ ProcessBar(t)
  PROVE  CountInv'
<1>1. /\ Deliver(t) /\ store' = store
      /\ history'.sent = history.sent /\ history'.uncounted = history.uncounted
      /\ history'.unsaved = history.unsaved
      /\ pc' = "bar" \/ pc' = "strategy"
           \/ (pc' = "dispatch" /\ order' = Flatten(pos'.qty, "engine"))
  BY SkipEffects, ProcessEffects, BarHistory DEF SkipBar, Deliver
<1>2. pc = "bar" /\ ~history.unsaved
  BY <1>1, DeliverClock DEF CountInv
<1>3. \A d \in Dates : /\ history.sent[d] <= Row(d) + history.uncounted
                       /\ Row(d)' = Row(d) /\ Loose(d)' = 0
  BY <1>1, <1>2, CountTypes DEF CountInv, Loose, Row
<1>4. Flying' = 0 /\ Flying = 0
  BY <1>1, <1>2 DEF Flying
<1>5. pc' = "dispatch" => order'.intent = "FLATTEN"
  BY <1>1 DEF Flatten
<1>6. /\ Home' = NoDate => book'.trades = 0
      /\ Home' # NoDate => history.sent[Home'] <= book'.trades + history.uncounted
  <2>1. CASE sess' = sess /\ book' = book
    <3>1. Home' = Home
      BY <2>1 DEF Home
    <3>2. Home # NoDate => history.sent[Home] <= book.trades + history.uncounted
      BY <1>2, <1>4, HomeType, CountTypes DEF CountInv
    <3> QED BY <2>1, <3>1, <3>2 DEF CountInv
  <2>2. CASE /\ sess.resumed # NoDate => Day(t) >= sess.resumed
             /\ sess'.date = Day(t)
             /\ book'.trades = IF Rolled(Day(t)) THEN 0 ELSE book.trades
    <3>1. Home' = Day(t) /\ Day(t) \in Dates /\ Home' # NoDate
      BY <2>2, DateFacts DEF Home, NoDate
    <3>2. CASE Home = Day(t)
      <4>1. book'.trades = book.trades
        BY <1>1, <2>2, <3>2, TurnFacts
      <4> QED BY <1>2, <1>4, <3>1, <3>2, <4>1, CountTypes DEF CountInv
    <3>3. CASE Home # Day(t)
      <4>1. store[Day(t)] = None
        BY <1>1, <2>2, <3>3, TurnFacts
      <4>2. book'.trades = 0
        BY <1>1, <2>2, <3>3, TurnFacts DEF CountInv
      <4>3. Row(Day(t)) = 0
        BY <4>1 DEF Row
      <4> QED BY <1>3, <3>1, <4>2, <4>3
    <3> QED BY <3>2, <3>3
  <2>3. CASE SkipBar(t)
    BY <2>1, <2>2, <2>3, SkipEffects
  <2>4. CASE ProcessBar(t)
    BY <2>2, <2>4, ProcessEffects, ProcessClock
  <2> QED BY <2>3, <2>4
<1>7. \A d \in Dates : history'.sent[d] <= Row(d)' + history'.uncounted + Loose(d)'
  BY <1>1, <1>3, CountTypes
<1>8. Home' # NoDate => history'.sent[Home'] <= book'.trades + history'.uncounted + Flying'
  <2> SUFFICES ASSUME Home' # NoDate
               PROVE  history'.sent[Home'] <= book'.trades + history'.uncounted + Flying'
    OBVIOUS
  <2>1. TypeInv'
    BY SkipType, ProcessType
  <2>2. book'.trades \in Int /\ history.uncounted \in Nat
    BY <2>1, CountTypes DEF TypeInv, TypeOK
  <2> QED BY <1>1, <1>4, <1>6, <2>2
<1> QED BY <1>1, <1>2, <1>5, <1>6, <1>7, <1>8 DEF CountInv

(* The fan-out leaves the order as it is, but for the outcome.             *)
LEMMA DispatchEffects ==
  ASSUME TypeInv, Dispatch
  PROVE  /\ pc = "dispatch" /\ pc' = "settle" /\ order \in Signal /\ sess.date \in Dates
         /\ order'.intent = order.intent /\ order'.by = order.by /\ order'.qty = order.qty
         /\ UNCHANGED <<wall, store, cursor, last, win, sess, pos, book, recon, bounds>>
<1>1. /\ pc = "dispatch" /\ pc' = "settle" /\ order \in Signal /\ sess.date \in Dates
      /\ UNCHANGED <<wall, store, cursor, last, win, sess, pos, book, recon, bounds>>
  BY DEF Dispatch, TypeInv, Working
<1>2. PICK u : order' = [order EXCEPT !.unknown = u]
  BY DEF Dispatch
<1> QED BY <1>1, <1>2 DEF Signal

LEMMA DispatchCount ==
  ASSUME TypeInv, history \in History, CountInv, Dispatch
  PROVE  CountInv'
<1>1. /\ pc = "dispatch" /\ pc' = "settle" /\ sess.date \in Dates
      /\ order'.intent = order.intent /\ order'.by = order.by
      /\ order.intent \in {"ENTRY", "FLATTEN"}
      /\ UNCHANGED <<store, sess, book>>
  BY DispatchEffects DEF Signal
<1>2. ~history.unsaved
  BY <1>1 DEF CountInv
<1>3. /\ history'.uncounted = history.uncounted
      /\ history'.unsaved = (order.intent = "ENTRY")
      /\ \A d \in Dates : history'.sent[d] = IF d = sess.date /\ order.intent = "ENTRY"
                                             THEN history.sent[d] + 1 ELSE history.sent[d]
  BY <1>1, <1>2, DispatchHistory
<1>4. Home = sess.date /\ Home' = sess.date /\ Home # NoDate
  BY <1>1, DateFacts DEF Home, NoDate
<1>5. Flying = 0 /\ Flying' = IF order.intent = "ENTRY" THEN 1 ELSE 0
  BY <1>1 DEF Flying
<1>6. \A d \in Dates : /\ Row(d)' = Row(d) /\ Loose(d) = 0
                       /\ Loose(d)' = IF order.intent = "ENTRY" /\ d = sess.date
                                      THEN 1 ELSE 0
  BY <1>1, <1>2, <1>3 DEF Row, Loose
<1>7. \A d \in Dates : history'.sent[d] <= Row(d)' + history'.uncounted + Loose(d)'
  BY <1>3, <1>6, CountTypes DEF CountInv
<1>8. history'.sent[sess.date] <= book.trades + history.uncounted + Flying'
  BY <1>1, <1>3, <1>4, <1>5, CountTypes DEF CountInv
<1> QED BY <1>1, <1>3, <1>4, <1>7, <1>8 DEF CountInv

LEMMA SettleCount ==
  ASSUME TypeInv, history \in History, CountInv, Settle
  PROVE  CountInv'
<1>1. /\ pc = "settle" /\ order.intent \in {"ENTRY", "FLATTEN"}
      /\ pc' = IF order.by = "engine" THEN "strategy" ELSE "persist"
      /\ history'.sent = history.sent
      /\ UNCHANGED <<store, sess>> /\ sess.date \in Dates
  BY SettleEffects DEF Settle, Signal, TypeInv, Working
<1>2. Home = sess.date /\ Home' = sess.date /\ Home # NoDate
  BY <1>1, DateFacts DEF Home, NoDate
<1>3. Flying' = 0 /\ \A d \in Dates : Row(d)' = Row(d)
  BY <1>1 DEF Flying, Row
<1>4. CASE order.intent = "FLATTEN"
  <2>1. /\ book'.trades = book.trades /\ history'.uncounted = history.uncounted
        /\ history'.unsaved = history.unsaved /\ ~history.unsaved /\ Flying = 0
    BY <1>1, <1>4, SettleEffects DEF CountInv, Flying
  <2>2. \A d \in Dates : Loose(d) = 0 /\ Loose(d)' = 0
    BY <2>1 DEF Loose
  <2> QED BY <1>1, <1>2, <1>3, <2>1, <2>2, CountTypes DEF CountInv
<1>5. CASE order.intent = "ENTRY"
  <2>1. pc' = "persist" /\ history.unsaved /\ Flying = 1
    BY <1>1, <1>5 DEF CountInv, Flying
  <2>2. CASE /\ book'.trades = book.trades + 1 /\ history'.uncounted = history.uncounted
             /\ history'.unsaved = history.unsaved
    <3>1. \A d \in Dates : Loose(d)' = Loose(d)
      BY <1>1, <2>2 DEF Loose
    <3> QED BY <1>1, <1>2, <1>3, <2>1, <2>2, <3>1, CountTypes DEF CountInv
  <2>3. CASE /\ book'.trades = book.trades /\ history'.uncounted = history.uncounted + 1
             /\ history'.unsaved = FALSE
    <3>1. \A d \in Dates : Loose(d) \in {0, 1} /\ Loose(d)' = 0
      BY <2>3 DEF Loose
    <3> QED BY <1>1, <1>2, <1>3, <2>1, <2>3, <3>1, CountTypes DEF CountInv
  <2> QED BY <1>5, <2>2, <2>3, SettleEffects
<1> QED BY <1>1, <1>4, <1>5

(* A save counts everything sent in its session.                           *)
LEMMA PersistCount ==
  ASSUME TypeInv, history \in History, CountInv, Persist
  PROVE  CountInv'
<1>1. /\ pc = "persist" /\ pc' \in {"interval", "bar"} /\ sess.date \in Dates
      /\ store' = [store EXCEPT ![sess.date] = Snapshot] /\ UNCHANGED <<sess, book>>
  BY Zenon DEF Persist, Saved, TypeInv, Working
<1>2. /\ history'.sent = history.sent /\ history'.uncounted = history.uncounted
      /\ history'.unsaved = FALSE
  BY <1>1, PersistHistory
<1>3. \A d \in Dates : Row(d)' = IF d = sess.date THEN book.trades ELSE Row(d)
  <2>1. \A d \in Dates : store'[d] = IF d = sess.date THEN Snapshot ELSE store[d]
    BY <1>1 DEF TypeInv, TypeOK
  <2>2. Snapshot # None /\ Snapshot.trades = book.trades
    BY <1>1, SnapshotFacts, DateFacts DEF NoDate
  <2> QED BY <2>1, <2>2 DEF Row
<1>4. Home = sess.date /\ Home' = sess.date /\ Home # NoDate
  BY <1>1, DateFacts DEF Home, NoDate
<1>5. Flying = 0 /\ Flying' = 0 /\ \A d \in Dates : Loose(d)' = 0
  BY <1>1, <1>2 DEF Flying, Loose
<1>6. \A d \in Dates : d # sess.date => Loose(d) = 0
  BY DEF Loose
<1>7. history.sent[sess.date] <= book.trades + history.uncounted
  BY <1>1, <1>4, <1>5, CountTypes DEF CountInv
<1>8. \A d \in Dates : history.sent[d] <= Row(d)' + history.uncounted
  BY <1>3, <1>6, <1>7, CountTypes DEF CountInv
<1>9. \A d \in Dates : history'.sent[d] <= Row(d)' + history'.uncounted + Loose(d)'
  BY <1>2, <1>3, <1>5, <1>8, CountTypes
<1>10. history'.sent[sess.date] <= book'.trades + history'.uncounted + Flying'
  BY <1>1, <1>2, <1>5, <1>7, CountTypes
<1> QED BY <1>1, <1>2, <1>4, <1>9, <1>10 DEF CountInv

(* A process that ends leaves its unsaved entry to the uncounted ones.     *)
LEMMA EndCount ==
  ASSUME TypeInv, history \in History, CountInv, Crash \/ Stop
  PROVE  CountInv'
<1>1. /\ pc # "down" /\ pc' = "down" /\ sess'.date = NoDate /\ sess'.resumed = NoDate
      /\ book'.trades = 0
  BY DEF Crash, Stop, Forget, FreshSess, FreshBook
<1>2. sess \in Session
  BY DEF TypeInv, TypeOK, Session
<1>3. /\ Home' = NoDate /\ Flying' = 0
  BY <1>1 DEF Home, Flying
<1>4. history'.sent = history.sent /\ history'.unsaved = FALSE
  BY <1>2, CrashHistory, StopHistory
<1>5. \A d \in Dates : Loose(d)' = 0 /\ Loose(d) = IF history.unsaved /\ d = sess.date
                                                  THEN 1 ELSE 0
  BY <1>4 DEF Loose
<1>6. CASE /\ store' = store
           /\ history'.uncounted = IF history.unsaved THEN history.uncounted + 1
                                   ELSE history.uncounted
  <2>1. \A d \in Dates : Row(d)' = Row(d)
    BY <1>6 DEF Row
  <2> QED BY <1>1, <1>3, <1>4, <1>5, <1>6, <2>1, CountTypes DEF CountInv
<1>7. CASE /\ sess.date # NoDate /\ store' = [store EXCEPT ![sess.date] = Snapshot]
           /\ history'.uncounted = IF history.unsaved /\ pc = "settle"
                                   THEN history.uncounted + 1 ELSE history.uncounted
  <2>1. sess.date \in Dates /\ Home = sess.date
    BY <1>2, <1>7 DEF Session, Home
  <2>2. \A d \in Dates : Row(d)' = IF d = sess.date THEN book.trades ELSE Row(d)
    <3>1. \A d \in Dates : store'[d] = IF d = sess.date THEN Snapshot ELSE store[d]
      BY <1>7 DEF TypeInv, TypeOK
    <3> QED BY <1>7, <3>1, SnapshotFacts DEF Row
  <2>3. history.sent[sess.date] <= book.trades + history.uncounted + Flying
    BY <1>1, <1>7, <2>1 DEF CountInv
  <2>4. Flying = 0 \/ (Flying = 1 /\ history.unsaved /\ pc = "settle")
    BY DEF Flying, CountInv
  <2>5. history'.uncounted \in Nat /\ history.uncounted <= history'.uncounted
    BY <1>7, CountTypes
  <2>6. history.sent[sess.date] <= book.trades + history'.uncounted
    BY <1>7, <2>1, <2>3, <2>4, CountTypes
  <2>7. \A d \in Dates : d # sess.date => history.sent[d] <= Row(d) + history'.uncounted
    BY <1>5, <2>5, CountTypes DEF CountInv
  <2>8. \A d \in Dates : history.sent[d] <= Row(d)' + history'.uncounted
    BY <2>2, <2>6, <2>7
  <2>9. \A d \in Dates : history'.sent[d] <= Row(d)' + history'.uncounted + Loose(d)'
    BY <1>4, <1>5, <2>2, <2>5, <2>8, CountTypes
  <2> QED BY <1>1, <1>3, <1>4, <2>9 DEF CountInv
<1> QED BY <1>2, <1>6, <1>7, CrashHistory, StopHistory DEF Crash

LEMMA RestCount ==
  ASSUME TypeInv, history \in History, CountInv, Rest, ~Dispatch, ~Settle
  PROVE  CountInv'
<1>1. /\ sess' = sess /\ store' = store /\ (pc' # "down" => pc # "down")
  BY RestFacts
<1>2. /\ history'.sent = history.sent /\ history'.unsaved = history.unsaved
      /\ history'.uncounted = history.uncounted
  <2>1. CASE StartupReconcile \/ IntervalReconcile
    BY <2>1, ReconcileHistory DEF StartupReconcile, IntervalReconcile
  <2>2. CASE history' = history
    BY <2>2
  <2> QED BY <2>1, <2>2 DEF Rest, StrategyQuiet, StrategyRaises, StrategySignals, Tick,
          LateAnswer, BrokerCloses, vars
<1>3. book'.trades = book.trades
  BY RestFacts DEF StrategyRaises, TypeInv, TypeOK
<1>4. Home' = Home /\ \A d \in Dates : Row(d)' = Row(d) /\ Loose(d)' = Loose(d)
  BY <1>1, <1>2 DEF Home, Row, Loose
<1>5. CASE pc' = pc /\ order' = order
  BY <1>1, <1>2, <1>3, <1>4, <1>5 DEF CountInv, Flying
<1>6. CASE /\ pc \in {"startup", "interval", "strategy"} /\ pc' \notin {"dispatch", "settle"}
  <2>1. ~history.unsaved /\ Flying = 0 /\ Flying' = 0
    BY <1>6 DEF CountInv, Flying
  <2> QED BY <1>1, <1>2, <1>3, <1>4, <1>6, <2>1 DEF CountInv
<1>7. ASSUME NEW sig \in Signals, StrategySignals(sig) PROVE CountInv'
  <2>1. pc = "strategy" /\ pc' = "dispatch" /\ order' = sig
    BY <1>7 DEF StrategySignals
  <2>2. sig.intent = "ENTRY" => sig.by = "strategy"
    BY DEF Signals, Entry, Flatten
  <2>3. ~history.unsaved /\ Flying = 0 /\ Flying' = 0
    BY <2>1 DEF CountInv, Flying
  <2> QED BY <1>1, <1>2, <1>3, <1>4, <2>1, <2>2, <2>3 DEF CountInv
<1> QED BY <1>5, <1>6, <1>7 DEF Rest, StartupReconcile, IntervalReconcile, StrategyQuiet,
        StrategyRaises, AfterStrategy, Tick, LateAnswer, BrokerCloses, vars, memory

LEMMA CountInductive == Spec => [](TypeInv /\ history \in History /\ CountInv)
<1>1. Init => CountInv
  <2> SUFFICES ASSUME Init PROVE CountInv
    OBVIOUS
  <2>1. Home = NoDate /\ \A d \in Dates : Row(d) = 0 /\ Loose(d) = 0
    BY DEF Init, Home, FreshSess, Row, Loose
  <2> QED BY <2>1 DEF Init, CountInv, FreshBook
<1>2. TypeInv /\ ClockInv /\ history \in History /\ CountInv /\ [Next]_vars => CountInv'
  <2> SUFFICES ASSUME TypeInv, ClockInv, history \in History, CountInv, [Next]_vars
               PROVE  CountInv'
    OBVIOUS
  <2>1. ASSUME NEW date \in Dates \cup {NoDate}, Start(date) PROVE CountInv'
    BY <2>1, StartCount
  <2>2. ASSUME NEW t \in Times, SkipBar(t) \/ ProcessBar(t) PROVE CountInv'
    BY <2>2, BarCount
  <2>3. CASE Dispatch \/ Settle
    BY <2>3, DispatchCount, SettleCount
  <2>4. CASE Persist
    BY <2>4, PersistCount
  <2>5. CASE Crash \/ Stop
    BY <2>5, EndCount
  <2>6. CASE Rest /\ ~Dispatch /\ ~Settle
    BY <2>6, RestCount
  <2> QED BY <2>1, <2>2, <2>3, <2>4, <2>5, <2>6, Zenon DEF Next, BarStep, Rest
<1> QED BY <1>1, <1>2, HistoryInductive, PTL DEF Spec

(* EntriesBounded: however often the process dies and comes back, the      *)
(* entries sent in a session stay within risk.max_trades_per_day, but for  *)
(* those whose count was lost.                                             *)
THEOREM EntriesStayBounded == Spec => []EntriesBounded
<1>1. TypeInv /\ history \in History /\ CountInv => EntriesBounded
  <2> SUFFICES ASSUME TypeInv, history \in History, CountInv, NEW d \in Dates
               PROVE  history.sent[d] <= MaxTrades + history.uncounted
    BY DEF EntriesBounded
  <2>1. CASE Loose(d) = 0
    BY <2>1, CountTypes DEF CountInv
  <2>2. CASE history.unsaved /\ d = sess.date
    <3>1. pc \in {"persist", "settle"} /\ sess.date = Home /\ Home # NoDate
      BY <2>2, DateFacts DEF CountInv, TypeInv, Working, Home, NoDate
    <3>2. history.sent[d] <= book.trades + history.uncounted + Flying
      BY <2>2, <3>1 DEF CountInv
    <3>3. Flying = 0 \/ (Flying = 1 /\ book.trades < MaxTrades)
      BY <3>1 DEF Flying, TypeInv
    <3> QED BY <3>2, <3>3, CountTypes
  <2> QED BY <2>1, <2>2 DEF Loose
<1> QED BY <1>1, CountInductive, PTL

-----------------------------------------------------------------------------
(* What the restored state has seen of the tape, a row or a process knows: *)
(* the last bar applied to it is not after the last bar it remembers, nor  *)
(* after the one it resumes from.  A teardown saves the replayed position  *)
(* where a replay may be short of it, so this needs a live feed or none.   *)
AppliedInv ==
  /\ \A d \in Dates : store[d] # None => history.saved[d] <= store[d].last
  /\ pc # "down" => history.applied <= last \/ history.applied <= win.resume
  /\ Live => cursor >= win.resume

LEMMA RestHistory ==
  ASSUME TypeInv, history \in History, Rest
  PROVE  history'.applied = history.applied /\ history'.saved = history.saved
<1>1. CASE StartupReconcile \/ IntervalReconcile
  BY <1>1, ReconcileHistory DEF StartupReconcile, IntervalReconcile
<1>2. CASE Dispatch
  <2>1. sess.date \in Dates /\ order.intent \in {"ENTRY", "FLATTEN"}
    BY <1>2, DispatchEffects DEF Signal
  <2> QED BY <1>2, <2>1, DispatchHistory
<1>3. CASE Settle
  BY <1>3, SettleEffects
<1>4. CASE history' = history
  BY <1>4
<1> QED BY <1>1, <1>2, <1>3, <1>4 DEF Rest, StrategyQuiet, StrategyRaises, StrategySignals, Tick,
        LateAnswer, BrokerCloses, vars

LEMMA AppliedTypes ==
  ASSUME TypeInv, history \in History
  PROVE  /\ last \in Int /\ cursor \in Int /\ win.resume \in Int /\ wall \in Nat
         /\ history.applied \in Int
         /\ \A d \in Dates : history.saved[d] \in Times \cup {NoTime} /\ history.saved[d] \in Int
<1>1. Times \cup {NoTime} \subseteq Int /\ Times \subseteq Nat /\ wall \in Times
  BY DateFacts DEF NoTime, TypeInv, TypeOK
<1>2. /\ history.applied \in Times \cup {NoTime}
      /\ \A d \in Dates : history.saved[d] \in Times \cup {NoTime}
  BY DEF History
<1> QED BY <1>1, <1>2, ClockTypes

LEMMA StartApplied ==
  ASSUME TypeInv, history \in History, AppliedInv,
         NEW date \in Dates \cup {NoDate}, Start(date)
  PROVE  AppliedInv'
<1>1. /\ last' = NoTime /\ store' = store
      /\ date = NoDate => win'.resume = NoTime /\ cursor' = (IF Live THEN wall ELSE 0)
      /\ date # NoDate => /\ date \in Dates /\ store[date] # None
                          /\ win'.resume = store[date].last
                          /\ cursor' = (IF Live THEN store[date].last ELSE 0)
  BY StartEffects, Zenon
<1>2. /\ history'.saved = history.saved
      /\ history'.applied = IF date = NoDate THEN NoTime ELSE history.saved[date]
  BY StartHistory
<1>3. CASE date = NoDate
  <2>1. history'.applied <= last'
    BY <1>1, <1>2, <1>3 DEF NoTime
  <2>2. Live => cursor' >= win'.resume
    BY <1>1, <1>3, AppliedTypes DEF NoTime
  <2> QED BY <1>1, <1>2, <2>1, <2>2 DEF AppliedInv
<1>4. CASE date # NoDate
  <2>1. history'.applied <= win'.resume
    BY <1>1, <1>2, <1>4 DEF AppliedInv
  <2>2. store[date].last \in Int
    BY <1>1, <1>4, RowTypes DEF Times
  <2>3. Live => cursor' >= win'.resume
    BY <1>1, <1>4, <2>2
  <2> QED BY <1>1, <1>2, <2>1, <2>3 DEF AppliedInv
<1> QED BY <1>3, <1>4

LEMMA BarApplied ==
  ASSUME TypeInv, ClockInv, history \in History, AppliedInv,
         NEW t \in Times, SkipBar(t) \/ ProcessBar(t)
  PROVE  AppliedInv'
<1>1. /\ Deliver(t) /\ store' = store /\ win' = win
      /\ history'.saved = history.saved
      /\ history'.applied = history.applied \/ history'.applied = t
  BY SkipEffects, ProcessEffects, BarHistory
<1>2. last' = t /\ cursor' = t /\ t > last /\ t > cursor /\ pc = "bar" /\ t \in Int
  BY <1>1, DeliverClock, DateFacts
<1>3. history'.applied <= last' \/ history'.applied <= win'.resume
  BY <1>1, <1>2, AppliedTypes DEF AppliedInv
<1>4. Live => cursor' >= win'.resume
  BY <1>1, <1>2, AppliedTypes DEF AppliedInv
<1> QED BY <1>1, <1>3, <1>4 DEF AppliedInv

LEMMA SaveApplied ==
  ASSUME TypeInv, history \in History, AppliedInv, sess.date # NoDate,
         history.applied <= last,
         store' = [store EXCEPT ![sess.date] = Snapshot],
         \A d \in Dates : history'.saved[d] = IF d = sess.date THEN history.applied
                                              ELSE history.saved[d]
  PROVE  \A d \in Dates : store'[d] # None => history'.saved[d] <= store'[d].last
<1>1. \A d \in Dates : store'[d] = IF d = sess.date THEN Snapshot ELSE store[d]
  BY DEF TypeInv, TypeOK
<1> QED BY <1>1, SnapshotFacts DEF AppliedInv

LEMMA PersistApplied ==
  ASSUME TypeInv, ClockInv, history \in History, AppliedInv, Persist
  PROVE  AppliedInv'
<1>1. /\ pc = "persist" /\ store' = [store EXCEPT ![sess.date] = Snapshot]
      /\ UNCHANGED <<cursor, last, win, sess>> /\ sess.date \in Dates
  BY Zenon DEF Persist, Saved, TypeInv, Working
<1>2. sess.date # NoDate /\ last > win.resume
  BY <1>1, DateFacts DEF ClockInv, Working, NoDate
<1>3. history.applied <= last
  BY <1>1, <1>2, AppliedTypes DEF AppliedInv
<1>4. /\ history'.applied = history.applied
      /\ \A d \in Dates : history'.saved[d] = IF d = sess.date THEN history.applied
                                              ELSE history.saved[d]
  BY <1>1, PersistHistory
<1>5. \A d \in Dates : store'[d] # None => history'.saved[d] <= store'[d].last
  BY <1>1, <1>2, <1>3, <1>4, SaveApplied
<1> QED BY <1>1, <1>3, <1>4, <1>5 DEF AppliedInv

(* A live process is past the bar it resumes from once it has seen one.    *)
LEMMA EndApplied ==
  ASSUME TypeInv, ClockInv, history \in History, AppliedInv, Live \/ MaxStops = 0,
         Crash \/ Stop
  PROVE  AppliedInv'
<1>1. /\ pc' = "down" /\ cursor' = 0 /\ win'.resume = NoTime
  BY DEF Crash, Stop, Forget, FreshWin
<1>2. Live => cursor' >= win'.resume
  BY <1>1 DEF NoTime
<1>3. CASE store' = store /\ history'.saved = history.saved
  BY <1>1, <1>2, <1>3 DEF AppliedInv
<1>4. CASE /\ Stop /\ sess.date # NoDate /\ store' = [store EXCEPT ![sess.date] = Snapshot]
           /\ \A d \in Dates : history'.saved[d] = IF d = sess.date THEN history.applied
                                                   ELSE history.saved[d]
  <2>1. Live /\ pc # "down"
    BY <1>4, ConfigAssumption DEF Stop, TypeInv, TypeOK
  <2>2. last = cursor
    BY <1>4, DateFacts DEF TypeInv, ClockInv, NoTime
  <2>3. history.applied <= last
    BY <2>1, <2>2, AppliedTypes DEF AppliedInv
  <2> QED BY <1>1, <1>2, <1>4, <2>3, SaveApplied DEF AppliedInv
<1>5. sess \in Session
  BY DEF TypeInv, TypeOK, Session
<1>6. CASE Crash
  <2>1. store' = store /\ history'.saved = history.saved
    BY <1>6, CrashHistory DEF Crash
  <2> QED BY <1>3, <2>1
<1>7. CASE Stop
  <2>1. \/ store' = store /\ history'.saved = history.saved
        \/ /\ sess.date # NoDate /\ store' = [store EXCEPT ![sess.date] = Snapshot]
           /\ \A d \in Dates : history'.saved[d] = IF d = sess.date THEN history.applied
                                                   ELSE history.saved[d]
    BY <1>5, <1>7, StopHistory, Zenon
  <2> QED BY <1>3, <1>4, <1>7, <2>1
<1> QED BY <1>6, <1>7

LEMMA RestApplied ==
  ASSUME TypeInv, history \in History, AppliedInv, Rest
  PROVE  AppliedInv'
<1>1. /\ UNCHANGED <<cursor, last, win, store>> /\ (pc' # "down" => pc # "down")
  BY RestFacts
<1> QED BY <1>1, RestHistory DEF AppliedInv

LEMMA AppliedInductive ==
  (Live \/ MaxStops = 0) /\ Spec => [](TypeInv /\ ClockInv /\ history \in History /\ AppliedInv)
<1> SUFFICES ASSUME Live \/ MaxStops = 0
             PROVE  Spec => [](TypeInv /\ ClockInv /\ history \in History /\ AppliedInv)
  OBVIOUS
<1>1. Init => AppliedInv
  BY DEF Init, AppliedInv, FreshWin, NoTime
<1>2. TypeInv /\ ClockInv /\ history \in History /\ AppliedInv /\ [Next]_vars => AppliedInv'
  <2> SUFFICES ASSUME TypeInv, ClockInv, history \in History, AppliedInv, [Next]_vars
               PROVE  AppliedInv'
    OBVIOUS
  <2>1. ASSUME NEW date \in Dates \cup {NoDate}, Start(date) PROVE AppliedInv'
    BY <2>1, StartApplied
  <2>2. ASSUME NEW t \in Times, SkipBar(t) \/ ProcessBar(t) PROVE AppliedInv'
    BY <2>2, BarApplied
  <2>3. CASE Persist
    BY <2>3, PersistApplied
  <2>4. CASE Crash \/ Stop
    BY <2>4, EndApplied
  <2>5. CASE Rest
    BY <2>5, RestApplied
  <2> QED BY <2>1, <2>2, <2>3, <2>4, <2>5, Zenon DEF Next, BarStep, Rest
<1> QED BY <1>1, <1>2, HistoryInductive, PTL DEF Spec

(* AppliedOnce: with a live feed, or without orderly teardowns, no bar is  *)
(* applied a second time to the state a process works on ("replaying them  *)
(* would double-count state that is already there", feed/base.py).         *)
THEOREM AppliedAtMostOnce == (Live \/ MaxStops = 0) /\ Spec => AppliedOnce
<1>1. TypeInv /\ ClockInv /\ history \in History /\ AppliedInv /\ [Next]_vars
        => [\A t \in Times : ProcessBar(t) => t > history.applied]_vars
  <2> SUFFICES ASSUME TypeInv, ClockInv, history \in History, AppliedInv,
                      NEW t \in Times, ProcessBar(t)
               PROVE  t > history.applied
    OBVIOUS
  <2>1. pc = "bar" /\ t > last /\ t > win.resume /\ t \in Int
    BY ProcessEffects, DeliverClock, DateFacts
  <2> QED BY <2>1, AppliedTypes DEF AppliedInv
<1> QED BY <1>1, AppliedInductive, PTL DEF Spec, AppliedOnce

-----------------------------------------------------------------------------
(* The deployments in which nothing but the agent opens a position, and    *)
(* none comes back in warmup: no position source, and one process, or a    *)
(* replay whose processes are killed.                                      *)
Unbroken == ~HasSource /\ (MaxStarts <= 1 \/ (~Live /\ MaxStops = 0))

Routing == {"dispatch", "settle"}

(* Past the cutoff a process holds nothing, or its flatten is on the way:  *)
(* neither do the rows, and the session's one flatten has not been spent   *)
(* before the cutoff.                                                      *)
FlatInv ==
  /\ starts = 0 => pc = "down" /\ \A d \in Dates : store[d] = None
  /\ MaxStarts > 1 =>
       \A d \in Dates : store[d] # None /\ Slot(store[d].last) >= Cutoff => store[d].pos = None
  /\ pc # "down" => cursor >= win.backfill
  /\ sess.flattened # NoDate => sess.flattened <= sess.date
  /\ sess.flattened # NoDate /\ sess.flattened = sess.date => Slot(last) >= Cutoff
  /\ last <= win.resume /\ Slot(win.resume) >= Cutoff => pos = None
  /\ last > win.resume /\ Slot(last) >= Cutoff =>
       /\ pos = None \/ pc \in Routing
       /\ pc \in Routing => order.intent = "FLATTEN"

LEMMA StartFlat ==
  ASSUME Unbroken, TypeInv, FlatInv, NEW date \in Dates \cup {NoDate}, Start(date)
  PROVE  FlatInv'
<1>1. /\ last' = NoTime /\ store' = store /\ starts' = starts + 1 /\ starts < MaxStarts
      /\ pc' \in {"startup", "bar"}
      /\ win'.backfill = (IF Live THEN wall ELSE NoTime)
      /\ date = NoDate => win'.resume = NoTime /\ pos' = None
                          /\ cursor' = (IF Live THEN wall ELSE 0)
      /\ date # NoDate => /\ date \in Dates /\ store[date] # None
                          /\ win'.resume = store[date].last /\ pos' = store[date].pos
                          /\ cursor' = (IF Live THEN store[date].last ELSE 0)
  BY StartEffects, Zenon
<1>2. sess' = [date |-> NoDate, flattened |-> NoDate, pending |-> date # NoDate,
               resumed |-> date]
  BY StartEffects, Zenon
<1>3. starts \in Nat /\ MaxStarts \in Nat /\ wall \in Nat
  BY ConfigAssumption, DateFacts DEF TypeInv, TypeOK
<1>4. starts' # 0 /\ sess'.flattened = NoDate
  BY <1>1, <1>2, <1>3
<1>5. win'.resume \in Times \cup {NoTime}
  BY <1>1, RowTypes
<1>6. last' <= win'.resume /\ ~(last' > win'.resume)
  <2>1. \A t \in Times \cup {NoTime} : NoTime <= t /\ ~(NoTime > t)
    BY DateFacts DEF NoTime
  <2> QED BY <1>1, <1>5, <2>1
<1>7. CASE date = NoDate
  <2>1. cursor' >= win'.backfill
    BY <1>1, <1>3, <1>7 DEF NoTime
  <2> QED BY <1>1, <1>4, <1>6, <1>7, <2>1 DEF FlatInv, Routing
<1>8. CASE date # NoDate
  <2>1. starts # 0
    BY <1>1, <1>8 DEF FlatInv
  <2>2. MaxStarts > 1 /\ ~Live
    BY <1>1, <1>3, <2>1 DEF Unbroken
  <2>3. cursor' >= win'.backfill
    BY <1>1, <1>8, <2>2 DEF NoTime
  <2>4. Slot(win'.resume) >= Cutoff => pos' = None
    BY <1>1, <1>8, <2>2 DEF FlatInv
  <2> QED BY <1>1, <1>4, <1>6, <2>3, <2>4 DEF FlatInv
<1> QED BY <1>7, <1>8

(* The session's flatten, once spent, was spent at or past the cutoff of   *)
(* the session of the bar that finds it so.                                *)
LEMMA FlattenedFacts ==
  ASSUME TypeInv, ClockInv, FlatInv, NEW t \in Times, Deliver(t)
  PROVE  /\ sess.flattened # NoDate => sess.date # NoDate /\ sess.flattened <= Day(t)
         /\ sess.flattened = Day(t) =>
              /\ last \in Times /\ last < t /\ Day(last) = Day(t)
              /\ Slot(last) >= Cutoff /\ Slot(t) >= Cutoff
<1>1. /\ t > last /\ (sess.date # NoDate => sess.date <= Day(t))
      /\ Day(t) \in Nat /\ Day(t) # NoDate
  <2>1. Day(t) \in Nat /\ Day(t) # NoDate
    BY BarFacts DEF NoDate
  <2> QED BY <2>1, DeliverClock
<1>2. sess.flattened \in Dates \cup {NoDate} /\ sess.date \in Dates \cup {NoDate}
  BY DEF TypeInv, TypeOK
<1>3. sess.flattened # NoDate =>
        /\ sess.flattened \in Nat /\ sess.date # NoDate /\ sess.date \in Nat
        /\ sess.flattened <= sess.date
  <2> SUFFICES ASSUME sess.flattened # NoDate
               PROVE  /\ sess.flattened \in Nat /\ sess.date # NoDate /\ sess.date \in Nat
                      /\ sess.flattened <= sess.date
    OBVIOUS
  <2>1. sess.flattened \in Nat /\ sess.flattened <= sess.date
    BY <1>2, DateFacts DEF FlatInv
  <2>2. sess.date # NoDate
    BY <2>1 DEF NoDate
  <2> QED BY <1>2, <2>1, <2>2, DateFacts
<1>4. sess.flattened # NoDate => sess.date # NoDate /\ sess.flattened <= Day(t)
  BY <1>1, <1>3
<1>5. ASSUME sess.flattened = Day(t)
      PROVE  /\ last \in Times /\ last < t /\ Day(last) = Day(t)
             /\ Slot(last) >= Cutoff /\ Slot(t) >= Cutoff
  <2>1. sess.date = Day(t) /\ sess.date # NoDate
    BY <1>1, <1>3, <1>5
  <2>2. last \in Times /\ Day(last) = Day(t) /\ Slot(last) >= Cutoff
    BY <1>1, <1>5, <2>1 DEF TypeInv, ClockInv, FlatInv
  <2>3. last < t
    BY <1>1, <2>2, BarFacts
  <2>4. Slot(last) \in Int /\ Slot(t) \in Int /\ Cutoff \in Int /\ Slot(last) <= Slot(t)
    <3>1. Slot(last) <= Slot(t)
      BY <2>2, <2>3, ClockFacts, DateFacts
    <3> QED BY <2>2, <3>1, BarFacts
  <2> QED BY <2>2, <2>3, <2>4
<1> QED BY <1>4, <1>5

LEMMA SkipFlat ==
  ASSUME TypeInv, ClockInv, FlatInv, NEW t \in Times, SkipBar(t)
  PROVE  FlatInv'
<1>1. /\ Deliver(t) /\ t <= win.resume /\ pc' = pc /\ store' = store /\ win' = win
      /\ pos' = pos /\ starts' = starts /\ pc = "bar"
      /\ cursor' = t /\ last' = t /\ t > cursor /\ t > last
  BY SkipEffects, DeliverClock
<1>2. /\ t \in Int /\ cursor \in Int /\ last \in Int
      /\ win.resume \in Times /\ win.resume \in Int /\ win.backfill \in Int
  <2>1. t \in Nat
    BY BarFacts
  <2>2. win.resume # NoTime
    BY <1>1, <2>1 DEF NoTime
  <2>3. win.resume \in Times \cup {NoTime}
    BY DEF TypeInv, TypeOK
  <2> QED BY <2>1, <2>2, <2>3, ClockTypes
<1>3. last <= win.resume /\ ~(last' > win'.resume)
  BY <1>1, <1>2
<1>4. cursor' >= win'.backfill
  BY <1>1, <1>2 DEF FlatInv
<1>5. /\ sess'.flattened # NoDate => sess'.flattened <= sess'.date
      /\ sess'.flattened # NoDate /\ sess'.flattened = sess'.date => Slot(t) >= Cutoff
  <2>1. CASE /\ sess'.date = Day(t)
             /\ sess'.flattened \in {Day(t), sess.flattened}
             /\ sess'.flattened = Day(t) => Slot(t) >= Cutoff \/ sess.flattened = Day(t)
    <3> QED BY <1>1, <2>1, BarFacts, FlattenedFacts
  <2>2. CASE sess' = sess /\ ~(sess.resumed = NoDate \/ Day(t) >= sess.resumed)
    <3>1. sess.date = NoDate
      BY <1>1, <2>2, EarlierSession
    <3> QED BY <1>1, <2>2, <3>1, FlattenedFacts
  <2> QED BY <2>1, <2>2, SkipEffects
<1>6. last' <= win'.resume /\ Slot(win'.resume) >= Cutoff => pos' = None
  BY <1>1, <1>3 DEF FlatInv
<1> QED BY <1>1, <1>3, <1>4, <1>5, <1>6 DEF FlatInv

(* A bar past the cutoff closes what is open: the flatten of its session   *)
(* is still to be spent, and it is not in warmup.                          *)
LEMMA ProcessFlat ==
  ASSUME TypeInv, ClockInv, FlatInv, NEW t \in Times, ProcessBar(t)
  PROVE  FlatInv'
<1>1. /\ Deliver(t) /\ t > win.resume /\ store' = store /\ win' = win
      /\ pos' \in {pos, None} /\ starts' = starts /\ pc = "bar"
      /\ cursor' = t /\ last' = t /\ t > cursor /\ t > last
      /\ sess'.date = Day(t)
  BY ProcessEffects, DeliverClock
<1> DEFINE cut == pos' # None /\ sess.flattened # Day(t) /\ Slot(t) >= Cutoff
<1>2. /\ sess'.flattened = IF cut THEN Day(t) ELSE sess.flattened
      /\ \/ order' = None /\ pc' = "strategy" /\ (cut => t <= win.backfill)
         \/ order' = Flatten(pos'.qty, "engine") /\ pc' = "dispatch"
  BY ProcessEffects, Zenon
<1>3. /\ t \in Int /\ cursor \in Int /\ last \in Int /\ win.backfill \in Int
      /\ win.resume \in Times \cup {NoTime} /\ win.resume \in Int
  <2>1. win.resume \in Times \cup {NoTime}
    BY DEF TypeInv, TypeOK
  <2> QED BY <2>1, BarFacts, ClockTypes
<1>4. cursor' >= win'.backfill /\ t > win.backfill /\ ~(t <= win.backfill)
  BY <1>1, <1>3 DEF FlatInv
<1>5. ~(last' <= win'.resume)
  BY <1>1, <1>3
<1>6. /\ sess'.flattened # NoDate => sess'.flattened <= sess'.date
      /\ sess'.flattened # NoDate /\ sess'.flattened = sess'.date => Slot(t) >= Cutoff
  <2> QED BY <1>1, <1>2, BarFacts, FlattenedFacts
<1>7. ASSUME Slot(t) >= Cutoff, pos' # None PROVE cut
  <2> SUFFICES ASSUME sess.flattened = Day(t) PROVE FALSE
    BY <1>7
  <2>1. /\ last \in Times /\ last < t /\ Day(last) = Day(t) /\ Slot(last) >= Cutoff
    BY <1>1, FlattenedFacts
  <2>2. pos # None
    BY <1>1, <1>7
  <2>3. last <= win.resume
    BY <1>1, <1>3, <2>1, <2>2 DEF FlatInv, Routing
  <2>4. win.resume \in Times
    BY <1>3, <2>1, <2>3, DateFacts DEF NoTime
  <2>5. Day(win.resume) = Day(last)
    <3>1. Day(last) <= Day(win.resume) /\ Day(win.resume) <= Day(t)
      BY <1>1, <1>3, <2>1, <2>3, <2>4, ClockFacts
    <3> QED BY <2>1, <2>4, <3>1, BarFacts
  <2>6. Slot(win.resume) >= Cutoff
    <3>1. Slot(last) <= Slot(win.resume)
      BY <2>1, <2>3, <2>4, <2>5, ClockFacts
    <3> QED BY <2>1, <2>4, <3>1, BarFacts
  <2> QED BY <2>2, <2>3, <2>6 DEF FlatInv
<1>8. Slot(t) >= Cutoff =>
        /\ pos' = None \/ pc' \in Routing
        /\ pc' \in Routing => order'.intent = "FLATTEN"
  BY <1>2, <1>4, <1>7 DEF Routing, Flatten
<1> HIDE DEF cut
<1> QED BY <1>1, <1>4, <1>5, <1>6, <1>8 DEF FlatInv

LEMMA PersistFlat ==
  ASSUME TypeInv, ClockInv, FlatInv, Persist
  PROVE  FlatInv'
<1>1. /\ pc = "persist" /\ pc' \in {"interval", "bar"} /\ sess.date \in Dates
      /\ store' = [store EXCEPT ![sess.date] = Snapshot]
      /\ UNCHANGED <<cursor, last, win, sess, pos, order, starts>>
  BY Zenon DEF Persist, Saved, bounds, TypeInv, Working
<1>2. last > win.resume /\ starts # 0
  BY <1>1 DEF ClockInv, FlatInv, Working
<1>3. Slot(last) >= Cutoff => pos = None
  BY <1>1, <1>2 DEF FlatInv, Routing
<1>4. \A d \in Dates : store'[d] = IF d = sess.date THEN Snapshot ELSE store[d]
  BY <1>1 DEF TypeInv, TypeOK
<1>5. Snapshot.last = last /\ Snapshot.pos = pos
  BY DEF Snapshot
<1>6. MaxStarts > 1 =>
        \A d \in Dates : store'[d] # None /\ Slot(store'[d].last) >= Cutoff
                           => store'[d].pos = None
  BY <1>3, <1>4, <1>5 DEF FlatInv
<1> QED BY <1>1, <1>2, <1>3, <1>6 DEF FlatInv, Routing

(* Where processes follow one another, only a kill ends one, and no row is *)
(* written then.                                                           *)
LEMMA EndFlat ==
  ASSUME Unbroken, TypeInv, FlatInv, Crash \/ Stop
  PROVE  FlatInv'
<1>1. /\ pc # "down" /\ pc' = "down" /\ last' = NoTime /\ win'.resume = NoTime
      /\ sess'.flattened = NoDate /\ pos' = None /\ starts' = starts
  BY DEF Crash, Stop, Forget, FreshWin, FreshSess, bounds
<1>2. starts' # 0
  BY <1>1 DEF FlatInv
<1>3. store' = store \/ ~(MaxStarts > 1)
  <2>1. MaxStarts \in Nat /\ MaxStops \in Nat /\ stops \in Nat
    BY ConfigAssumption DEF TypeInv, TypeOK
  <2>2. Stop => MaxStops # 0
    BY <2>1 DEF Stop
  <2> QED BY <2>1, <2>2 DEF Crash, Unbroken
<1> QED BY <1>1, <1>2, <1>3 DEF FlatInv, NoTime, Routing

LEMMA RestFlat ==
  ASSUME ~HasSource, TypeInv, ClockInv, history \in History, FlatInv, Rest
  PROVE  FlatInv'
<1>1. /\ UNCHANGED <<cursor, last, win, sess, store, starts>> /\ (pc' # "down" => pc # "down")
  BY RestFacts
<1>2. /\ last <= win.resume /\ Slot(win.resume) >= Cutoff => pos' = None
      /\ last > win.resume /\ Slot(last) >= Cutoff =>
           /\ pos' = None \/ pc' \in Routing
           /\ pc' \in Routing => order'.intent = "FLATTEN"
  <2>1. CASE pos' = pos /\ order' = order /\ pc' = pc
    BY <2>1 DEF FlatInv
  <2>2. CASE pos' = pos /\ pc \notin Routing /\ pc' \notin Routing
    BY <2>2 DEF FlatInv
  <2>3. CASE StartupReconcile \/ IntervalReconcile
    <3>1. pos' = pos /\ pc' = "bar" /\ pc \in {"startup", "interval"}
      BY <2>3, AnswerFacts DEF StartupReconcile, IntervalReconcile, Reconcile, TypeInv, TypeOK
    <3> QED BY <2>2, <3>1 DEF Routing
  <2>4. ASSUME NEW sig \in Signals, StrategySignals(sig)
        PROVE  /\ last <= win.resume /\ Slot(win.resume) >= Cutoff => pos' = None
               /\ last > win.resume /\ Slot(last) >= Cutoff =>
                    /\ pos' = None \/ pc' \in Routing
                    /\ pc' \in Routing => order'.intent = "FLATTEN"
    <3>1. pos' = pos /\ pc' = "dispatch" /\ order' = sig /\ Approved(sig)
      BY <2>4 DEF StrategySignals
    <3>2. pc = "strategy" /\ last \in Times
      BY <2>4, DateFacts DEF StrategySignals, Working, TypeInv, NoDate
    <3>3. last > win.resume /\ ~(last <= win.resume)
      <4>1. last > win.resume
        BY <3>2 DEF ClockInv, Working
      <4> QED BY <4>1, ClockTypes
    <3>4. Slot(last) >= Cutoff => sig.intent = "FLATTEN"
      BY <3>1, <3>2, BarFacts DEF Approved
    <3> QED BY <3>1, <3>2, <3>3, <3>4 DEF Routing, FlatInv
  <2>5. CASE Dispatch
    <3>1. pos' = pos /\ pc = "dispatch" /\ pc' = "settle" /\ order'.intent = order.intent
      BY <2>5, DispatchEffects
    <3> QED BY <3>1 DEF FlatInv, Routing
  <2>6. CASE Settle
    <3>1. /\ pc = "settle" /\ pc' \in {"strategy", "persist"}
          /\ order.intent = "FLATTEN" => pos' = None
      BY <2>6, SettleEffects
    <3>2. last > win.resume
      BY <3>1 DEF ClockInv, Working
    <3>3. ~(last <= win.resume)
      BY <3>2, ClockTypes
    <3> QED BY <3>1, <3>3 DEF FlatInv, Routing
  <2> QED BY <2>1, <2>2, <2>3, <2>4, <2>5, <2>6 DEF Rest, StrategyQuiet, StrategyRaises,
          AfterStrategy, Tick, LateAnswer, BrokerCloses, vars, memory, Routing
<1>3. starts' = 0 => pc' = "down"
  BY <1>1 DEF FlatInv
<1> QED BY <1>1, <1>2, <1>3 DEF FlatInv

LEMMA FlatInductive == Unbroken /\ Spec => [](TypeInv /\ ClockInv /\ FlatInv)
<1> SUFFICES ASSUME Unbroken PROVE Spec => [](TypeInv /\ ClockInv /\ FlatInv)
  OBVIOUS
<1>1. Init => FlatInv
  BY DEF Init, FlatInv, FreshSess, FreshWin, NoTime, Routing
<1>2. TypeInv /\ ClockInv /\ history \in History /\ FlatInv /\ [Next]_vars => FlatInv'
  <2> SUFFICES ASSUME TypeInv, ClockInv, history \in History, FlatInv, [Next]_vars
               PROVE  FlatInv'
    OBVIOUS
  <2>1. ASSUME NEW date \in Dates \cup {NoDate}, Start(date) PROVE FlatInv'
    BY <2>1, StartFlat
  <2>2. ASSUME NEW t \in Times, SkipBar(t) \/ ProcessBar(t) PROVE FlatInv'
    BY <2>2, SkipFlat, ProcessFlat
  <2>3. CASE Persist
    BY <2>3, PersistFlat
  <2>4. CASE Crash \/ Stop
    BY <2>4, EndFlat
  <2>5. CASE Rest
    BY <2>5, RestFlat DEF Unbroken
  <2> QED BY <2>1, <2>2, <2>3, <2>4, <2>5, Zenon DEF Next, BarStep, Rest
<1> QED BY <1>1, <1>2, HistoryInductive, PTL DEF Spec

(* FlatAfterCutoff: without a position source, in a single process or in a *)
(* replay that is killed and started again, the bar that reaches the       *)
(* cutoff leaves nothing believed open (SessionManager.on_bar).            *)
THEOREM CutoffFlattens == Unbroken /\ Spec => []FlatAfterCutoff
<1> SUFFICES ASSUME Unbroken PROVE Spec => []FlatAfterCutoff
  OBVIOUS
<1>1. TypeInv /\ ClockInv /\ FlatInv => FlatAfterCutoff
  <2> SUFFICES ASSUME TypeInv, FlatInv, pc = "bar", ~Skips(last), Slot(last) >= Cutoff
               PROVE  pos = None
    BY DEF FlatAfterCutoff
  <2>1. last > win.resume
    BY ClockTypes DEF Skips
  <2> QED BY <2>1 DEF FlatInv, Routing
<1> QED BY <1>1, FlatInductive, PTL

-----------------------------------------------------------------------------
(* A broker that fills every order and whose bracket closes what the       *)
(* tracker closes, with every account on, and a strategy that leaves exits *)
(* to its stop and target.                                                 *)
Mirrored == Outcomes = {"FILLED"} /\ Broker = "mirrors" /\ Switchable = {} /\ ~Exits

(* In the first process every account holds what is believed, but while an *)
(* order that was sent is not yet believed.                                *)
HoldInv ==
  /\ starts = 0 => /\ pc = "down" /\ \A d \in Dates : store[d] = None
                   /\ \A a \in Accounts : held[a] = None
  /\ starts <= 1 => \A a \in Accounts : limbo[a] = 0
  /\ starts = 1 /\ pc # "down" =>
      /\ pc # "settle" => Agrees(pos)
      /\ pc = "strategy" /\ bar.seen = None => pos = None
      /\ pc = "dispatch" => IF order.intent = "ENTRY" THEN pos = None
                            ELSE pos # None /\ order.qty = pos.qty
      /\ pc = "settle" => /\ ~order.unknown
                          /\ order.intent = "ENTRY" => pos = None
                          /\ \A a \in Accounts :
                               Qty(held[a]) = IF order.intent = "ENTRY" THEN order.qty ELSE 0

LEMMA StartHold ==
  ASSUME TypeInv, HoldInv, NEW date \in Dates \cup {NoDate}, Start(date)
  PROVE  HoldInv'
<1>1. /\ starts' = starts + 1 /\ held' = held /\ limbo' = limbo /\ starts \in Nat
      /\ pc' \in {"startup", "bar"}
      /\ date # NoDate => date \in Dates /\ store[date] # None
      /\ date = NoDate => pos' = None
  BY StartEffects, Zenon DEF TypeInv, TypeOK
<1>2. starts' # 0 /\ (starts' <= 1 => starts = 0)
  BY <1>1
<1>3. starts = 0 => Agrees(pos)'
  BY <1>1 DEF HoldInv, Agrees, Qty
<1> QED BY <1>1, <1>2, <1>3 DEF HoldInv

LEMMA BarHold ==
  ASSUME Mirrored, TypeInv, HoldInv, NEW t \in Times, SkipBar(t) \/ ProcessBar(t)
  PROVE  HoldInv'
<1>1. /\ pc = "bar" /\ starts' = starts /\ limbo' = limbo
  BY SkipEffects, ProcessEffects DEF SkipBar, ProcessBar, Deliver
<1>2. CASE SkipBar(t)
  <2>1. pc' = "bar" /\ pos' = pos /\ held' = held
    BY <1>1, <1>2, SkipEffects
  <2> QED BY <1>1, <2>1 DEF HoldInv, Agrees
<1>3. CASE ProcessBar(t)
  <2>1. /\ bar'.seen = pos'
        /\ \/ pos' = pos /\ held' = held
           \/ pos' = None /\ held' = [a \in Accounts |-> None]
        /\ \/ pc' = "strategy"
           \/ order' = Flatten(pos'.qty, "engine") /\ pc' = "dispatch" /\ pos' # None
    BY <1>3, ProcessEffects DEF Mirrored
  <2>2. Agrees(pos) => Agrees(pos)'
    BY <2>1 DEF Agrees, Qty
  <2>3. pc' = "dispatch" => /\ order'.intent = "FLATTEN" /\ pos' # None
                            /\ order'.qty = pos'.qty
    BY <2>1 DEF Flatten
  <2> QED BY <1>1, <2>1, <2>2, <2>3 DEF HoldInv
<1> QED BY <1>2, <1>3

LEMMA FillQty ==
  ASSUME NEW h \in BrokerPosition \cup {None}, NEW delta \in Int, NEW price \in Prices
  PROVE  Qty(Fill(h, delta, price)) = Qty(h) + delta
<1> DEFINE q == Qty(h) + delta
<1>1. q \in Int
  BY QtyFacts
<1>2. CASE q = 0
  BY <1>2 DEF Fill, Qty
<1>3. CASE q # 0
  <2>1. [qty |-> q, price |-> price] \in BrokerPosition
    BY <1>1, <1>3 DEF BrokerPosition, Quantities
  <2>2. [qty |-> q, price |-> price] # None
    BY <2>1, NoneAssumption
  <2>3. Fill(h, delta, price) = [qty |-> q, price |-> price]
    BY <1>3 DEF Fill
  <2> HIDE DEF q
  <2> QED BY <2>2, <2>3 DEF Qty, q
<1> QED BY <1>2, <1>3

(* Every account fills: what it holds moves by the order.                  *)
LEMMA DispatchFills ==
  ASSUME Mirrored, TypeInv, Dispatch
  PROVE  /\ limbo' = [a \in Accounts |-> limbo[a]] /\ ~order'.unknown
         /\ \A a \in Accounts : Qty(held'[a]) = Qty(held[a]) + Delta(order)
<1>1. order \in Signal /\ Delta(order) \in Int
  BY DispatchEffects DEF Signal, Delta, Quantities
<1>2. PICK off \in SUBSET Switchable, answer \in [Accounts -> Answers], price \in Prices :
        /\ held' = [a \in Accounts |->
                     IF a \notin off /\ answer[a].effect = "filled"
                     THEN Fill(held[a], Delta(order), price) ELSE held[a]]
        /\ limbo' = [a \in Accounts |->
                      IF a \notin off /\ answer[a].effect = "later"
                      THEN Delta(order) ELSE limbo[a]]
        /\ order' = [order EXCEPT !.unknown = NeedsReconciliation(answer, Accounts \ off)]
  BY DEF Dispatch
<1>3. off = {}
  BY DEF Mirrored
<1>4. \A a \in Accounts : answer[a].outcome = "FILLED" /\ answer[a].effect = "filled"
  BY DEF Mirrored, Answers
<1>5. limbo' = [a \in Accounts |-> limbo[a]]
  BY <1>2, <1>4
<1>6. ~order'.unknown
  BY <1>1, <1>2, <1>4 DEF NeedsReconciliation, Signal
<1>7. \A a \in Accounts : Qty(held'[a]) = Qty(held[a]) + Delta(order)
  BY <1>1, <1>2, <1>3, <1>4, FillQty DEF TypeInv, TypeOK
<1> QED BY <1>5, <1>6, <1>7

LEMMA DispatchHold ==
  ASSUME Mirrored, TypeInv, HoldInv, Dispatch
  PROVE  HoldInv'
<1>1. /\ pc = "dispatch" /\ pc' = "settle" /\ order \in Signal /\ starts' = starts
      /\ order'.intent = order.intent /\ order'.qty = order.qty /\ pos' = pos
  BY DispatchEffects DEF bounds
<1>2. \A a \in Accounts : limbo'[a] = limbo[a]
  BY DispatchFills
<1>3. starts # 0
  BY <1>1 DEF HoldInv
<1>4. ASSUME starts = 1, NEW a \in Accounts
      PROVE  Qty(held'[a]) = IF order.intent = "ENTRY" THEN order.qty ELSE 0
  <2>1. Qty(held[a]) = Qty(pos) /\ Qty(held[a]) \in Int
    BY <1>1, <1>4, QtyFacts DEF HoldInv, Agrees, TypeInv, TypeOK
  <2>2. order.qty \in Int /\ order.intent \in {"ENTRY", "FLATTEN"}
    BY <1>1 DEF Signal, Quantities
  <2>3. CASE order.intent = "ENTRY"
    <3>1. Qty(pos) = 0 /\ Delta(order) = order.qty
      BY <1>1, <1>4, <2>3 DEF HoldInv, Qty, Delta
    <3> QED BY <2>1, <2>2, <2>3, <3>1, DispatchFills
  <2>4. CASE order.intent # "ENTRY"
    <3>1. Qty(pos) = order.qty /\ Delta(order) = - order.qty
      BY <1>1, <1>4, <2>4 DEF HoldInv, Qty, Delta
    <3> QED BY <2>1, <2>2, <2>4, <3>1, DispatchFills
  <2> QED BY <2>3, <2>4
<1>5. starts = 1 /\ order.intent = "ENTRY" => pos = None
  BY <1>1 DEF HoldInv
<1> QED BY <1>1, <1>2, <1>3, <1>4, <1>5, DispatchFills DEF HoldInv

LEMMA SettleHold ==
  ASSUME TypeInv, history \in History, CountInv, HoldInv, Settle
  PROVE  HoldInv'
<1>1. /\ pc = "settle" /\ order \in Signal
      /\ pc' = IF order.by = "engine" THEN "strategy" ELSE "persist"
      /\ UNCHANGED <<held, limbo, starts, bar>>
  BY SettleEffects DEF Settle, world, bounds
<1>2. starts # 0
  BY <1>1 DEF HoldInv
<1>3. ASSUME starts = 1 PROVE Agrees(pos)' /\ (order.by = "engine" => pos' = None)
  <2>1. /\ ~order.unknown /\ (order.intent = "ENTRY" => pos = None)
        /\ \A a \in Accounts :
             Qty(held[a]) = IF order.intent = "ENTRY" THEN order.qty ELSE 0
    BY <1>1, <1>3 DEF HoldInv
  <2>2. CASE order.intent = "ENTRY"
    <3>1. order.by = "strategy" /\ order.price \in Prices
      BY <1>1, <2>2 DEF CountInv, TypeInv
    <3>2. pos' = [qty |-> order.qty, price |-> order.price, managed |-> TRUE]
      BY <2>1, <2>2, SettleEffects
    <3>3. pos' \in Position
      BY <1>1, <3>1, <3>2 DEF Position, Signal
    <3>4. Qty(pos') = order.qty
      BY <3>2, <3>3, NoneAssumption DEF Qty
    <3> QED BY <1>1, <2>1, <2>2, <3>1, <3>4 DEF Agrees
  <2>3. CASE order.intent = "FLATTEN"
    <3>1. pos' = None
      BY <2>3, SettleEffects
    <3> QED BY <1>1, <2>1, <2>3, <3>1 DEF Agrees, Qty
  <2> QED BY <1>1, <2>2, <2>3 DEF Signal
<1> QED BY <1>1, <1>2, <1>3 DEF HoldInv

LEMMA EndHold ==
  ASSUME TypeInv, HoldInv, Crash \/ Stop
  PROVE  HoldInv'
<1>1. pc # "down" /\ pc' = "down" /\ starts' = starts /\ limbo' = limbo
  BY DEF Crash, Stop, Forget, bounds, world
<1>2. starts' # 0
  BY <1>1 DEF HoldInv
<1> QED BY <1>1, <1>2 DEF HoldInv

(* No other step moves what is held or how much is believed.               *)
LEMMA RestHold ==
  ASSUME Mirrored, TypeInv, HoldInv, Rest \/ Persist, ~Dispatch, ~Settle
  PROVE  HoldInv'
<1>1. CASE StartupReconcile \/ IntervalReconcile
  <2>1. /\ pc \in {"startup", "interval"} /\ pc' = "bar"
        /\ held' = held /\ limbo' = limbo /\ starts' = starts
    BY <1>1 DEF StartupReconcile, IntervalReconcile, world, bounds
  <2>2. Agrees(pos) => Agrees(pos)'
    <3>1. PICK answer \in ReconcileAnswers : pos' = answer.pos
      BY <1>1 DEF StartupReconcile, IntervalReconcile, Reconcile
    <3>2. Qty(answer.pos) # Qty(pos) => Agrees(answer.pos)
      BY AnswerFacts DEF TypeInv, TypeOK
    <3> QED BY <2>1, <3>1, <3>2 DEF Agrees
  <2> QED BY <2>1, <2>2 DEF HoldInv
<1>2. CASE StrategyQuiet \/ StrategyRaises \/ Persist
  <2>1. /\ pc \in {"strategy", "persist"} /\ pc' \in {"persist", "bar", "interval"}
        /\ pos' = pos /\ held' = held /\ limbo' = limbo /\ starts' = starts
    BY <1>2 DEF StrategyQuiet, StrategyRaises, Persist, AfterStrategy, world, memory, bounds
  <2> QED BY <2>1 DEF HoldInv, Agrees
<1>3. ASSUME NEW sig \in Signals, StrategySignals(sig) PROVE HoldInv'
  <2>1. /\ pc = "strategy" /\ pc' = "dispatch" /\ order' = sig
        /\ pos' = pos /\ held' = held /\ limbo' = limbo /\ starts' = starts
    BY <1>3 DEF StrategySignals, world, bounds
  <2>2. bar.seen = None /\ sig.intent = "ENTRY"
    BY DEF Signals, Mirrored, Entry
  <2> QED BY <2>1, <2>2 DEF HoldInv, Agrees
<1>4. CASE Tick \/ UNCHANGED vars
  <2>1. /\ pc' = pc /\ store' = store /\ pos' = pos /\ held' = held /\ limbo' = limbo
        /\ starts' = starts /\ order' = order /\ bar' = bar
    BY <1>4 DEF Tick, vars, world, memory, bounds
  <2> QED BY <2>1 DEF HoldInv, Agrees
<1>5. ASSUME NEW a \in Accounts, LateAnswer(a) \/ BrokerCloses(a) PROVE HoldInv'
  <2>1. LateAnswer(a)
    BY <1>5 DEF BrokerCloses, Mirrored
  <2>2. starts' = starts /\ limbo[a] # 0
    BY <2>1 DEF LateAnswer, bounds
  <2>3. ~(starts <= 1) /\ starts \in Nat
    BY <2>2 DEF HoldInv, TypeInv, TypeOK
  <2> QED BY <2>2, <2>3 DEF HoldInv
<1> QED BY <1>1, <1>2, <1>3, <1>4, <1>5 DEF Rest

LEMMA HoldInductive == Mirrored /\ Spec => []HoldInv
<1> SUFFICES ASSUME Mirrored PROVE Spec => []HoldInv
  OBVIOUS
<1>1. Init => HoldInv
  BY DEF Init, HoldInv
<1>2. TypeInv /\ history \in History /\ CountInv /\ HoldInv /\ [Next]_vars => HoldInv'
  <2> SUFFICES ASSUME TypeInv, history \in History, CountInv, HoldInv, [Next]_vars
               PROVE  HoldInv'
    OBVIOUS
  <2>1. ASSUME NEW date \in Dates \cup {NoDate}, Start(date) PROVE HoldInv'
    BY <2>1, StartHold
  <2>2. ASSUME NEW t \in Times, SkipBar(t) \/ ProcessBar(t) PROVE HoldInv'
    BY <2>2, BarHold
  <2>3. CASE Dispatch \/ Settle
    BY <2>3, DispatchHold, SettleHold
  <2>4. CASE Crash \/ Stop
    BY <2>4, EndHold
  <2>5. CASE (Rest \/ Persist) /\ ~Dispatch /\ ~Settle
    BY <2>5, RestHold
  <2> QED BY <2>1, <2>2, <2>3, <2>4, <2>5, Zenon DEF Next, BarStep, Rest
<1> QED BY <1>1, <1>2, CountInductive, PTL DEF Spec

(* BrokerHoldsBelief: between the bars of a first process every account    *)
(* holds what the agent believes, for any number of accounts, as long as   *)
(* orders fill and the broker's bracket fires with the tracker's.          *)
THEOREM BeliefIsHeld == Mirrored /\ Spec => []BrokerHoldsBelief
<1> SUFFICES ASSUME Mirrored PROVE Spec => []BrokerHoldsBelief
  OBVIOUS
<1>1. HoldInv => BrokerHoldsBelief
  BY DEF HoldInv, BrokerHoldsBelief
<1> QED BY <1>1, HoldInductive, PTL
=============================================================================
