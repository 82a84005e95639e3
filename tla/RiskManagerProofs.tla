------------------------- MODULE RiskManagerProofs -------------------------
(***************************************************************************)
(* What holds of the money figures for every set of prices and sizes,      *)
(* every limit, and every number of sessions, entries and restarts.        *)
(***************************************************************************)
EXTENDS RiskManager, TLAPS

(* The value of a position, and what closing it books, is a whole number   *)
(* of ticks (Position.pnl, Engine._realised_pnl).                          *)
LEMMA PnlType ==
  ASSUME NEW p \in Position, NEW at \in Prices
  PROVE  Pnl(p, at) \in Int /\ Realised(p, at) \in Int
<1>1. p.qty \in Int /\ p.entry \in Int /\ at \in Int
  BY MoneyAssumption DEF Position
<1>2. Pnl(p, at) \in Int
  BY <1>1 DEF Pnl
<1>3. Size(p) \in Int /\ Commission \in Int
  BY <1>1, MoneyAssumption DEF Size
<1> QED BY <1>2, <1>3 DEF Realised

(* Booking a close moves the day and the account alike and never lowers    *)
(* the high-water mark below either (record_realised_pnl).                 *)
LEMMA RecordFacts ==
  ASSUME NEW m \in Money, NEW amount \in Int
  PROVE  LET r == Record(m, amount)
         IN  /\ r \in Money
             /\ r.equity - r.daily = m.equity - m.daily
             /\ r.open = m.open /\ r.mark = m.mark
             /\ r.high >= r.equity /\ r.high >= m.high
<1>1. /\ m.daily \in Int /\ m.equity \in Int /\ m.high \in Int
      /\ m.open \in Int /\ m.mark \in Int
  BY DEF Money
<1> DEFINE high == Larger(m.high, m.equity + amount)
<1>2. high \in Int /\ high >= m.high /\ high >= m.equity + amount
  BY <1>1 DEF Larger
<1>3. Record(m, amount) = [daily |-> m.daily + amount, equity |-> m.equity + amount,
                           high |-> high, open |-> m.open, mark |-> m.mark]
  BY DEF Record
<1> HIDE DEF high
<1> QED BY <1>1, <1>2, <1>3 DEF Money

(* Marking touches neither the day's figure nor realised equity, and       *)
(* clears the mark with the position (mark_to_market).                     *)
LEMMA MarkFacts ==
  ASSUME NEW m \in Money, NEW p \in Position \cup {None}, NEW at \in Prices
  PROVE  LET r == MarkToMarket(m, p, at)
         IN  /\ r \in Money
             /\ r.equity = m.equity /\ r.daily = m.daily
             /\ r.mark = IF p = None THEN 0 ELSE m.mark
             /\ r.high >= m.high
             /\ Basis = "equity" => r.high >= r.equity + r.open
<1> DEFINE open == IF p = None THEN 0 ELSE Pnl(p, at)
<1>1. open \in Int
  BY PnlType
<1> HIDE DEF open
<1>2. /\ m.daily \in Int /\ m.equity \in Int /\ m.high \in Int
      /\ m.open \in Int /\ m.mark \in Int
  BY DEF Money
<1> DEFINE high == IF Basis = "equity" THEN Larger(m.high, m.equity + open) ELSE m.high
<1>3. high \in Int /\ high >= m.high /\ (Basis = "equity" => high >= m.equity + open)
  BY <1>1, <1>2 DEF Larger
<1> DEFINE mark == IF p = None THEN 0 ELSE m.mark
<1>4. mark \in Int
  BY <1>2
<1>5. MarkToMarket(m, p, at) = [daily |-> m.daily, equity |-> m.equity,
                                high |-> high, open |-> open, mark |-> mark]
  BY DEF MarkToMarket, open
<1> HIDE DEF high
<1> QED BY <1>1, <1>2, <1>3, <1>4, <1>5 DEF Money

-----------------------------------------------------------------------------
(* What one bar does to the money, rollover, close and mark together: a    *)
(* rollover re-bases the day at realised equity, and the mark lives as     *)
(* long as the position it belongs to.                                     *)
LEMMA BarFacts ==
  ASSUME TypeOK,
         NEW at \in Prices, NEW rolls \in BOOLEAN, NEW fill \in Prices \cup {None},
         Bar(at, rolls, fill)
  PROVE  /\ money' \in Money /\ pos' \in Position \cup {None} /\ now' \in Ghost
         /\ money'.equity - money'.daily =
              money.equity - (IF rolls THEN 0 ELSE money.daily)
         /\ money'.mark = IF pos' = None THEN 0
                          ELSE IF rolls THEN money.open ELSE money.mark
         /\ money'.high >= money.high
         /\ money.high >= money.equity => money'.high >= money'.equity
         /\ Basis = "equity" => money'.high >= money'.equity + money'.open
         /\ now'.opening = IF ~rolls THEN now.opening
                           ELSE money.equity + (IF pos = None THEN 0 ELSE money.open)
<1> DEFINE left == IF fill # None THEN None ELSE pos
           rolled == IF rolls THEN StartSession(money) ELSE money
           booked == IF fill # None THEN Record(rolled, Realised(pos, fill)) ELSE rolled
           value == booked.equity + (IF left = None THEN 0 ELSE Pnl(left, at))
<1>1. /\ money \in Money /\ pos \in Position \cup {None} /\ now \in Ghost
  BY DEF TypeOK
<1>2. /\ money.daily \in Int /\ money.equity \in Int /\ money.high \in Int
      /\ money.open \in Int /\ money.mark \in Int
  BY <1>1 DEF Money
<1>3. /\ now.opening \in Int /\ now.base \in Int /\ now.peak \in Int
  BY <1>1 DEF Ghost
<1>4. left \in Position \cup {None} /\ (fill # None => pos \in Position /\ fill \in Prices)
  BY <1>1 DEF Bar
<1>5. /\ rolled \in Money /\ rolled.equity = money.equity /\ rolled.high = money.high
      /\ rolled.daily = (IF rolls THEN 0 ELSE money.daily)
      /\ rolled.mark = (IF rolls THEN money.open ELSE money.mark)
  BY <1>1, <1>2 DEF StartSession, Money
<1>6. /\ booked \in Money /\ booked.mark = rolled.mark
      /\ booked.equity - booked.daily = rolled.equity - rolled.daily
      /\ booked.high >= rolled.high
      /\ rolled.high >= rolled.equity => booked.high >= booked.equity
  <2>1. CASE fill = None
    <3>1. booked = rolled
      BY <2>1
    <3>2. rolled.high \in Int
      BY <1>5 DEF Money
    <3> QED BY <3>1, <3>2, <1>5
  <2>2. CASE fill # None
    <3>1. Realised(pos, fill) \in Int
      BY <2>2, <1>4, PnlType
    <3>2. booked = Record(rolled, Realised(pos, fill))
      BY <2>2
    <3> HIDE DEF booked, rolled
    <3> QED BY <3>1, <3>2, <1>5, RecordFacts
  <2> QED BY <2>1, <2>2
<1>7. value \in Int
  <2>1. booked.equity \in Int
    BY <1>6 DEF Money
  <2>2. (IF left = None THEN 0 ELSE Pnl(left, at)) \in Int
    BY <1>4, PnlType
  <2> HIDE DEF booked, left
  <2> QED BY <2>1, <2>2
<1>8. /\ money' = MarkToMarket(booked, left, at) /\ pos' = left
      /\ now' = [opening |-> IF ~rolls THEN now.opening
                             ELSE money.equity + (IF pos = None THEN 0 ELSE money.open),
                 base |-> now.base,
                 peak |-> IF Basis = "equity"
                          THEN Larger(Larger(now.peak, now.base + booked.equity),
                                      now.base + value)
                          ELSE Larger(now.peak, now.base + booked.equity)]
  BY DEF Bar
<1> HIDE DEF booked, rolled, left, value
<1>9. /\ money' \in Money
      /\ money'.equity = booked.equity /\ money'.daily = booked.daily
      /\ money'.mark = (IF left = None THEN 0 ELSE booked.mark)
      /\ money'.high >= booked.high
      /\ Basis = "equity" => money'.high >= money'.equity + money'.open
  BY <1>4, <1>6, <1>8, MarkFacts
<1>10. now' \in Ghost
  <2>1. booked.equity \in Int
    BY <1>6 DEF Money
  <2> QED BY <2>1, <1>2, <1>3, <1>7, <1>8 DEF Ghost, Larger
<1>11. /\ booked.high \in Int /\ booked.equity \in Int /\ booked.daily \in Int
       /\ money'.high \in Int
  BY <1>6, <1>9 DEF Money
<1> QED BY <1>2, <1>4, <1>5, <1>6, <1>8, <1>9, <1>10, <1>11 DEF Ghost

(* Closing at a decision books the trade on the day and the account alike. *)
LEMMA ExitFacts ==
  ASSUME TypeOK, Exit
  PROVE  /\ money' \in Money /\ now' \in Ghost
         /\ money'.equity - money'.daily = money.equity - money.daily
         /\ money'.mark = money.mark
         /\ money'.high >= money'.equity /\ money'.high >= money.high
         /\ now'.opening = now.opening
<1>1. money \in Money /\ now \in Ghost /\ pos \in Position /\ price \in Prices
  BY DEF TypeOK, Exit
<1>2. Realised(pos, price) \in Int
  BY <1>1, PnlType
<1>3. money' = Record(money, Realised(pos, price))
  BY DEF Exit
<1>4. /\ money' \in Money
      /\ money'.equity - money'.daily = money.equity - money.daily
      /\ money'.mark = money.mark
      /\ money'.high >= money'.equity /\ money'.high >= money.high
  BY <1>1, <1>2, <1>3, RecordFacts
<1>5. money'.equity \in Int
  BY <1>4 DEF Money
<1>6. now' = [now EXCEPT !.peak = Larger(now.peak, now.base + money'.equity)]
  BY DEF Exit
<1>7. now' \in Ghost /\ now'.opening = now.opening
  BY <1>1, <1>5, <1>6 DEF Ghost, Larger
<1> QED BY <1>4, <1>7

(* A saved row carries everything but the value of the open position.      *)
LEMMA SaveFacts ==
  ASSUME money \in Money, pos \in Position \cup {None}
  PROVE  /\ Snapshot \in Row /\ Snapshot # None
         /\ Snapshot.equity = money.equity /\ Snapshot.daily = money.daily
         /\ Snapshot.mark = money.mark /\ Snapshot.high = money.high
         /\ Snapshot.pos = pos
<1>1. Snapshot \in Row
  BY DEF Snapshot, Row, Money
<1>2. Row = [daily : Int, equity : Int, high : Int, mark : Int, pos : Position \cup {None}]
  BY DEF Row
<1>3. Snapshot # None
  BY <1>1, <1>2, NoneAssumption
<1> QED BY <1>1, <1>3 DEF Snapshot

LEMMA RestoreFacts ==
  ASSUME NEW row \in Row
  PROVE  /\ Restored(row) \in Money /\ row.pos \in Position \cup {None}
         /\ Restored(row).equity = row.equity /\ Restored(row).daily = row.daily
         /\ Restored(row).mark = row.mark /\ Restored(row).high = row.high
BY DEF Restored, Row, Money

LEMMA FreshFacts == NoMoney \in Money /\ NoHistory \in Ghost
BY DEF NoMoney, NoHistory, Money, Ghost

-----------------------------------------------------------------------------
(* Every step keeps every variable within the values the program can hold, *)
(* whatever the prices and however many restarts.                          *)
THEOREM TypeCorrect == Spec => []TypeOK
<1>1. Init => TypeOK
  BY FreshFacts, BoundAssumption DEF Init, TypeOK, Days
<1>2. TypeOK /\ [Next]_vars => TypeOK'
  <2> SUFFICES ASSUME TypeOK, [Next]_vars PROVE TypeOK'
    OBVIOUS
  <2>1. ASSUME NEW d \in Days, Start(d) PROVE TypeOK'
    <3>1. CASE store[d] = None
      <4>1. now' \in Ghost
        BY <2>1, <3>1 DEF TypeOK, Start, Ghost
      <4> QED BY <2>1, <3>1, <4>1, FreshFacts DEF TypeOK, Start
    <3>2. CASE store[d] # None
      <4>1. store[d] \in Row
        BY <3>2 DEF TypeOK
      <4> QED BY <2>1, <3>2, <4>1, RestoreFacts DEF TypeOK, Start
    <3> QED BY <3>1, <3>2
  <2>2. ASSUME NEW at \in Prices, NEW rolls \in BOOLEAN, NEW fill \in Prices \cup {None},
               Bar(at, rolls, fill)
        PROVE  TypeOK'
    <3>1. day' \in Days
      BY <2>2, BoundAssumption DEF TypeOK, Bar, Days
    <3>2. money' \in Money /\ pos' \in Position \cup {None} /\ now' \in Ghost
      BY <2>2, BarFacts
    <3> QED BY <2>2, <3>1, <3>2 DEF TypeOK, Bar
  <2>3. CASE Exit
    BY <2>3, ExitFacts DEF TypeOK, Exit
  <2>4. ASSUME NEW p \in Position, Enter(p) PROVE TypeOK'
    BY <2>4 DEF TypeOK, Enter, ghosts
  <2>5. CASE Hold
    BY <2>5 DEF TypeOK, Hold, ghosts
  <2>6. CASE Persist
    <3>1. Snapshot \in Row
      BY SaveFacts DEF TypeOK
    <3>2. life' \in [equity : Int, peak : Int]
      BY <2>6 DEF TypeOK, Persist, Save, Money, Ghost
    <3> QED BY <2>6, <3>1, <3>2 DEF TypeOK, Persist, Save
  <2>7. ASSUME NEW p \in Position \cup {None}, Reconcile(p) PROVE TypeOK'
    BY <2>7 DEF TypeOK, Reconcile, ghosts
  <2>8. CASE Crash
    BY <2>8, FreshFacts DEF TypeOK, Crash, Forget
  <2>9. CASE Teardown
    <3>1. Snapshot \in Row
      BY SaveFacts DEF TypeOK
    <3>2. life' \in [equity : Int, peak : Int]
      BY <2>9 DEF TypeOK, Teardown, Save, Money, Ghost
    <3> QED BY <2>9, <3>1, <3>2, FreshFacts DEF TypeOK, Teardown, Save, Forget
  <2>10. CASE UNCHANGED vars
    BY <2>10 DEF TypeOK, vars, ghosts
  <2> QED BY <2>1, <2>2, <2>3, <2>4, <2>5, <2>6, <2>7, <2>8, <2>9, <2>10 DEF Next
<1> QED BY <1>1, <1>2, PTL DEF Spec

-----------------------------------------------------------------------------
(* HighWaterCovers is not inductive by itself: a restart reads the mark    *)
(* back from a saved row, so every saved row has to cover its equity too.  *)
HighWaterInv ==
  /\ TypeOK
  /\ HighWaterCovers
  /\ \A d \in Days : store[d] # None => store[d].high >= store[d].equity /\ store[d].high >= 0

LEMMA HighWaterInvariant == Spec => []HighWaterInv
<1>1. Init => HighWaterInv
  <2> SUFFICES ASSUME Init PROVE HighWaterInv
    OBVIOUS
  <2>1. TypeOK
    BY FreshFacts, BoundAssumption DEF Init, TypeOK, Days
  <2> QED BY <2>1 DEF Init, HighWaterInv, HighWaterCovers, NoMoney
<1>2. HighWaterInv /\ TypeOK' /\ [Next]_vars => HighWaterInv'
  <2> SUFFICES ASSUME HighWaterInv, TypeOK', [Next]_vars PROVE HighWaterInv'
    OBVIOUS
  <2> USE DEF HighWaterInv
  <2>1. /\ money.daily \in Int /\ money.equity \in Int /\ money.high \in Int
        /\ money.open \in Int /\ money.mark \in Int
        /\ money'.equity \in Int /\ money'.high \in Int /\ money'.open \in Int
    BY DEF TypeOK, Money
  <2>2. ASSUME NEW d \in Days, Start(d) PROVE HighWaterInv'
    <3>1. CASE store[d] = None
      BY <2>2, <3>1 DEF Start, HighWaterCovers, NoMoney
    <3>2. CASE store[d] # None
      <4>1. store[d] \in Row
        BY <3>2 DEF TypeOK
      <4> QED BY <2>2, <3>2, <4>1, RestoreFacts DEF Start, HighWaterCovers
    <3> QED BY <3>1, <3>2
  <2>3. ASSUME NEW at \in Prices, NEW rolls \in BOOLEAN, NEW fill \in Prices \cup {None},
               Bar(at, rolls, fill)
        PROVE  HighWaterInv'
    <3>1. /\ money'.high >= money.high
          /\ money.high >= money.equity => money'.high >= money'.equity
          /\ Basis = "equity" => money'.high >= money'.equity + money'.open
      BY <2>3, BarFacts
    <3> QED BY <2>1, <2>3, <3>1 DEF Bar, HighWaterCovers
  <2>4. CASE Exit
    <3>1. money'.high >= money'.equity /\ money'.high >= money.high
      BY <2>4, ExitFacts
    <3> QED BY <2>1, <2>4, <3>1 DEF Exit, HighWaterCovers
  <2>5. ASSUME NEW p \in Position, Enter(p) PROVE HighWaterInv'
    BY <2>5 DEF Enter, HighWaterCovers
  <2>6. CASE Hold
    BY <2>6 DEF Hold, HighWaterCovers
  <2>7. CASE Persist
    <3>1. Snapshot.equity = money.equity /\ Snapshot.high = money.high
      BY SaveFacts DEF TypeOK
    <3>2. \A d \in Days : store'[d] = IF d = day THEN Snapshot ELSE store[d]
      BY <2>7 DEF Persist, Save, TypeOK
    <3> QED BY <2>7, <3>1, <3>2 DEF Persist, HighWaterCovers
  <2>8. ASSUME NEW p \in Position \cup {None}, Reconcile(p) PROVE HighWaterInv'
    BY <2>8 DEF Reconcile, HighWaterCovers
  <2>9. CASE Crash
    BY <2>9 DEF Crash, Forget, HighWaterCovers, NoMoney
  <2>10. CASE Teardown
    <3>1. Snapshot.equity = money.equity /\ Snapshot.high = money.high
      BY SaveFacts DEF TypeOK
    <3>2. \A d \in Days : store'[d] = IF d = day THEN Snapshot ELSE store[d]
      BY <2>10 DEF Teardown, Save, TypeOK
    <3>3. HighWaterCovers'
      BY <2>10 DEF Teardown, Forget, HighWaterCovers, NoMoney
    <3> QED BY <3>1, <3>2, <3>3 DEF HighWaterCovers
  <2>11. CASE UNCHANGED vars
    BY <2>11 DEF vars, HighWaterCovers
  <2> QED BY <2>2, <2>3, <2>4, <2>5, <2>6, <2>7, <2>8, <2>9, <2>10, <2>11 DEF Next
<1> QED BY <1>1, <1>2, TypeCorrect, PTL DEF Spec

(* The high-water mark covers realised equity, and on the equity basis the *)
(* marked value whenever the limits are read: a drawdown is never negative *)
(* and no restart lowers the mark below what was saved.                    *)
THEOREM HighWaterAlwaysCovers == Spec => []HighWaterCovers
<1>1. HighWaterInv => HighWaterCovers
  BY DEF HighWaterInv
<1> QED BY <1>1, HighWaterInvariant, PTL

-----------------------------------------------------------------------------
(* Without a carried position the mark is zero, in memory and in every     *)
(* saved row, and a restart resumes the day at the value it opened at.     *)
TodayInv ==
  /\ TypeOK
  /\ DailyIsToday
  /\ money.mark = 0
  /\ \A d \in Days : store[d] # None =>
       /\ store[d].mark = 0
       /\ store[d].equity - store[d].daily = saved[d].opening

LEMMA TodayInductive ==
  ASSUME ~Carry
  PROVE  /\ Init => TodayInv
         /\ TodayInv /\ TypeOK' /\ [Next]_vars => TodayInv'
<1>1. Init => TodayInv
  <2> SUFFICES ASSUME Init PROVE TodayInv
    OBVIOUS
  <2>1. TypeOK
    BY FreshFacts, BoundAssumption DEF Init, TypeOK, Days
  <2> QED BY <2>1 DEF Init, TodayInv, DailyIsToday, NoMoney
<1>2. TodayInv /\ TypeOK' /\ [Next]_vars => TodayInv'
  <2> SUFFICES ASSUME TodayInv, TypeOK', [Next]_vars PROVE TodayInv'
    OBVIOUS
  <2> USE DEF TodayInv
  <2>1. /\ money.daily \in Int /\ money.equity \in Int /\ money.mark \in Int
        /\ money'.daily \in Int /\ money'.equity \in Int /\ money'.mark \in Int
        /\ now.opening \in Int /\ now'.opening \in Int
    BY DEF TypeOK, Money, Ghost
  <2>2. ASSUME NEW d \in Days, Start(d) PROVE TodayInv'
    <3>1. CASE store[d] = None
      BY <2>2, <3>1 DEF Start, DailyIsToday, NoMoney
    <3>2. CASE store[d] # None
      <4>1. store[d] \in Row
        BY <3>2 DEF TypeOK
      <4>2. store[d].equity \in Int /\ store[d].daily \in Int
        BY <4>1 DEF Row
      <4> QED BY <2>2, <3>2, <4>1, <4>2, RestoreFacts DEF Start, DailyIsToday
    <3> QED BY <3>1, <3>2
  <2>3. ASSUME NEW at \in Prices, NEW rolls \in BOOLEAN, NEW fill \in Prices \cup {None},
               Bar(at, rolls, fill)
        PROVE  TodayInv'
    <3>1. /\ money'.equity - money'.daily =
               money.equity - (IF rolls THEN 0 ELSE money.daily)
          /\ money'.mark = IF pos' = None THEN 0
                           ELSE IF rolls THEN money.open ELSE money.mark
          /\ now'.opening = IF ~rolls THEN now.opening
                            ELSE money.equity + (IF pos = None THEN 0 ELSE money.open)
      BY <2>3, BarFacts
    <3>2. /\ rolls => pos = None /\ pos' = None
          /\ pc # "down" /\ store' = store /\ saved' = saved
      BY <2>3 DEF Bar
    <3>3. money'.mark = 0
      BY <3>1, <3>2
    <3>4. money'.equity - money'.daily + money'.mark = now'.opening
      BY <2>1, <3>1, <3>2, <3>3 DEF DailyIsToday
    <3> QED BY <3>2, <3>3, <3>4 DEF DailyIsToday
  <2>4. CASE Exit
    <3>1. /\ money'.equity - money'.daily = money.equity - money.daily
          /\ money'.mark = money.mark /\ now'.opening = now.opening
      BY <2>4, ExitFacts
    <3> QED BY <2>1, <2>4, <3>1 DEF Exit, DailyIsToday
  <2>5. ASSUME NEW p \in Position, Enter(p) PROVE TodayInv'
    BY <2>5 DEF Enter, ghosts, DailyIsToday
  <2>6. CASE Hold
    BY <2>6 DEF Hold, ghosts, DailyIsToday
  <2>7. CASE Persist
    <3>1. /\ Snapshot.equity = money.equity /\ Snapshot.daily = money.daily
          /\ Snapshot.mark = money.mark
      BY SaveFacts DEF TypeOK
    <3>2. \A d \in Days : /\ store'[d] = IF d = day THEN Snapshot ELSE store[d]
                          /\ saved'[d] = IF d = day THEN now ELSE saved[d]
      BY <2>7 DEF Persist, Save, TypeOK
    <3>3. money.equity - money.daily = now.opening
      BY <2>1, <2>7 DEF Persist, DailyIsToday
    <3> QED BY <2>7, <3>1, <3>2, <3>3 DEF Persist, DailyIsToday
  <2>8. ASSUME NEW p \in Position \cup {None}, Reconcile(p) PROVE TodayInv'
    BY <2>8 DEF Reconcile, ghosts, DailyIsToday
  <2>9. CASE Crash
    BY <2>9 DEF Crash, Forget, DailyIsToday, NoMoney
  <2>10. CASE Teardown
    <3>1. /\ Snapshot.equity = money.equity /\ Snapshot.daily = money.daily
          /\ Snapshot.mark = money.mark
      BY SaveFacts DEF TypeOK
    <3>2. \A d \in Days : /\ store'[d] = IF d = day THEN Snapshot ELSE store[d]
                          /\ saved'[d] = IF d = day THEN now ELSE saved[d]
      BY <2>10 DEF Teardown, Save, TypeOK
    <3>3. money.equity - money.daily = now.opening
      BY <2>1, <2>10 DEF Teardown, DailyIsToday
    <3>4. DailyIsToday' /\ money'.mark = 0
      BY <2>10 DEF Teardown, Forget, DailyIsToday, NoMoney
    <3> QED BY <3>1, <3>2, <3>3, <3>4
  <2>11. CASE UNCHANGED vars
    BY <2>11 DEF vars, ghosts, DailyIsToday
  <2> QED BY <2>2, <2>3, <2>4, <2>5, <2>6, <2>7, <2>8, <2>9, <2>10, <2>11 DEF Next
<1> QED BY <1>1, <1>2

(* When no position is carried over a rollover, what the daily limit       *)
(* measures is the account's move since the session opened, whatever the   *)
(* prices, closes, crashes and restarts.                                   *)
THEOREM DailyFigureIsToday ==
  ASSUME ~Carry
  PROVE  Spec => []DailyIsToday
<1>1. TodayInv => DailyIsToday
  BY DEF TodayInv
<1> QED BY <1>1, TodayInductive, TypeCorrect, PTL DEF Spec

(* The daily limit then holds for entries: no position is opened on a day  *)
(* the account is down by its limit, restarted or not.                     *)
THEOREM DailyLossStopsEntries ==
  ASSUME ~Carry
  PROVE  Spec => NoEntryPastDailyLoss
<1> DEFINE Step == (pc = "decide" /\ pos = None /\ pos' # None /\ MaxLoss # None)
                     => now.opening - (money.equity + money.open) < MaxLoss
<1>1. TodayInv /\ [Next]_vars => [Step]_vars
  <2> SUFFICES ASSUME TodayInv, Next,
                      pc = "decide", pos = None, pos' # None, MaxLoss # None
               PROVE  now.opening - (money.equity + money.open) < MaxLoss
    OBVIOUS
  <2>1. PICK p \in Position : Enter(p)
    BY DEF Next, Start, Bar, Exit, Hold, Persist, Reconcile, Crash,
           Teardown, Forget
  <2>2. ~(-(money.daily + money.open - money.mark) >= MaxLoss)
    BY <2>1 DEF Enter, Breach, DailyBreach
  <2>3. /\ money.daily \in Int /\ money.equity \in Int /\ money.open \in Int
        /\ money.mark \in Int /\ now.opening \in Int /\ MaxLoss \in Int
    BY LimitAssumption DEF TodayInv, TypeOK, Money, Ghost
  <2>4. money.equity - money.daily + money.mark = now.opening
    BY DEF TodayInv, DailyIsToday
  <2> QED BY <2>2, <2>3, <2>4
<1>2. Spec => []TodayInv
  BY TodayInductive, TypeCorrect, PTL DEF Spec
<1> QED BY <1>1, <1>2, PTL DEF Spec, NoEntryPastDailyLoss

-----------------------------------------------------------------------------
(* In a replay the high-water mark is the peak of the account's life: in   *)
(* memory, in every saved row, and zero while nothing was ever saved.      *)
PeakInv ==
  /\ HighWaterInv
  /\ pc # "down" => now.base = 0 /\ now.peak = money.high
  /\ \A d \in Days : store[d] # None => saved[d].base = 0 /\ saved[d].peak = store[d].high
  /\ (\A d \in Days : store[d] = None) => life.equity = 0 /\ life.peak = 0

(* A bar raises the mark exactly as far as it raises the peak.             *)
LEMMA BarPeak ==
  ASSUME TypeOK, HighWaterCovers, now.base = 0, now.peak = money.high,
         NEW at \in Prices, NEW rolls \in BOOLEAN, NEW fill \in Prices \cup {None},
         Bar(at, rolls, fill)
  PROVE  now'.base = 0 /\ now'.peak = money'.high
<1> DEFINE left == IF fill # None THEN None ELSE pos
           rolled == IF rolls THEN StartSession(money) ELSE money
           gain == Realised(pos, fill)
           booked == IF fill # None THEN Record(rolled, gain) ELSE rolled
           open == IF left = None THEN 0 ELSE Pnl(left, at)
<1>1. /\ money.daily \in Int /\ money.equity \in Int /\ money.high \in Int
      /\ money.open \in Int /\ money.mark \in Int
      /\ money.high >= money.equity
  BY DEF TypeOK, Money, HighWaterCovers
<1>2. open \in Int /\ (fill # None => gain \in Int)
  BY PnlType DEF TypeOK, Bar
<1>3. rolled.equity = money.equity /\ rolled.high = money.high
  BY DEF StartSession
<1>4. /\ booked.equity = money.equity + (IF fill # None THEN gain ELSE 0)
      /\ booked.high = Larger(money.high, booked.equity)
  <2>1. CASE fill = None
    BY <2>1, <1>1, <1>3 DEF Larger
  <2>2. CASE fill # None
    BY <2>2, <1>3 DEF Record
  <2> QED BY <2>1, <2>2
<1>5. booked.equity \in Int /\ booked.high \in Int
  BY <1>1, <1>2, <1>4 DEF Larger
<1>6. /\ money' = MarkToMarket(booked, left, at)
      /\ now'.base = now.base
      /\ now'.peak = IF Basis = "equity"
                     THEN Larger(Larger(now.peak, now.base + booked.equity),
                                 now.base + (booked.equity + open))
                     ELSE Larger(now.peak, now.base + booked.equity)
  BY DEF Bar
<1>7. money'.high = IF Basis = "equity" THEN Larger(booked.high, booked.equity + open)
                    ELSE booked.high
  BY <1>6 DEF MarkToMarket
<1> HIDE DEF booked, open, left, rolled, gain
<1> QED BY <1>1, <1>2, <1>4, <1>5, <1>6, <1>7 DEF Larger

LEMMA PeakInductive ==
  ASSUME ~Live
  PROVE  PeakInv /\ HighWaterInv' /\ [Next]_vars => PeakInv'
<1> SUFFICES ASSUME PeakInv, HighWaterInv', [Next]_vars PROVE PeakInv'
  OBVIOUS
<1> USE DEF PeakInv
<1>1. ASSUME NEW d \in Days, Start(d) PROVE PeakInv'
  <2>1. CASE store[d] = None
    <3>1. \A e \in Days : store[e] = None
      BY <1>1, <2>1 DEF Start, IsLatest
    <3> QED BY <1>1, <2>1, <3>1 DEF Start, NoMoney
  <2>2. CASE store[d] # None
    <3>1. store[d] \in Row
      BY <2>2 DEF HighWaterInv, TypeOK
    <3> QED BY <1>1, <2>2, <3>1, RestoreFacts DEF Start
  <2> QED BY <2>1, <2>2
<1>2. ASSUME NEW at \in Prices, NEW rolls \in BOOLEAN, NEW fill \in Prices \cup {None},
             Bar(at, rolls, fill)
      PROVE  PeakInv'
  <2>1. now'.base = 0 /\ now'.peak = money'.high
    BY <1>2, BarPeak DEF HighWaterInv, Bar
  <2> QED BY <1>2, <2>1 DEF Bar
<1>3. CASE Exit
  <2>1. money' = Record(money, Realised(pos, price))
        /\ now' = [now EXCEPT !.peak = Larger(now.peak, now.base + money'.equity)]
    BY <1>3 DEF Exit
  <2>2. /\ now.base = 0 /\ now.peak = money.high
        /\ now \in Ghost /\ money'.equity \in Int
    BY <1>3 DEF Exit, HighWaterInv, TypeOK, Money
  <2>3. money'.high = Larger(money.high, money'.equity)
    BY <2>1 DEF Record
  <2>4. now'.base = 0 /\ now'.peak = money'.high
    BY <2>1, <2>2, <2>3 DEF Ghost
  <2> QED BY <1>3, <2>4 DEF Exit
<1>4. ASSUME NEW p \in Position, Enter(p) PROVE PeakInv'
  BY <1>4 DEF Enter, ghosts
<1>5. CASE Hold
  BY <1>5 DEF Hold, ghosts
<1>6. CASE Persist
  <2>1. Snapshot # None /\ Snapshot.high = money.high
    BY SaveFacts DEF HighWaterInv, TypeOK
  <2>2. \A d \in Days : /\ store'[d] = IF d = day THEN Snapshot ELSE store[d]
                        /\ saved'[d] = IF d = day THEN now ELSE saved[d]
    BY <1>6 DEF Persist, Save, HighWaterInv, TypeOK
  <2>3. day \in Days
    BY DEF HighWaterInv, TypeOK
  <2> QED BY <1>6, <2>1, <2>2, <2>3 DEF Persist, Save
<1>7. ASSUME NEW p \in Position \cup {None}, Reconcile(p) PROVE PeakInv'
  BY <1>7 DEF Reconcile, ghosts
<1>8. CASE Crash
  BY <1>8 DEF Crash, Forget
<1>9. CASE Teardown
  <2>1. Snapshot # None /\ Snapshot.high = money.high
    BY SaveFacts DEF HighWaterInv, TypeOK
  <2>2. \A d \in Days : /\ store'[d] = IF d = day THEN Snapshot ELSE store[d]
                        /\ saved'[d] = IF d = day THEN now ELSE saved[d]
    BY <1>9 DEF Teardown, Save, HighWaterInv, TypeOK
  <2>3. day \in Days /\ pc # "down" /\ pc' = "down"
    BY <1>9 DEF HighWaterInv, TypeOK, Teardown, Forget
  <2> QED BY <2>1, <2>2, <2>3
<1>10. CASE UNCHANGED vars
  BY <1>10 DEF vars, ghosts
<1> QED BY <1>1, <1>2, <1>3, <1>4, <1>5, <1>6, <1>7, <1>8, <1>9, <1>10 DEF Next

(* In a replay, which always resumes the latest row, no position is opened *)
(* while the account is below its lifetime peak by the trailing drawdown,  *)
(* through any crashes, restarts and rollovers.                            *)
THEOREM DrawdownStopsEntries ==
  ASSUME ~Live
  PROVE  Spec => NoEntryPastDrawdown
<1> DEFINE Step == (pc = "decide" /\ pos = None /\ pos' # None /\ MaxDrawdown # None)
                     => now.peak - (now.base + money.equity + money.open) < MaxDrawdown
<1>1. Init /\ HighWaterInv => PeakInv
  BY DEF Init, PeakInv
<1>2. PeakInv /\ [Next]_vars => [Step]_vars
  <2> SUFFICES ASSUME PeakInv, Next,
                      pc = "decide", pos = None, pos' # None, MaxDrawdown # None
               PROVE  now.peak - (now.base + money.equity + money.open) < MaxDrawdown
    OBVIOUS
  <2>1. PICK p \in Position : Enter(p)
    BY DEF Next, Start, Bar, Exit, Hold, Persist, Reconcile, Crash,
           Teardown, Forget
  <2>2. ~(money.high - (money.equity + money.open) >= MaxDrawdown)
    BY <2>1 DEF Enter, Breach, DrawdownBreach
  <2>3. /\ money.equity \in Int /\ money.open \in Int /\ money.high \in Int
        /\ MaxDrawdown \in Int
    BY LimitAssumption DEF PeakInv, HighWaterInv, TypeOK, Money
  <2>4. now.base = 0 /\ now.peak = money.high
    BY DEF PeakInv
  <2> QED BY <2>2, <2>3, <2>4
<1>3. PeakInv /\ HighWaterInv' /\ [Next]_vars => PeakInv'
  BY PeakInductive
<1>4. Spec => []PeakInv
  BY <1>1, <1>3, HighWaterInvariant, PTL DEF Spec
<1> QED BY <1>2, <1>4, PTL DEF Spec, NoEntryPastDrawdown
=============================================================================
