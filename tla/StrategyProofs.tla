--------------------------- MODULE StrategyProofs ---------------------------
(***************************************************************************)
(* A strategy's word, for any calendar, windows, caps, bars and number of  *)
(* restarts: no session sees more entries than it may, none after one was  *)
(* refused, but for what a kill took between an order and its save; no stop*)
(* is loosened, its memory of past sessions holds each of them once, but   *)
(* for the teardowns inside one, and a position it opened is managed to    *)
(* its end, but on the paths the code names.                               *)
(***************************************************************************)
EXTENDS Strategies, SequenceTheorems, FiniteSetTheorems, TLAPS

(* With n entries sent in the session: a pending one has not been counted, *)
(* a strategy that is done may have been refused one.                      *)
Room(m, n) ==
  /\ n \in Nat /\ n <= MaxEntries
  /\ m.phase = "pending" => /\ m.tradesAtEntry \in Nat /\ m.entries < MaxEntries
                            /\ n <= m.entries + 1
  /\ m.phase \notin {"pending", "done"} => n <= m.entries

(* What follows a refusal, with c trades counted by the engine.            *)
Spent(m, c) == m.phase = "done" \/ (m.phase = "pending" /\ c <= m.tradesAtEntry)

(* tfr stops counting missing decisions when it gives up.                  *)
TfrFit(m) == m \in TfrMemory /\ (m.phase # "done" => m.stale <= 2)

(* sme decides once, and arms itself only where an entry is left.          *)
SmeFit(m) ==
  /\ m \in SmeMemory
  /\ ~m.decided => m.phase = "idle" /\ m.entries = 0
  /\ m.phase \in {"armed", "wait_rearm"} => m.entries < MaxEntries
  /\ m.phase \in Managing => m.vstop \in Int

Fit(m) ==
  CASE kind = "tfr" -> TfrFit(m) [] kind = "afr" -> m \in AfrMemory [] kind = "naim" -> m \in NaimMemory
    [] kind = "sme" -> SmeFit(m)
    [] kind \in {"orb", "always"} -> m \in [phase : {"active", "done"}, range : BOOLEAN]

(* sme trails on the side of its own position.                             *)
SameSide(m, p) == (kind = "sme" /\ m.phase = "in_trade" /\ p # None /\ p.own) => m.dir = p.dir

(* A memory, in a process or in the saved row, with the position and the   *)
(* counts it is kept with.                                                 *)
Kept(m, p, c, notes) ==
  /\ Fit(m) /\ SameSide(m, p)
  /\ Managed => Room(m, notes.sent)
  /\ notes.refused => Spent(m, c)

HostType ==
  /\ setup \in Setups
  /\ {wall, clock, backfill} \subseteq Times \cup {NoTime}
  /\ pc \in {"down", "bar", "save"} /\ five \in BOOLEAN
  /\ sess \in [date : Dates \cup {NoDate}, resumed : Dates \cup {NoDate},
               flattened : Dates \cup {NoDate}]
  /\ pos \in Position \cup {None} /\ trades \in Nat
  /\ {starts, stops, repairs} \subseteq Nat /\ history \in Notes

StoreType ==
  store # None =>
    /\ store.date \in Dates /\ store.last \in Times
    /\ store.pos \in Position \cup {None} /\ store.trades \in Nat /\ store.history \in Notes

SessionInv ==
  /\ pc = "down" => mem = None /\ history = FreshNotes
  /\ pc = "save" => sess.date # NoDate
  /\ sess.date # NoDate => clock \in Times
  /\ (sess.date = NoDate /\ sess.resumed = NoDate) => history.sent = 0 /\ ~history.refused

MemoryInv ==
  /\ pc # "down" => Kept(mem, pos, trades, history)
  /\ store # None => Kept(store.mem, store.pos, store.trades, store.history)

StrategyInv == HostType /\ StoreType /\ SessionInv /\ MemoryInv

-----------------------------------------------------------------------------
(* What every strategy has in common: how the count and the phase may move *)
(* on a bar, with c trades counted by the engine, and what an entry does.  *)
Good(m, n, c, r) == Room(m, n) /\ (r => Spent(m, c))

Moves(a, b, c) ==
  \/ b.phase = a.phase /\ b.entries = a.entries /\ b.tradesAtEntry = a.tradesAtEntry
  \/ b.phase = "done"
  \/ b.entries = a.entries /\ a.phase \notin {"pending", "done"} /\ b.phase # "pending"
  \/ a.phase = "pending" /\ ~(c <= a.tradesAtEntry) /\ b.entries = a.entries + 1 /\ b.phase # "pending"

Enters(a, b, c) ==
  /\ a.phase \notin {"pending", "done"} /\ a.entries < MaxEntries /\ b.entries = a.entries
  /\ b.phase = "pending" /\ b.tradesAtEntry = c

IsEntry(out) == out.signal # None /\ out.signal.intent = "ENTRY"

(* The bar's outcome for a strategy that came to it with n entries sent.   *)
After(out, n, c, r) ==
  /\ Good(out.mem, n, c, r)
  /\ IsEntry(out) => ~r /\ Room(out.mem, n + 1) /\ Spent(out.mem, c)
  /\ out.signal \in {None} \cup [intent : {"ENTRY", "FLATTEN"}, dir : Directions]

LEMMA MovesKeep ==
  ASSUME NEW a, NEW b, NEW n, NEW c, NEW r \in BOOLEAN, a.entries \in Nat, MaxEntries \in Nat,
         Good(a, n, c, r), Moves(a, b, c)
  PROVE  Good(b, n, c, r)
<1>1. Room(b, n)
  BY DEF Good, Moves, Room
<1>2. r => Spent(b, c)
  BY DEF Good, Moves, Spent
<1> QED BY <1>1, <1>2 DEF Good

LEMMA EntersKeep ==
  ASSUME NEW a, NEW b, NEW n, NEW c \in Nat, NEW r \in BOOLEAN, a.entries \in Nat, MaxEntries \in Nat,
         Good(a, n, c, r), Enters(a, b, c)
  PROVE  Good(b, n, c, r) /\ ~r /\ Room(b, n + 1) /\ Spent(b, c)
<1>1. ~r
  BY DEF Good, Enters, Spent
<1>2. Room(b, n) /\ Room(b, n + 1)
  BY DEF Good, Enters, Room
<1>3. Spent(b, c)
  BY DEF Enters, Spent
<1> QED BY <1>1, <1>2, <1>3 DEF Good

LEMMA WaitAfter ==
  ASSUME NEW m, NEW n, NEW c, NEW r, Good(m, n, c, r)
  PROVE  After(Wait(m), n, c, r) /\ Wait(m).mem = m /\ Wait(m).signal = None
BY DEF After, Wait, IsEntry

LEMMA LeaveAfter ==
  ASSUME NEW m, NEW n, NEW c, NEW r, Good(m, n, c, r), NEW d \in Directions
  PROVE  After(Leave(m, d), n, c, r) /\ Leave(m, d).mem = m
BY DEF After, Leave, IsEntry

LEMMA EnterAfter ==
  ASSUME NEW a, NEW b, NEW n, NEW c \in Nat, NEW r \in BOOLEAN, a.entries \in Nat, MaxEntries \in Nat,
         Good(a, n, c, r), Enters(a, b, c), NEW d \in Directions
  PROVE  After(Enter(b, d), n, c, r) /\ Enter(b, d).mem = b
BY EntersKeep DEF After, Enter

LEMMA MaxIsNat == MaxEntries \in Nat \ {0}
BY StrategyAssumption

-----------------------------------------------------------------------------
(* naim.                                                                   *)
LEMMA NaimBegunKeeps ==
  ASSUME NEW m \in NaimMemory, NEW in, NEW c
  PROVE  NaimBegun(m, in) \in NaimMemory /\ Moves(m, NaimBegun(m, in), c)
BY DEF NaimBegun, NaimMemory, Moves, Phases

LEMMA NaimSettledKeeps ==
  ASSUME NEW m \in NaimMemory, NEW ctx, m.phase = "pending" => m.entries < MaxEntries
  PROVE  NaimSettled(m, ctx) \in NaimMemory /\ Moves(m, NaimSettled(m, ctx), ctx.trades)
<1> DEFINE filled == [m EXCEPT !.phase = "in_trade", !.entries = @ + 1, !.tradesAtEntry = None]
           stopped == [m EXCEPT !.phase = "active", !.entries = @ + 1, !.tradesAtEntry = None]
           refused == [m EXCEPT !.phase = "done", !.tradesAtEntry = None]
<1>1. MaxEntries \in Nat
  BY MaxIsNat
<1>2. CASE m.phase # "pending"
  BY <1>2 DEF NaimSettled, Moves
<1>3. CASE m.phase = "pending" /\ ctx.trades <= m.tradesAtEntry
  <2>1. NaimSettled(m, ctx) = refused
    BY <1>3 DEF NaimSettled, Fate
  <2>2. refused \in NaimMemory /\ refused.phase = "done"
    BY DEF NaimMemory, Phases
  <2> QED BY <2>1, <2>2 DEF Moves
<1>4. CASE m.phase = "pending" /\ ~(ctx.trades <= m.tradesAtEntry) /\ ctx.pos # None
  <2>1. NaimSettled(m, ctx) = filled
    BY <1>4 DEF NaimSettled, Fate
  <2>2. m.entries + 1 \in 0 .. MaxEntries
    BY <1>1, <1>4 DEF NaimMemory
  <2>3. filled \in NaimMemory /\ filled.phase = "in_trade" /\ filled.entries = m.entries + 1
    BY <2>2 DEF NaimMemory, Phases
  <2> QED BY <1>4, <2>1, <2>3 DEF Moves
<1>5. CASE m.phase = "pending" /\ ~(ctx.trades <= m.tradesAtEntry) /\ ctx.pos = None
  <2>1. NaimSettled(m, ctx) = stopped
    BY <1>5 DEF NaimSettled, Fate
  <2>2. m.entries + 1 \in 0 .. MaxEntries
    BY <1>1, <1>5 DEF NaimMemory
  <2>3. stopped \in NaimMemory /\ stopped.phase = "active" /\ stopped.entries = m.entries + 1
    BY <2>2 DEF NaimMemory, Phases
  <2> QED BY <1>5, <2>1, <2>3 DEF Moves
<1> QED BY <1>2, <1>3, <1>4, <1>5

LEMMA NaimManageKeeps ==
  ASSUME NEW m \in NaimMemory, m.phase = "in_trade", NEW in, NEW ctx, NEW slot,
         ctx.pos # None => ctx.pos.dir \in Directions,
         NEW n, NEW r \in BOOLEAN, Good(m, n, ctx.trades, r)
  PROVE  /\ NaimManage(m, in, ctx, slot).mem \in NaimMemory
         /\ After(NaimManage(m, in, ctx, slot), n, ctx.trades, r)
<1> DEFINE done == In(m, "done")  active == In(m, "active")
<1>1. done \in NaimMemory /\ active \in NaimMemory
  BY DEF In, NaimMemory, Phases
<1>2. Moves(m, done, ctx.trades) /\ Moves(m, active, ctx.trades)
  BY DEF In, NaimMemory, Moves
<1>3. Good(done, n, ctx.trades, r) /\ Good(active, n, ctx.trades, r)
  BY <1>2, MovesKeep, MaxIsNat DEF NaimMemory
<1> HIDE DEF done, active
<1>4. CASE ctx.pos = None
  BY <1>4, <1>1, <1>3, WaitAfter DEF NaimManage, active
<1>5. CASE ctx.pos # None /\ slot >= FlatAt
  BY <1>5, <1>1, <1>3, LeaveAfter DEF NaimManage, done
<1>6. CASE ctx.pos # None /\ ~(slot >= FlatAt) /\ in.inside
  BY <1>6, <1>1, <1>3, LeaveAfter DEF NaimManage, active
<1>7. CASE ctx.pos # None /\ ~(slot >= FlatAt) /\ ~in.inside
  BY <1>7, <1>1, <1>3, WaitAfter DEF NaimManage
<1> QED BY <1>4, <1>5, <1>6, <1>7

LEMMA NaimTriesKeeps ==
  ASSUME NEW m \in NaimMemory, NEW in, in.breaks \in {0, 1, -1}, NEW ctx, ctx.trades \in Nat,
         NEW slot, NEW set, NEW n, NEW r \in BOOLEAN, Good(m, n, ctx.trades, r)
  PROVE  /\ NaimTries(m, in, ctx, slot, set).mem \in NaimMemory
         /\ After(NaimTries(m, in, ctx, slot, set), n, ctx.trades, r)
<1> DEFINE done == In(m, "done")
           sent == [m EXCEPT !.phase = "pending", !.tradesAtEntry = ctx.trades]
<1>1. done \in NaimMemory /\ sent \in NaimMemory
  BY DEF In, NaimMemory, Phases
<1>2. Moves(m, done, ctx.trades)
  BY DEF In, NaimMemory, Moves
<1>3. Good(done, n, ctx.trades, r)
  BY <1>2, MovesKeep, MaxIsNat DEF NaimMemory
<1>4. m.phase = "active" /\ ~(m.entries >= MaxEntries) => Enters(m, sent, ctx.trades)
  BY MaxIsNat DEF Enters, NaimMemory
<1> HIDE DEF done, sent
<1>5. CASE m.phase # "active" \/ slot \notin EntrySlots
  BY <1>5, <1>1, WaitAfter DEF NaimTries
<1>6. CASE m.phase = "active" /\ slot \in EntrySlots /\ m.entries >= MaxEntries
  BY <1>6, <1>1, <1>3, WaitAfter DEF NaimTries, done
<1>7. CASE /\ m.phase = "active" /\ slot \in EntrySlots /\ ~(m.entries >= MaxEntries)
           /\ ctx.warmup \/ ctx.pos # None \/ in.breaks = 0 \/ ~NaimGate(m, in, set)
  BY <1>7, <1>1, WaitAfter DEF NaimTries
<1>8. CASE /\ m.phase = "active" /\ slot \in EntrySlots /\ ~(m.entries >= MaxEntries)
           /\ ~(ctx.warmup \/ ctx.pos # None \/ in.breaks = 0 \/ ~NaimGate(m, in, set))
  <2>1. NaimTries(m, in, ctx, slot, set) = Enter(sent, in.breaks) /\ in.breaks \in Directions
    BY <1>8 DEF NaimTries, sent, Directions
  <2>2. After(Enter(sent, in.breaks), n, ctx.trades, r) /\ Enter(sent, in.breaks).mem = sent
    <3> DEFINE d == in.breaks
    <3>1. m.entries \in Nat /\ MaxEntries \in Nat /\ Enters(m, sent, ctx.trades) /\ d \in Directions
      BY <1>4, <1>8, <2>1, MaxIsNat DEF NaimMemory
    <3> HIDE DEF d
    <3>2. After(Enter(sent, d), n, ctx.trades, r) /\ Enter(sent, d).mem = sent
      BY <3>1, EnterAfter
    <3> QED BY <3>2 DEF d
  <2> QED BY <1>1, <2>1, <2>2
<1> QED BY <1>5, <1>6, <1>7, <1>8

LEMMA NaimBar ==
  ASSUME NEW m \in NaimMemory, NEW in \in NaimInputs, NEW ctx, ctx.trades \in Nat,
         ctx.pos # None => ctx.pos.dir \in Directions,
         NEW slot, NEW set, NEW n, NEW r \in BOOLEAN, Good(m, n, ctx.trades, r)
  PROVE  /\ NaimOnBar(m, in, ctx, slot, set).mem \in NaimMemory
         /\ After(NaimOnBar(m, in, ctx, slot, set), n, ctx.trades, r)
<1> DEFINE c == ctx.trades  sampled == NaimSampled(m, slot, set)
           begun == NaimBegun(m, in)  settled == NaimSettled(begun, ctx)
           managed == IF settled.phase = "in_trade" THEN NaimManage(settled, in, ctx, slot)
                      ELSE Wait(settled)
<1>1. CASE in.tf = "5m"
  <2>1. sampled \in NaimMemory /\ Moves(m, sampled, c)
    BY DEF NaimSampled, NaimMemory, Moves
  <2>2. Good(sampled, n, c, r)
    BY <2>1, MovesKeep, MaxIsNat DEF NaimMemory
  <2> QED BY <1>1, <2>1, <2>2, WaitAfter DEF NaimOnBar
<1>2. CASE in.tf # "5m" /\ slot \notin RegularSlots
  BY <1>2, WaitAfter DEF NaimOnBar
<1>3. CASE in.tf # "5m" /\ slot \in RegularSlots
  <2>1. in.breaks \in {0, 1, -1}
    BY <1>3 DEF NaimInputs
  <2>2. begun \in NaimMemory /\ Good(begun, n, c, r)
    BY NaimBegunKeeps, MovesKeep, MaxIsNat DEF NaimMemory
  <2>3. begun.phase = "pending" => begun.entries < MaxEntries
    BY <2>2 DEF Good, Room
  <2> HIDE DEF begun
  <2>4. settled \in NaimMemory /\ Moves(begun, settled, c)
    BY <2>2, <2>3, NaimSettledKeeps
  <2>5. Good(settled, n, c, r)
    BY <2>2, <2>4, MovesKeep, MaxIsNat DEF NaimMemory
  <2> HIDE DEF settled
  <2>6. managed.mem \in NaimMemory /\ After(managed, n, c, r)
    BY <2>4, <2>5, NaimManageKeeps, WaitAfter
  <2>7. Good(managed.mem, n, c, r)
    BY <2>6 DEF After
  <2> HIDE DEF managed
  <2>8. \A x \in NaimMemory : Good(x, n, ctx.trades, r) =>
          /\ NaimTries(x, in, ctx, slot, set).mem \in NaimMemory
          /\ After(NaimTries(x, in, ctx, slot, set), n, ctx.trades, r)
    BY <2>1, NaimTriesKeeps
  <2>9. NaimOnBar(m, in, ctx, slot, set) = IF managed.signal # None THEN managed
                                           ELSE NaimTries(managed.mem, in, ctx, slot, set)
    BY <1>3 DEF NaimOnBar, NaimOnMinute, managed, settled, begun
  <2> QED BY <2>6, <2>7, <2>8, <2>9
<1> QED BY <1>1, <1>2, <1>3

LEMMA NaimBegins == NaimFresh \in NaimMemory /\ NaimFresh.phase = "idle"
BY MaxIsNat, EmptySeq DEF NaimFresh, NaimMemory, Phases

LEMMA NaimSessions ==
  ASSUME NEW m \in NaimMemory, NEW date \in Nat, NEW n, NEW c, NEW r \in BOOLEAN
  PROVE  /\ NaimReset(m) \in NaimMemory /\ NaimReset(m).phase = "idle"
         /\ NaimEnded(m, date) \in NaimMemory
         /\ Good(m, n, c, r) => Good(NaimEnded(m, date), n, c, r)
<1>2. NaimReset(m) \in NaimMemory /\ NaimReset(m).phase = "idle"
  BY NaimBegins DEF NaimReset, NaimMemory, NaimFresh
<1>3. Append(m.banked, date) \in Seq(Nat)
  BY AppendProperties DEF NaimMemory
<1>4. NaimEnded(m, date) \in NaimMemory /\ Moves(m, NaimEnded(m, date), c)
  BY <1>3 DEF NaimEnded, NaimMemory, Moves
<1> QED BY <1>2, <1>4, MovesKeep, MaxIsNat DEF NaimMemory

-----------------------------------------------------------------------------
(* afr.                                                                    *)
LEMMA AfrDayKeeps ==
  ASSUME NEW m \in AfrMemory, NEW in, NEW c
  PROVE  AfrDay(m, in) \in AfrMemory /\ Moves(m, AfrDay(m, in), c)
<1> DEFINE begun == [m EXCEPT !.day = TRUE, !.phase = IF @ = "idle" THEN "active" ELSE @]
<1>1. In(m, "done") \in AfrMemory /\ In(m, "done").phase = "done"
  BY DEF In, AfrMemory, Phases
<1>2. begun \in AfrMemory /\ begun.entries = m.entries /\ begun.tradesAtEntry = m.tradesAtEntry
      /\ begun.phase = IF m.phase = "idle" THEN "active" ELSE m.phase
  BY DEF AfrMemory, Phases
<1>3. AfrDay(m, in) \in {m, In(m, "done"), begun}
  BY DEF AfrDay
<1> HIDE DEF begun
<1> QED BY <1>1, <1>2, <1>3 DEF Moves

LEMMA AfrSettledKeeps ==
  ASSUME NEW m \in AfrMemory, NEW ctx, m.phase = "pending" => m.entries < MaxEntries
  PROVE  AfrSettled(m, ctx) \in AfrMemory /\ Moves(m, AfrSettled(m, ctx), ctx.trades)
<1> DEFINE filled == [m EXCEPT !.phase = "in_trade", !.entries = @ + 1, !.tradesAtEntry = None, !.held = 0]
           stopped == [m EXCEPT !.phase = "active", !.entries = @ + 1, !.tradesAtEntry = None]
           refused == [m EXCEPT !.phase = "done", !.tradesAtEntry = None]
<1>1. MaxEntries \in Nat /\ TimeStop \in Nat
  BY StrategyAssumption
<1>2. m.phase = "pending" => m.entries + 1 \in 0 .. MaxEntries
  BY <1>1 DEF AfrMemory
<1>3. CASE m.phase # "pending"
  BY <1>3 DEF AfrSettled, Moves
<1>4. CASE m.phase = "pending" /\ ctx.trades <= m.tradesAtEntry
  <2>1. AfrSettled(m, ctx) = refused
    BY <1>4 DEF AfrSettled, Fate
  <2>2. refused \in AfrMemory /\ refused.phase = "done"
    BY DEF AfrMemory, Phases
  <2> QED BY <2>1, <2>2 DEF Moves
<1>5. CASE m.phase = "pending" /\ ~(ctx.trades <= m.tradesAtEntry) /\ ctx.pos # None
  <2>1. AfrSettled(m, ctx) = filled
    BY <1>5 DEF AfrSettled, Fate
  <2>2. filled \in AfrMemory /\ filled.phase = "in_trade" /\ filled.entries = m.entries + 1
    <3> DEFINE most == [m EXCEPT !.phase = "in_trade", !.entries = @ + 1, !.tradesAtEntry = None]
    <3>1. most \in AfrMemory /\ most.phase = "in_trade" /\ most.entries = m.entries + 1
      BY <1>2, <1>5 DEF AfrMemory, Phases
    <3>2. filled = [most EXCEPT !.held = 0]
      OBVIOUS
    <3> HIDE DEF most, filled
    <3> QED BY <1>1, <3>1, <3>2 DEF AfrMemory
  <2> QED BY <1>5, <2>1, <2>2 DEF Moves
<1>6. CASE m.phase = "pending" /\ ~(ctx.trades <= m.tradesAtEntry) /\ ctx.pos = None
  <2>1. AfrSettled(m, ctx) = stopped
    BY <1>6 DEF AfrSettled, Fate
  <2>2. stopped \in AfrMemory /\ stopped.phase = "active" /\ stopped.entries = m.entries + 1
    BY <1>2, <1>6 DEF AfrMemory, Phases
  <2> QED BY <1>6, <2>1, <2>2 DEF Moves
<1> QED BY <1>3, <1>4, <1>5, <1>6

LEMMA AfrManageKeeps ==
  ASSUME NEW m \in AfrMemory, m.phase = "in_trade", NEW rec, NEW ctx, NEW slot, NEW set,
         ctx.pos # None => ctx.pos.dir \in Directions,
         NEW n, NEW r \in BOOLEAN, Good(m, n, ctx.trades, r)
  PROVE  /\ AfrManage(m, rec, ctx, slot, set).mem \in AfrMemory
         /\ After(AfrManage(m, rec, ctx, slot, set), n, ctx.trades, r)
<1> DEFINE held == [m EXCEPT !.held = Up(@, TimeStop)]  active == In(m, "active")
           out(phase) == [held EXCEPT !.held = 0, !.aggressor = 0, !.phase = phase]
<1>1. Up(m.held, TimeStop) \in 0 .. TimeStop
  BY StrategyAssumption DEF Up, AfrMemory
<1>2. held \in AfrMemory /\ held.phase = m.phase /\ held.entries = m.entries
      /\ held.tradesAtEntry = m.tradesAtEntry
  BY <1>1 DEF AfrMemory
<1>3. active \in AfrMemory /\ active.phase = "active" /\ active.entries = m.entries
  BY DEF In, AfrMemory, Phases
<1>4. \A phase \in {"active", "done"} :
        out(phase) \in AfrMemory /\ out(phase).phase = phase /\ out(phase).entries = m.entries
  <2> HIDE DEF held
  <2> SUFFICES ASSUME NEW phase \in {"active", "done"}
               PROVE  out(phase) \in AfrMemory /\ out(phase).phase = phase /\ out(phase).entries = m.entries
    OBVIOUS
  <2>1. 0 \in 0 .. TimeStop
    BY StrategyAssumption
  <2> QED BY <1>2, <2>1 DEF AfrMemory, Phases
<1> HIDE DEF held, active
<1>5. \A x \in {held, active, out("active"), out("done")} : Moves(m, x, ctx.trades)
  BY <1>2, <1>3, <1>4 DEF Moves
<1>6. \A x \in {held, active, out("active"), out("done")} : Good(x, n, ctx.trades, r)
  BY <1>5, MovesKeep, MaxIsNat DEF AfrMemory
<1>7. \/ ctx.pos = None /\ AfrManage(m, rec, ctx, slot, set) = Wait(active)
      \/ AfrManage(m, rec, ctx, slot, set) = Wait(held)
      \/ /\ ctx.pos # None
         /\ \E phase \in {"active", "done"} :
              AfrManage(m, rec, ctx, slot, set) = Leave(out(phase), ctx.pos.dir)
  BY DEF AfrManage, AfrExit, held, active
<1> HIDE DEF out
<1> QED BY <1>2, <1>3, <1>4, <1>6, <1>7, WaitAfter, LeaveAfter

LEMMA AfrTriesKeeps ==
  ASSUME NEW m \in AfrMemory, NEW rec \in AfrRecords \cup {None}, NEW ctx, ctx.trades \in Nat,
         NEW slot, NEW n, NEW r \in BOOLEAN, Good(m, n, ctx.trades, r)
  PROVE  /\ AfrTries(m, rec, ctx, slot).mem \in AfrMemory
         /\ After(AfrTries(m, rec, ctx, slot), n, ctx.trades, r)
<1> DEFINE done == In(m, "done")  side == rec.flow \div 2
           sent == [m EXCEPT !.phase = "pending", !.tradesAtEntry = ctx.trades, !.aggressor = side]
<1>1. done \in AfrMemory /\ done.phase = "done"
  BY DEF In, AfrMemory, Phases
<1>2. Good(done, n, ctx.trades, r)
  BY <1>1, MovesKeep, MaxIsNat DEF AfrMemory, Moves
<1>3. CASE AfrTries(m, rec, ctx, slot) = Wait(m)
  BY <1>3, WaitAfter
<1>4. CASE AfrTries(m, rec, ctx, slot) = Wait(done)
  <2> HIDE DEF done
  <2> QED BY <1>1, <1>2, <1>4, WaitAfter
<1>5. CASE /\ m.phase = "active" /\ ~(m.entries >= MaxEntries) /\ rec # None /\ rec.flow \in {2, -2}
           /\ AfrTries(m, rec, ctx, slot) = Enter(sent, - side)
  <2>1. side \in {1, -1} /\ - side \in Directions
    BY <1>5 DEF Directions
  <2> HIDE DEF side
  <2>2. sent \in AfrMemory /\ sent.phase = "pending" /\ sent.entries = m.entries
        /\ sent.tradesAtEntry = ctx.trades
    BY <2>1 DEF AfrMemory, Phases
  <2> HIDE DEF sent
  <2>3. Enters(m, sent, ctx.trades) /\ m.entries \in Nat /\ MaxEntries \in Nat
    BY <1>5, <2>2, MaxIsNat DEF Enters, AfrMemory
  <2> DEFINE d == - side
  <2> HIDE DEF d
  <2>4. After(Enter(sent, d), n, ctx.trades, r) /\ Enter(sent, d).mem = sent
    <3>1. d \in Directions
      BY <2>1 DEF d
    <3> QED BY <2>3, <3>1, EnterAfter
  <2> QED BY <1>5, <2>2, <2>4 DEF d
<1> QED BY <1>3, <1>4, <1>5 DEF AfrTries

LEMMA AfrBar ==
  ASSUME NEW m \in AfrMemory, NEW in \in AfrInputs, NEW ctx, ctx.trades \in Nat,
         ctx.pos # None => ctx.pos.dir \in Directions,
         NEW slot, NEW set, NEW n, NEW r \in BOOLEAN, Good(m, n, ctx.trades, r)
  PROVE  /\ AfrOnBar(m, in, ctx, slot, set).mem \in AfrMemory
         /\ After(AfrOnBar(m, in, ctx, slot, set), n, ctx.trades, r)
<1> DEFINE day == AfrDay(m, in)  settled == AfrSettled(day, ctx)
           rec == IF settled.day THEN in.rec ELSE None
           managed == IF settled.phase = "in_trade" THEN AfrManage(settled, rec, ctx, slot, set)
                      ELSE Wait(settled)
<1>1. CASE slot \notin RegularSlots
  BY <1>1, WaitAfter DEF AfrOnBar
<1>2. CASE slot \in RegularSlots
  <2>1. day \in AfrMemory /\ Good(day, n, ctx.trades, r)
    BY AfrDayKeeps, MovesKeep, MaxIsNat DEF AfrMemory
  <2>2. day.phase = "pending" => day.entries < MaxEntries
    BY <2>1 DEF Good, Room
  <2> HIDE DEF day
  <2>3. settled \in AfrMemory /\ Moves(day, settled, ctx.trades)
    BY <2>1, <2>2, AfrSettledKeeps
  <2>4. Good(settled, n, ctx.trades, r)
    BY <2>1, <2>3, MovesKeep, MaxIsNat DEF AfrMemory
  <2>5. rec \in AfrRecords \cup {None}
    BY DEF AfrInputs
  <2> HIDE DEF settled, rec
  <2>6. managed.mem \in AfrMemory /\ After(managed, n, ctx.trades, r)
    BY <2>3, <2>4, AfrManageKeeps, WaitAfter
  <2>7. Good(managed.mem, n, ctx.trades, r)
    BY <2>6 DEF After
  <2>8. AfrOnBar(m, in, ctx, slot, set) = IF managed.signal # None THEN managed
                                          ELSE AfrTries(managed.mem, rec, ctx, slot)
    BY <1>2 DEF AfrOnBar, settled, day, rec
  <2> HIDE DEF managed
  <2>9. \A x \in AfrMemory : Good(x, n, ctx.trades, r) =>
          /\ AfrTries(x, rec, ctx, slot).mem \in AfrMemory
          /\ After(AfrTries(x, rec, ctx, slot), n, ctx.trades, r)
    BY <2>5, AfrTriesKeeps
  <2> QED BY <2>6, <2>7, <2>8, <2>9
<1> QED BY <1>1, <1>2

LEMMA AfrBegins == AfrFresh \in AfrMemory /\ AfrFresh.phase = "idle"
BY StrategyAssumption DEF AfrFresh, AfrMemory, Phases

LEMMA AfrSessions ==
  ASSUME NEW m \in AfrMemory, NEW n, NEW c, NEW r \in BOOLEAN
  PROVE  /\ AfrRestored(m) \in AfrMemory
         /\ Good(m, n, c, r) => Good(AfrRestored(m), n, c, r)
<1>2. AfrRestored(m) \in AfrMemory /\ Moves(m, AfrRestored(m), c)
  BY DEF AfrRestored, AfrMemory, Moves
<1> QED BY <1>2, MovesKeep, MaxIsNat DEF AfrMemory

-----------------------------------------------------------------------------
(* tfr.                                                                    *)
LEMMA CapsAreNat ==
  /\ MaxEntries \in Nat /\ Hysteresis \in Nat /\ TimeStop \in Nat
  /\ 0 \in 0 .. MaxEntries /\ 0 \in 0 .. Hysteresis /\ 0 \in 0 .. TimeStop /\ 0 < MaxEntries
BY StrategyAssumption

LEMMA UpWithin ==
  ASSUME NEW cap \in Nat, NEW k \in 0 .. cap
  PROVE  Up(k, cap) \in 0 .. cap
BY DEF Up

LEMMA TfrDayKeeps ==
  ASSUME NEW m, TfrFit(m), NEW in, NEW c
  PROVE  TfrFit(TfrDay(m, in)) /\ Moves(m, TfrDay(m, in), c)
<1> DEFINE begun == [m EXCEPT !.day = TRUE, !.phase = IF @ = "idle" THEN "active" ELSE @]
<1>1. m \in TfrMemory
  BY DEF TfrFit
<1>2. In(m, "done") \in TfrMemory /\ In(m, "done").phase = "done"
  BY <1>1 DEF In, TfrMemory, Phases
<1>3. begun \in TfrMemory /\ begun.entries = m.entries /\ begun.tradesAtEntry = m.tradesAtEntry
      /\ begun.phase = (IF m.phase = "idle" THEN "active" ELSE m.phase) /\ begun.stale = m.stale
  BY <1>1 DEF TfrMemory, Phases
<1>4. TfrDay(m, in) \in {m, In(m, "done"), begun}
  BY DEF TfrDay
<1> HIDE DEF begun
<1> QED BY <1>2, <1>3, <1>4 DEF Moves, TfrFit

LEMMA TfrAgedKeeps ==
  ASSUME NEW m, TfrFit(m), NEW rec, NEW c
  PROVE  /\ TfrAged(m, rec) \in TfrMemory /\ Moves(m, TfrAged(m, rec), c)
         /\ TfrFit(TfrAged(m, rec)) \/ Blind(TfrAged(m, rec))
<1> DEFINE aged == [m EXCEPT !.stale = IF rec = None THEN @ + 1 ELSE 0]
<1>1. m \in TfrMemory
  BY DEF TfrFit
<1>2. CASE m.day /\ m.phase \in {"active", "pending", "in_trade"}
  <2>1. TfrAged(m, rec) = aged
    BY <1>2 DEF TfrAged
  <2>2. m.stale + 1 \in 0 .. 3 /\ 0 \in 0 .. 3
    BY <1>1, <1>2 DEF TfrFit, TfrMemory
  <2>3. /\ aged \in TfrMemory /\ aged.phase = m.phase /\ aged.entries = m.entries
        /\ aged.tradesAtEntry = m.tradesAtEntry /\ aged.day = m.day
    BY <1>1, <2>2 DEF TfrMemory
  <2> HIDE DEF aged
  <2>4. aged.stale \in 0 .. 3
    BY <2>3 DEF TfrMemory
  <2> QED BY <1>2, <2>1, <2>3, <2>4 DEF Moves, TfrFit, Blind
<1>3. CASE ~(m.day /\ m.phase \in {"active", "pending", "in_trade"})
  BY <1>1, <1>3 DEF TfrAged, Moves
<1> QED BY <1>2, <1>3

LEMMA TfrSettledKeeps ==
  ASSUME NEW m, TfrFit(m), NEW ctx, m.phase = "pending" => m.entries < MaxEntries
  PROVE  TfrFit(TfrSettled(m, ctx)) /\ Moves(m, TfrSettled(m, ctx), ctx.trades)
<1> DEFINE counted == [m EXCEPT !.phase = "in_trade", !.entries = @ + 1, !.tradesAtEntry = None]
           filled == [counted EXCEPT !.held = 0, !.regime = 0, !.prob = 0]
           stopped == [m EXCEPT !.phase = "active", !.entries = @ + 1, !.tradesAtEntry = None]
           refused == [m EXCEPT !.phase = "done", !.tradesAtEntry = None]
<1>1. m \in TfrMemory
  BY DEF TfrFit
<1>2. m.phase = "pending" => m.entries + 1 \in 0 .. MaxEntries
  BY <1>1, CapsAreNat DEF TfrMemory
<1>3. CASE m.phase # "pending"
  BY <1>3 DEF TfrSettled, Moves
<1>4. CASE m.phase = "pending" /\ ctx.trades <= m.tradesAtEntry
  <2>1. TfrSettled(m, ctx) = refused
    BY <1>4 DEF TfrSettled, Fate
  <2>2. refused \in TfrMemory /\ refused.phase = "done"
    BY <1>1 DEF TfrMemory, Phases
  <2> HIDE DEF refused
  <2> QED BY <2>1, <2>2 DEF Moves, TfrFit
<1>5. CASE m.phase = "pending" /\ ~(ctx.trades <= m.tradesAtEntry) /\ ctx.pos # None
  <2>1. TfrSettled(m, ctx) = filled
    BY <1>5 DEF TfrSettled, TfrEntered, Fate
  <2>2. /\ counted \in TfrMemory /\ counted.phase = "in_trade" /\ counted.entries = m.entries + 1
        /\ counted.stale = m.stale
    BY <1>1, <1>2, <1>5 DEF TfrMemory, Phases
  <2> HIDE DEF counted
  <2>3. /\ filled \in TfrMemory /\ filled.phase = "in_trade" /\ filled.entries = m.entries + 1
        /\ filled.stale = m.stale
    BY <2>2, CapsAreNat DEF TfrMemory
  <2> HIDE DEF filled
  <2> QED BY <1>5, <2>1, <2>3 DEF Moves, TfrFit
<1>6. CASE m.phase = "pending" /\ ~(ctx.trades <= m.tradesAtEntry) /\ ctx.pos = None
  <2>1. TfrSettled(m, ctx) = stopped
    BY <1>6 DEF TfrSettled, Fate
  <2>2. /\ stopped \in TfrMemory /\ stopped.phase = "active" /\ stopped.entries = m.entries + 1
        /\ stopped.stale = m.stale
    BY <1>1, <1>2, <1>6 DEF TfrMemory, Phases
  <2> HIDE DEF stopped
  <2> QED BY <1>6, <2>1, <2>2 DEF Moves, TfrFit
<1> QED BY <1>3, <1>4, <1>5, <1>6

(* An exit; the memory may be that of a blind one, when it ends done.      *)
LEMMA TfrExitKeeps ==
  ASSUME NEW m \in TfrMemory, NEW ctx, ctx.pos.dir \in Directions, NEW phase \in {"active", "done"},
         phase = "active" => m.stale <= 2 /\ m.phase \notin {"pending", "done"},
         NEW n, NEW c, NEW r \in BOOLEAN, Good(m, n, c, r)
  PROVE  TfrFit(TfrExit(m, ctx, phase).mem) /\ After(TfrExit(m, ctx, phase), n, c, r)
<1> DEFINE some == [m EXCEPT !.held = 0, !.regime = 0, !.prob = 0]
           out == [some EXCEPT !.decay = 0, !.phase = phase]
<1>1. /\ some \in TfrMemory /\ some.phase = m.phase /\ some.entries = m.entries /\ some.stale = m.stale
  BY CapsAreNat DEF TfrMemory
<1>2. out = [m EXCEPT !.held = 0, !.regime = 0, !.prob = 0, !.decay = 0, !.phase = phase]
  OBVIOUS
<1> HIDE DEF some
<1>3. /\ out \in TfrMemory /\ out.phase = phase /\ out.entries = m.entries /\ out.stale = m.stale
  BY <1>1, CapsAreNat DEF TfrMemory, Phases
<1>4. TfrExit(m, ctx, phase) = Leave(out, ctx.pos.dir)
  BY <1>2 DEF TfrExit
<1> HIDE DEF out
<1>5. Moves(m, out, c)
  BY <1>3 DEF Moves
<1>6. Good(out, n, c, r)
  BY <1>5, MovesKeep, MaxIsNat DEF TfrMemory
<1> QED BY <1>3, <1>4, <1>6, LeaveAfter DEF TfrFit

LEMMA CountedKeeps ==
  ASSUME NEW m \in TfrMemory, NEW rec, NEW dir, NEW mode
  PROVE  /\ Counted(m, rec, dir, mode) \in TfrMemory /\ Counted(m, rec, dir, mode).phase = m.phase
         /\ Counted(m, rec, dir, mode).entries = m.entries
         /\ Counted(m, rec, dir, mode).tradesAtEntry = m.tradesAtEntry
         /\ Counted(m, rec, dir, mode).stale = m.stale
<1> DEFINE run(k, holds) == IF holds THEN Up(k, Hysteresis) ELSE 0
           dec == IF mode \in {"fd", "fstack"} THEN run(m.decay, Against(rec, dir)) ELSE m.decay
           reg == IF mode \in {"ri", "stack"} THEN run(m.regime, rec.regime \in {"gone", "lost"}) ELSE m.regime
           prb == IF mode \in {"ri", "stack"} THEN run(m.prob, rec.regime \in {"fading", "lost"}) ELSE m.prob
<1>1. /\ m.decay \in 0 .. Hysteresis /\ m.regime \in 0 .. Hysteresis /\ m.prob \in 0 .. Hysteresis
      /\ Hysteresis \in Nat /\ 0 \in 0 .. Hysteresis
  BY CapsAreNat DEF TfrMemory
<1>2. dec \in 0 .. Hysteresis /\ reg \in 0 .. Hysteresis /\ prb \in 0 .. Hysteresis
  BY <1>1, UpWithin
<1>3. Counted(m, rec, dir, mode) = [m EXCEPT !.decay = dec, !.regime = reg, !.prob = prb]
  BY DEF Counted
<1> HIDE DEF dec, reg, prb
<1> QED BY <1>2, <1>3 DEF TfrMemory

LEMMA TfrManagedKeeps ==
  ASSUME NEW m, TfrFit(m), m.phase = "in_trade", NEW rec \in TfrRecords \cup {None}, NEW ctx, NEW slot,
         NEW set, ctx.pos.dir \in Directions, NEW n, NEW r \in BOOLEAN, Good(m, n, ctx.trades, r)
  PROVE  /\ TfrFit(TfrManaged(m, rec, ctx, slot, set).mem)
         /\ After(TfrManaged(m, rec, ctx, slot, set), n, ctx.trades, r)
<1> DEFINE dir == ctx.pos.dir
           next == IF rec = None THEN m ELSE Counted(m, rec, dir, set.mode)
           turned == [next EXCEPT !.reverse = - dir]
           Ends(out) == TfrFit(out.mem) /\ After(out, n, ctx.trades, r)
           Trading(x) == /\ x \in TfrMemory /\ x.phase = "in_trade" /\ x.entries = m.entries
                         /\ x.tradesAtEntry = m.tradesAtEntry /\ x.stale = m.stale
<1>1. Trading(m) /\ m.stale <= 2
  BY DEF TfrFit
<1>2. Trading(next)
  BY <1>1, CountedKeeps
<1> HIDE DEF next
<1>3. - dir \in Directions
  BY DEF Directions
<1>4. Trading(turned)
  BY <1>2, <1>3 DEF TfrMemory
<1> HIDE DEF turned
<1>5. \A x \in {m, next, turned} : Trading(x) /\ Good(x, n, ctx.trades, r)
  <2>1. \A x \in {m, next, turned} : Moves(m, x, ctx.trades)
    BY <1>1, <1>2, <1>4 DEF Moves
  <2> QED BY <1>1, <1>2, <1>4, <2>1, MovesKeep, MaxIsNat DEF TfrMemory
<1>6. \A x \in {m, next, turned} : Ends(Wait(x))
  BY <1>1, <1>5, WaitAfter DEF TfrFit
<1>7. \A x \in {m, next, turned}, phase \in {"active", "done"} : Ends(TfrExit(x, ctx, phase))
  BY <1>1, <1>5, TfrExitKeeps
<1>8. \/ \E x \in {m, next, turned} : TfrManaged(m, rec, ctx, slot, set) = Wait(x)
      \/ \E x \in {m, next, turned}, phase \in {"active", "done"} :
           TfrManaged(m, rec, ctx, slot, set) = TfrExit(x, ctx, phase)
  BY DEF TfrManaged, next, turned
<1> QED BY <1>6, <1>7, <1>8

LEMMA TfrManageKeeps ==
  ASSUME NEW m, TfrFit(m), m.phase = "in_trade", NEW rec \in TfrRecords \cup {None}, NEW ctx, NEW slot,
         NEW set, ctx.pos # None => ctx.pos.dir \in Directions, NEW n, NEW r \in BOOLEAN,
         Good(m, n, ctx.trades, r)
  PROVE  /\ TfrFit(TfrManage(m, rec, ctx, slot, set).mem)
         /\ After(TfrManage(m, rec, ctx, slot, set), n, ctx.trades, r)
<1> DEFINE held == [m EXCEPT !.held = Up(@, TimeStop)]  active == In(m, "active")
<1>1. m \in TfrMemory /\ m.stale <= 2
  BY DEF TfrFit
<1>2. Up(m.held, TimeStop) \in 0 .. TimeStop
  BY <1>1, CapsAreNat, UpWithin DEF TfrMemory
<1>3. /\ held \in TfrMemory /\ held.phase = m.phase /\ held.entries = m.entries
      /\ held.tradesAtEntry = m.tradesAtEntry /\ held.stale = m.stale
  BY <1>1, <1>2 DEF TfrMemory
<1>4. /\ active \in TfrMemory /\ active.phase = "active" /\ active.entries = m.entries
      /\ active.stale = m.stale
  BY <1>1 DEF In, TfrMemory, Phases
<1> HIDE DEF held, active
<1>5. /\ TfrFit(held) /\ Good(held, n, ctx.trades, r)
      /\ TfrFit(active) /\ Good(active, n, ctx.trades, r)
  <2>1. Moves(m, held, ctx.trades) /\ Moves(m, active, ctx.trades)
    BY <1>3, <1>4 DEF Moves
  <2> QED BY <1>1, <1>3, <1>4, <2>1, MovesKeep, MaxIsNat DEF TfrMemory, TfrFit
<1>6. CASE ctx.pos = None
  BY <1>5, <1>6, WaitAfter DEF TfrManage, active
<1>7. CASE ctx.pos # None /\ ctx.warmup
  BY <1>5, <1>7, WaitAfter DEF TfrManage, held
<1>8. CASE ctx.pos # None /\ ~ctx.warmup
  <2>1. TfrManage(m, rec, ctx, slot, set) = TfrManaged(held, rec, ctx, slot, set)
    BY <1>8 DEF TfrManage, held
  <2> QED BY <1>3, <1>5, <1>8, <2>1, TfrManagedKeeps
<1> QED BY <1>6, <1>7, <1>8

LEMMA TfrTriesKeeps ==
  ASSUME NEW m, TfrFit(m), NEW rec \in TfrRecords \cup {None}, NEW ctx, ctx.trades \in Nat,
         NEW slot, NEW set, NEW n, NEW r \in BOOLEAN, Good(m, n, ctx.trades, r)
  PROVE  /\ TfrFit(TfrTries(m, rec, ctx, slot, set).mem)
         /\ After(TfrTries(m, rec, ctx, slot, set), n, ctx.trades, r)
<1> DEFINE done == In(m, "done")  side == EntryDirection(rec)
           forgot == [m EXCEPT !.reverse = None]
           sent == [forgot EXCEPT !.phase = "pending", !.tradesAtEntry = ctx.trades]
<1>1. m \in TfrMemory
  BY DEF TfrFit
<1>2. done \in TfrMemory /\ done.phase = "done"
  BY <1>1 DEF In, TfrMemory, Phases
<1>3. /\ forgot \in TfrMemory /\ forgot.phase = m.phase /\ forgot.entries = m.entries
      /\ forgot.tradesAtEntry = m.tradesAtEntry /\ forgot.stale = m.stale
  BY <1>1 DEF TfrMemory
<1>4. /\ TfrFit(done) /\ Good(done, n, ctx.trades, r)
      /\ TfrFit(forgot) /\ Good(forgot, n, ctx.trades, r)
  <2> HIDE DEF done, forgot
  <2>1. Moves(m, done, ctx.trades) /\ Moves(m, forgot, ctx.trades)
    BY <1>2, <1>3 DEF Moves
  <2> QED BY <1>1, <1>2, <1>3, <2>1, MovesKeep, MaxIsNat DEF TfrMemory, TfrFit
<1>5. CASE \E x \in {m, done, forgot} : TfrTries(m, rec, ctx, slot, set) = Wait(x)
  <2> HIDE DEF done, forgot
  <2> QED BY <1>4, <1>5, WaitAfter
<1>6. CASE /\ m.phase = "active" /\ ~(m.entries >= MaxEntries) /\ rec # None /\ side # None
           /\ TfrTries(m, rec, ctx, slot, set) = Enter(sent, side)
  <2>1. side \in Directions
    <3>1. rec.flow \in {2, -2}
      BY <1>6 DEF EntryDirection
    <3> QED BY <1>6, <3>1 DEF EntryDirection, Directions
  <2> HIDE DEF forgot, side
  <2>2. /\ sent \in TfrMemory /\ sent.phase = "pending" /\ sent.entries = m.entries
        /\ sent.tradesAtEntry = ctx.trades /\ sent.stale = m.stale
    BY <1>3 DEF TfrMemory, Phases
  <2> HIDE DEF sent
  <2>3. Enters(m, sent, ctx.trades) /\ m.entries \in Nat /\ MaxEntries \in Nat
    BY <1>1, <1>6, <2>2, MaxIsNat DEF Enters, TfrMemory
  <2>4. After(Enter(sent, side), n, ctx.trades, r) /\ Enter(sent, side).mem = sent
    BY <2>1, <2>3, EnterAfter
  <2> QED BY <1>6, <2>2, <2>4 DEF TfrFit
<1> QED BY <1>5, <1>6 DEF TfrTries

LEMMA TfrBar ==
  ASSUME NEW m, TfrFit(m), NEW in \in TfrInputs, NEW ctx, ctx.trades \in Nat,
         ctx.pos # None => ctx.pos.dir \in Directions,
         NEW slot, NEW set, NEW n, NEW r \in BOOLEAN, Good(m, n, ctx.trades, r)
  PROVE  /\ TfrFit(TfrOnBar(m, in, ctx, slot, set).mem)
         /\ After(TfrOnBar(m, in, ctx, slot, set), n, ctx.trades, r)
<1> DEFINE day == TfrDay(m, in)  rec == IF day.day THEN in.rec ELSE None
           aged == TfrAged(day, rec)  settled == TfrSettled(aged, ctx)
           managed == IF settled.phase = "in_trade" THEN TfrManage(settled, rec, ctx, slot, set)
                      ELSE Wait(settled)
           done == In(aged, "done")  out == TfrOnBar(m, in, ctx, slot, set)
<1>1. TfrFit(day) /\ Good(day, n, ctx.trades, r)
  BY TfrDayKeeps, MovesKeep, MaxIsNat DEF TfrMemory, TfrFit
<1>2. rec \in TfrRecords \cup {None}
  BY DEF TfrInputs
<1> HIDE DEF day, rec
<1>3. aged \in TfrMemory /\ Good(aged, n, ctx.trades, r) /\ (TfrFit(aged) \/ Blind(aged))
  <2>1. day.entries \in Nat
    BY <1>1, CapsAreNat DEF TfrMemory, TfrFit
  <2> QED BY <1>1, <2>1, TfrAgedKeeps, MovesKeep, MaxIsNat
<1> HIDE DEF aged
<1>4. TfrFit(done) /\ Good(done, n, ctx.trades, r)
  <2>1. done \in TfrMemory /\ done.phase = "done"
    BY <1>3 DEF In, TfrMemory, Phases
  <2>2. aged.entries \in Nat /\ Moves(aged, done, ctx.trades)
    BY <1>3, <2>1, CapsAreNat DEF TfrMemory, Moves
  <2> HIDE DEF done
  <2> QED BY <1>3, <2>1, <2>2, MovesKeep, MaxIsNat DEF TfrFit
<1>5. CASE set.hours = "rth" /\ slot \notin RegularSlots
  BY <1>5, WaitAfter DEF TfrOnBar
<1>6. CASE ~(set.hours = "rth" /\ slot \notin RegularSlots) /\ Blind(aged)
  <2>1. CASE aged.phase = "in_trade" /\ ctx.pos # None
    <3>1. out = TfrExit(aged, ctx, "done")
      BY <1>6, <2>1 DEF TfrOnBar, day, rec, aged
    <3> QED BY <1>3, <2>1, <3>1, TfrExitKeeps
  <2>2. CASE ~(aged.phase = "in_trade" /\ ctx.pos # None)
    <3>1. out = Wait(done)
      BY <1>6, <2>2 DEF TfrOnBar, day, rec, aged
    <3> QED BY <1>4, <3>1, WaitAfter
  <2> QED BY <2>1, <2>2
<1>7. CASE ~(set.hours = "rth" /\ slot \notin RegularSlots) /\ ~Blind(aged) /\ OffMap(aged, rec)
  <2>1. out = Wait(done)
    BY <1>7 DEF TfrOnBar, day, rec, aged
  <2> QED BY <1>4, <2>1, WaitAfter
<1>8. CASE ~(set.hours = "rth" /\ slot \notin RegularSlots) /\ ~Blind(aged) /\ ~OffMap(aged, rec)
  <2>1. TfrFit(aged) /\ (aged.phase = "pending" => aged.entries < MaxEntries) /\ aged.entries \in Nat
    BY <1>3, <1>8, CapsAreNat DEF Good, Room, TfrFit, TfrMemory
  <2>2. TfrFit(settled) /\ Good(settled, n, ctx.trades, r)
    BY <1>3, <2>1, TfrSettledKeeps, MovesKeep, MaxIsNat
  <2> HIDE DEF settled
  <2>3. TfrFit(managed.mem) /\ After(managed, n, ctx.trades, r)
    BY <1>2, <2>2, TfrManageKeeps, WaitAfter
  <2>4. Good(managed.mem, n, ctx.trades, r)
    BY <2>3 DEF After
  <2>5. out = IF managed.signal # None THEN managed ELSE TfrTries(managed.mem, rec, ctx, slot, set)
    BY <1>8 DEF TfrOnBar, day, rec, aged, settled
  <2> HIDE DEF managed
  <2>6. /\ TfrFit(TfrTries(managed.mem, rec, ctx, slot, set).mem)
        /\ After(TfrTries(managed.mem, rec, ctx, slot, set), n, ctx.trades, r)
    BY <1>2, <2>3, <2>4, TfrTriesKeeps
  <2> QED BY <2>3, <2>5, <2>6
<1> QED BY <1>5, <1>6, <1>7, <1>8

LEMMA TfrBegins == TfrFit(TfrFresh) /\ TfrFresh.phase = "idle"
<1>1. TfrFresh \in TfrMemory /\ TfrFresh.phase = "idle" /\ TfrFresh.stale = 0
  BY CapsAreNat DEF TfrFresh, TfrMemory, Phases
<1> QED BY <1>1 DEF TfrFit

LEMMA TfrSessions ==
  ASSUME NEW m, TfrFit(m), NEW n, NEW c, NEW r \in BOOLEAN
  PROVE  /\ TfrFit(TfrRestored(m))
         /\ Good(m, n, c, r) => Good(TfrRestored(m), n, c, r)
<1>2. m \in TfrMemory /\ m.entries \in Nat
  BY CapsAreNat DEF TfrFit, TfrMemory
<1>3. /\ TfrRestored(m) \in TfrMemory /\ Moves(m, TfrRestored(m), c)
      /\ TfrRestored(m).stale = m.stale /\ TfrRestored(m).phase = m.phase
  BY <1>2 DEF TfrRestored, TfrMemory, Moves
<1> QED BY <1>2, <1>3, MovesKeep, MaxIsNat DEF TfrFit

-----------------------------------------------------------------------------
(* sme: also that it stays on its side and never loosens the stop.         *)
Tightened(a, b, dir) ==
  (a.phase = "in_trade" /\ b.phase = "in_trade") => ~Beyond(dir, a.vstop, b.vstop)

SmeSame(a, b) ==
  /\ b.phase = a.phase /\ b.entries = a.entries /\ b.tradesAtEntry = a.tradesAtEntry
  /\ b.decided = a.decided /\ b.vstop = a.vstop /\ b.dir = a.dir

LEMMA SmeSameKeeps ==
  ASSUME NEW a, NEW b \in SmeMemory, SmeFit(a), SmeSame(a, b), NEW c
  PROVE  SmeFit(b) /\ Moves(a, b, c)
BY DEF SmeFit, SmeSame, Moves

LEMMA SmeEntries ==
  ASSUME NEW m \in SmeMemory
  PROVE  m.entries \in Nat /\ MaxEntries \in Nat /\ m.entries <= MaxEntries
BY CapsAreNat DEF SmeMemory

LEMMA DecidedKeeps ==
  ASSUME NEW m, SmeFit(m), ~m.decided, NEW opening \in {0, 1, -1, None}, NEW date \in Nat, NEW set, NEW c
  PROVE  /\ SmeFit(Decided(m, opening, date, set)) /\ Moves(m, Decided(m, opening, date, set), c)
         /\ Decided(m, opening, date, set).phase \in {"armed", "done"}
         /\ Decided(m, opening, date, set).decided
<1> DEFINE armed == Armed(m, opening, set)
           bias == IF armed /\ set.mode = "layer A" THEN opening ELSE None
           rets == IF m.range THEN Append(m.rets, date) ELSE m.rets
           phase == IF armed THEN "armed" ELSE "done"
           cal == m.calibrated \/ Enough(m.banked)
           some == [m EXCEPT !.decided = TRUE, !.calibrated = cal, !.bias = bias]
           all == [some EXCEPT !.rets = rets, !.phase = phase]
<1>1. m \in SmeMemory
  BY DEF SmeFit
<1>2. bias \in Directions \cup {None}
  BY DEF Armed, Directions
<1>3. m.rets \in Seq(Nat)
  BY <1>1 DEF SmeMemory
<1>4. rets \in Seq(Nat)
  BY <1>3, AppendProperties
<1>5. phase \in {"armed", "done"} /\ phase \in Phases
  BY DEF Phases
<1>6. cal \in BOOLEAN
  BY <1>1 DEF SmeMemory
<1>7. Decided(m, opening, date, set) = all
  BY DEF Decided
<1> HIDE DEF bias, rets, phase, cal
<1>8. some \in SmeMemory /\ some.decided = TRUE /\ some.entries = m.entries
  BY <1>1, <1>2, <1>6 DEF SmeMemory
<1> HIDE DEF some
<1>9. all \in SmeMemory /\ all.decided = TRUE /\ all.entries = m.entries /\ all.phase = phase
  BY <1>4, <1>5, <1>8 DEF SmeMemory
<1> HIDE DEF all
<1>10. m.entries = 0 /\ m.phase = "idle"
  BY DEF SmeFit
<1> QED BY <1>5, <1>7, <1>9, <1>10, CapsAreNat DEF SmeFit, Moves, Managing

LEMMA ClearedKeeps ==
  ASSUME NEW m \in SmeMemory
  PROVE  /\ Cleared(m) \in SmeMemory /\ Cleared(m).phase = m.phase /\ Cleared(m).entries = m.entries
         /\ Cleared(m).decided = m.decided /\ Cleared(m).rearmed = m.rearmed
BY DEF Cleared, SmeMemory

LEMMA DoneKeeps ==
  ASSUME NEW m \in SmeMemory, m.decided
  PROVE  SmeFit(In(m, "done")) /\ In(m, "done").phase = "done"
<1>1. /\ In(m, "done") \in SmeMemory /\ In(m, "done").phase = "done" /\ In(m, "done").decided = m.decided
  BY DEF In, SmeMemory, Phases
<1> QED BY <1>1 DEF SmeFit, Managing

LEMMA WaitRearmKeeps ==
  ASSUME NEW m \in SmeMemory, m.decided
  PROVE  /\ SmeFit(WaitRearm(m)) /\ WaitRearm(m).phase \in {"done", "wait_rearm"}
         /\ WaitRearm(m).entries = m.entries
<1> DEFINE again == [m EXCEPT !.rearmed = TRUE, !.phase = "wait_rearm"]
<1>1. CASE m.rearmed \/ m.entries >= MaxEntries
  <2>1. WaitRearm(m) = In(m, "done") /\ In(m, "done").entries = m.entries
    BY <1>1 DEF WaitRearm, In, SmeMemory
  <2> QED BY <2>1, DoneKeeps
<1>2. CASE ~(m.rearmed \/ m.entries >= MaxEntries)
  <2>1. /\ again \in SmeMemory /\ again.phase = "wait_rearm" /\ again.entries = m.entries
        /\ again.decided = m.decided
    BY DEF SmeMemory, Phases
  <2>2. WaitRearm(m) = again /\ m.entries < MaxEntries
    BY <1>2, SmeEntries DEF WaitRearm
  <2> HIDE DEF again
  <2> QED BY <2>1, <2>2 DEF SmeFit, Managing
<1> QED BY <1>1, <1>2

LEMMA RearmedKeeps ==
  ASSUME NEW m, SmeFit(m), NEW in, NEW c
  PROVE  /\ SmeFit(Rearmed(m, in)) /\ Moves(m, Rearmed(m, in), c)
         /\ Rearmed(m, in).phase \in Managing => Rearmed(m, in) = m
<1> DEFINE armed == In(m, "armed")
<1>1. CASE m.phase = "wait_rearm" /\ in.tape = "inside"
  <2>1. /\ armed \in SmeMemory /\ armed.phase = "armed" /\ armed.entries = m.entries
        /\ armed.decided = m.decided
    BY DEF In, SmeFit, SmeMemory, Phases
  <2>2. Rearmed(m, in) = armed
    BY <1>1 DEF Rearmed
  <2> HIDE DEF armed
  <2> QED BY <1>1, <2>1, <2>2 DEF SmeFit, Managing, Moves
<1>2. CASE ~(m.phase = "wait_rearm" /\ in.tape = "inside")
  BY <1>2 DEF Rearmed, Moves
<1> QED BY <1>1, <1>2

LEMMA SmeSettledKeeps ==
  ASSUME NEW m, SmeFit(m), NEW ctx, ctx.pos # None => ctx.pos.dir \in Directions,
         m.phase = "pending" => m.entries < MaxEntries
  PROVE  /\ SmeFit(SmeSettled(m, ctx)) /\ Moves(m, SmeSettled(m, ctx), ctx.trades)
         /\ SmeSettled(m, ctx).phase = "in_trade" =>
              \/ SmeSettled(m, ctx) = m
              \/ m.phase = "pending" /\ ctx.pos # None /\ SmeSettled(m, ctx).dir = ctx.pos.dir
<1> DEFINE settled == [m EXCEPT !.tradesAtEntry = None]
           filled == [settled EXCEPT !.phase = "in_trade", !.entries = @ + 1, !.dir = ctx.pos.dir]
           stopped == [Cleared(settled) EXCEPT !.entries = @ + 1]
<1>1. m \in SmeMemory
  BY DEF SmeFit
<1>2. m.phase = "pending" => m.entries + 1 \in 0 .. MaxEntries /\ m.decided /\ m.vstop \in Int
  BY <1>1, SmeEntries DEF SmeFit, Managing
<1>3. /\ settled \in SmeMemory /\ settled.entries = m.entries /\ settled.decided = m.decided
      /\ settled.vstop = m.vstop
  BY <1>1 DEF SmeMemory
<1>4. CASE m.phase # "pending"
  BY <1>4 DEF SmeSettled, Moves
<1>5. CASE m.phase = "pending" /\ ctx.trades <= m.tradesAtEntry
  <2>1. SmeSettled(m, ctx) = In(Cleared(settled), "done")
    BY <1>5 DEF SmeSettled, Fate
  <2> HIDE DEF settled
  <2>2. Cleared(settled) \in SmeMemory /\ Cleared(settled).decided
    BY <1>2, <1>3, <1>5, ClearedKeeps
  <2>3. SmeFit(In(Cleared(settled), "done")) /\ In(Cleared(settled), "done").phase = "done"
    BY <2>2, DoneKeeps
  <2> QED BY <2>1, <2>3 DEF Moves
<1>6. CASE m.phase = "pending" /\ ~(ctx.trades <= m.tradesAtEntry) /\ ctx.pos # None
  <2>1. SmeSettled(m, ctx) = filled
    BY <1>6 DEF SmeSettled, Fate
  <2> HIDE DEF settled
  <2>2. /\ filled \in SmeMemory /\ filled.phase = "in_trade" /\ filled.entries = m.entries + 1
        /\ filled.dir = ctx.pos.dir /\ filled.decided = m.decided /\ filled.vstop = m.vstop
    BY <1>2, <1>3, <1>6 DEF SmeMemory, Phases
  <2> HIDE DEF filled
  <2> QED BY <1>2, <1>6, <2>1, <2>2 DEF SmeFit, Moves, Managing
<1>7. CASE m.phase = "pending" /\ ~(ctx.trades <= m.tradesAtEntry) /\ ctx.pos = None
  <2>1. SmeSettled(m, ctx) = WaitRearm(stopped)
    BY <1>7 DEF SmeSettled, Fate
  <2> HIDE DEF settled
  <2>2. Cleared(settled) \in SmeMemory /\ Cleared(settled).decided /\ Cleared(settled).entries = m.entries
    BY <1>2, <1>3, <1>7, ClearedKeeps
  <2>3. stopped \in SmeMemory /\ stopped.decided /\ stopped.entries = m.entries + 1
    BY <1>2, <1>7, <2>2 DEF SmeMemory
  <2> HIDE DEF stopped
  <2>4. /\ SmeFit(WaitRearm(stopped)) /\ WaitRearm(stopped).phase \in {"done", "wait_rearm"}
        /\ WaitRearm(stopped).entries = m.entries + 1
    BY <2>3, WaitRearmKeeps
  <2> QED BY <1>7, <2>1, <2>4 DEF Moves
<1> QED BY <1>4, <1>5, <1>6, <1>7

LEMMA TighterHolds ==
  ASSUME NEW dir \in Directions, NEW a \in Int, NEW b \in Int
  PROVE  Tighter(dir, a, b) \in Int /\ ~Beyond(dir, a, Tighter(dir, a, b))
<1>1. CASE dir = 1
  BY <1>1 DEF Tighter, Beyond
<1>2. CASE dir = -1
  BY <1>2 DEF Tighter, Beyond
<1> QED BY <1>1, <1>2 DEF Directions

LEMMA NotBeyondItself ==
  ASSUME NEW dir \in Directions, NEW a \in Int
  PROVE  ~Beyond(dir, a, a)
BY DEF Beyond, Directions

LEMMA BrokenEvenKeeps ==
  ASSUME NEW m, SmeFit(m), m.phase = "in_trade", NEW bar, NEW dir \in Directions, NEW c
  PROVE  /\ SmeFit(BrokenEven(m, bar, dir)) /\ Moves(m, BrokenEven(m, bar, dir), c)
         /\ BrokenEven(m, bar, dir).phase = "in_trade" /\ BrokenEven(m, bar, dir).dir = m.dir
         /\ ~Beyond(dir, m.vstop, BrokenEven(m, bar, dir).vstop)
<1> DEFINE stop == Tighter(dir, m.vstop, dir)
           moved == [m EXCEPT !.vstop = stop, !.be = TRUE]
<1>1. m \in SmeMemory /\ m.vstop \in Int /\ m.decided
  BY DEF SmeFit, Managing
<1>2. stop \in Int /\ ~Beyond(dir, m.vstop, stop) /\ ~Beyond(dir, m.vstop, m.vstop)
  <2>1. dir \in Int
    BY DEF Directions
  <2>2. stop \in Int /\ ~Beyond(dir, m.vstop, stop)
    BY <1>1, <2>1, TighterHolds
  <2> QED BY <1>1, <2>2, NotBeyondItself
<1>3. BrokenEven(m, bar, dir) \in {m, moved}
  BY DEF BrokenEven
<1> HIDE DEF stop
<1>4. /\ moved \in SmeMemory /\ moved.phase = m.phase /\ moved.entries = m.entries
      /\ moved.tradesAtEntry = m.tradesAtEntry /\ moved.decided = m.decided /\ moved.vstop = stop
      /\ moved.dir = m.dir
  BY <1>1, <1>2 DEF SmeMemory
<1> HIDE DEF moved
<1> QED BY <1>1, <1>2, <1>3, <1>4 DEF SmeFit, Moves, Managing

LEMMA SmeManageKeeps ==
  ASSUME NEW m, SmeFit(m), m.phase = "in_trade", NEW ctx, ctx.pos.dir \in Directions, NEW in, NEW slot,
         NEW n, NEW r \in BOOLEAN, Good(m, n, ctx.trades, r)
  PROVE  /\ SmeFit(SmeManage(m, ctx, in, slot).mem)
         /\ After(SmeManage(m, ctx, in, slot), n, ctx.trades, r)
         /\ SmeManage(m, ctx, in, slot).mem.phase = "in_trade" =>
              /\ SmeManage(m, ctx, in, slot).mem.dir = m.dir
              /\ ~Beyond(ctx.pos.dir, m.vstop, SmeManage(m, ctx, in, slot).mem.vstop)
<1> DEFINE out == SmeManage(m, ctx, in, slot)
           moved == BrokenEven(m, in.bar, ctx.pos.dir)
           over == In(Cleared(m), "done")  won == In(Cleared(moved), "done")
           lost == WaitRearm(Cleared(moved))
<1>1. /\ SmeFit(moved) /\ Moves(m, moved, ctx.trades) /\ moved.phase = "in_trade" /\ moved.dir = m.dir
      /\ ~Beyond(ctx.pos.dir, m.vstop, moved.vstop)
  BY BrokenEvenKeeps
<1>2. m \in SmeMemory /\ moved \in SmeMemory /\ m.decided /\ moved.decided /\ m.entries \in Nat
      /\ moved.entries \in Nat
  BY <1>1, SmeEntries DEF SmeFit
<1> HIDE DEF moved
<1>3. Good(moved, n, ctx.trades, r)
  BY <1>1, <1>2, MovesKeep, MaxIsNat
<1>4. SmeFit(over) /\ over.phase = "done" /\ SmeFit(won) /\ won.phase = "done"
  BY <1>2, ClearedKeeps, DoneKeeps
<1>5. SmeFit(lost) /\ lost.phase \in {"done", "wait_rearm"} /\ lost.entries = moved.entries
  BY <1>2, ClearedKeeps, WaitRearmKeeps
<1>6. Moves(m, over, ctx.trades) /\ Moves(moved, won, ctx.trades) /\ Moves(moved, lost, ctx.trades)
  BY <1>1, <1>4, <1>5 DEF Moves
<1>7. Good(over, n, ctx.trades, r) /\ Good(won, n, ctx.trades, r) /\ Good(lost, n, ctx.trades, r)
  <2> HIDE DEF over, won, lost
  <2> QED BY <1>2, <1>3, <1>6, MovesKeep, MaxIsNat
<1>8. \/ out = Wait(moved)
      \/ \E x \in {over, won, lost} : out = Leave(x, ctx.pos.dir)
  BY DEF SmeManage, moved
<1> HIDE DEF over, won, lost, out
<1> QED BY <1>1, <1>3, <1>4, <1>5, <1>7, <1>8, WaitAfter, LeaveAfter DEF out

LEMMA TrailedKeeps ==
  ASSUME NEW m, SmeFit(m), NEW bar \in Bars, NEW c
  PROVE  /\ SmeFit(Trailed(m, bar)) /\ Moves(m, Trailed(m, bar), c)
         /\ Trailed(m, bar).phase = m.phase /\ Trailed(m, bar).dir = m.dir
         /\ m.dir \in Directions => Tightened(m, Trailed(m, bar), m.dir)
<1> DEFINE stop == Tighter(m.dir, m.vstop, IF m.dir = 1 THEN bar.low ELSE bar.high)
           moved == [m EXCEPT !.vstop = stop]
<1>1. m \in SmeMemory
  BY DEF SmeFit
<1>2. CASE m.phase # "in_trade" \/ ~m.be \/ m.vstop = None
  <2>1. Trailed(m, bar) = m
    BY <1>2 DEF Trailed
  <2>2. (m.dir \in Directions /\ m.phase = "in_trade") => ~Beyond(m.dir, m.vstop, m.vstop)
    BY NotBeyondItself DEF SmeFit, Managing
  <2> QED BY <2>1, <2>2 DEF Moves, Tightened
<1>3. CASE ~(m.phase # "in_trade" \/ ~m.be \/ m.vstop = None)
  <2>1. m.vstop \in Int /\ bar.low \in Int /\ bar.high \in Int /\ m.decided
    BY <1>3, SmeAssumption DEF SmeFit, Managing
  <2>2. stop \in Int
    BY <2>1 DEF Tighter
  <2>3. m.dir \in Directions => ~Beyond(m.dir, m.vstop, stop)
    BY <2>1, TighterHolds
  <2>4. Trailed(m, bar) = moved
    BY <1>3 DEF Trailed
  <2> HIDE DEF stop
  <2>5. /\ moved \in SmeMemory /\ moved.phase = m.phase /\ moved.entries = m.entries
        /\ moved.tradesAtEntry = m.tradesAtEntry /\ moved.decided = m.decided /\ moved.vstop = stop
        /\ moved.dir = m.dir
    BY <1>1, <2>2 DEF SmeMemory
  <2> HIDE DEF moved
  <2> QED BY <1>3, <2>1, <2>2, <2>3, <2>4, <2>5 DEF SmeFit, Moves, Managing, Tightened
<1> QED BY <1>2, <1>3

LEMMA SmeTriesKeeps ==
  ASSUME NEW m, SmeFit(m), NEW in, in.dir \in Directions, NEW ctx, ctx.trades \in Nat,
         NEW slot, NEW set, NEW n, NEW r \in BOOLEAN, Good(m, n, ctx.trades, r)
  PROVE  /\ SmeFit(SmeTries(m, in, ctx, slot, set).mem)
         /\ After(SmeTries(m, in, ctx, slot, set), n, ctx.trades, r)
         /\ SmeTries(m, in, ctx, slot, set).mem.phase = "in_trade" =>
              SmeTries(m, in, ctx, slot, set).mem = m
<1> DEFINE out == SmeTries(m, in, ctx, slot, set)
           done == In(m, "done")  again == WaitRearm(m)  stop == - Risk * in.dir
           some == [m EXCEPT !.phase = "pending", !.tradesAtEntry = ctx.trades]
           sent == [some EXCEPT !.vstop = stop, !.be = FALSE]
<1>1. m \in SmeMemory /\ m.entries \in Nat /\ MaxEntries \in Nat
  BY SmeEntries DEF SmeFit
<1>2. CASE out = Wait(m)
  BY <1>2, WaitAfter
<1>3. CASE m.phase = "armed" /\ \E x \in {done, again} : out = Wait(x)
  <2>1. m.decided
    BY <1>3 DEF SmeFit
  <2>2. SmeFit(done) /\ done.phase = "done"
    BY <1>1, <2>1, DoneKeeps
  <2>3. SmeFit(again) /\ again.phase \in {"done", "wait_rearm"} /\ again.entries = m.entries
    BY <1>1, <2>1, WaitRearmKeeps
  <2>4. Moves(m, done, ctx.trades) /\ Moves(m, again, ctx.trades)
    BY <1>3, <2>2, <2>3 DEF Moves
  <2>5. Good(done, n, ctx.trades, r) /\ Good(again, n, ctx.trades, r)
    BY <1>1, <2>4, MovesKeep
  <2> HIDE DEF done, again, out
  <2> QED BY <1>3, <2>2, <2>3, <2>5, WaitAfter DEF out
<1>4. CASE m.phase = "armed" /\ out = Enter(sent, in.dir)
  <2>1. m.decided /\ m.entries < MaxEntries
    BY <1>4 DEF SmeFit
  <2>2. stop \in Int
    BY SmeAssumption DEF Directions
  <2> HIDE DEF stop
  <2>3. /\ some \in SmeMemory /\ some.phase = "pending" /\ some.entries = m.entries
        /\ some.tradesAtEntry = ctx.trades /\ some.decided = m.decided
    BY <1>1 DEF SmeMemory, Phases
  <2> HIDE DEF some
  <2>4. /\ sent \in SmeMemory /\ sent.phase = "pending" /\ sent.entries = m.entries
        /\ sent.tradesAtEntry = ctx.trades /\ sent.decided = m.decided /\ sent.vstop = stop
    BY <2>2, <2>3 DEF SmeMemory
  <2> HIDE DEF sent, out
  <2>5. Enters(m, sent, ctx.trades)
    BY <1>4, <2>1, <2>4 DEF Enters
  <2>6. SmeFit(sent)
    BY <2>1, <2>2, <2>4 DEF SmeFit, Managing
  <2> DEFINE d == in.dir
  <2>7. d \in Directions
    OBVIOUS
  <2> HIDE DEF d
  <2>8. After(Enter(sent, d), n, ctx.trades, r) /\ Enter(sent, d).mem = sent
    BY <1>1, <2>5, <2>7, EnterAfter
  <2> QED BY <1>4, <2>4, <2>6, <2>8 DEF out, d
<1>5. sent = [m EXCEPT !.phase = "pending", !.tradesAtEntry = ctx.trades, !.vstop = stop, !.be = FALSE]
  OBVIOUS
<1>6. \/ out = Wait(m)
      \/ m.phase = "armed" /\ \E x \in {done, again} : out = Wait(x)
      \/ m.phase = "armed" /\ out = Enter(sent, in.dir)
  <2> HIDE DEF sent
  <2> QED BY <1>5 DEF SmeTries
<1> QED BY <1>2, <1>3, <1>4, <1>6

(* What a bar does to a trade of sme.                                      *)
Steady(m, b, p) ==
  b.phase = "in_trade" =>
    \/ /\ m.phase = "in_trade" /\ b.dir = m.dir
       /\ (p # None /\ m.dir = p.dir) => ~Beyond(p.dir, m.vstop, b.vstop)
    \/ m.phase = "pending" /\ p # None /\ b.dir = p.dir

LEMMA SmeMinute ==
  ASSUME NEW m, SmeFit(m), NEW in, in.dir \in Directions, NEW ctx, ctx.trades \in Nat,
         ctx.pos # None => ctx.pos.dir \in Directions, NEW slot, NEW date \in Nat, NEW set,
         NEW n, NEW r \in BOOLEAN, Good(m, n, ctx.trades, r)
  PROVE  /\ SmeFit(SmeOnMinute(m, in, ctx, slot, date, set).mem)
         /\ After(SmeOnMinute(m, in, ctx, slot, date, set), n, ctx.trades, r)
         /\ Steady(m, SmeOnMinute(m, in, ctx, slot, date, set).mem, ctx.pos)
<1> DEFINE out == SmeOnMinute(m, in, ctx, slot, date, set)
           begun == [m EXCEPT !.day = TRUE]
           decided == IF begun.decided THEN begun ELSE Decided(begun, None, date, set)
           settled == SmeSettled(decided, ctx)
           armed == Rearmed(settled, in)
           gone == Rearmed(WaitRearm(Cleared(settled)), in)
<1>1. begun \in SmeMemory /\ SmeSame(m, begun)
  BY DEF SmeSame, SmeFit, SmeMemory
<1>2. SmeFit(begun) /\ Good(begun, n, ctx.trades, r)
  <2>1. SmeFit(begun) /\ Moves(m, begun, ctx.trades)
    BY <1>1, SmeSameKeeps
  <2>2. m.entries \in Nat /\ MaxEntries \in Nat
    BY SmeEntries DEF SmeFit
  <2> HIDE DEF begun
  <2> QED BY <2>1, <2>2, MovesKeep
<1> HIDE DEF begun
<1>3. /\ SmeFit(decided) /\ Good(decided, n, ctx.trades, r)
      /\ decided = begun \/ decided.phase \in {"armed", "done"}
  <2>1. CASE begun.decided
    BY <1>2, <2>1
  <2>2. CASE ~begun.decided
    <3>1. begun.entries \in Nat /\ MaxEntries \in Nat
      BY <1>2, SmeEntries DEF SmeFit
    <3> DEFINE next == Decided(begun, None, date, set)
    <3>2. SmeFit(next) /\ Moves(begun, next, ctx.trades) /\ next.phase \in {"armed", "done"}
      BY <1>2, <2>2, DecidedKeeps
    <3> HIDE DEF next
    <3>3. Good(next, n, ctx.trades, r)
      BY <1>2, <3>1, <3>2, MovesKeep
    <3>4. decided = next
      BY <2>2 DEF next
    <3> QED BY <3>2, <3>3, <3>4
  <2> QED BY <2>1, <2>2
<1> HIDE DEF decided
<1>4. /\ SmeFit(settled) /\ Good(settled, n, ctx.trades, r)
      /\ settled.phase = "in_trade" =>
           \/ settled = begun
           \/ begun.phase = "pending" /\ ctx.pos # None /\ settled.dir = ctx.pos.dir
  <2>1. /\ decided.entries \in Nat /\ MaxEntries \in Nat
        /\ decided.phase = "pending" => decided.entries < MaxEntries
    BY <1>3, SmeEntries DEF SmeFit, Good, Room
  <2>2. /\ SmeFit(settled) /\ Moves(decided, settled, ctx.trades)
        /\ settled.phase = "in_trade" =>
             \/ settled = decided
             \/ decided.phase = "pending" /\ ctx.pos # None /\ settled.dir = ctx.pos.dir
    BY <1>3, <2>1, SmeSettledKeeps
  <2> HIDE DEF settled
  <2>3. Good(settled, n, ctx.trades, r)
    BY <1>3, <2>1, <2>2, MovesKeep
  <2> QED BY <1>3, <2>2, <2>3
<1> HIDE DEF settled
<1>5. begun.phase = m.phase /\ begun.dir = m.dir /\ begun.vstop = m.vstop
  BY <1>1 DEF SmeSame
<1>6. CASE settled.phase = "in_trade" /\ ctx.pos = None
  <2>1. out = Wait(gone)
    BY <1>6 DEF SmeOnMinute, settled, decided, begun
  <2>2. settled \in SmeMemory /\ settled.decided
    BY <1>4, <1>6 DEF SmeFit
  <2> DEFINE lost == WaitRearm(Cleared(settled))
  <2>3. SmeFit(lost) /\ lost.phase \in {"done", "wait_rearm"} /\ lost.entries = settled.entries
    BY <2>2, ClearedKeeps, WaitRearmKeeps
  <2> HIDE DEF lost
  <2>4. settled.entries \in Nat /\ lost.entries \in Nat /\ MaxEntries \in Nat
    BY <2>2, <2>3, SmeEntries
  <2>5. Good(lost, n, ctx.trades, r)
    <3>1. Moves(settled, lost, ctx.trades)
      BY <1>6, <2>3 DEF Moves
    <3> QED BY <1>4, <2>4, <3>1, MovesKeep
  <2>6. SmeFit(gone) /\ Moves(lost, gone, ctx.trades) /\ gone.phase # "in_trade"
    BY <2>3, RearmedKeeps DEF lost, Managing
  <2> HIDE DEF gone
  <2>7. Good(gone, n, ctx.trades, r)
    BY <2>4, <2>5, <2>6, MovesKeep
  <2> HIDE DEF out
  <2> QED BY <2>1, <2>6, <2>7, WaitAfter DEF out, Steady
<1>7. CASE settled.phase = "in_trade" /\ ctx.pos # None
  <2>1. out = SmeManage(settled, ctx, in, slot)
    BY <1>7 DEF SmeOnMinute, settled, decided, begun
  <2>2. /\ SmeFit(out.mem) /\ After(out, n, ctx.trades, r)
        /\ out.mem.phase = "in_trade" => /\ out.mem.dir = settled.dir
                                         /\ ~Beyond(ctx.pos.dir, settled.vstop, out.mem.vstop)
    BY <1>4, <1>7, <2>1, SmeManageKeeps
  <2> HIDE DEF out
  <2>3. Steady(m, out.mem, ctx.pos)
    BY <1>4, <1>5, <1>7, <2>2 DEF Steady
  <2> QED BY <2>2, <2>3 DEF out
<1>8. CASE settled.phase # "in_trade"
  <2>1. out = SmeTries(armed, in, ctx, slot, set)
    BY <1>8 DEF SmeOnMinute, settled, decided, begun
  <2>2. SmeFit(armed) /\ Moves(settled, armed, ctx.trades) /\ armed.phase # "in_trade"
    BY <1>4, <1>8, RearmedKeeps DEF Managing
  <2> HIDE DEF armed
  <2>3. Good(armed, n, ctx.trades, r)
    <3>1. settled.entries \in Nat /\ MaxEntries \in Nat
      BY <1>4, SmeEntries DEF SmeFit
    <3> QED BY <1>4, <2>2, <3>1, MovesKeep
  <2>4. /\ SmeFit(out.mem) /\ After(out, n, ctx.trades, r)
        /\ out.mem.phase = "in_trade" => out.mem = armed
    BY <2>1, <2>2, <2>3, SmeTriesKeeps
  <2> HIDE DEF out
  <2>5. Steady(m, out.mem, ctx.pos)
    BY <2>2, <2>4 DEF Steady
  <2> QED BY <2>4, <2>5 DEF out
<1> QED BY <1>6, <1>7, <1>8

LEMMA SmeBar ==
  ASSUME NEW m, SmeFit(m), NEW in \in SmeInputs, NEW ctx, ctx.trades \in Nat,
         ctx.pos # None => ctx.pos.dir \in Directions, NEW slot, NEW date \in Nat, NEW set,
         NEW n, NEW r \in BOOLEAN, Good(m, n, ctx.trades, r)
  PROVE  /\ SmeFit(SmeOnBar(m, in, ctx, slot, date, set).mem)
         /\ After(SmeOnBar(m, in, ctx, slot, date, set), n, ctx.trades, r)
         /\ Steady(m, SmeOnBar(m, in, ctx, slot, date, set).mem, ctx.pos)
<1> DEFINE out == SmeOnBar(m, in, ctx, slot, date, set)
<1>1. m \in SmeMemory /\ m.entries \in Nat /\ MaxEntries \in Nat
  BY SmeEntries DEF SmeFit
<1>2. Steady(m, m, ctx.pos)
  <2>1. (m.phase = "in_trade" /\ ctx.pos # None) => ~Beyond(ctx.pos.dir, m.vstop, m.vstop)
    BY NotBeyondItself DEF SmeFit, Managing
  <2> QED BY <2>1 DEF Steady
<1>3. CASE out = Wait(m)
  BY <1>2, <1>3, WaitAfter
<1>4. CASE in.tf = "5m" /\ out = Wait(SmeFiveMinutes(m, in, slot, set))
  <2> DEFINE some == [m EXCEPT !.samples = TRUE]
             sampled == IF set.gate # "off" /\ slot \in EntrySlots THEN some ELSE m
             next == Trailed(sampled, in.bar)
  <2>1. sampled \in SmeMemory /\ SmeSame(m, sampled)
    <3>1. some \in SmeMemory /\ SmeSame(m, some)
      BY <1>1 DEF SmeMemory, SmeSame
    <3>2. SmeSame(m, m)
      BY DEF SmeSame
    <3> HIDE DEF some
    <3> QED BY <1>1, <3>1, <3>2
  <2>2. SmeFiveMinutes(m, in, slot, set) = next
    BY DEF SmeFiveMinutes
  <2> HIDE DEF sampled
  <2>3. SmeFit(sampled) /\ Moves(m, sampled, ctx.trades)
    BY <2>1, SmeSameKeeps
  <2>4. Good(sampled, n, ctx.trades, r)
    BY <1>1, <2>3, MovesKeep
  <2>5. in.bar \in Bars
    BY DEF SmeInputs
  <2>6. /\ SmeFit(next) /\ Moves(sampled, next, ctx.trades)
        /\ next.phase = sampled.phase /\ next.dir = sampled.dir
        /\ sampled.dir \in Directions => Tightened(sampled, next, sampled.dir)
    BY <2>3, <2>5, TrailedKeeps
  <2> HIDE DEF next
  <2>7. Good(next, n, ctx.trades, r)
    <3>1. sampled.entries \in Nat
      BY <2>1, SmeEntries
    <3> QED BY <1>1, <2>4, <2>6, <3>1, MovesKeep
  <2>8. Steady(m, next, ctx.pos)
    <3> SUFFICES ASSUME next.phase = "in_trade" PROVE Steady(m, next, ctx.pos)
      BY DEF Steady
    <3>1. /\ m.phase = "in_trade" /\ sampled.phase = "in_trade" /\ next.dir = m.dir
          /\ sampled.dir = m.dir /\ sampled.vstop = m.vstop
      BY <2>1, <2>6 DEF SmeSame
    <3>2. (ctx.pos # None /\ m.dir = ctx.pos.dir) => ~Beyond(ctx.pos.dir, m.vstop, next.vstop)
      BY <2>6, <3>1 DEF Tightened
    <3> QED BY <3>1, <3>2 DEF Steady
  <2> HIDE DEF out
  <2> QED BY <1>4, <2>2, <2>6, <2>7, <2>8, WaitAfter DEF out
<1>5. CASE in.tf # "5m" /\ out = Wait(SmeOpening(m, in, date, set))
  <2> DEFINE begun == [m EXCEPT !.range = TRUE, !.day = TRUE]
             next == Decided(begun, in.opening, date, set)
  <2>1. CASE m.decided
    BY <1>3, <1>5, <2>1 DEF SmeOpening
  <2>2. CASE ~m.decided
    <3>1. begun \in SmeMemory /\ SmeSame(m, begun)
      BY <1>1 DEF SmeMemory, SmeSame
    <3>2. out = Wait(next)
      BY <1>5, <2>2 DEF SmeOpening
    <3> HIDE DEF begun
    <3>3. SmeFit(begun) /\ Moves(m, begun, ctx.trades) /\ ~begun.decided
      BY <2>2, <3>1, SmeSameKeeps DEF SmeSame
    <3>4. Good(begun, n, ctx.trades, r)
      BY <1>1, <3>3, MovesKeep
    <3>5. in.opening \in {0, 1, -1, None}
      BY <1>5 DEF SmeInputs
    <3>6. SmeFit(next) /\ Moves(begun, next, ctx.trades) /\ next.phase \in {"armed", "done"}
      BY <3>3, <3>5, DecidedKeeps
    <3> HIDE DEF next, out
    <3>7. Good(next, n, ctx.trades, r)
      <4>1. begun.entries \in Nat
        BY <3>1, SmeEntries
      <4> QED BY <1>1, <3>4, <3>6, <4>1, MovesKeep
    <3>8. Steady(m, next, ctx.pos)
      BY <3>6 DEF Steady
    <3> QED BY <3>2, <3>6, <3>7, <3>8, WaitAfter DEF out
  <2> QED BY <2>1, <2>2
<1>6. CASE in.tf # "5m" /\ out = SmeOnMinute(m, in, ctx, slot, date, set)
  <2>1. in.dir \in Directions
    BY <1>6 DEF SmeInputs, Directions
  <2> DEFINE minute == SmeOnMinute(m, in, ctx, slot, date, set)
  <2>2. SmeFit(minute.mem) /\ After(minute, n, ctx.trades, r) /\ Steady(m, minute.mem, ctx.pos)
    BY <2>1, SmeMinute
  <2> HIDE DEF minute
  <2>3. out = minute
    BY <1>6 DEF minute
  <2> QED BY <2>2, <2>3
<1>7. \/ out = Wait(m)
      \/ in.tf = "5m" /\ out = Wait(SmeFiveMinutes(m, in, slot, set))
      \/ in.tf # "5m" /\ out = Wait(SmeOpening(m, in, date, set))
      \/ in.tf # "5m" /\ out = SmeOnMinute(m, in, ctx, slot, date, set)
  BY DEF SmeOnBar
<1> QED BY <1>3, <1>4, <1>5, <1>6, <1>7

LEMMA SmeBegins ==
  SmeFresh \in SmeMemory /\ SmeFresh.phase = "idle" /\ SmeFresh.entries = 0 /\ ~SmeFresh.decided
BY CapsAreNat, EmptySeq DEF SmeFresh, SmeMemory, Phases

LEMMA SmeSessions ==
  ASSUME NEW m, SmeFit(m), NEW date \in Nat, NEW n, NEW c, NEW r \in BOOLEAN
  PROVE  /\ SmeFit(SmeReset(m)) /\ SmeReset(m).phase = "idle"
         /\ SmeFit(SmeEnded(m, date)) /\ SmeEnded(m, date).phase = m.phase
         /\ SmeEnded(m, date).dir = m.dir
         /\ Good(m, n, c, r) => Good(SmeEnded(m, date), n, c, r)
<1> DEFINE ranges == IF m.day THEN Append(m.ranges, date) ELSE m.ranges
           banked == IF m.samples THEN Append(m.banked, date) ELSE m.banked
           ended == [m EXCEPT !.ranges = ranges, !.banked = banked]
           kept == [SmeFresh EXCEPT !.ranges = m.ranges, !.rets = m.rets]
           reset == [kept EXCEPT !.banked = m.banked, !.calibrated = m.calibrated]
<1>1. m \in SmeMemory /\ m.entries \in Nat /\ MaxEntries \in Nat
  BY SmeEntries DEF SmeFit
<1>2. m.ranges \in Seq(Nat) /\ m.banked \in Seq(Nat) /\ m.rets \in Seq(Nat) /\ m.calibrated \in BOOLEAN
  BY <1>1 DEF SmeMemory
<1>4. reset \in SmeMemory /\ reset.phase = "idle" /\ reset.entries = 0 /\ ~reset.decided
  <2>1. kept \in SmeMemory /\ kept.phase = "idle" /\ kept.entries = 0 /\ ~kept.decided
    BY <1>2, SmeBegins DEF SmeMemory
  <2> HIDE DEF kept
  <2> QED BY <1>2, <2>1 DEF SmeMemory
<1>5. SmeReset(m) = reset
  BY DEF SmeReset
<1>6. ranges \in Seq(Nat) /\ banked \in Seq(Nat)
  BY <1>2, AppendProperties
<1>7. SmeEnded(m, date) = ended
  BY DEF SmeEnded
<1> HIDE DEF ranges, banked, reset
<1>8. ended \in SmeMemory /\ SmeSame(m, ended)
  BY <1>1, <1>6 DEF SmeMemory, SmeSame
<1> HIDE DEF ended
<1>9. SmeFit(ended) /\ Moves(m, ended, c)
  BY <1>8, SmeSameKeeps
<1>10. Good(m, n, c, r) => Good(ended, n, c, r)
  BY <1>1, <1>9, MovesKeep
<1> QED BY <1>4, <1>5, <1>7, <1>8, <1>9, <1>10 DEF SmeFit, SmeSame, Managing

-----------------------------------------------------------------------------
(* orb and always: one entry, and done.                                    *)
Simple == [phase : {"active", "done"}, range : BOOLEAN]

LEMMA OrbBar ==
  ASSUME NEW m \in Simple, NEW in \in OrbInputs, NEW slot, NEW out \in {OrbOnBar(m, in, slot), AlwaysOnBar(m)},
         NEW c
  PROVE  /\ out.mem \in Simple /\ (IsEntry(out) => out.mem.phase = "done" /\ m.phase # "done")
         /\ out.signal \in {None} \cup [intent : {"ENTRY", "FLATTEN"}, dir : Directions]
         /\ m.phase = "done" => out.mem.phase = "done"
<1> DEFINE done == In(m, "done")  built == [m EXCEPT !.range = TRUE]
<1>1. done \in Simple /\ done.phase = "done" /\ built \in Simple /\ built.phase = m.phase
  BY DEF In, Simple
<1>2. \/ out = Wait(m) \/ out = Wait(built)
      \/ m.phase # "done" /\ \E d \in Directions : out = Enter(done, d)
  BY DEF OrbOnBar, AlwaysOnBar, OrbInputs, Directions
<1> HIDE DEF done, built
<1>3. CASE out = Wait(m) \/ out = Wait(built)
  BY <1>1, <1>3 DEF Wait, IsEntry
<1>4. CASE m.phase # "done" /\ \E d \in Directions : out = Enter(done, d)
  BY <1>1, <1>4 DEF Enter, IsEntry
<1> QED BY <1>2, <1>3, <1>4

LEMMA OrbSessions == OrbFresh \in Simple /\ OrbFresh.phase = "active"
BY DEF OrbFresh, Simple

-----------------------------------------------------------------------------
(* The strategies of a run, taken together.                                *)
Kinds == {"tfr", "afr", "naim", "sme", "orb", "always"}

LEMMA KindIsOne == ASSUME setup \in Setups PROVE kind \in Kinds
BY SetupAssumption DEF kind, Kinds

LEMMA TimeFacts ==
  /\ Times \subseteq Nat /\ Dates \subseteq Nat
  /\ \A t \in Times : Day(t) \in Dates /\ Day(t) \in Nat /\ Slot(t) \in Nat
<1>1. Times \subseteq Nat /\ Slots \in Nat \ {0}
  BY HostAssumption DEF Times
<1>2. \A t \in Times : t \div Slots \in Nat /\ t % Slots \in Nat
  BY <1>1, SMT
<1> QED BY <1>1, <1>2 DEF Dates, Day, Slot

(* A strategy at the start of a session.                                   *)
Begun(m) == Fit(m) /\ m.phase \in {"idle", "active"} /\ (Managed => Room(m, 0))

LEMMA FreshBegins ==
  ASSUME setup \in Setups
  PROVE  Begun(Fresh)
<1> USE KindIsOne DEF Kinds
<1>1. CASE kind = "tfr"
  <2>1. Fit(Fresh) /\ Fresh.phase = "idle" /\ Fresh.entries \in Nat
    BY <1>1, TfrBegins, CapsAreNat DEF Fit, Fresh, TfrFit, TfrMemory
  <2> QED BY <2>1, MaxIsNat DEF Begun, Room
<1>2. CASE kind = "afr"
  <2>1. Fit(Fresh) /\ Fresh.phase = "idle" /\ Fresh.entries \in Nat
    BY <1>2, AfrBegins, CapsAreNat DEF Fit, Fresh, AfrMemory
  <2> QED BY <2>1, MaxIsNat DEF Begun, Room
<1>3. CASE kind = "naim"
  <2>1. Fit(Fresh) /\ Fresh.phase = "idle" /\ Fresh.entries \in Nat
    BY <1>3, NaimBegins, CapsAreNat DEF Fit, Fresh, NaimMemory
  <2> QED BY <2>1, MaxIsNat DEF Begun, Room
<1>4. CASE kind = "sme"
  <2>1. Fit(Fresh) /\ Fresh.phase = "idle" /\ Fresh.entries \in Nat
    BY <1>4, SmeBegins DEF Fit, Fresh, SmeFit, Managing
  <2> QED BY <2>1, MaxIsNat DEF Begun, Room
<1>5. CASE kind \in {"orb", "always"}
  <2>1. Fit(Fresh) /\ Fresh.phase = "active"
    BY <1>5, OrbSessions DEF Fit, Fresh, Simple
  <2> QED BY <1>5, <2>1 DEF Begun, Managed
<1> QED BY <1>1, <1>2, <1>3, <1>4, <1>5

LEMMA StartBegins ==
  ASSUME setup \in Setups, NEW m, Fit(m)
  PROVE  Begun(SessionStart(m))
<1> USE KindIsOne DEF Kinds
<1>1. CASE kind = "naim"
  <2>1. SessionStart(m) \in NaimMemory /\ SessionStart(m).phase = "idle"
    BY <1>1, NaimSessions DEF Fit, SessionStart
  <2>2. Fit(SessionStart(m)) /\ SessionStart(m).entries \in Nat
    BY <1>1, <2>1, CapsAreNat DEF Fit, NaimMemory
  <2> QED BY <2>1, <2>2, MaxIsNat DEF Begun, Room
<1>2. CASE kind = "sme"
  <2>1. SmeFit(SessionStart(m)) /\ SessionStart(m).phase = "idle"
    BY <1>2, SmeSessions DEF Fit, SessionStart
  <2>2. Fit(SessionStart(m)) /\ SessionStart(m).entries \in Nat
    BY <1>2, <2>1, SmeEntries DEF Fit, SmeFit
  <2> QED BY <2>1, <2>2, MaxIsNat DEF Begun, Room
<1>3. CASE kind \notin {"naim", "sme"}
  BY <1>3, FreshBegins DEF SessionStart
<1> QED BY <1>1, <1>2, <1>3

(* Ending a session, and a restart, keep the phase and the counts.         *)
LEMMA EndKeeps ==
  ASSUME setup \in Setups, NEW m, NEW date \in Nat, NEW p, NEW c, NEW notes,
         notes.refused \in BOOLEAN, Kept(m, p, c, notes)
  PROVE  Kept(SessionEnd(m, date), p, c, notes)
<1> USE KindIsOne DEF Kinds
<1> DEFINE n == notes.sent  r == notes.refused  ended == SessionEnd(m, date)
<1>1. Fit(m) /\ (Managed => Good(m, n, c, r))
  BY DEF Kept, Good
<1> HIDE DEF n, r
<1>2. r \in BOOLEAN
  BY DEF r
<1>3. CASE kind = "naim"
  <2>1. ended \in NaimMemory /\ Good(ended, n, c, r)
    BY <1>1, <1>2, <1>3, NaimSessions DEF Fit, SessionEnd, Managed
  <2> HIDE DEF ended
  <2>2. Fit(ended) /\ SameSide(ended, p)
    BY <1>3, <2>1 DEF Fit, SameSide
  <2> QED BY <2>1, <2>2 DEF ended, Kept, Good, n, r
<1>4. CASE kind = "sme"
  <2>1. SmeFit(ended) /\ Good(ended, n, c, r) /\ ended.phase = m.phase /\ ended.dir = m.dir
    BY <1>1, <1>2, <1>4, SmeSessions DEF Fit, SessionEnd, Managed
  <2> HIDE DEF ended
  <2>2. Fit(ended) /\ SameSide(ended, p)
    BY <1>4, <2>1 DEF Fit, SameSide, Kept
  <2> QED BY <2>1, <2>2 DEF ended, Kept, Good, n, r
<1>5. CASE kind \notin {"naim", "sme"}
  BY <1>5 DEF SessionEnd
<1> QED BY <1>3, <1>4, <1>5

LEMMA RestoreKeeps ==
  ASSUME setup \in Setups, NEW m, NEW p, NEW c, NEW notes,
         notes.refused \in BOOLEAN, Kept(m, p, c, notes)
  PROVE  Kept(RestoreState(m), p, c, notes)
<1> USE KindIsOne DEF Kinds
<1> DEFINE n == notes.sent  r == notes.refused  back == RestoreState(m)
<1>1. Fit(m) /\ (Managed => Good(m, n, c, r))
  BY DEF Kept, Good
<1> HIDE DEF n, r
<1>2. r \in BOOLEAN
  BY DEF r
<1>3. CASE kind = "tfr"
  <2>1. TfrFit(back) /\ Good(back, n, c, r)
    BY <1>1, <1>2, <1>3, TfrSessions DEF Fit, RestoreState, Managed
  <2> HIDE DEF back
  <2>2. Fit(back) /\ SameSide(back, p)
    BY <1>3, <2>1 DEF Fit, SameSide
  <2> QED BY <2>1, <2>2 DEF back, Kept, Good, n, r
<1>4. CASE kind = "afr"
  <2>1. back \in AfrMemory /\ Good(back, n, c, r)
    BY <1>1, <1>2, <1>4, AfrSessions DEF Fit, RestoreState, Managed
  <2> HIDE DEF back
  <2>2. Fit(back) /\ SameSide(back, p)
    BY <1>4, <2>1 DEF Fit, SameSide
  <2> QED BY <2>1, <2>2 DEF back, Kept, Good, n, r
<1>5. CASE kind \notin {"tfr", "afr"}
  BY <1>5 DEF RestoreState
<1> QED BY <1>3, <1>4, <1>5

(* One bar, whatever the strategy: n entries sent and c trades counted in  *)
(* the session, r whether one was refused.                                 *)
Result(m, out, n, c, r, p) ==
  /\ Fit(out.mem)
  /\ out.signal \in {None} \cup [intent : {"ENTRY", "FLATTEN"}, dir : Directions]
  /\ Managed => Room(out.mem, n)
  /\ r => Spent(out.mem, c)
  /\ IsEntry(out) => ~r /\ Spent(out.mem, c) /\ (Managed => Room(out.mem, n + 1))
  /\ kind = "sme" => Steady(m, out.mem, p)

LEMMA BarKeeps ==
  ASSUME setup \in Setups, NEW m, Fit(m), NEW in \in Inputs, NEW ctx, ctx.trades \in Nat,
         ctx.pos # None => ctx.pos.dir \in Directions, NEW t \in Times,
         NEW n, NEW r \in BOOLEAN, Managed => Room(m, n), r => Spent(m, ctx.trades)
  PROVE  Result(m, OnBar(m, in, ctx, t), n, ctx.trades, r, ctx.pos)
<1> USE KindIsOne DEF Kinds
<1> DEFINE c == ctx.trades  out == OnBar(m, in, ctx, t)  slot == Slot(t)  date == Day(t)
<1>1. Managed => Good(m, n, c, r)
  BY DEF Good
<1>2. date \in Nat
  BY TimeFacts
<1> HIDE DEF slot, date
<1>3. CASE kind = "tfr"
  <2>1. out = TfrOnBar(m, in, ctx, slot, setup)
    BY <1>3 DEF OnBar, slot
  <2>2. TfrFit(out.mem) /\ After(out, n, c, r)
    BY <1>1, <1>3, <2>1, TfrBar DEF Fit, Inputs, Managed
  <2> HIDE DEF out
  <2>3. Fit(out.mem)
    BY <1>3, <2>2 DEF Fit
  <2> QED BY <1>3, <2>2, <2>3 DEF out, Result, After, Good
<1>4. CASE kind = "afr"
  <2>1. out = AfrOnBar(m, in, ctx, slot, setup)
    BY <1>4 DEF OnBar, slot
  <2>2. out.mem \in AfrMemory /\ After(out, n, c, r)
    BY <1>1, <1>4, <2>1, AfrBar DEF Fit, Inputs, Managed
  <2> HIDE DEF out
  <2>3. Fit(out.mem)
    BY <1>4, <2>2 DEF Fit
  <2> QED BY <1>4, <2>2, <2>3 DEF out, Result, After, Good
<1>5. CASE kind = "naim"
  <2>1. out = NaimOnBar(m, in, ctx, slot, setup)
    BY <1>5 DEF OnBar, slot
  <2>2. out.mem \in NaimMemory /\ After(out, n, c, r)
    BY <1>1, <1>5, <2>1, NaimBar DEF Fit, Inputs, Managed
  <2> HIDE DEF out
  <2>3. Fit(out.mem)
    BY <1>5, <2>2 DEF Fit
  <2> QED BY <1>5, <2>2, <2>3 DEF out, Result, After, Good
<1>6. CASE kind = "sme"
  <2>1. out = SmeOnBar(m, in, ctx, slot, date, setup)
    BY <1>6 DEF OnBar, slot, date
  <2>2. SmeFit(out.mem) /\ After(out, n, c, r) /\ Steady(m, out.mem, ctx.pos)
    BY <1>1, <1>2, <1>6, <2>1, SmeBar DEF Fit, Inputs, Managed
  <2> HIDE DEF out
  <2>3. Fit(out.mem)
    BY <1>6, <2>2 DEF Fit
  <2> QED BY <1>6, <2>2, <2>3 DEF out, Result, After, Good
<1>7. CASE kind \in {"orb", "always"}
  <2>1. out \in {OrbOnBar(m, in, slot), AlwaysOnBar(m)} /\ m \in Simple /\ in \in OrbInputs
    BY <1>7 DEF OnBar, slot, Fit, Simple, Inputs
  <2>2. /\ out.mem \in Simple /\ (IsEntry(out) => out.mem.phase = "done" /\ m.phase # "done")
        /\ out.signal \in {None} \cup [intent : {"ENTRY", "FLATTEN"}, dir : Directions]
        /\ m.phase = "done" => out.mem.phase = "done"
    BY <2>1, OrbBar
  <2> HIDE DEF out
  <2>3. Fit(out.mem)
    BY <1>7, <2>2 DEF Fit, Simple
  <2>4. r => m.phase = "done"
    BY <2>1 DEF Spent, Simple
  <2> QED BY <1>7, <2>2, <2>3, <2>4 DEF out, Result, Spent, Managed
<1> QED BY <1>3, <1>4, <1>5, <1>6, <1>7

-----------------------------------------------------------------------------
(* A bar of the engine.  What the strategy was called with, what it said,  *)
(* and what was made of it.                                                *)
Sent0(t) == IF Rolled(t) THEN 0 ELSE history.sent
Refused0(t) == history.refused /\ ~Rolled(t)
Trades0(t) == IF Rolled(t) THEN 0 ELSE trades
Seen(in) == IF Hit(in) THEN None ELSE pos
Context(t, in) == [pos |-> Seen(in), trades |-> Trades0(t), warmup |-> t <= backfill]
Said(t, in) == OnBar(Called(t), in, Context(t, in), t)

LEMMA CalledIsKept ==
  ASSUME StrategyInv, pc = "bar", NEW t \in Times
  PROVE  /\ Fit(Called(t)) /\ (Managed => Room(Called(t), Sent0(t)))
         /\ Refused0(t) => Spent(Called(t), Trades0(t))
         /\ Called(t) = mem \/ Called(t).phase \notin {"in_trade", "pending"}
         /\ Sent0(t) \in Nat /\ Trades0(t) \in Nat /\ Refused0(t) \in BOOLEAN
<1>1. /\ setup \in Setups /\ Kept(mem, pos, trades, history) /\ history \in Notes /\ trades \in Nat
      /\ sess.date \in Dates \cup {NoDate} /\ sess.resumed \in Dates \cup {NoDate}
  BY DEF StrategyInv, HostType, MemoryInv
<1>2. Sent0(t) \in Nat /\ Trades0(t) \in Nat /\ Refused0(t) \in BOOLEAN
  BY <1>1 DEF Sent0, Trades0, Refused0, Notes
<1>3. CASE ~Changed(t) \/ Adopts(t)
  BY <1>1, <1>2, <1>3 DEF Called, Rolled, Sent0, Trades0, Refused0, Kept
<1>4. CASE Changed(t) /\ ~Adopts(t)
  <2> DEFINE last == IF sess.date = NoDate THEN mem ELSE SessionEnd(mem, sess.date)
  <2>1. Fit(last)
    <3>1. CASE sess.date = NoDate
      BY <1>1, <3>1 DEF Kept
    <3>2. CASE sess.date # NoDate
      <4>1. sess.date \in Nat /\ history.refused \in BOOLEAN
        BY <1>1, <3>2, TimeFacts DEF Notes
      <4> QED BY <1>1, <3>2, <4>1, EndKeeps DEF Kept
    <3> QED BY <3>1, <3>2
  <2>2. Called(t) = SessionStart(last)
    BY <1>4 DEF Called
  <2> HIDE DEF last
  <2>3. Begun(Called(t))
    BY <1>1, <2>1, <2>2, StartBegins
  <2>4. Sent0(t) = 0 /\ ~Refused0(t)
    BY <1>4 DEF Sent0, Refused0, Rolled, StrategyInv, SessionInv
  <2> QED BY <1>2, <2>3, <2>4 DEF Begun
<1> QED BY <1>2, <1>3, <1>4

LEMMA SaidIsGood ==
  ASSUME StrategyInv, pc = "bar", NEW t \in Times, NEW in \in Inputs
  PROVE  Result(Called(t), Said(t, in), Sent0(t), Trades0(t), Refused0(t), Seen(in))
<1> DEFINE m == Called(t)  ctx == Context(t, in)  n == Sent0(t)  r == Refused0(t)
<1>1. ctx.trades = Trades0(t) /\ ctx.pos = Seen(in)
  BY DEF Context
<1>2. /\ Fit(m) /\ (Managed => Room(m, n)) /\ (r => Spent(m, ctx.trades))
      /\ ctx.trades \in Nat /\ r \in BOOLEAN
  BY <1>1, CalledIsKept
<1>3. setup \in Setups /\ (ctx.pos # None => ctx.pos.dir \in Directions)
  BY <1>1 DEF Seen, StrategyInv, HostType, Position
<1> HIDE DEF m, ctx, n, r
<1>4. Result(m, OnBar(m, in, ctx, t), n, ctx.trades, r, ctx.pos)
  BY <1>2, <1>3, BarKeeps
<1> QED BY <1>1, <1>4 DEF Said, m, ctx, n, r

(* What the engine made of the signal: an entry that left, or nothing new. *)
Left(t, in) ==
  IF Seen(in) # None /\ Slot(t) >= Cutoff /\ sess.flattened # Day(t) /\ ~(t <= backfill)
  THEN None ELSE Seen(in)

Made(t, in, outcome) ==
  /\ mem' = Said(t, in).mem
  /\ pos' = Settled(Left(t, in), Said(t, in).signal, outcome)
  /\ trades' = IF outcome = "opened" /\ Left(t, in) = None THEN Trades0(t) + 1 ELSE Trades0(t)
  /\ sess'.date = Day(t) /\ sess'.resumed = NoDate
  /\ history'.refused = (Refused0(t) \/ outcome \in {"vetoed", "adopted"})
  /\ history'.sent = Sent0(t) + IF outcome \in {"vetoed", "opened", "adopted"} THEN 1 ELSE 0
  /\ outcome \in {"vetoed", "opened", "adopted"} => /\ Said(t, in).signal # None
                                                    /\ Said(t, in).signal.intent # "FLATTEN"
  /\ outcome \in {"nothing", "closed", "vetoed", "opened", "adopted"}

(* What left with it.                                                      *)
Sends(t, outcome) ==
  /\ wire' = [wire EXCEPT ![Day(t)] = Told(@, Leaving(outcome))]
  /\ due' = Leaving(outcome)
  /\ t <= backfill => outcome = "nothing"

(* What was noted of a position the strategy may have stopped managing.    *)
Noted(t, in, outcome) ==
  /\ outcome = "nothing" => Said(t, in).signal = None \/ t <= backfill
  /\ history'.orphan = IF pos' = None \/ Left(t, in) = None THEN "no"
                       ELSE IF history.orphan # "no" THEN history.orphan
                       ELSE Orphans(Called(t), t, Said(t, in), Left(t, in), t <= backfill)

LEMMA BarMakes ==
  ASSUME NEW t \in Times, Bar(t)
  PROVE  \E in \in Inputs, outcome \in {"nothing", "closed", "vetoed", "opened", "adopted"} :
           /\ Made(t, in, outcome) /\ Noted(t, in, outcome) /\ Delivers(t, in)
           /\ Sends(t, outcome)
<1>1. PICK in \in Inputs : Delivers(t, in) /\ Process(t, in)
  BY DEF Bar
<1> DEFINE out == Said(t, in)  warm == t <= backfill
<1>2. out = OnBar(Called(t), in, [pos |-> IF Hit(in) THEN None ELSE pos,
                                  trades |-> IF Rolled(t) THEN 0 ELSE trades, warmup |-> warm], t)
  BY DEF Said, Context, Seen, Trades0
<1> HIDE DEF out
<1>3. PICK outcome \in Outcomes(out.signal, warm) :
      LET seen == IF Hit(in) THEN None ELSE pos
          count == IF Rolled(t) THEN 0 ELSE trades
          cuts == seen # None /\ Slot(t) >= Cutoff /\ sess.flattened # Day(t)
          left == IF cuts /\ ~warm THEN None ELSE seen
      IN  /\ mem' = out.mem
          /\ pos' = Settled(left, out.signal, outcome)
          /\ trades' = IF outcome = "opened" /\ left = None THEN count + 1 ELSE count
          /\ sess' = [date |-> Day(t), resumed |-> NoDate,
                      flattened |-> IF cuts THEN Day(t) ELSE sess.flattened]
          /\ history' = [orphan |-> IF pos' = None \/ left = None THEN "no"
                                    ELSE IF history.orphan # "no" THEN history.orphan
                                    ELSE Orphans(Called(t), t, out, left, warm),
                         refused |-> \/ history.refused /\ ~Rolled(t)
                                     \/ outcome \in {"vetoed", "adopted"},
                         sent |-> (IF Rolled(t) THEN 0 ELSE history.sent)
                                  + (IF outcome \in {"vetoed", "opened", "adopted"}
                                     THEN 1 ELSE 0)]
          /\ wire' = [wire EXCEPT ![Day(t)] = Told(@, Leaving(outcome))]
          /\ due' = Leaving(outcome)
  BY <1>1, <1>2, Zenon DEF Process
<1>4. /\ outcome \in {"nothing", "closed", "vetoed", "opened", "adopted"}
      /\ outcome \in {"vetoed", "opened", "adopted"} => out.signal # None /\ out.signal.intent # "FLATTEN"
      /\ outcome = "nothing" => out.signal = None \/ warm
      /\ warm => outcome = "nothing"
  BY DEF Outcomes
<1>5. Left(t, in) = IF ~(t <= backfill) /\ Seen(in) # None /\ Slot(t) >= Cutoff
                        /\ sess.flattened # Day(t) THEN None ELSE Seen(in)
  BY DEF Left
<1>6. Made(t, in, outcome)
  BY <1>3, <1>4, <1>5 DEF Made, Seen, Trades0, Refused0, Sent0, out
<1>7. Noted(t, in, outcome)
  BY <1>3, <1>4, <1>5 DEF Noted, Seen, out
<1>8. Sends(t, outcome)
  BY <1>3, <1>4 DEF Sends
<1> QED BY <1>1, <1>4, <1>6, <1>7, <1>8

LEMMA EntriesAreEntries ==
  ASSUME StrategyInv, pc = "bar", NEW t \in Times, NEW in \in Inputs,
         Said(t, in).signal # None, Said(t, in).signal.intent # "FLATTEN"
  PROVE  IsEntry(Said(t, in)) /\ Said(t, in).signal.dir \in Directions
<1> DEFINE out == Said(t, in)
<1>1. out.signal \in {None} \cup [intent : {"ENTRY", "FLATTEN"}, dir : Directions]
  BY SaidIsGood DEF Result
<1> HIDE DEF out
<1>2. IsEntry(out) /\ out.signal.dir \in Directions
  BY <1>1 DEF IsEntry, out
<1> QED BY <1>2 DEF out

LEMMA PositionAfterBar ==
  ASSUME StrategyInv, pc = "bar", NEW t \in Times, NEW in \in Inputs,
         NEW outcome, Made(t, in, outcome)
  PROVE  /\ pos' \in Position \cup {None}
         /\ IsEntry(Said(t, in)) \/ pos' = None \/ (pos' = Seen(in) /\ Seen(in) = pos)
<1> DEFINE signal == Said(t, in).signal  left == Left(t, in)
<1>1. pos \in Position \cup {None} /\ left \in {pos, None} /\ Seen(in) \in {pos, None}
      /\ (left # None => left = Seen(in))
  BY DEF StrategyInv, HostType, Left, Seen
<1>2. \/ pos' = left \/ pos' = None
      \/ IsEntry(Said(t, in)) /\ signal.dir \in Directions
         /\ pos' \in {Opened(signal.dir, TRUE), Opened(signal.dir, FALSE)}
  <2>1. CASE outcome \in {"nothing", "vetoed"}
    BY <2>1 DEF Made, Settled
  <2>2. CASE outcome = "closed"
    BY <2>2 DEF Made, Settled
  <2>3. CASE outcome \in {"opened", "adopted"}
    <3>1. IsEntry(Said(t, in)) /\ signal.dir \in Directions
      BY <2>3, EntriesAreEntries DEF Made
    <3> QED BY <2>3, <3>1 DEF Made, Settled
  <2> QED BY <2>1, <2>2, <2>3 DEF Made
<1>3. \A d \in Directions : \A own \in BOOLEAN : Opened(d, own) \in Position
  <2>1. \A d \in Directions : StopOf(d) \in Int
    BY SmeAssumption DEF StopOf, Directions
  <2> QED BY <2>1 DEF Opened, Position
<1> HIDE DEF left, signal
<1> QED BY <1>1, <1>2, <1>3

LEMMA KeptAfterBar ==
  ASSUME StrategyInv, pc = "bar", NEW t \in Times, NEW in \in Inputs,
         NEW outcome, Made(t, in, outcome), setup' = setup
  PROVE  /\ Kept(mem, pos, trades, history)'
         /\ trades' \in Nat /\ history'.sent \in Nat /\ history'.refused \in BOOLEAN
<1> DEFINE out == Said(t, in)  m == Called(t)  n == Sent0(t)  c == Trades0(t)  r == Refused0(t)
           s == Seen(in)
<1>1. Result(m, out, n, c, r, s)
  BY SaidIsGood
<1>2. /\ n \in Nat /\ c \in Nat /\ r \in BOOLEAN
      /\ m = mem \/ m.phase \notin {"in_trade", "pending"}
  BY CalledIsKept
<1>3. pos' \in Position \cup {None} /\ (IsEntry(out) \/ pos' = None \/ (pos' = s /\ s = pos))
  BY PositionAfterBar
<1>4. outcome \in {"vetoed", "opened", "adopted"} => IsEntry(out)
  BY EntriesAreEntries DEF Made
<1>5. /\ mem' = out.mem
      /\ trades' = c \/ (trades' = c + 1 /\ outcome = "opened")
      /\ history'.refused = (r \/ outcome \in {"vetoed", "adopted"})
      /\ history'.sent = n + IF outcome \in {"vetoed", "opened", "adopted"} THEN 1 ELSE 0
  BY DEF Made
<1> HIDE DEF out, m, n, c, r, s
<1>6. Fit(mem')
  BY <1>1, <1>5 DEF Result
<1>7. SameSide(mem', pos')
  <2> SUFFICES ASSUME kind = "sme", mem'.phase = "in_trade", pos' # None, pos'.own
               PROVE  mem'.dir = pos'.dir
    BY DEF SameSide
  <2>1. ~IsEntry(out)
    BY <1>1, <1>5 DEF Result, Spent
  <2>2. pos' = s /\ s = pos
    BY <1>3, <2>1
  <2>3. Steady(m, mem', s)
    BY <1>1, <1>5 DEF Result
  <2>4. CASE m.phase = "pending"
    BY <2>2, <2>3, <2>4 DEF Steady
  <2>5. CASE m.phase # "pending"
    <3>1. m.phase = "in_trade" /\ mem'.dir = m.dir /\ m = mem
      BY <1>2, <2>3, <2>5 DEF Steady
    <3>2. SameSide(mem, pos)
      BY DEF StrategyInv, MemoryInv, Kept
    <3> QED BY <2>2, <3>1, <3>2 DEF SameSide
  <2> QED BY <2>4, <2>5
<1>8. Managed => Room(mem', history'.sent)
  BY <1>1, <1>2, <1>4, <1>5 DEF Result
<1>9. history'.refused => Spent(mem', trades')
  <2>1. CASE IsEntry(out)
    <3>1. ~r /\ Spent(mem', c)
      BY <1>1, <1>5, <2>1 DEF Result
    <3> QED BY <1>5, <3>1
  <2>2. CASE ~IsEntry(out)
    <3>1. trades' = c /\ (history'.refused <=> r)
      BY <1>2, <1>4, <1>5, <2>2
    <3> QED BY <1>1, <1>5, <3>1 DEF Result
  <2> QED BY <2>1, <2>2
<1>10. trades' \in Nat /\ history'.sent \in Nat /\ history'.refused \in BOOLEAN
  BY <1>2, <1>5
<1>11. kind' = kind
  BY DEF kind
<1> QED BY <1>6, <1>7, <1>8, <1>9, <1>10, <1>11 DEF Kept, Fit, SameSide, Managed, Spent

LEMMA BarShape ==
  ASSUME StrategyInv, NEW t \in Times, Bar(t)
  PROVE  /\ sess' \in [date : Dates \cup {NoDate}, resumed : Dates \cup {NoDate},
                       flattened : Dates \cup {NoDate}]
         /\ history'.sent \in Nat => history' \in Notes
<1>1. PICK in \in Inputs : Process(t, in)
  BY DEF Bar
<1> DEFINE warm == t <= backfill  out == OnBar(Called(t), in, Context(t, in), t)
<1>2. PICK outcome \in Outcomes(out.signal, warm) :
        LET seen == IF Hit(in) THEN None ELSE pos
            cuts == seen # None /\ Slot(t) >= Cutoff /\ sess.flattened # Day(t)
            left == IF cuts /\ ~warm THEN None ELSE seen
        IN  /\ sess' = [date |-> Day(t), resumed |-> NoDate,
                        flattened |-> IF cuts THEN Day(t) ELSE sess.flattened]
            /\ history' = [orphan |-> IF pos' = None \/ left = None THEN "no"
                                      ELSE IF history.orphan # "no" THEN history.orphan
                                      ELSE Orphans(Called(t), t, out, left, warm),
                           refused |-> \/ history.refused /\ ~Rolled(t)
                                       \/ outcome \in {"vetoed", "adopted"},
                           sent |-> (IF Rolled(t) THEN 0 ELSE history.sent)
                                    + (IF outcome \in {"vetoed", "opened", "adopted"}
                                       THEN 1 ELSE 0)]
  BY <1>1, Zenon DEF Process, Context, Seen, Trades0
<1>3. \A said, left : Orphans(Called(t), t, said, left, warm) \in
        {"no", "carried", "blind", "suppressed", "nobook", "offmap"}
  BY DEF Orphans
<1>4. sess.flattened \in Dates \cup {NoDate} /\ history \in Notes /\ Day(t) \in Dates
  BY TimeFacts DEF StrategyInv, HostType
<1> HIDE DEF out, warm
<1>5. sess' \in [date : Dates \cup {NoDate}, resumed : Dates \cup {NoDate},
                  flattened : Dates \cup {NoDate}]
  BY <1>2, <1>4
<1>6. history'.sent \in Nat => history' \in Notes
  <2> DEFINE refused == \/ history.refused /\ ~Rolled(t)
                        \/ outcome \in {"vetoed", "adopted"}
             sent == (IF Rolled(t) THEN 0 ELSE history.sent)
                     + (IF outcome \in {"vetoed", "opened", "adopted"} THEN 1 ELSE 0)
  <2>1. \E word \in {"no", "carried", "blind", "suppressed", "nobook", "offmap"} :
          history' = [orphan |-> word, refused |-> refused, sent |-> sent]
    <3>1. history.orphan \in {"no", "carried", "blind", "suppressed", "nobook", "offmap"}
      BY <1>4 DEF Notes
    <3> QED BY <1>2, <1>3, <3>1
  <2>2. refused \in BOOLEAN
    OBVIOUS
  <2> HIDE DEF refused, sent
  <2> QED BY <2>1, <2>2 DEF Notes
<1> QED BY <1>5, <1>6

-----------------------------------------------------------------------------
LEMMA FreshTypes ==
  /\ FreshNotes \in Notes
  /\ FreshSess \in [date : Dates \cup {NoDate}, resumed : Dates \cup {NoDate},
                    flattened : Dates \cup {NoDate}]
<1>1. FreshNotes \in Notes
  BY DEF FreshNotes, Notes
<1>2. FreshSess \in [date : Dates \cup {NoDate}, resumed : Dates \cup {NoDate},
                    flattened : Dates \cup {NoDate}]
  BY DEF FreshSess
<1> QED BY <1>1, <1>2

LEMMA InitHolds == Init => StrategyInv
<1> SUFFICES ASSUME Init PROVE StrategyInv
  OBVIOUS
<1>3. HostType
  <2>1. {wall, clock, backfill} \subseteq Times \cup {NoTime}
    BY DEF Init
  <2>2. {starts, stops, repairs} \subseteq Nat /\ trades \in Nat
    BY DEF Init
  <2>3. sess \in [date : Dates \cup {NoDate}, resumed : Dates \cup {NoDate},
                  flattened : Dates \cup {NoDate}] /\ history \in Notes
    BY FreshTypes DEF Init
  <2>4. setup \in Setups /\ pc \in {"down", "bar", "save"} /\ five \in BOOLEAN
        /\ pos \in Position \cup {None}
    BY DEF Init
  <2> QED BY <2>1, <2>2, <2>3, <2>4 DEF HostType
<1>4. StoreType /\ SessionInv /\ MemoryInv
  BY DEF Init, StoreType, SessionInv, MemoryInv, FreshSess, FreshNotes
<1> QED BY <1>3, <1>4 DEF StrategyInv

LEMMA BarHolds ==
  ASSUME StrategyInv, NEW t \in Times, Bar(t)
  PROVE  StrategyInv'
<1>1. /\ pc = "bar" /\ pc' \in {"bar", "save"} /\ clock' = t /\ wall' \in {t, wall}
      /\ five' \in BOOLEAN /\ UNCHANGED <<setup, store, backfill, starts, stops, repairs>>
  BY DEF Bar, bounds
<1>2. PICK in \in Inputs, outcome \in {"nothing", "closed", "vetoed", "opened", "adopted"} :
        Made(t, in, outcome)
  BY BarMakes
<1>3. /\ Kept(mem, pos, trades, history)'
      /\ trades' \in Nat /\ history'.sent \in Nat /\ history'.refused \in BOOLEAN
  BY <1>1, <1>2, KeptAfterBar
<1>4. pos' \in Position \cup {None}
  BY <1>1, <1>2, PositionAfterBar
<1>5. /\ sess' \in [date : Dates \cup {NoDate}, resumed : Dates \cup {NoDate},
                    flattened : Dates \cup {NoDate}]
      /\ history' \in Notes
  BY <1>3, BarShape
<1>6. sess'.date = Day(t) /\ Day(t) \in Dates /\ Day(t) # NoDate
  BY <1>2, TimeFacts DEF Made, NoDate
<1>7. HostType' /\ StoreType'
  BY <1>1, <1>3, <1>4, <1>5 DEF StrategyInv, HostType, StoreType
<1>8. SessionInv'
  BY <1>1, <1>6 DEF SessionInv
<1>9. MemoryInv'
  <2>1. store # None => Kept(store.mem, store.pos, store.trades, store.history)'
    BY <1>1 DEF StrategyInv, MemoryInv, Kept, Fit, SameSide, Managed, kind, Spent, Room
  <2> QED BY <1>1, <1>3, <2>1 DEF MemoryInv
<1> QED BY <1>7, <1>8, <1>9 DEF StrategyInv

(* What is kept of a memory depends on the strategy of the run, which no   *)
(* step changes.                                                           *)
LEMMA StoreStays ==
  ASSUME StrategyInv, setup' = setup, store' = store
  PROVE  StoreType' /\ (store' # None => Kept(store.mem, store.pos, store.trades, store.history)')
<1>1. StoreType'
  BY DEF StrategyInv, StoreType
<1>2. store # None => Kept(store.mem, store.pos, store.trades, store.history)'
  BY DEF StrategyInv, MemoryInv, Kept, Fit, SameSide, Managed, kind, Spent, Room
<1> QED BY <1>1, <1>2

LEMMA StartHolds == ASSUME StrategyInv, Start PROVE StrategyInv'
<1>1. /\ pc' = "bar" /\ starts' = starts + 1 /\ five' = FALSE
      /\ backfill' \in {wall, NoTime}
      /\ UNCHANGED <<setup, wall, store, stops, repairs>>
  BY DEF Start
<1>2. setup \in Setups /\ {starts, stops, repairs} \subseteq Nat /\ wall \in Times \cup {NoTime}
  BY DEF StrategyInv, HostType
<1>3. CASE Resumes
  <2>1. /\ clock' = store.last /\ mem' = RestoreState(store.mem)
        /\ sess' = [FreshSess EXCEPT !.date = IF setup.live THEN NoDate ELSE store.date,
                                     !.resumed = store.date]
        /\ pos' = store.pos /\ trades' = store.trades /\ history' = store.history
    BY <1>3 DEF Start
  <2>2. /\ store # None /\ store.date \in Dates /\ store.last \in Times
        /\ store.pos \in Position \cup {None} /\ store.trades \in Nat /\ store.history \in Notes
    BY <1>3 DEF Resumes, StrategyInv, StoreType
  <2>3. Kept(RestoreState(store.mem), store.pos, store.trades, store.history)
    <3>1. store.history.refused \in BOOLEAN
      BY <2>2 DEF Notes
    <3>2. Kept(store.mem, store.pos, store.trades, store.history)
      BY <2>2 DEF StrategyInv, MemoryInv
    <3> QED BY <1>2, <3>1, <3>2, RestoreKeeps
  <2>4. Kept(mem, pos, trades, history)'
    <3>1. kind' = kind
      BY <1>1 DEF kind
    <3>2. Kept(mem', pos', trades', history')
      BY <2>1, <2>3
    <3> QED BY <3>1, <3>2 DEF Kept, Fit, SameSide, Managed, Spent, Room
  <2>5. HostType'
    <3>1. sess' \in [date : Dates \cup {NoDate}, resumed : Dates \cup {NoDate},
                     flattened : Dates \cup {NoDate}]
      BY <2>1, <2>2, FreshTypes
    <3>2. {wall', clock', backfill'} \subseteq Times \cup {NoTime}
      BY <1>1, <1>2, <2>1, <2>2
    <3>3. {starts', stops', repairs'} \subseteq Nat
      BY <1>1, <1>2
    <3> QED BY <1>1, <1>2, <2>1, <2>2, <3>1, <3>2, <3>3 DEF HostType
  <2>6. SessionInv'
    <3>1. sess'.resumed = store.date /\ store.date # NoDate
      BY <2>1, <2>2, TimeFacts DEF FreshSess, NoDate
    <3> QED BY <1>1, <2>1, <2>2, <3>1 DEF SessionInv
  <2> QED BY <1>1, <2>4, <2>5, <2>6, StoreStays DEF StrategyInv, MemoryInv
<1>4. CASE ~Resumes
  <2>1. /\ clock' \in {wall, NoTime} /\ mem' = Fresh /\ sess' = FreshSess
        /\ pos' = None /\ trades' = 0 /\ history' = FreshNotes
    BY <1>4 DEF Start
  <2>2. Kept(mem, pos, trades, history)'
    <3>1. kind' = kind
      BY <1>1 DEF kind
    <3>2. Begun(mem')
      BY <1>2, <2>1, FreshBegins
    <3> QED BY <2>1, <3>1, <3>2 DEF Kept, Begun, Fit, SameSide, Managed, Spent, Room, FreshNotes
  <2>3. HostType'
    <3>1. {wall', clock', backfill'} \subseteq Times \cup {NoTime}
      BY <1>1, <1>2, <2>1
    <3>2. {starts', stops', repairs'} \subseteq Nat
      BY <1>1, <1>2
    <3> QED BY <1>1, <1>2, <2>1, <3>1, <3>2, FreshTypes DEF HostType
  <2>4. SessionInv'
    BY <1>1, <2>1 DEF SessionInv, FreshSess, FreshNotes
  <2> QED BY <1>1, <2>2, <2>3, <2>4, StoreStays DEF StrategyInv, MemoryInv
<1> QED BY <1>3, <1>4

LEMMA ForgetHolds ==
  ASSUME StrategyInv, Forget, setup' = setup, wall' = wall, StoreType',
         {starts', stops', repairs'} \subseteq Nat,
         store' # None => Kept(store.mem, store.pos, store.trades, store.history)'
  PROVE  StrategyInv'
<1>1. HostType'
  BY FreshTypes DEF StrategyInv, HostType, Forget
<1>2. SessionInv' /\ MemoryInv'
  BY DEF Forget, SessionInv, MemoryInv, FreshSess, FreshNotes
<1> QED BY <1>1, <1>2 DEF StrategyInv

LEMMA StopHolds == ASSUME StrategyInv, Stop PROVE StrategyInv'
<1>1. /\ pc # "down" /\ stops' = stops + 1 /\ UNCHANGED <<setup, wall, starts, repairs>> /\ Forget
      /\ store' = IF sess.date = NoDate THEN store ELSE Row(SessionEnd(mem, sess.date))
  BY DEF Stop
<1>2. {starts', stops', repairs'} \subseteq Nat
  BY <1>1 DEF StrategyInv, HostType
<1>3. CASE sess.date = NoDate
  BY <1>1, <1>2, <1>3, StoreStays, ForgetHolds
<1>4. CASE sess.date # NoDate
  <2> DEFINE ended == SessionEnd(mem, sess.date)
  <2>1. /\ sess.date \in Dates /\ clock \in Times /\ pos \in Position \cup {None}
        /\ trades \in Nat /\ history \in Notes /\ setup \in Setups
    BY <1>4 DEF StrategyInv, HostType, SessionInv
  <2>2. Kept(ended, pos, trades, history)
    <3>1. history.refused \in BOOLEAN /\ sess.date \in Nat
      BY <2>1, TimeFacts DEF Notes
    <3>2. Kept(mem, pos, trades, history)
      BY <1>1 DEF StrategyInv, MemoryInv
    <3> QED BY <2>1, <3>1, <3>2, EndKeeps
  <2> HIDE DEF ended
  <2>3. store' = [date |-> sess.date, last |-> clock, mem |-> ended, pos |-> pos,
                  trades |-> trades, history |-> history]
    BY <1>1, <1>4 DEF Row, ended
  <2>4. StoreType'
    BY <2>1, <2>3 DEF StoreType
  <2>5. Kept(store'.mem, store'.pos, store'.trades, store'.history)
    BY <2>2, <2>3
  <2>6. Kept(store.mem, store.pos, store.trades, store.history)'
    BY <1>1, <2>5 DEF Kept, Fit, SameSide, Managed, kind, Spent, Room
  <2> QED BY <1>1, <1>2, <2>4, <2>6, ForgetHolds
<1> QED BY <1>3, <1>4

LEMMA SaveHolds == ASSUME StrategyInv, Save PROVE StrategyInv'
<1>1. /\ pc = "save" /\ pc' = "bar" /\ store' = Row(mem)
      /\ UNCHANGED <<setup, wall, clock, five, backfill, sess, mem, pos, trades, history>>
      /\ UNCHANGED <<starts, stops, repairs>>
  BY DEF Save, bounds
<1>2. /\ sess.date \in Dates /\ clock \in Times /\ pos \in Position \cup {None}
      /\ trades \in Nat /\ history \in Notes /\ Kept(mem, pos, trades, history)
  BY <1>1 DEF StrategyInv, HostType, SessionInv, MemoryInv
<1>3. store' = [date |-> sess.date, last |-> clock, mem |-> mem, pos |-> pos,
                trades |-> trades, history |-> history]
  BY <1>1 DEF Row
<1>4. HostType' /\ SessionInv'
  BY <1>1 DEF StrategyInv, HostType, SessionInv
<1>5. StoreType'
  BY <1>2, <1>3 DEF StoreType
<1>6. MemoryInv'
  <2>1. Kept(store'.mem, store'.pos, store'.trades, store'.history)
    BY <1>2, <1>3
  <2>2. Kept(store.mem, store.pos, store.trades, store.history)' /\ Kept(mem, pos, trades, history)'
    BY <1>1, <1>2, <2>1 DEF Kept, Fit, SameSide, Managed, kind, Spent, Room
  <2> QED BY <2>2 DEF MemoryInv
<1> QED BY <1>4, <1>5, <1>6 DEF StrategyInv

LEMMA RepairHolds == ASSUME StrategyInv, Repair PROVE StrategyInv'
<1>1. /\ pc = "bar" /\ repairs' = repairs + 1
      /\ pos' \in {Opened(dir, FALSE) : dir \in Directions} \cup {None}
      /\ history' = [history EXCEPT !.orphan = "no"]
      /\ UNCHANGED <<setup, wall, store, pc, clock, five, backfill, sess, mem, trades, starts, stops>>
  BY DEF Repair
<1>2. history \in Notes /\ Kept(mem, pos, trades, history) /\ {starts, stops, repairs} \subseteq Nat
  BY <1>1 DEF StrategyInv, HostType, MemoryInv
<1>3. /\ history' \in Notes /\ history'.sent = history.sent
      /\ (history'.refused <=> history.refused)
  BY <1>1, <1>2 DEF Notes
<1>4. pos' \in Position \cup {None} /\ (pos' # None => ~pos'.own)
  <2>1. CASE pos' = None
    BY <2>1
  <2>2. CASE pos' # None
    <3>1. PICK dir \in Directions : pos' = Opened(dir, FALSE)
      BY <1>1, <2>2
    <3>2. pos' = [dir |-> dir, own |-> FALSE, stop |-> None]
      BY <3>1 DEF Opened
    <3> QED BY <3>2 DEF Position
  <2> QED BY <2>1, <2>2
<1>5. HostType'
  BY <1>1, <1>2, <1>3, <1>4 DEF StrategyInv, HostType
<1>6. SessionInv'
  BY <1>1, <1>3 DEF StrategyInv, SessionInv
<1>7. Kept(mem, pos, trades, history)'
  BY <1>1, <1>2, <1>3, <1>4 DEF Kept, Fit, SameSide, Managed, kind, Spent, Room
<1> QED BY <1>1, <1>5, <1>6, <1>7, StoreStays DEF StrategyInv, MemoryInv

LEMMA TickHolds == ASSUME StrategyInv, Tick PROVE StrategyInv'
<1>1. /\ pc = "down" /\ wall < MaxTime /\ wall' = wall + 1
      /\ UNCHANGED <<setup, store, pc, clock, five, backfill, sess, mem, pos, trades, history>>
      /\ UNCHANGED <<starts, stops, repairs>>
  BY DEF Tick, process, bounds, bookkeeping
<1>2. wall' \in Times
  BY <1>1, HostAssumption DEF StrategyInv, HostType, Times, NoTime
<1>3. HostType' /\ SessionInv'
  BY <1>1, <1>2 DEF StrategyInv, HostType, SessionInv
<1> QED BY <1>1, <1>3, StoreStays DEF StrategyInv, MemoryInv

LEMMA StutterHolds == ASSUME StrategyInv, UNCHANGED vars PROVE StrategyInv'
<1>1. /\ UNCHANGED <<setup, wall, store, pc, clock, five, backfill, sess, mem, pos, trades, history>>
      /\ UNCHANGED <<starts, stops, repairs>>
  BY DEF vars, process, bounds, bookkeeping
<1>2. HostType' /\ SessionInv'
  BY <1>1 DEF StrategyInv, HostType, SessionInv
<1>3. pc # "down" => Kept(mem, pos, trades, history)'
  BY <1>1 DEF StrategyInv, MemoryInv, Kept, Fit, SameSide, Managed, kind, Spent, Room
<1> QED BY <1>1, <1>2, <1>3, StoreStays DEF StrategyInv, MemoryInv

LEMMA StrategyHolds == Spec => []StrategyInv
<1>1. StrategyInv /\ [Next]_vars => StrategyInv'
  <2> SUFFICES ASSUME StrategyInv, [Next]_vars PROVE StrategyInv'
    OBVIOUS
  <2>1. CASE Crash
    <3>1. /\ Forget /\ UNCHANGED <<setup, wall, store, starts, stops, repairs>>
      BY <2>1 DEF Crash, bounds
    <3>2. {starts', stops', repairs'} \subseteq Nat
      BY <3>1 DEF StrategyInv, HostType
    <3> QED BY <3>1, <3>2, StoreStays, ForgetHolds
  <2> QED BY <2>1, StartHolds, BarHolds, SaveHolds, RepairHolds, StopHolds, TickHolds,
             StutterHolds DEF Next
<1> QED BY <1>1, InitHolds, PTL DEF Spec

-----------------------------------------------------------------------------
(* What left is counted by session, whoever remembers it.                  *)
WireType == wire \in [Dates -> Counts] /\ due \in {"nothing", "entry", "refusal"}

LEMMA CountsKept ==
  ASSUME NEW of \in Counts, NEW what
  PROVE  Told(of, what) \in Counts /\ Untold(of, what) \in Counts
<1>1. Bit(what # "nothing") \in Nat /\ Bit(what = "refusal") \in Nat
  BY DEF Bit
<1> QED BY <1>1 DEF Told, Untold, Counts

LEMMA WireTyped ==
  ASSUME StrategyInv, WireType, [Next]_vars
  PROVE  WireType'
<1>1. ASSUME NEW t \in Times, Bar(t) PROVE WireType'
  <2>1. PICK outcome : Sends(t, outcome)
    BY <1>1, BarMakes
  <2>2. Leaving(outcome) \in {"nothing", "entry", "refusal"}
    BY DEF Leaving
  <2>3. Day(t) \in Dates
    BY TimeFacts
  <2>4. wire[Day(t)] \in Counts /\ Told(wire[Day(t)], Leaving(outcome)) \in Counts
    BY <2>3, CountsKept DEF WireType
  <2> QED BY <2>1, <2>2, <2>3, <2>4 DEF Sends, WireType
<1>2. CASE Crash
  <2>1. /\ wire' = [d \in Dates |-> IF d = sess.date THEN Untold(wire[d], due) ELSE wire[d]]
        /\ due' = "nothing"
    BY <1>2 DEF Crash, Forget
  <2>2. \A d \in Dates : wire[d] \in Counts /\ Untold(wire[d], due) \in Counts
    BY CountsKept DEF WireType
  <2> QED BY <2>1, <2>2 DEF WireType
<1>3. CASE Start \/ Save \/ Repair \/ Stop \/ Tick \/ UNCHANGED vars
  <2>1. wire' = wire /\ due' \in {due, "nothing"}
    BY <1>3 DEF Start, Save, Repair, Stop, Forget, Tick, vars, bookkeeping
  <2> QED BY <2>1 DEF WireType
<1> QED BY <1>1, <1>2, <1>3 DEF Next

LEMMA WireHolds == Spec => []WireType
<1>1. Init => WireType
  BY DEF Init, WireType, Counts, Quiet
<1> QED BY <1>1, WireTyped, StrategyHolds, PTL DEF Spec

(* Everything a process or a saved row holds is a value of the program.    *)
THEOREM TypeCorrect == Spec => []TypeOK
<1>1. StrategyInv /\ WireType => TypeOK
  <2> SUFFICES ASSUME StrategyInv, WireType PROVE TypeOK
    OBVIOUS
  <2>1. \A m : Fit(m) => m \in Memory
    BY KindIsOne DEF StrategyInv, HostType, Kinds, Fit, Memory, TfrFit, SmeFit, Phases
  <2>2. pc # "down" => mem \in Memory
    BY <2>1 DEF StrategyInv, MemoryInv, Kept
  <2>3. store # None => store.mem \in Memory
    BY <2>1 DEF StrategyInv, MemoryInv, Kept
  <2> QED BY <2>2, <2>3 DEF StrategyInv, HostType, StoreType, SessionInv, WireType, TypeOK
<1> QED BY <1>1, StrategyHolds, WireHolds, PTL

-----------------------------------------------------------------------------
StopHeld ==
  (kind = "sme" /\ mem # None /\ mem' # None /\ pos # None /\ pos' = pos /\ pos.own
     /\ mem.phase = "in_trade" /\ mem'.phase = "in_trade")
    => ~Beyond(pos.dir, mem.vstop, mem'.vstop)

LEMMA StopStep ==
  ASSUME StrategyInv, [Next]_vars
  PROVE  StopHeld
<1>1. CASE Start \/ Crash \/ Stop
  BY <1>1 DEF Start, Crash, Stop, Forget, StopHeld, StrategyInv, SessionInv
<1>2. ASSUME NEW t \in Times, Bar(t) PROVE StopHeld
  <2> SUFFICES ASSUME kind = "sme", pos # None, pos' = pos, pos.own,
                      mem.phase = "in_trade", mem'.phase = "in_trade"
               PROVE  ~Beyond(pos.dir, mem.vstop, mem'.vstop)
    BY DEF StopHeld
  <2>1. pc = "bar"
    BY <1>2 DEF Bar
  <2>2. PICK in \in Inputs, outcome \in {"nothing", "closed", "vetoed", "opened", "adopted"} :
          Made(t, in, outcome)
    BY <1>2, BarMakes
  <2>3. mem' = Said(t, in).mem
    BY <2>2 DEF Made
  <2>4. ~IsEntry(Said(t, in)) /\ Steady(Called(t), mem', Seen(in))
    BY <2>1, <2>3, SaidIsGood DEF Result, Spent
  <2>5. Seen(in) = pos
    BY <2>1, <2>2, <2>4, PositionAfterBar
  <2>6. Called(t) = mem
    BY <2>1, <2>4, CalledIsKept DEF Steady
  <2>7. mem.dir = pos.dir
    BY <2>1 DEF StrategyInv, MemoryInv, Kept, SameSide
  <2> QED BY <2>4, <2>5, <2>6, <2>7 DEF Steady
<1>3. CASE Save \/ Repair \/ Tick \/ UNCHANGED vars
  <2> SUFFICES ASSUME kind = "sme", mem # None, pos # None, mem.phase = "in_trade"
               PROVE  ~Beyond(pos.dir, mem.vstop, mem'.vstop)
    BY DEF StopHeld
  <2>1. mem' = mem
    BY <1>3 DEF Save, Repair, Tick, vars, process
  <2>2. mem.vstop \in Int
    BY DEF StrategyInv, SessionInv, MemoryInv, Kept, Fit, SmeFit, Managing
  <2>3. pos.dir \in Directions
    BY DEF StrategyInv, HostType, Position
  <2> QED BY <2>1, <2>2, <2>3, NotBeyondItself
<1> QED BY <1>1, <1>2, <1>3 DEF Next

-----------------------------------------------------------------------------
(* The long memory.  How often a date is in a series.                      *)
LEMMA CountFacts ==
  ASSUME NEW s \in Seq(Nat), NEW d
  PROVE  /\ Count(<<>>, d) = 0 /\ Count(s, d) \in Nat
         /\ \A e \in Nat : Count(Append(s, e), d) = Count(s, d) + IF e = d THEN 1 ELSE 0
<1> DEFINE At(x) == {i \in DOMAIN x : x[i] = d}
<1>1. IsFiniteSet(At(s)) /\ Cardinality(At(s)) \in Nat
  <2>1. At(s) \subseteq 1 .. Len(s) /\ Len(s) \in Nat
    OBVIOUS
  <2>2. IsFiniteSet(1 .. Len(s))
    BY <2>1, FS_Interval
  <2>3. IsFiniteSet(At(s))
    BY <2>1, <2>2, FS_Subset
  <2> QED BY <2>3, FS_CardinalityType
<1>2. At(<<>>) = {}
  OBVIOUS
<1>3. ASSUME NEW e \in Nat
      PROVE  Cardinality(At(Append(s, e))) = Cardinality(At(s)) + IF e = d THEN 1 ELSE 0
  <2> DEFINE n == Len(s) + 1
  <2>1. /\ Len(s) \in Nat /\ DOMAIN s = 1 .. Len(s) /\ DOMAIN Append(s, e) = 1 .. n
        /\ Append(s, e)[n] = e /\ \A i \in 1 .. Len(s) : Append(s, e)[i] = s[i]
    BY AppendProperties
  <2>2. CASE e = d
    <3>1. At(Append(s, e)) = At(s) \cup {n} /\ n \notin At(s)
      BY <2>1, <2>2
    <3> HIDE DEF At
    <3> QED BY <1>1, <2>2, <3>1, FS_AddElement
  <2>3. CASE e # d
    <3>1. At(Append(s, e)) = At(s)
      BY <2>1, <2>3
    <3> HIDE DEF At
    <3> QED BY <1>1, <2>3, <3>1
  <2> QED BY <2>2, <2>3
<1>4. Cardinality(At(<<>>)) = 0
  BY <1>2, FS_EmptySet
<1> QED BY <1>1, <1>3, <1>4 DEF Count

(* A bar writes nothing into the long memory but the decision of its day.  *)
Shelves == {"banked", "ranges", "rets", "decided"}

Shelved(m) == Shelves \subseteq DOMAIN m

Same(a, b) ==
  /\ Shelved(b) /\ b.banked = a.banked /\ b.ranges = a.ranges
  /\ b.rets = a.rets /\ b.decided = a.decided

LEMMA SameFacts ==
  ASSUME NEW m, Shelved(m)
  PROVE  /\ Same(m, m) /\ \A p : Same(m, In(m, p))
         /\ Same(m, Cleared(m)) /\ Same(m, WaitRearm(m))
         /\ \A in : Same(m, Rearmed(m, in))
<1>1. Same(m, m) /\ \A p : Same(m, In(m, p))
  BY DEF Same, Shelved, Shelves, In
<1>2. Same(m, Cleared(m))
  BY DEF Same, Shelved, Shelves, Cleared
<1>3. Same(m, WaitRearm(m))
  <2>1. Same(m, [m EXCEPT !.rearmed = TRUE, !.phase = "wait_rearm"])
    BY DEF Same, Shelved, Shelves
  <2> QED BY <1>1, <2>1 DEF WaitRearm
<1>4. \A in : Same(m, Rearmed(m, in))
  BY <1>1 DEF Rearmed
<1> QED BY <1>1, <1>2, <1>3, <1>4

LEMMA SmeSettledSame ==
  ASSUME NEW m, Shelved(m), NEW ctx
  PROVE  Same(m, SmeSettled(m, ctx))
<1> DEFINE settled == [m EXCEPT !.tradesAtEntry = None]
           filled == [settled EXCEPT !.phase = "in_trade", !.entries = @ + 1, !.dir = ctx.pos.dir]
           cleared == Cleared(settled)
           counted == [cleared EXCEPT !.entries = @ + 1]
<1>1. Same(m, settled)
  BY DEF Same, Shelved, Shelves
<1>2. \/ SmeSettled(m, ctx) = m \/ SmeSettled(m, ctx) = filled
      \/ SmeSettled(m, ctx) = WaitRearm(counted) \/ SmeSettled(m, ctx) = In(cleared, "done")
  BY DEF SmeSettled, Fate
<1> HIDE DEF settled
<1>3. Same(m, filled)
  BY <1>1 DEF Same, Shelved, Shelves
<1>4. Same(m, cleared)
  BY <1>1, SameFacts DEF Same
<1> HIDE DEF cleared, filled
<1>5. Same(m, counted) /\ Same(m, In(cleared, "done"))
  BY <1>4, SameFacts DEF Same, Shelved, Shelves
<1> HIDE DEF counted
<1>6. Same(m, WaitRearm(counted))
  BY <1>5, SameFacts DEF Same
<1> QED BY <1>2, <1>3, <1>5, <1>6, SameFacts

LEMMA SmeManageSame ==
  ASSUME NEW m, Shelved(m), NEW ctx, NEW in, NEW slot
  PROVE  Same(m, SmeManage(m, ctx, in, slot).mem)
<1> DEFINE moved == BrokenEven(m, in.bar, ctx.pos.dir)
<1>1. Same(m, moved)
  BY SameFacts DEF BrokenEven, Same, Shelved, Shelves
<1>2. SmeManage(m, ctx, in, slot).mem \in {In(Cleared(m), "done"), moved, In(Cleared(moved), "done"),
                                           WaitRearm(Cleared(moved))}
  BY DEF SmeManage, Leave, Wait
<1> HIDE DEF moved
<1>3. Same(m, In(Cleared(m), "done"))
  <2> DEFINE cleared == Cleared(m)
  <2>1. Same(m, cleared)
    BY SameFacts
  <2> HIDE DEF cleared
  <2>2. Same(m, In(cleared, "done"))
    BY <2>1, SameFacts DEF Same
  <2> QED BY <2>2 DEF cleared
<1>4. Same(m, Cleared(moved))
  BY <1>1, SameFacts DEF Same
<1>5. Same(m, In(Cleared(moved), "done")) /\ Same(m, WaitRearm(Cleared(moved)))
  BY <1>4, SameFacts DEF Same
<1> QED BY <1>1, <1>2, <1>3, <1>5

LEMMA SmeTriesSame ==
  ASSUME NEW m, Shelved(m), NEW in, NEW ctx, NEW slot, NEW set
  PROVE  Same(m, SmeTries(m, in, ctx, slot, set).mem)
<1> DEFINE next == [m EXCEPT !.phase = "pending", !.tradesAtEntry = ctx.trades,
                             !.vstop = - Risk * in.dir, !.be = FALSE]
<1>1. Same(m, next)
  BY DEF Same, Shelved, Shelves
<1>2. SmeTries(m, in, ctx, slot, set).mem \in {m, In(m, "done"), WaitRearm(m), next}
  BY DEF SmeTries, Enter, Wait
<1> HIDE DEF next
<1> QED BY <1>1, <1>2, SameFacts

LEMMA TrailedSame ==
  ASSUME NEW m, Shelved(m), NEW bar
  PROVE  Same(m, Trailed(m, bar))
BY SameFacts DEF Trailed, Same, Shelved, Shelves

Filed(m, b, date) ==
  /\ Shelved(b) /\ b.banked = m.banked /\ b.ranges = m.ranges
  /\ \/ b.rets = m.rets /\ b.decided = m.decided
     \/ ~m.decided /\ b.decided /\ b.rets \in {m.rets, Append(m.rets, date)}

LEMMA SameFiled ==
  ASSUME NEW m, NEW a, NEW b, NEW date, Filed(m, a, date), Same(a, b)
  PROVE  Filed(m, b, date)
BY DEF Filed, Same

LEMMA DecidedFiled ==
  ASSUME NEW m, Shelved(m), ~m.decided, NEW opening, NEW date, NEW set
  PROVE  Filed(m, Decided(m, opening, date, set), date)
<1> DEFINE armed == Armed(m, opening, set)
           bias == IF armed /\ set.mode = "layer A" THEN opening ELSE None
           rets == IF m.range THEN Append(m.rets, date) ELSE m.rets
           phase == IF armed THEN "armed" ELSE "done"
           calibrated == m.calibrated \/ Enough(m.banked)
           some == [m EXCEPT !.decided = TRUE, !.calibrated = calibrated, !.bias = bias]
           all == [some EXCEPT !.rets = rets, !.phase = phase]
<1>1. Decided(m, opening, date, set) = all
  BY DEF Decided
<1>2. rets \in {m.rets, Append(m.rets, date)}
  OBVIOUS
<1> HIDE DEF bias, rets, phase, calibrated
<1>3. Shelved(some) /\ some.banked = m.banked /\ some.ranges = m.ranges /\ some.decided
  BY DEF Shelved, Shelves
<1> HIDE DEF some
<1>4. Shelved(all) /\ all.banked = m.banked /\ all.ranges = m.ranges /\ all.decided /\ all.rets = rets
  BY <1>3 DEF Shelved, Shelves
<1> HIDE DEF all
<1> QED BY <1>1, <1>2, <1>4 DEF Filed

LEMMA SmeMinuteFiled ==
  ASSUME NEW m, Shelved(m), NEW in, NEW ctx, NEW slot, NEW date, NEW set
  PROVE  Filed(m, SmeOnMinute(m, in, ctx, slot, date, set).mem, date)
<1> DEFINE out == SmeOnMinute(m, in, ctx, slot, date, set)
           begun == [m EXCEPT !.day = TRUE]
           decided == IF begun.decided THEN begun ELSE Decided(begun, None, date, set)
           settled == SmeSettled(decided, ctx)
           armed == Rearmed(settled, in)
           cleared == Cleared(settled)
           waits == WaitRearm(cleared)
           gone == Rearmed(waits, in)
<1>1. Same(m, begun)
  BY DEF Same, Shelved, Shelves
<1>2. out.mem = IF settled.phase = "in_trade"
                THEN IF ctx.pos = None THEN gone ELSE SmeManage(settled, ctx, in, slot).mem
                ELSE SmeTries(armed, in, ctx, slot, set).mem
  BY DEF SmeOnMinute, Wait
<1> HIDE DEF begun
<1>3. Filed(m, decided, date)
  BY <1>1, DecidedFiled DEF Filed, Same
<1> HIDE DEF decided
<1>4. Filed(m, settled, date)
  BY <1>3, SmeSettledSame, SameFiled DEF Filed
<1> HIDE DEF settled, out
<1>5. Filed(m, SmeManage(settled, ctx, in, slot).mem, date)
  <2> DEFINE next == SmeManage(settled, ctx, in, slot).mem
  <2>1. Same(settled, next)
    BY <1>4, SmeManageSame DEF Filed
  <2> HIDE DEF next
  <2> QED BY <1>4, <2>1, SameFiled DEF next
<1>6. Filed(m, armed, date) /\ Filed(m, cleared, date)
  BY <1>4, SameFacts, SameFiled DEF Filed
<1> HIDE DEF armed, cleared
<1>7. Filed(m, SmeTries(armed, in, ctx, slot, set).mem, date)
  <2> DEFINE next == SmeTries(armed, in, ctx, slot, set).mem
  <2>1. Same(armed, next)
    BY <1>6, SmeTriesSame DEF Filed
  <2> HIDE DEF next
  <2> QED BY <1>6, <2>1, SameFiled DEF next
<1>8. Filed(m, waits, date)
  BY <1>6, SameFacts, SameFiled DEF Filed
<1> HIDE DEF waits
<1>9. Filed(m, gone, date)
  BY <1>8, SameFacts, SameFiled DEF Filed
<1> HIDE DEF gone
<1> QED BY <1>2, <1>5, <1>7, <1>9 DEF out

LEMMA SmeBarFiled ==
  ASSUME NEW m, Shelved(m), NEW in, NEW ctx, NEW slot, NEW date, NEW set
  PROVE  Filed(m, SmeOnBar(m, in, ctx, slot, date, set).mem, date)
<1>1. Filed(m, m, date)
  BY DEF Filed
<1>2. Filed(m, SmeFiveMinutes(m, in, slot, set), date)
  <2> DEFINE sampled == IF set.gate # "off" /\ slot \in EntrySlots
                        THEN [m EXCEPT !.samples = TRUE] ELSE m
  <2>1. Same(m, sampled)
    BY DEF Same, Shelved, Shelves
  <2>2. SmeFiveMinutes(m, in, slot, set) = Trailed(sampled, in.bar)
    BY DEF SmeFiveMinutes
  <2> HIDE DEF sampled
  <2>3. Filed(m, sampled, date)
    BY <1>1, <2>1, SameFiled
  <2> QED BY <2>1, <2>2, <2>3, TrailedSame, SameFiled DEF Same
<1>3. Filed(m, SmeOpening(m, in, date, set), date)
  <2> DEFINE begun == [m EXCEPT !.range = TRUE, !.day = TRUE]
  <2>1. Same(m, begun)
    BY DEF Same, Shelved, Shelves
  <2>2. SmeOpening(m, in, date, set) = IF m.decided THEN m ELSE Decided(begun, in.opening, date, set)
    BY DEF SmeOpening
  <2> HIDE DEF begun
  <2>3. CASE m.decided
    BY <1>1, <2>2, <2>3
  <2>4. CASE ~m.decided
    <3>1. Filed(begun, Decided(begun, in.opening, date, set), date)
      BY <2>1, <2>4, DecidedFiled DEF Same
    <3> QED BY <2>1, <2>2, <2>4, <3>1 DEF Filed, Same
  <2> QED BY <2>3, <2>4
<1>4. Filed(m, SmeOnMinute(m, in, ctx, slot, date, set).mem, date)
  BY SmeMinuteFiled
<1> QED BY <1>1, <1>2, <1>3, <1>4 DEF SmeOnBar, Wait

LEMMA NaimBarFiled ==
  ASSUME NEW m \in NaimMemory, NEW in, NEW ctx, NEW slot, NEW set
  PROVE  NaimOnBar(m, in, ctx, slot, set).mem.banked = m.banked
<1> DEFINE Banked(b) == "banked" \in DOMAIN b /\ b.banked = m.banked
           begun == NaimBegun(m, in)  settled == NaimSettled(begun, ctx)
           managed == IF settled.phase = "in_trade" THEN NaimManage(settled, in, ctx, slot)
                      ELSE Wait(settled)
<1>1. Banked(m) /\ Banked(NaimSampled(m, slot, set)) /\ Banked(begun)
  BY DEF NaimMemory, NaimSampled, NaimBegun
<1> HIDE DEF begun
<1>2. Banked(settled)
  BY <1>1 DEF NaimSettled, Fate
<1> HIDE DEF settled
<1>3. Banked(managed.mem)
  BY <1>2 DEF NaimManage, Wait, Leave, In
<1>4. NaimOnBar(m, in, ctx, slot, set).mem
        \in {m, NaimSampled(m, slot, set), managed.mem,
             NaimTries(managed.mem, in, ctx, slot, set).mem}
  BY DEF NaimOnBar, NaimOnMinute, managed, settled, begun, Wait
<1> HIDE DEF managed
<1>5. \A b : Banked(b) => Banked(NaimTries(b, in, ctx, slot, set).mem)
  BY DEF NaimTries, Wait, Enter, In
<1> QED BY <1>1, <1>3, <1>4, <1>5

-----------------------------------------------------------------------------
(* The session a process is in, or the one it was restarted in.            *)
Home == IF sess.date # NoDate THEN sess.date ELSE sess.resumed

CalendarInv ==
  /\ sess.date # NoDate => sess.date = Day(clock)
  /\ sess.date = NoDate /\ sess.resumed # NoDate => clock \in Times /\ sess.resumed = Day(clock)
  /\ clock <= wall
  /\ store # None => store.date = Day(store.last) /\ store.last <= wall
  /\ pc # "down" /\ store # None =>
       \/ Home # NoDate /\ store.date <= Home
       \/ Home = NoDate /\ clock \in Times /\ store.date < Day(clock)

(* With k teardowns so far: a session before this one is in the long       *)
(* memory at most once more than it was torn down, this one only where it  *)
(* was; its statistics are there once it has decided.                      *)
Books(m, h, k) ==
  \A d \in Dates :
    /\ Count(m.banked, d) <= k + IF d < h THEN 1 ELSE 0
    /\ kind = "sme" => /\ Count(m.ranges, d) <= k + IF d < h THEN 1 ELSE 0
                       /\ Count(m.rets, d) <= IF d < h \/ (d = h /\ m.decided) THEN 1 ELSE 0

Covers(a, b) == \A d \in Dates : Count(a.banked, d) <= Count(b.banked, d)

Banks == kind \in {"naim", "sme"}

BankInv ==
  Banks =>
    /\ pc # "down" => Books(mem, Home, stops)
    /\ store # None => Books(store.mem, store.date, stops)
    /\ pc # "down" /\ store # None /\ (setup.live => store.date = Home) => Covers(store.mem, mem)

LEMMA DayOrder ==
  ASSUME NEW s \in Times, NEW t \in Times, s <= t
  PROVE  Day(s) <= Day(t)
<1>1. s \in Nat /\ t \in Nat /\ Slots \in Nat \ {0}
  BY HostAssumption DEF Times
<1> DEFINE p == s \div Slots  q == t \div Slots
<1>2. /\ p \in Nat /\ q \in Nat
      /\ s = Slots * p + (s % Slots) /\ t = Slots * q + (t % Slots)
      /\ s % Slots \in 0 .. Slots - 1 /\ t % Slots \in 0 .. Slots - 1
  BY <1>1, SMT
<1>3. p <= q
  <2> SUFFICES ASSUME q + 1 <= p PROVE FALSE
    BY <1>2
  <2> HIDE DEF p, q
  <2>1. Slots * (q + 1) <= Slots * p
    BY <1>1, <1>2, SMT
  <2>2. Slots * (q + 1) = Slots * q + Slots
    BY <1>1, <1>2, SMT
  <2> QED BY <1>1, <1>2, <2>1, <2>2
<1> QED BY <1>3 DEF Day

LEMMA BarClock ==
  ASSUME StrategyInv, CalendarInv, NEW t \in Times, Bar(t)
  PROVE  /\ clock <= t /\ Home <= Day(t)
         /\ Changed(t) /\ ~Adopts(t) => Home < Day(t)
         /\ ~Changed(t) \/ Adopts(t) => Home = Day(t)
         /\ Day(t) \in Nat /\ Home \in Nat \cup {-1}
<1>1. PICK in \in Inputs : Delivers(t, in)
  BY DEF Bar
<1>2. /\ clock \in Times \cup {NoTime} /\ t \in Nat /\ Day(t) \in Nat
      /\ sess.date \in Dates \cup {NoDate} /\ sess.resumed \in Dates \cup {NoDate}
      /\ Dates \subseteq Nat /\ Times \subseteq Nat
  BY TimeFacts DEF StrategyInv, HostType
<1>3. clock <= t
  BY <1>1, <1>2 DEF Delivers, NoTime
<1>4. sess.date # NoDate => sess.date = Day(clock) /\ Day(clock) <= Day(t)
  BY <1>3, DayOrder DEF CalendarInv, StrategyInv, SessionInv
<1>5. sess.date = NoDate /\ sess.resumed # NoDate => sess.resumed = Day(clock) /\ Day(clock) <= Day(t)
  BY <1>3, DayOrder DEF CalendarInv
<1>6. Home \in Nat \cup {-1} /\ Home <= Day(t)
  <2>1. CASE sess.date # NoDate
    <3>1. Home = sess.date /\ sess.date \in Nat
      BY <1>2, <2>1 DEF Home
    <3> QED BY <1>4, <2>1, <3>1
  <2>2. CASE sess.date = NoDate /\ sess.resumed # NoDate
    <3>1. Home = sess.resumed /\ sess.resumed \in Nat
      BY <1>2, <2>2 DEF Home
    <3> QED BY <1>5, <2>2, <3>1
  <2>3. CASE sess.date = NoDate /\ sess.resumed = NoDate
    <3>1. Home = -1
      BY <2>3 DEF Home, NoDate
    <3> QED BY <1>2, <3>1
  <2> QED BY <2>1, <2>2, <2>3
<1>7. Changed(t) /\ ~Adopts(t) => Home # Day(t)
  BY <1>2 DEF Changed, Adopts, Home, NoDate
<1>8. ~Changed(t) \/ Adopts(t) => Home = Day(t)
  BY <1>2 DEF Changed, Adopts, Home, NoDate
<1> QED BY <1>2, <1>3, <1>6, <1>7, <1>8

LEMMA CalendarInit == Init => CalendarInv
<1> SUFFICES ASSUME Init PROVE CalendarInv
  OBVIOUS
<1>1. sess.date = NoDate /\ sess.resumed = NoDate /\ store = None /\ pc = "down"
  BY DEF Init, FreshSess
<1>2. clock = -1 /\ wall = -1
  BY DEF Init, NoTime
<1> QED BY <1>1, <1>2 DEF CalendarInv

LEMMA CalendarBar ==
  ASSUME StrategyInv, CalendarInv, NEW t \in Times, Bar(t)
  PROVE  CalendarInv'
<1>1. /\ clock' = t /\ wall' = (IF t > wall THEN t ELSE wall) /\ pc = "bar"
      /\ setup' = setup /\ store' = store
  BY DEF Bar
<1>2. sess'.date = Day(t)
  BY BarMakes DEF Made
<1>3. clock \in Times \cup {NoTime} /\ wall \in Times \cup {NoTime} /\ t \in Nat /\ Times \subseteq Nat
  BY TimeFacts DEF StrategyInv, HostType
<1>4. clock' <= wall' /\ wall <= wall'
  BY <1>1, <1>3 DEF NoTime
<1>5. Home' = Day(t) /\ Day(t) # NoDate
  BY <1>2, TimeFacts DEF Home, NoDate
<1>6. store # None => store.date = Day(store.last) /\ store.last <= wall'
  <2> HAVE store # None
  <2>1. store.date = Day(store.last) /\ store.last <= wall /\ store.last \in Nat
    BY TimeFacts DEF CalendarInv, StrategyInv, StoreType
  <2> QED BY <1>1, <1>3, <2>1 DEF NoTime
<1>7. store # None => store.date <= Day(t)
  <2> HAVE store # None
  <2>1. store.date \in Nat
    BY TimeFacts DEF StrategyInv, StoreType
  <2>2. CASE Home # NoDate /\ store.date <= Home
    BY <2>1, <2>2, BarClock
  <2>3. CASE clock \in Times /\ store.date < Day(clock)
    <3>1. Day(clock) \in Nat /\ Day(clock) <= Day(t) /\ Day(t) \in Nat
      BY <2>3, BarClock, DayOrder, TimeFacts
    <3> QED BY <2>1, <2>3, <3>1
  <2> QED BY <1>1, <2>2, <2>3 DEF CalendarInv
<1> QED BY <1>1, <1>2, <1>4, <1>5, <1>6, <1>7 DEF CalendarInv

LEMMA CalendarStart == ASSUME StrategyInv, CalendarInv, Start PROVE CalendarInv'
<1>1. UNCHANGED <<setup, wall, store>>
  BY DEF Start
<1>2. wall \in Times \cup {NoTime} /\ Times \subseteq Nat
  BY TimeFacts DEF StrategyInv, HostType
<1>3. store # None => /\ store.date = Day(store.last) /\ store.last <= wall
                      /\ store.last \in Times /\ store.date \in Nat
  BY TimeFacts DEF StrategyInv, StoreType, CalendarInv
<1>4. CASE Resumes
  <2>1. /\ clock' = store.last
        /\ sess'.date = IF setup.live THEN NoDate ELSE store.date
        /\ sess'.resumed = store.date
    BY <1>4 DEF Start, FreshSess
  <2>2. store # None
    BY <1>4 DEF Resumes
  <2>3. Home' = store.date /\ store.date # NoDate
    BY <1>3, <2>1, <2>2 DEF Home, NoDate
  <2> QED BY <1>1, <1>3, <2>1, <2>2, <2>3 DEF CalendarInv
<1>5. CASE ~Resumes
  <2>1. clock' = (IF setup.live THEN wall ELSE NoTime) /\ sess' = FreshSess
    BY <1>5 DEF Start
  <2>2. Home' = NoDate /\ sess'.date = NoDate /\ sess'.resumed = NoDate
    BY <2>1 DEF Home, FreshSess
  <2>3. clock' <= wall'
    BY <1>1, <1>2, <2>1 DEF NoTime
  <2>4. store # None => clock' \in Times /\ store.date < Day(clock')
    <3> HAVE store # None
    <3>1. clock' = wall /\ store.date # Day(wall)
      BY <1>5, <2>1 DEF Resumes
    <3>2. wall \in Times
      <4>1. store.last \in Nat /\ store.last <= wall
        BY <1>2, <1>3
      <4> QED BY <1>2, <4>1 DEF NoTime
    <3>3. Day(store.last) <= Day(wall) /\ Day(wall) \in Nat
      BY <1>3, <3>2, DayOrder, TimeFacts
    <3> QED BY <1>3, <3>1, <3>2, <3>3
  <2> QED BY <1>1, <1>3, <2>2, <2>3, <2>4 DEF CalendarInv
<1> QED BY <1>4, <1>5

LEMMA CalendarForget ==
  ASSUME StrategyInv, CalendarInv, Forget, wall' = wall,
         store' # None => store'.date = Day(store'.last) /\ store'.last <= wall
  PROVE  CalendarInv'
<1>1. wall \in Nat \cup {-1}
  BY TimeFacts DEF StrategyInv, HostType, NoTime
<1> QED BY <1>1 DEF CalendarInv, Forget, FreshSess, NoTime

LEMMA CalendarStep == ASSUME StrategyInv, CalendarInv, [Next]_vars PROVE CalendarInv'
<1>1. CASE Save
  <2>1. UNCHANGED <<setup, wall, clock, sess>> /\ pc = "save"
        /\ store'.date = sess.date /\ store'.last = clock
    BY <1>1 DEF Save, Row
  <2>2. sess.date # NoDate /\ sess.date \in Nat /\ sess.date = Day(clock)
    BY <2>1, TimeFacts DEF StrategyInv, HostType, SessionInv, CalendarInv
  <2> QED BY <2>1, <2>2 DEF CalendarInv, Home
<1>2. CASE Crash
  BY <1>2, CalendarForget DEF Crash, CalendarInv
<1>3. CASE Stop
  <2>1. CASE sess.date = NoDate
    BY <1>3, <2>1, CalendarForget DEF Stop, CalendarInv
  <2>2. CASE sess.date # NoDate
    <3>1. store'.date = sess.date /\ store'.last = clock
      BY <1>3, <2>2 DEF Stop, Row
    <3> QED BY <1>3, <2>2, <3>1, CalendarForget DEF Stop, CalendarInv
  <2> QED BY <2>1, <2>2
<1>4. CASE Tick
  <2>1. wall \in Nat \cup {-1} /\ wall' = wall + 1 /\ pc = "down"
    BY <1>4, TimeFacts DEF Tick, StrategyInv, HostType, NoTime
  <2>2. UNCHANGED <<setup, clock, sess, store, pc>>
    BY <1>4 DEF Tick, process
  <2>3. clock \in Int /\ (store # None => store.last \in Int)
    BY TimeFacts DEF StrategyInv, HostType, StoreType, NoTime
  <2> QED BY <2>1, <2>2, <2>3 DEF CalendarInv, Home
<1>5. CASE Repair \/ UNCHANGED vars
  <2>1. UNCHANGED <<setup, wall, clock, sess, store, pc>>
    BY <1>5 DEF Repair, vars, process
  <2> QED BY <2>1 DEF CalendarInv, Home
<1> QED BY <1>1, <1>2, <1>3, <1>4, <1>5, CalendarBar, CalendarStart DEF Next

-----------------------------------------------------------------------------
(* What left in a session against what is known of it: by the process, and *)
(* by the saved row, which lacks the bar that waits for its save.          *)
Known(d, n, r) ==
  /\ wire[d].sent <= n + wire[d].lost
  /\ wire[d].refused # wire[d].forgotten => r

DueSent(d) == IF d = sess.date THEN Bit(due # "nothing") ELSE 0
DueRefused(d) == IF d = sess.date THEN Bit(due = "refusal") ELSE 0

RowSent(d) == IF store # None /\ store.date = d THEN store.history.sent ELSE 0
RowRefused(d) == store # None /\ store.date = d /\ store.history.refused

KnownByRow(d) ==
  /\ wire[d].sent <= RowSent(d) + wire[d].lost + DueSent(d)
  /\ wire[d].refused # wire[d].forgotten + DueRefused(d) => RowRefused(d)

Ahead(d) == store # None => store.date <= d

(* Nothing waits for a save but after a bar; the process knows all of its  *)
(* session but what was lost, the row all but what is due.                 *)
WireInv ==
  /\ WireType
  /\ due # "nothing" => pc = "save"
  /\ pc # "down" /\ Home # NoDate => Known(Home, history.sent, history.refused)
  /\ \A d \in Dates : Ahead(d) => KnownByRow(d)
  /\ EntriesWithinCap

LEMMA BitFacts ==
  /\ \A b \in BOOLEAN : Bit(b) \in {0, 1}
  /\ Bit(TRUE) = 1 /\ Bit(FALSE) = 0
BY DEF Bit

LEMMA WireFacts ==
  ASSUME StrategyInv, WireType, NEW d \in Dates
  PROVE  /\ d \in Nat /\ d # NoDate
         /\ wire[d].sent \in Nat /\ wire[d].refused \in Nat
         /\ wire[d].lost \in Nat /\ wire[d].forgotten \in Nat
         /\ history.sent \in Nat /\ history.refused \in BOOLEAN
         /\ RowSent(d) \in Nat /\ RowRefused(d) \in BOOLEAN
         /\ DueSent(d) \in {0, 1} /\ DueRefused(d) \in {0, 1}
<1>1. d \in Nat /\ d # NoDate
  BY TimeFacts DEF NoDate
<1>2. wire[d] \in Counts /\ history \in Notes
  BY DEF WireType, StrategyInv, HostType
<1>3. RowSent(d) \in Nat /\ RowRefused(d) \in BOOLEAN
  BY DEF RowSent, RowRefused, StrategyInv, StoreType, Notes
<1>4. DueSent(d) \in {0, 1} /\ DueRefused(d) \in {0, 1}
  BY DEF DueSent, DueRefused, Bit
<1> QED BY <1>1, <1>2, <1>3, <1>4 DEF Counts, Notes

LEMMA HomeIsDate ==
  ASSUME StrategyInv, Home # NoDate
  PROVE  Home \in Dates
BY DEF StrategyInv, HostType, Home

(* What the process knows of the session of a bar, before the bar.         *)
LEMMA KnownAtBar ==
  ASSUME StrategyInv, CalendarInv, WireInv, NEW t \in Times, Bar(t)
  PROVE  Known(Day(t), Sent0(t), Refused0(t)) /\ Ahead(Day(t))
<1>1. pc = "bar" /\ due = "nothing" /\ Day(t) \in Dates /\ Day(t) \in Nat
  BY TimeFacts DEF Bar, WireInv
<1>2. store # None => store.date \in Nat
  BY TimeFacts DEF StrategyInv, StoreType
<1>3. CASE ~Changed(t) \/ Adopts(t)
  <2>1. Home = Day(t) /\ Home # NoDate
    BY <1>1, <1>3, BarClock DEF NoDate
  <2>2. Sent0(t) = history.sent /\ (Refused0(t) <=> history.refused)
    BY <1>3 DEF Sent0, Refused0, Rolled
  <2>3. Known(Home, history.sent, history.refused)
    BY <1>1, <2>1 DEF WireInv
  <2>4. Known(Day(t), Sent0(t), Refused0(t))
    BY <2>1, <2>2, <2>3 DEF Known
  <2>5. Ahead(Day(t))
    BY <1>1, <1>2, <2>1 DEF CalendarInv, Ahead
  <2> QED BY <2>4, <2>5
<1>4. CASE Changed(t) /\ ~Adopts(t)
  <2>1. Home < Day(t) /\ Home \in Nat \cup {-1} /\ clock <= t
    BY <1>4, BarClock
  <2>2. store # None => store.date < Day(t)
    <3> HAVE store # None
    <3>1. CASE Home # NoDate /\ store.date <= Home
      BY <1>1, <1>2, <2>1, <3>1
    <3>2. CASE clock \in Times /\ store.date < Day(clock)
      <4>1. Day(clock) <= Day(t) /\ Day(clock) \in Nat
        BY <2>1, <3>2, DayOrder, TimeFacts
      <4> QED BY <1>1, <1>2, <3>2, <4>1
    <3> QED BY <1>1, <3>1, <3>2 DEF CalendarInv
  <2>3. Ahead(Day(t)) /\ RowSent(Day(t)) = 0 /\ ~RowRefused(Day(t))
    BY <1>1, <1>2, <2>2 DEF Ahead, RowSent, RowRefused
  <2>4. KnownByRow(Day(t)) /\ DueSent(Day(t)) = 0 /\ DueRefused(Day(t)) = 0
    BY <1>1, <2>3 DEF WireInv, DueSent, DueRefused, Bit
  <2>5. Sent0(t) = 0 /\ ~Refused0(t)
    <3>1. Rolled(t) \/ (sess.date = NoDate /\ sess.resumed = NoDate)
      BY <1>4 DEF Rolled
    <3>2. CASE Rolled(t)
      BY <3>2 DEF Sent0, Refused0
    <3>3. CASE sess.date = NoDate /\ sess.resumed = NoDate
      BY <3>3 DEF Sent0, Refused0, StrategyInv, SessionInv
    <3> QED BY <3>1, <3>2, <3>3
  <2>6. wire[Day(t)].lost \in Nat /\ wire[Day(t)].forgotten \in Nat /\ wire[Day(t)].sent \in Nat
    BY <1>1, WireFacts DEF WireInv
  <2>7. Known(Day(t), Sent0(t), Refused0(t))
    BY <2>3, <2>4, <2>5, <2>6 DEF Known, KnownByRow
  <2> QED BY <2>3, <2>7
<1> QED BY <1>3, <1>4

(* What a bar sends, the process counts; the row does not have it yet.     *)
LEMMA WireBar ==
  ASSUME StrategyInv, CalendarInv, WireInv, NEW t \in Times, Bar(t), StrategyInv', WireType'
  PROVE  /\ WireInv'
         /\ \A d \in Dates : wire'[d].sent # wire[d].sent => wire[d].refused = wire[d].forgotten
<1> DEFINE e == Day(t)  n == Sent0(t)  r == Refused0(t)
<1>1. PICK in \in Inputs, outcome \in {"nothing", "closed", "vetoed", "opened", "adopted"} :
        Made(t, in, outcome) /\ Sends(t, outcome)
  BY BarMakes
<1>2. /\ pc = "bar" /\ due = "nothing" /\ e \in Dates /\ store' = store /\ setup' = setup
      /\ pc' = IF t <= backfill THEN "bar" ELSE "save"
  BY TimeFacts DEF Bar, WireInv
<1>3. Known(e, n, r) /\ Ahead(e) /\ n \in Nat /\ r \in BOOLEAN
  BY <1>2, KnownAtBar, CalledIsKept
<1> DEFINE sends == outcome \in {"vetoed", "opened", "adopted"}
           refuses == outcome \in {"vetoed", "adopted"}
<1>4. /\ Leaving(outcome) # "nothing" <=> sends
      /\ Leaving(outcome) = "refusal" <=> refuses
  BY DEF Leaving
<1>5. /\ sess'.date = e /\ history'.sent = n + (IF sends THEN 1 ELSE 0)
      /\ history'.refused = (r \/ refuses) /\ due' = Leaving(outcome)
      /\ wire' = [wire EXCEPT ![e] = Told(@, Leaving(outcome))]
  BY <1>1 DEF Made, Sends
<1>6. \A d \in Dates : d # e => wire'[d] = wire[d]
  BY <1>5 DEF WireInv, WireType
<1>7. /\ wire'[e].sent = wire[e].sent + (IF sends THEN 1 ELSE 0)
      /\ wire'[e].refused = wire[e].refused + (IF refuses THEN 1 ELSE 0)
      /\ wire'[e].lost = wire[e].lost /\ wire'[e].forgotten = wire[e].forgotten
  <2>1. wire'[e] = Told(wire[e], Leaving(outcome))
    BY <1>2, <1>5 DEF WireInv, WireType
  <2> HIDE DEF sends, refuses
  <2> QED BY <1>4, <2>1 DEF Told, Bit
<1>8. /\ wire[e].sent \in Nat /\ wire[e].refused \in Nat
      /\ wire[e].lost \in Nat /\ wire[e].forgotten \in Nat
  BY <1>2, WireFacts DEF WireInv
<1>9. sends => ~r /\ ~(t <= backfill)
  <2> HAVE sends
  <2>1. IsEntry(Said(t, in))
    BY <1>1, <1>2, EntriesAreEntries DEF Made
  <2>2. ~r
    BY <1>2, <2>1, SaidIsGood DEF Result
  <2>3. ~(t <= backfill)
    BY <1>1, <1>2 DEF Sends
  <2> QED BY <2>2, <2>3
<1>10. refuses => sends
  OBVIOUS
<1>11. e # NoDate
  BY <1>2, WireFacts DEF WireInv
<1> HIDE DEF e, n, r, sends, refuses
<1>12. due' # "nothing" => pc' = "save"
  BY <1>2, <1>4, <1>5, <1>9
<1>13. Known(Home, history.sent, history.refused)'
  <2>1. Home' = e
    BY <1>5, <1>11 DEF Home
  <2>2. wire'[e].sent <= history'.sent + wire'[e].lost
    BY <1>3, <1>5, <1>7, <1>8 DEF Known
  <2>3. ASSUME wire'[e].refused # wire'[e].forgotten PROVE history'.refused
    <3>1. CASE refuses
      BY <1>5, <3>1, Zenon
    <3>2. CASE ~refuses
      <4>1. wire[e].refused # wire[e].forgotten
        BY <1>7, <1>8, <2>3, <3>2
      <4>2. r
        BY <1>3, <4>1 DEF Known
      <4> QED BY <1>5, <4>2, Zenon
    <3> QED BY <3>1, <3>2
  <2> QED BY <2>1, <2>2, <2>3 DEF Known
<1>14. ASSUME NEW d \in Dates, Ahead(d)' PROVE KnownByRow(d)'
  <2>1. Ahead(d) /\ KnownByRow(d) /\ RowSent(d)' = RowSent(d) /\ (RowRefused(d)' <=> RowRefused(d))
    BY <1>2, <1>14 DEF WireInv, Ahead, RowSent, RowRefused
  <2>2. DueSent(d) = 0 /\ DueRefused(d) = 0
    BY <1>2 DEF DueSent, DueRefused, Bit
  <2>3. CASE d # e
    <3>1. wire'[d] = wire[d] /\ DueSent(d)' = 0 /\ DueRefused(d)' = 0
      BY <1>5, <1>6, <2>3 DEF DueSent, DueRefused
    <3> QED BY <2>1, <2>2, <3>1 DEF KnownByRow
  <2>4. CASE d = e
    <3>1. /\ DueSent(d)' = (IF sends THEN 1 ELSE 0)
          /\ DueRefused(d)' = (IF refuses THEN 1 ELSE 0)
      BY <1>4, <1>5, <2>4 DEF DueSent, DueRefused, Bit
    <3>2. RowSent(d) \in Nat
      BY WireFacts DEF WireInv
    <3>3. wire[e].sent <= RowSent(d) + wire[e].lost /\ (wire[e].refused # wire[e].forgotten => RowRefused(d))
      BY <1>8, <2>1, <2>2, <2>4, <3>2 DEF KnownByRow
    <3>4. /\ wire'[d].sent <= RowSent(d)' + wire'[d].lost + DueSent(d)'
          /\ wire'[d].refused # wire'[d].forgotten + DueRefused(d)' => RowRefused(d)'
      BY <1>7, <1>8, <2>1, <2>4, <3>1, <3>2, <3>3
    <3> QED BY <3>4 DEF KnownByRow
  <2> QED BY <2>3, <2>4
<1>15. EntriesWithinCap'
  <2> SUFFICES ASSUME Managed', NEW d \in Dates PROVE wire'[d].sent <= MaxEntries + wire'[d].lost
    BY DEF EntriesWithinCap
  <2>1. Managed
    BY <1>2 DEF Managed, kind
  <2>2. CASE d # e
    BY <1>6, <2>1, <2>2 DEF WireInv, EntriesWithinCap
  <2>3. CASE d = e
    <3>1. history'.sent \in Nat /\ history'.sent <= MaxEntries
      BY <1>2 DEF StrategyInv, MemoryInv, Kept, Room
    <3>2. wire'[e].sent <= history'.sent + wire'[e].lost
      BY <1>3, <1>5, <1>7, <1>8 DEF Known
    <3> QED BY <1>7, <1>8, <2>3, <3>1, <3>2, MaxIsNat
  <2> QED BY <2>2, <2>3
<1>16. WireInv'
  BY <1>12, <1>13, <1>14, <1>15 DEF WireInv
<1>17. ASSUME NEW d \in Dates, wire'[d].sent # wire[d].sent PROVE wire[d].refused = wire[d].forgotten
  <2>1. d = e /\ sends
    BY <1>6, <1>7, <1>8, <1>17
  <2> QED BY <1>3, <1>9, <2>1 DEF Known
<1> QED BY <1>16, <1>17

(* A saved row is a row.                                                   *)
LEMMA EndIsFit ==
  ASSUME StrategyInv, pc # "down", sess.date # NoDate
  PROVE  Fit(SessionEnd(mem, sess.date))
<1>1. sess.date \in Nat /\ history.refused \in BOOLEAN /\ Kept(mem, pos, trades, history) /\ setup \in Setups
  BY TimeFacts DEF StrategyInv, HostType, MemoryInv, Notes
<1>2. Kept(SessionEnd(mem, sess.date), pos, trades, history)
  BY <1>1, EndKeeps
<1> QED BY <1>2 DEF Kept

LEMMA RowIsRow ==
  ASSUME StrategyInv, sess.date # NoDate, NEW m, Fit(m)
  PROVE  Row(m) # None
<1>1. m \in Memories
  BY KindIsOne DEF StrategyInv, HostType, Kinds, Fit, Memories, TfrFit, SmeFit, Phases
<1>2. /\ sess.date \in Dates /\ clock \in Times /\ pos \in Position \cup {None}
      /\ trades \in Nat /\ history \in Notes
  BY DEF StrategyInv, HostType, SessionInv
<1>3. Row(m) \in Rows
  BY <1>1, <1>2 DEF Row, Rows
<1> QED BY <1>3, RowAssumption

(* A row that is saved knows what the process knows.                       *)
LEMMA WireSaved ==
  ASSUME StrategyInv, CalendarInv, WireInv, WireType', pc # "down", sess.date # NoDate,
         wire' = wire, due' = "nothing", store' # None,
         store'.date = sess.date, store'.history = history
  PROVE  \A d \in Dates : Ahead(d)' => KnownByRow(d)'
<1> SUFFICES ASSUME NEW d \in Dates, Ahead(d)' PROVE KnownByRow(d)'
  OBVIOUS
<1>1. Home = sess.date /\ sess.date \in Dates /\ sess.date \in Nat /\ d \in Nat
  BY HomeIsDate, TimeFacts DEF Home
<1>2. DueSent(d)' = 0 /\ DueRefused(d)' = 0
  BY DEF DueSent, DueRefused, Bit
<1>3. sess.date <= d
  BY DEF Ahead
<1>4. /\ wire[d].sent \in Nat /\ wire[d].refused \in Nat
      /\ wire[d].lost \in Nat /\ wire[d].forgotten \in Nat
      /\ RowSent(d) \in Nat /\ history.sent \in Nat
  BY WireFacts DEF WireInv
<1>5. CASE d = sess.date
  <2>1. Known(d, history.sent, history.refused)
    BY <1>1, <1>5 DEF WireInv
  <2>2. RowSent(d)' = history.sent /\ (RowRefused(d)' <=> history.refused)
    BY <1>5 DEF RowSent, RowRefused
  <2> QED BY <1>2, <1>4, <2>1, <2>2 DEF Known, KnownByRow
<1>6. CASE d # sess.date
  <2>1. store # None => store.date < d
    <3> HAVE store # None
    <3>1. store.date <= sess.date /\ store.date \in Nat
      BY <1>1, TimeFacts DEF CalendarInv, StrategyInv, StoreType
    <3> QED BY <1>1, <1>3, <1>6, <3>1
  <2>2. Ahead(d) /\ RowSent(d) = 0 /\ ~RowRefused(d)
    BY <1>1, <2>1, TimeFacts DEF Ahead, RowSent, RowRefused, StrategyInv, StoreType
  <2>3. KnownByRow(d) /\ DueSent(d) = 0 /\ DueRefused(d) = 0
    BY <1>6, <2>2 DEF WireInv, DueSent, DueRefused
  <2>4. RowSent(d)' = 0
    BY <1>6 DEF RowSent
  <2> QED BY <1>2, <1>4, <2>2, <2>3, <2>4 DEF KnownByRow
<1> QED BY <1>5, <1>6

LEMMA WireStep ==
  ASSUME StrategyInv, CalendarInv, WireInv, [Next]_vars, StrategyInv', WireType'
  PROVE  /\ WireInv'
         /\ \A d \in Dates : wire'[d].sent # wire[d].sent => wire[d].refused = wire[d].forgotten
<1>1. ASSUME NEW t \in Times, Bar(t) PROVE WireInv' /\ \A d \in Dates :
              wire'[d].sent # wire[d].sent => wire[d].refused = wire[d].forgotten
  BY <1>1, WireBar
<1>2. CASE Start
  <2>1. UNCHANGED <<setup, wall, store, wire, due>> /\ pc = "down" /\ pc' = "bar" /\ due = "nothing"
    BY <1>2 DEF Start, WireInv
  <2>2. ASSUME NEW d \in Dates, Ahead(d)' PROVE KnownByRow(d)'
    <3>1. Ahead(d) /\ KnownByRow(d) /\ RowSent(d)' = RowSent(d) /\ (RowRefused(d)' <=> RowRefused(d))
      BY <2>1, <2>2 DEF WireInv, Ahead, RowSent, RowRefused
    <3>2. DueSent(d) = 0 /\ DueRefused(d) = 0 /\ DueSent(d)' = 0 /\ DueRefused(d)' = 0
      BY <2>1 DEF DueSent, DueRefused, Bit
    <3> QED BY <2>1, <3>1, <3>2 DEF KnownByRow
  <2>3. ASSUME Home' # NoDate PROVE Known(Home, history.sent, history.refused)'
    <3>1. CASE Resumes
      <4>1. Home' = store.date /\ history' = store.history /\ store # None
        BY <1>2, <2>3, <3>1 DEF Start, Home, FreshSess, Resumes
      <4> DEFINE d == store.date
      <4>2. d \in Dates /\ d \in Nat
        BY <4>1, TimeFacts DEF StrategyInv, StoreType
      <4>3. Ahead(d)
        BY <4>2 DEF Ahead
      <4>4. KnownByRow(d) /\ DueSent(d) = 0 /\ DueRefused(d) = 0
        BY <2>1, <4>2, <4>3 DEF WireInv, DueSent, DueRefused, Bit
      <4>5. RowSent(d) = history'.sent /\ (RowRefused(d) <=> history'.refused)
        BY <4>1 DEF RowSent, RowRefused
      <4>6. wire[d].lost \in Nat /\ wire[d].forgotten \in Nat /\ RowSent(d) \in Nat
        BY <4>2, WireFacts DEF WireInv
      <4>7. wire[d].sent <= history'.sent + wire[d].lost /\ (wire[d].refused # wire[d].forgotten => history'.refused)
        BY <4>4, <4>5, <4>6 DEF KnownByRow
      <4> HIDE DEF d
      <4>8. Home' = d
        BY <4>1 DEF d
      <4> QED BY <2>1, <4>7, <4>8 DEF Known
    <3>2. CASE ~Resumes
      BY <1>2, <2>3, <3>2 DEF Start, Home, FreshSess
    <3> QED BY <3>1, <3>2
  <2>4. EntriesWithinCap'
    BY <2>1 DEF WireInv, EntriesWithinCap, Managed, kind
  <2> QED BY <2>1, <2>2, <2>3, <2>4 DEF WireInv
<1>3. CASE Save
  <2>1. /\ UNCHANGED <<setup, sess, wire, history>> /\ pc = "save" /\ pc' = "bar" /\ due' = "nothing"
        /\ store' = Row(mem)
    BY <1>3 DEF Save
  <2>2. sess.date # NoDate /\ store'.date = sess.date /\ store'.history = history
    BY <2>1 DEF Row, StrategyInv, SessionInv
  <2>3. store' # None
    BY <2>1, <2>2, RowIsRow DEF StrategyInv, MemoryInv, Kept
  <2>4. \A d \in Dates : Ahead(d)' => KnownByRow(d)'
    BY <2>1, <2>2, <2>3, WireSaved
  <2>5. Home' = Home
    BY <2>1 DEF Home
  <2>6. Home # NoDate => Known(Home, history.sent, history.refused)'
    BY <2>1, <2>5 DEF WireInv, Known
  <2>7. EntriesWithinCap'
    BY <2>1 DEF WireInv, EntriesWithinCap, Managed, kind
  <2> QED BY <2>1, <2>4, <2>5, <2>6, <2>7 DEF WireInv
<1>4. CASE Stop
  <2>1. /\ UNCHANGED <<setup, wire>> /\ pc # "down" /\ pc' = "down" /\ due' = "nothing"
        /\ store' = IF sess.date = NoDate THEN store ELSE Row(SessionEnd(mem, sess.date))
    BY <1>4 DEF Stop, Forget
  <2>2. EntriesWithinCap'
    BY <2>1 DEF WireInv, EntriesWithinCap, Managed, kind
  <2>3. CASE sess.date = NoDate
    <3>1. due = "nothing" /\ store' = store
      BY <2>1, <2>3 DEF WireInv, StrategyInv, SessionInv
    <3>2. ASSUME NEW d \in Dates, Ahead(d)' PROVE KnownByRow(d)'
      <4>1. Ahead(d) /\ KnownByRow(d) /\ RowSent(d)' = RowSent(d) /\ (RowRefused(d)' <=> RowRefused(d))
        BY <3>1, <3>2 DEF WireInv, Ahead, RowSent, RowRefused
      <4>2. DueSent(d) = 0 /\ DueRefused(d) = 0 /\ DueSent(d)' = 0 /\ DueRefused(d)' = 0
        BY <2>1, <3>1 DEF DueSent, DueRefused, Bit
      <4> QED BY <2>1, <4>1, <4>2 DEF KnownByRow
    <3> QED BY <2>1, <2>2, <3>2 DEF WireInv
  <2>4. CASE sess.date # NoDate
    <3>1. store' = Row(SessionEnd(mem, sess.date))
      BY <2>1, <2>4
    <3>2. store'.date = sess.date /\ store'.history = history
      BY <3>1 DEF Row
    <3>3. store' # None
      <4>1. Fit(SessionEnd(mem, sess.date))
        BY <2>1, <2>4, EndIsFit
      <4> QED BY <2>4, <3>1, <4>1, RowIsRow
    <3>4. \A d \in Dates : Ahead(d)' => KnownByRow(d)'
      BY <2>1, <2>4, <3>2, <3>3, WireSaved
    <3> QED BY <2>1, <2>2, <3>4 DEF WireInv
  <2> QED BY <2>1, <2>3, <2>4
<1>5. CASE Crash
  <2>1. /\ UNCHANGED <<setup, store>> /\ pc' = "down" /\ due' = "nothing"
        /\ wire' = [d \in Dates |-> IF d = sess.date THEN Untold(wire[d], due) ELSE wire[d]]
    BY <1>5 DEF Crash, Forget
  <2>2. ASSUME NEW d \in Dates
        PROVE  /\ wire'[d].sent = wire[d].sent /\ wire'[d].refused = wire[d].refused
               /\ wire'[d].lost = wire[d].lost + DueSent(d)
               /\ wire'[d].forgotten = wire[d].forgotten + DueRefused(d)
               /\ wire[d].lost \in Nat /\ wire[d].forgotten \in Nat /\ wire[d].sent \in Nat
               /\ DueSent(d) \in {0, 1} /\ DueRefused(d) \in {0, 1} /\ RowSent(d) \in Nat
    <3>1. /\ wire[d].lost \in Nat /\ wire[d].forgotten \in Nat /\ wire[d].sent \in Nat
          /\ DueSent(d) \in {0, 1} /\ DueRefused(d) \in {0, 1} /\ RowSent(d) \in Nat
      BY WireFacts DEF WireInv
    <3>2. CASE d = sess.date
      <4>1. wire'[d] = Untold(wire[d], due)
        BY <2>1, <3>2
      <4> QED BY <3>1, <3>2, <4>1 DEF Untold, DueSent, DueRefused
    <3>3. CASE d # sess.date
      <4>1. wire'[d] = wire[d]
        BY <2>1, <3>3
      <4> QED BY <3>1, <3>3, <4>1 DEF DueSent, DueRefused
    <3> QED BY <3>2, <3>3
  <2>3. ASSUME NEW d \in Dates, Ahead(d)' PROVE KnownByRow(d)'
    <3>1. Ahead(d) /\ KnownByRow(d) /\ RowSent(d)' = RowSent(d) /\ (RowRefused(d)' <=> RowRefused(d))
      BY <2>1, <2>3 DEF WireInv, Ahead, RowSent, RowRefused
    <3>2. DueSent(d)' = 0 /\ DueRefused(d)' = 0
      BY <2>1 DEF DueSent, DueRefused, Bit
    <3>3. /\ wire'[d].sent <= RowSent(d)' + wire'[d].lost + DueSent(d)'
          /\ wire'[d].refused # wire'[d].forgotten + DueRefused(d)' => RowRefused(d)'
      BY <2>2, <3>1, <3>2 DEF KnownByRow
    <3> QED BY <3>3 DEF KnownByRow
  <2>4. EntriesWithinCap'
    <3> SUFFICES ASSUME Managed', NEW d \in Dates PROVE wire'[d].sent <= MaxEntries + wire'[d].lost
      BY DEF EntriesWithinCap
    <3>1. wire[d].sent <= MaxEntries + wire[d].lost
      BY <2>1 DEF WireInv, EntriesWithinCap, Managed, kind
    <3> QED BY <2>2, <3>1, MaxIsNat
  <2> QED BY <2>1, <2>2, <2>3, <2>4 DEF WireInv
<1>6. CASE Repair \/ Tick \/ UNCHANGED vars
  <2>1. UNCHANGED <<setup, store, pc, sess, wire, due>>
    BY <1>6 DEF Repair, Tick, vars, process, bookkeeping
  <2>2. history'.sent = history.sent /\ (history'.refused <=> history.refused)
    <3>1. CASE Repair
      BY <3>1 DEF Repair, StrategyInv, HostType, Notes
    <3>2. CASE Tick \/ UNCHANGED vars
      BY <3>2 DEF Tick, vars, bookkeeping
    <3> QED BY <1>6, <3>1, <3>2
  <2>3. Home' = Home
    BY <2>1 DEF Home
  <2>4. pc # "down" /\ Home # NoDate => Known(Home, history.sent, history.refused)'
    BY <2>1, <2>2, <2>3 DEF WireInv, Known
  <2>5. \A d \in Dates : Ahead(d)' => KnownByRow(d)'
    BY <2>1 DEF WireInv, Ahead, KnownByRow, RowSent, RowRefused, DueSent, DueRefused
  <2>6. EntriesWithinCap'
    BY <2>1 DEF WireInv, EntriesWithinCap, Managed, kind
  <2> QED BY <2>1, <2>3, <2>4, <2>5, <2>6 DEF WireInv
<1> QED BY <1>1, <1>2, <1>3, <1>4, <1>5, <1>6 DEF Next

LEMMA WireAlways == Spec => [](StrategyInv /\ CalendarInv /\ WireInv)
<1>1. Init => StrategyInv /\ CalendarInv /\ WireInv
  <2> SUFFICES ASSUME Init PROVE WireInv
    BY InitHolds, CalendarInit
  <2>1. /\ wire = [d \in Dates |-> Quiet] /\ due = "nothing" /\ pc = "down" /\ store = None
    BY DEF Init
  <2>2. WireType
    BY <2>1 DEF WireType, Counts, Quiet
  <2>3. \A d \in Dates : KnownByRow(d)
    BY <2>1 DEF KnownByRow, RowSent, RowRefused, DueSent, DueRefused, Bit, Quiet
  <2>4. EntriesWithinCap
    BY <2>1, MaxIsNat DEF EntriesWithinCap, Quiet
  <2> QED BY <2>1, <2>2, <2>3, <2>4 DEF WireInv
<1>2. StrategyInv /\ StrategyInv' /\ WireType' /\ CalendarInv /\ WireInv /\ [Next]_vars
        => CalendarInv' /\ WireInv'
  BY CalendarStep, WireStep
<1> QED BY <1>1, <1>2, StrategyHolds, WireHolds, PTL DEF Spec

(* No session sees more entries of tfr, afr, naim or sme leave than        *)
(* max_entries_per_day and one for each that a kill took from the row that *)
(* is restored, whatever was refused, stopped out, re-armed or restored in *)
(* between: what left is counted apart from what the process or the row    *)
(* remembers (the entries, phase and trades_at_entry of each strategy, its *)
(* state_dict and restore_state).                                          *)
THEOREM EntriesCapped == Spec => []EntriesWithinCap
BY WireAlways, PTL DEF WireInv

RefusalStands ==
  \A d \in Dates : wire'[d].sent # wire[d].sent => wire[d].refused = wire[d].forgotten

(* "The governor said no; do not argue": an entry leaves only when every   *)
(* refusal of its session, a veto or an entry that came back as an adopted *)
(* position, was forgotten by a kill before it was saved.  And sme's       *)
(* virtual stop tightens or holds within a trade, through break-even,      *)
(* trail, save and restart (on_bar of the four strategies, _manage and     *)
(* _trail of sme.py).                                                      *)
THEOREM NothingTakenBack == Spec => NeverTakenBack
<1>1. /\ StrategyInv /\ CalendarInv /\ WireInv /\ StrategyInv' /\ WireType' /\ [Next]_vars
           => [RefusalStands]_vars
      /\ StrategyInv /\ [Next]_vars => [StopHeld]_vars
  BY WireStep, StopStep DEF RefusalStands
<1>2. WireInv => WireType
  BY DEF WireInv
<1>3. Spec => [][RefusalStands]_vars /\ [][StopHeld]_vars
  BY <1>1, <1>2, WireAlways, PTL DEF Spec
<1> QED BY <1>3 DEF NeverTakenBack, RefusedIsFinal, StopOnlyTightens, RefusalStands, StopHeld

-----------------------------------------------------------------------------
(* The series of a memory of naim or sme, and what a callback adds.        *)
LEMMA SeriesTypes ==
  ASSUME Banks, NEW m, Fit(m)
  PROVE  /\ m.banked \in Seq(Nat)
         /\ kind = "sme" => /\ m.ranges \in Seq(Nat) /\ m.rets \in Seq(Nat)
                            /\ m \in SmeMemory /\ Shelved(m) /\ m.decided \in BOOLEAN
         /\ kind # "sme" => m \in NaimMemory
<1>1. CASE kind = "naim"
  <2>1. m \in NaimMemory
    BY <1>1 DEF Fit
  <2> QED BY <1>1, <2>1 DEF NaimMemory
<1>2. CASE kind = "sme"
  <2>1. m \in SmeMemory
    BY <1>2 DEF Fit, SmeFit
  <2>2. m.banked \in Seq(Nat) /\ m.ranges \in Seq(Nat) /\ m.rets \in Seq(Nat) /\ m.decided \in BOOLEAN
    BY <2>1 DEF SmeMemory
  <2>3. Shelved(m)
    BY <2>1 DEF SmeMemory, Shelved, Shelves
  <2> QED BY <1>2, <2>1, <2>2, <2>3
<1> QED BY <1>1, <1>2 DEF Banks

LEMMA EndBooks ==
  ASSUME Banks, NEW m, Fit(m), NEW date \in Nat
  PROVE  /\ SessionEnd(m, date).banked \in {m.banked, Append(m.banked, date)}
         /\ kind = "sme" => /\ SessionEnd(m, date).ranges \in {m.ranges, Append(m.ranges, date)}
                            /\ SessionEnd(m, date).rets = m.rets
                            /\ SessionEnd(m, date).decided = m.decided
<1>1. CASE kind = "naim"
  BY <1>1, SeriesTypes DEF SessionEnd, NaimEnded, NaimMemory
<1>2. CASE kind = "sme"
  <2> DEFINE ranges == IF m.day THEN Append(m.ranges, date) ELSE m.ranges
             banked == IF m.samples THEN Append(m.banked, date) ELSE m.banked
             ended == [m EXCEPT !.ranges = ranges, !.banked = banked]
  <2>1. SessionEnd(m, date) = ended
    BY <1>2 DEF SessionEnd, SmeEnded
  <2>2. Shelved(m)
    BY <1>2, SeriesTypes
  <2>3. /\ ranges \in {m.ranges, Append(m.ranges, date)}
        /\ banked \in {m.banked, Append(m.banked, date)}
    OBVIOUS
  <2> HIDE DEF ranges, banked
  <2>4. ended.ranges = ranges /\ ended.banked = banked /\ ended.rets = m.rets /\ ended.decided = m.decided
    BY <2>2 DEF Shelved, Shelves
  <2> HIDE DEF ended
  <2> QED BY <2>1, <2>3, <2>4
<1> QED BY <1>1, <1>2 DEF Banks

LEMMA StartBooks ==
  ASSUME Banks, NEW m
  PROVE  /\ SessionStart(m).banked = m.banked
         /\ kind = "sme" => /\ SessionStart(m).ranges = m.ranges /\ SessionStart(m).rets = m.rets
                            /\ ~SessionStart(m).decided
<1>1. CASE kind = "naim"
  BY <1>1 DEF SessionStart, NaimReset, NaimFresh
<1>2. CASE kind = "sme"
  <2> DEFINE kept == [SmeFresh EXCEPT !.ranges = m.ranges, !.rets = m.rets]
             reset == [kept EXCEPT !.banked = m.banked, !.calibrated = m.calibrated]
  <2>1. SessionStart(m) = reset
    BY <1>2 DEF SessionStart, SmeReset
  <2>2. Shelved(SmeFresh) /\ ~SmeFresh.decided
    BY DEF SmeFresh, Shelved, Shelves
  <2>3. Shelved(kept) /\ kept.ranges = m.ranges /\ kept.rets = m.rets /\ ~kept.decided
    BY <2>2 DEF Shelved, Shelves
  <2> HIDE DEF kept
  <2>4. reset.ranges = m.ranges /\ reset.rets = m.rets /\ ~reset.decided /\ reset.banked = m.banked
    BY <2>3 DEF Shelved, Shelves
  <2> HIDE DEF reset
  <2> QED BY <2>1, <2>4
<1> QED BY <1>1, <1>2 DEF Banks

LEMMA BarFiled ==
  ASSUME Banks, NEW m, Fit(m), NEW in, NEW ctx, NEW t
  PROVE  /\ OnBar(m, in, ctx, t).mem.banked = m.banked
         /\ kind = "sme" => Filed(m, OnBar(m, in, ctx, t).mem, Day(t))
<1>1. CASE kind = "naim"
  BY <1>1, SeriesTypes, NaimBarFiled DEF OnBar
<1>2. CASE kind = "sme"
  <2>1. Filed(m, SmeOnBar(m, in, ctx, Slot(t), Day(t), setup).mem, Day(t))
    BY <1>2, SeriesTypes, SmeBarFiled
  <2>2. OnBar(m, in, ctx, t) = SmeOnBar(m, in, ctx, Slot(t), Day(t), setup)
    BY <1>2 DEF OnBar
  <2> QED BY <2>1, <2>2 DEF Filed
<1> QED BY <1>1, <1>2 DEF Banks

LEMMA AppendCounts ==
  ASSUME NEW s \in Seq(Nat), NEW e \in Nat, NEW x \in {s, Append(s, e)}, NEW d
  PROVE  /\ Count(s, d) \in Nat /\ Count(x, d) \in Nat /\ Count(s, d) <= Count(x, d)
         /\ Count(x, d) <= Count(s, d) + IF d = e THEN 1 ELSE 0
<1>1. Count(s, d) \in Nat /\ Count(Append(s, e), d) = Count(s, d) + IF e = d THEN 1 ELSE 0
  BY CountFacts
<1>2. Count(s, d) <= Count(s, d) /\ Count(s, d) <= Count(s, d) + IF d = e THEN 1 ELSE 0
  BY <1>1
<1>3. /\ Count(Append(s, e), d) \in Nat /\ Count(s, d) <= Count(Append(s, e), d)
      /\ Count(Append(s, e), d) <= Count(s, d) + IF d = e THEN 1 ELSE 0
  BY <1>1
<1>4. x = s \/ x = Append(s, e)
  OBVIOUS
<1> QED BY <1>1, <1>2, <1>3, <1>4

-----------------------------------------------------------------------------
(* What the books of a session become when it ends, when the next begins,  *)
(* and on a bar.                                                           *)
LEMMA BooksGrow ==
  ASSUME Banks, NEW m, Fit(m), NEW h \in Int, NEW k \in Nat, Books(m, h, k), NEW j \in Nat, k <= j
  PROVE  Books(m, h, j)
<1>1. \A d \in Dates : /\ Count(m.banked, d) \in Nat
                       /\ kind = "sme" => Count(m.ranges, d) \in Nat
  BY SeriesTypes, CountFacts
<1> QED BY <1>1 DEF Books

LEMMA BooksEnd ==
  ASSUME Banks, NEW m, Fit(m), NEW h \in Nat, NEW k \in Nat, Books(m, h, k)
  PROVE  /\ Books(SessionEnd(m, h), h, k + 1) /\ Covers(m, SessionEnd(m, h))
         /\ \A g \in Nat : h < g => Books(SessionStart(SessionEnd(m, h)), g, k)
<1> DEFINE e == SessionEnd(m, h)  b == SessionStart(e)
<1>1. /\ e.banked \in {m.banked, Append(m.banked, h)} /\ b.banked = e.banked
      /\ kind = "sme" => /\ e.ranges \in {m.ranges, Append(m.ranges, h)} /\ b.ranges = e.ranges
                         /\ e.rets = m.rets /\ b.rets = e.rets /\ e.decided = m.decided
                         /\ ~b.decided
  BY EndBooks, StartBooks
<1> HIDE DEF e, b
<1>2. \A d \in Dates : /\ Count(m.banked, d) \in Nat /\ Count(e.banked, d) \in Nat
                       /\ Count(m.banked, d) <= Count(e.banked, d)
                       /\ Count(e.banked, d) <= Count(m.banked, d) + IF d = h THEN 1 ELSE 0
  BY <1>1, SeriesTypes, AppendCounts
<1>3. kind = "sme" => \A d \in Dates :
        /\ Count(m.ranges, d) \in Nat /\ Count(e.ranges, d) \in Nat /\ Count(m.rets, d) \in Nat
        /\ Count(e.ranges, d) <= Count(m.ranges, d) + IF d = h THEN 1 ELSE 0
  <2> HAVE kind = "sme"
  <2>1. m.ranges \in Seq(Nat) /\ m.rets \in Seq(Nat) /\ e.ranges \in {m.ranges, Append(m.ranges, h)}
    BY <1>1, SeriesTypes
  <2>2. \A d \in Dates : /\ Count(m.ranges, d) \in Nat /\ Count(e.ranges, d) \in Nat
                         /\ Count(e.ranges, d) <= Count(m.ranges, d) + IF d = h THEN 1 ELSE 0
    BY <2>1, AppendCounts
  <2>3. \A d \in Dates : Count(m.rets, d) \in Nat
    BY <2>1, CountFacts
  <2> QED BY <2>2, <2>3
<1>4. Dates \subseteq Nat
  BY TimeFacts
<1>5. Covers(m, e)
  BY <1>2 DEF Covers
<1>6. ASSUME NEW d \in Dates
      PROVE  /\ Count(e.banked, d) <= (k + 1) + IF d < h THEN 1 ELSE 0
             /\ kind = "sme" => /\ Count(e.ranges, d) <= (k + 1) + IF d < h THEN 1 ELSE 0
                                /\ Count(e.rets, d) <= IF d < h \/ (d = h /\ e.decided) THEN 1 ELSE 0
             /\ \A g \in Nat : h < g =>
                  /\ Count(b.banked, d) <= k + IF d < g THEN 1 ELSE 0
                  /\ kind = "sme" => /\ Count(b.ranges, d) <= k + IF d < g THEN 1 ELSE 0
                                     /\ Count(b.rets, d) <= IF d < g \/ (d = g /\ b.decided) THEN 1 ELSE 0
  <2>1. Count(m.banked, d) <= k + IF d < h THEN 1 ELSE 0
    BY DEF Books
  <2>2. kind = "sme" => /\ Count(m.ranges, d) <= k + IF d < h THEN 1 ELSE 0
                        /\ Count(m.rets, d) <= IF d < h \/ (d = h /\ m.decided) THEN 1 ELSE 0
    BY DEF Books
  <2>3. d \in Nat
    BY <1>4
  <2>4. /\ Count(e.banked, d) <= (k + 1) + IF d < h THEN 1 ELSE 0
        /\ \A g \in Nat : h < g => Count(b.banked, d) <= k + IF d < g THEN 1 ELSE 0
    BY <1>1, <1>2, <2>1, <2>3
  <2>5. kind = "sme" => /\ Count(e.ranges, d) <= (k + 1) + IF d < h THEN 1 ELSE 0
                        /\ \A g \in Nat : h < g => Count(b.ranges, d) <= k + IF d < g THEN 1 ELSE 0
    BY <1>1, <1>3, <2>2, <2>3
  <2>6. kind = "sme" => /\ Count(e.rets, d) <= IF d < h \/ (d = h /\ e.decided) THEN 1 ELSE 0
                        /\ \A g \in Nat : h < g =>
                             Count(b.rets, d) <= IF d < g \/ (d = g /\ b.decided) THEN 1 ELSE 0
    BY <1>1, <1>3, <2>2, <2>3
  <2> QED BY <2>4, <2>5, <2>6
<1>7. Books(e, h, k + 1) /\ \A g \in Nat : h < g => Books(b, g, k)
  BY <1>6 DEF Books
<1> QED BY <1>5, <1>7 DEF e, b

LEMMA BooksBegin ==
  ASSUME Banks, NEW m, Fit(m), NEW h \in Int, NEW k \in Nat, Books(m, h, k), NEW g \in Nat, h < g
  PROVE  Books(SessionStart(m), g, k) /\ Covers(m, SessionStart(m))
<1> DEFINE b == SessionStart(m)
<1>1. /\ b.banked = m.banked
      /\ kind = "sme" => b.ranges = m.ranges /\ b.rets = m.rets /\ ~b.decided
  BY StartBooks
<1> HIDE DEF b
<1>2. \A d \in Dates : /\ d \in Nat /\ Count(m.banked, d) \in Nat
                       /\ kind = "sme" => Count(m.ranges, d) \in Nat /\ Count(m.rets, d) \in Nat
  BY SeriesTypes, CountFacts, TimeFacts
<1>3. Books(b, g, k)
  BY <1>1, <1>2 DEF Books
<1>4. Covers(m, b)
  BY <1>1, <1>2 DEF Covers
<1> QED BY <1>3, <1>4 DEF b

LEMMA BooksBar ==
  ASSUME Banks, NEW m, Fit(m), NEW h \in Nat, NEW k \in Nat, Books(m, h, k), NEW b,
         b.banked = m.banked, kind = "sme" => Filed(m, b, h)
  PROVE  Books(b, h, k) /\ Covers(m, b)
<1>1. \A d \in Dates : /\ d \in Nat /\ Count(m.banked, d) \in Nat
                       /\ kind = "sme" => Count(m.ranges, d) \in Nat /\ Count(m.rets, d) \in Nat
  BY SeriesTypes, CountFacts, TimeFacts
<1>2. Covers(m, b)
  BY <1>1 DEF Covers
<1>3. kind = "sme" => \A d \in Dates :
        Count(b.rets, d) <= IF d < h \/ (d = h /\ b.decided) THEN 1 ELSE 0
  <2> SUFFICES ASSUME kind = "sme", NEW d \in Dates
               PROVE  Count(b.rets, d) <= IF d < h \/ (d = h /\ b.decided) THEN 1 ELSE 0
    OBVIOUS
  <2>1. Count(m.rets, d) <= IF d < h \/ (d = h /\ m.decided) THEN 1 ELSE 0
    BY DEF Books
  <2>2. CASE b.rets = m.rets /\ b.decided = m.decided
    BY <2>1, <2>2
  <2>3. CASE ~m.decided /\ b.decided /\ b.rets \in {m.rets, Append(m.rets, h)}
    <3>1. Count(b.rets, d) \in Nat /\ Count(b.rets, d) <= Count(m.rets, d) + IF d = h THEN 1 ELSE 0
      BY <2>3, SeriesTypes, AppendCounts
    <3> QED BY <1>1, <2>1, <2>3, <3>1
  <2> QED BY <2>2, <2>3 DEF Filed
<1>4. Books(b, h, k)
  BY <1>3 DEF Books, Filed
<1> QED BY <1>2, <1>4

-----------------------------------------------------------------------------
LEMMA BankBar ==
  ASSUME StrategyInv, CalendarInv, BankInv, Banks, NEW t \in Times, Bar(t)
  PROVE  /\ Books(mem', Day(t), stops)
         /\ store # None /\ (setup.live => store.date = Day(t)) => Covers(store.mem, mem')
<1> DEFINE m == Called(t)  g == Day(t)
<1>1. /\ pc = "bar" /\ Fit(mem) /\ Books(mem, Home, stops) /\ stops \in Nat
      /\ Home \in Int /\ g \in Nat /\ sess.date \in Dates \cup {NoDate}
  <2>1. pc = "bar"
    BY DEF Bar
  <2>2. Fit(mem)
    BY <2>1 DEF StrategyInv, MemoryInv, Kept
  <2>3. Books(mem, Home, stops)
    BY <2>1 DEF BankInv
  <2>4. stops \in Nat /\ sess.date \in Dates \cup {NoDate}
    BY DEF StrategyInv, HostType
  <2>5. Home \in Int /\ g \in Nat
    BY BarClock DEF NoDate
  <2> QED BY <2>1, <2>2, <2>3, <2>4, <2>5
<1>2. Fit(m)
  BY <1>1, CalledIsKept
<1>3. Books(m, g, stops) /\ Covers(mem, m)
  <2>1. CASE ~Changed(t) \/ Adopts(t)
    <3>1. m = mem /\ Home = g
      BY <2>1, BarClock DEF Called
    <3>2. Covers(mem, mem)
      <4>1. \A d \in Dates : Count(mem.banked, d) \in Nat
        BY <1>1, SeriesTypes, CountFacts
      <4> QED BY <4>1 DEF Covers
    <3> QED BY <1>1, <3>1, <3>2
  <2>2. CASE Changed(t) /\ ~Adopts(t) /\ sess.date = NoDate
    <3>1. m = SessionStart(mem) /\ Home < g
      BY <2>2, BarClock DEF Called
    <3> QED BY <1>1, <3>1, BooksBegin
  <2>3. CASE Changed(t) /\ ~Adopts(t) /\ sess.date # NoDate
    <3>1. m = SessionStart(SessionEnd(mem, sess.date)) /\ Home = sess.date /\ Home < g
      BY <2>3, BarClock DEF Called, Home
    <3>2. sess.date \in Nat
      BY <1>1, <2>3, TimeFacts
    <3> DEFINE e == SessionEnd(mem, sess.date)
    <3>3. Books(SessionStart(e), g, stops) /\ Covers(mem, e)
      BY <1>1, <3>1, <3>2, BooksEnd
    <3>4. SessionStart(e).banked = e.banked
      BY StartBooks
    <3> QED BY <3>1, <3>3, <3>4 DEF Covers
  <2> QED BY <2>1, <2>2, <2>3
<1>4. PICK in \in Inputs : mem' = Said(t, in).mem
  BY BarMakes DEF Made
<1>5. mem'.banked = m.banked /\ (kind = "sme" => Filed(m, mem', g))
  BY <1>2, <1>4, BarFiled DEF Said
<1> HIDE DEF m, g
<1>6. Books(mem', g, stops) /\ Covers(m, mem')
  BY <1>1, <1>2, <1>3, <1>5, BooksBar
<1>7. ASSUME store # None, setup.live => store.date = g PROVE Covers(store.mem, mem')
  <2>1. setup.live => store.date = Home
    <3> HAVE setup.live
    <3>1. store.date = g /\ Home <= g
      BY <1>7, BarClock DEF g
    <3>2. CASE Home # NoDate /\ store.date <= Home
      BY <1>1, <3>1, <3>2
    <3>3. CASE clock \in Times /\ store.date < Day(clock)
      <4>1. Day(clock) <= g /\ Day(clock) \in Nat
        BY <3>3, BarClock, DayOrder, TimeFacts DEF g
      <4> QED BY <1>1, <3>1, <3>3, <4>1
    <3> QED BY <1>1, <1>7, <3>2, <3>3 DEF CalendarInv
  <2>2. Covers(store.mem, mem)
    BY <1>1, <1>7, <2>1 DEF BankInv
  <2>3. Fit(store.mem)
    BY <1>7 DEF StrategyInv, MemoryInv, Kept
  <2>4. \A d \in Dates : /\ Count(store.mem.banked, d) \in Nat /\ Count(mem.banked, d) \in Nat
                         /\ Count(m.banked, d) \in Nat
    BY <1>1, <1>2, <2>3, SeriesTypes, CountFacts
  <2>5. mem'.banked = m.banked
    BY <1>5
  <2> QED BY <1>3, <2>2, <2>4, <2>5 DEF Covers
<1> QED BY <1>6, <1>7 DEF g

(* The parts of BankInv, for a step that keeps the run's strategy.         *)
LEMMA BankParts ==
  ASSUME setup' = setup,
         Banks => /\ pc' # "down" => Books(mem', Home', stops')
                  /\ store' # None => Books(store'.mem, store'.date, stops')
                  /\ pc' # "down" /\ store' # None /\ (setup.live => store'.date = Home')
                       => Covers(store'.mem, mem')
  PROVE  BankInv'
<1>1. (kind' = kind) /\ (Banks' <=> Banks)
  BY DEF kind, Banks
<1> QED BY <1>1 DEF BankInv, Books, Covers

LEMMA FreshBooks ==
  ASSUME Banks, NEW k \in Nat
  PROVE  Books(Fresh, NoDate, k)
<1>1. Fresh.banked = <<>> /\ (kind = "sme" => Fresh.ranges = <<>> /\ Fresh.rets = <<>>)
  BY DEF Banks, Fresh, NaimFresh, SmeFresh
<1>2. ASSUME NEW d PROVE Count(<<>>, d) = 0
  <2>1. <<>> \in Seq(Nat)
    OBVIOUS
  <2> QED BY <2>1, CountFacts
<1> HIDE DEF Fresh
<1> QED BY <1>1, <1>2 DEF Books

LEMMA CoversItself ==
  ASSUME Banks, NEW m, Fit(m)
  PROVE  Covers(m, m)
<1>1. \A d \in Dates : Count(m.banked, d) \in Nat
  BY SeriesTypes, CountFacts
<1> QED BY <1>1 DEF Covers

LEMMA BankStart == ASSUME StrategyInv, CalendarInv, BankInv, Start PROVE BankInv'
<1>1. UNCHANGED <<setup, store, stops>> /\ pc' = "bar" /\ stops \in Nat
  BY DEF Start, StrategyInv, HostType
<1>2. store # None => store.date \in Nat /\ Fit(store.mem)
  BY TimeFacts DEF StrategyInv, StoreType, MemoryInv, Kept
<1>3. ASSUME Banks, Resumes
      PROVE  store # None /\ mem' = store.mem /\ Home' = store.date
  <2>1. store # None
    BY <1>3 DEF Resumes
  <2>2. mem' = store.mem
    BY <1>3 DEF Start, RestoreState, Banks
  <2>3. sess'.date = (IF setup.live THEN NoDate ELSE store.date) /\ sess'.resumed = store.date
    BY <1>3 DEF Start, FreshSess
  <2> QED BY <1>2, <2>1, <2>2, <2>3 DEF Home, NoDate
<1>4. ASSUME Banks, ~Resumes
      PROVE  mem' = Fresh /\ Home' = NoDate /\ (store # None => setup.live)
  <2>1. mem' = Fresh /\ sess' = FreshSess
    BY <1>4 DEF Start
  <2> QED BY <1>4, <2>1 DEF Home, FreshSess, Resumes
<1>5. Banks => /\ Books(mem', Home', stops)
               /\ store # None /\ (setup.live => store.date = Home') => Covers(store.mem, mem')
  <2> HAVE Banks
  <2>1. CASE Resumes
    <3>1. Books(store.mem, store.date, stops) /\ Covers(store.mem, store.mem)
      BY <1>2, <1>3, <2>1, CoversItself DEF BankInv
    <3> QED BY <1>3, <2>1, <3>1
  <2>2. CASE ~Resumes
    <3>1. Books(Fresh, NoDate, stops)
      BY <1>1, FreshBooks
    <3>2. ~(store # None /\ (setup.live => store.date = Home'))
      BY <1>2, <1>4, <2>2 DEF NoDate
    <3> QED BY <1>4, <2>2, <3>1, <3>2
  <2> QED BY <2>1, <2>2
<1>6. Banks /\ store # None => Books(store.mem, store.date, stops)
  BY DEF BankInv
<1> QED BY <1>1, <1>5, <1>6, BankParts

LEMMA BankStop == ASSUME StrategyInv, CalendarInv, BankInv, Stop PROVE BankInv'
<1>1. /\ setup' = setup /\ pc' = "down" /\ pc # "down" /\ stops' = stops + 1 /\ stops \in Nat
      /\ store' = IF sess.date = NoDate THEN store ELSE Row(SessionEnd(mem, sess.date))
  BY DEF Stop, Forget, StrategyInv, HostType
<1>2. Banks /\ store' # None => Books(store'.mem, store'.date, stops')
  <2> HAVE Banks /\ store' # None
  <2>1. CASE sess.date = NoDate
    <3>1. Fit(store.mem) /\ store.date \in Int /\ Books(store.mem, store.date, stops)
      BY <1>1, <2>1, TimeFacts DEF StrategyInv, StoreType, MemoryInv, Kept, BankInv
    <3> QED BY <1>1, <2>1, <3>1, BooksGrow
  <2>2. CASE sess.date # NoDate
    <3>1. Fit(mem) /\ sess.date \in Nat /\ Home = sess.date /\ Books(mem, Home, stops)
      BY <1>1, <2>2, TimeFacts DEF StrategyInv, HostType, MemoryInv, Kept, BankInv, Home
    <3>2. Books(SessionEnd(mem, sess.date), sess.date, stops + 1)
      BY <1>1, <3>1, BooksEnd
    <3>3. store'.mem = SessionEnd(mem, sess.date) /\ store'.date = sess.date
      BY <1>1, <2>2 DEF Row
    <3> QED BY <1>1, <3>2, <3>3
  <2> QED BY <2>1, <2>2
<1> QED BY <1>1, <1>2, BankParts

LEMMA BankStep ==
  ASSUME StrategyInv, CalendarInv, BankInv, [Next]_vars
  PROVE  BankInv'
<1>1. ASSUME NEW t \in Times, Bar(t) PROVE BankInv'
  <2>1. UNCHANGED <<setup, store, stops>> /\ Home' = Day(t)
    <3>1. sess'.date = Day(t) /\ Day(t) # NoDate
      BY <1>1, BarMakes, TimeFacts DEF Made, NoDate
    <3> QED BY <1>1, <3>1 DEF Bar, bounds, Home
  <2>2. Banks /\ store # None => Books(store.mem, store.date, stops)
    BY DEF BankInv
  <2> QED BY <1>1, <2>1, <2>2, BankBar, BankParts
<1>2. CASE Save
  <2>1. UNCHANGED <<setup, stops, sess, mem>> /\ pc = "save" /\ store'.mem = mem
        /\ store'.date = sess.date /\ sess.date # NoDate
    BY <1>2 DEF Save, Row, bounds, StrategyInv, SessionInv
  <2>2. Home' = Home /\ Home = sess.date
    BY <2>1 DEF Home
  <2>3. Banks => Books(mem, Home, stops) /\ Covers(mem, mem)
    BY <2>1, CoversItself DEF BankInv, StrategyInv, MemoryInv, Kept
  <2> QED BY <2>1, <2>2, <2>3, BankParts
<1>3. CASE Crash
  <2>1. UNCHANGED <<setup, stops, store>> /\ pc' = "down"
    BY <1>3 DEF Crash, Forget, bounds
  <2> QED BY <2>1, BankParts DEF BankInv
<1>4. CASE Repair \/ Tick \/ UNCHANGED vars
  <2>1. UNCHANGED <<setup, stops, store, mem, pc, sess>>
    BY <1>4 DEF Repair, Tick, vars, process, bounds
  <2>2. Home' = Home
    BY <2>1 DEF Home
  <2> QED BY <2>1, <2>2, BankParts DEF BankInv
<1> QED BY <1>1, <1>2, <1>3, <1>4, BankStart, BankStop DEF Next

(* Through stops, crashes and rollovers a strategy restores what it        *)
(* asserts, and what naim and sme remember of past sessions is each        *)
(* session once, but for the teardowns inside one (on_session_end,         *)
(* state_dict and restore_state of naim.py and sme.py).                    *)
THEOREM MemoryIsExact == Spec => []MemoryExact
<1>1. Init => CalendarInv /\ BankInv
  BY CalendarInit DEF Init, BankInv
<1>2. StrategyInv /\ CalendarInv /\ BankInv /\ [Next]_vars => CalendarInv' /\ BankInv'
  BY CalendarStep, BankStep
<1>3. StrategyInv /\ CalendarInv /\ BankInv => AssertionsHold /\ BankedOnce /\ MemorySurvives
  <2> SUFFICES ASSUME StrategyInv, CalendarInv, BankInv
               PROVE  AssertionsHold /\ BankedOnce /\ MemorySurvives
    OBVIOUS
  <2>1. AssertionsHold
    <3> SUFFICES ASSUME mem # None
                 PROVE  /\ Managed /\ mem.phase = "pending" => mem.tradesAtEntry # None
                        /\ kind = "sme" /\ mem.phase \in Managing => mem.vstop # None
      BY DEF AssertionsHold
    <3>1. Fit(mem) /\ (Managed => Room(mem, history.sent))
      BY DEF StrategyInv, SessionInv, MemoryInv, Kept
    <3>2. ASSUME Managed, mem.phase = "pending" PROVE mem.tradesAtEntry # None
      <4>1. mem.tradesAtEntry \in Nat
        BY <3>1, <3>2 DEF Room
      <4> QED BY <4>1, StrategyAssumption
    <3>3. ASSUME kind = "sme", mem.phase \in Managing PROVE mem.vstop # None
      <4>1. SmeFit(mem)
        BY <3>1, <3>3 DEF Fit
      <4>2. mem.vstop \in Int
        BY <3>3, <4>1 DEF SmeFit
      <4> QED BY <4>2, StrategyAssumption
    <3> QED BY <3>2, <3>3
  <2>2. BankedOnce
    <3> SUFFICES ASSUME Banks, mem # None, NEW d \in Dates
                 PROVE  /\ Count(mem.banked, d) <= 1 + stops
                        /\ kind = "sme" => Count(mem.ranges, d) <= 1 + stops /\ Count(mem.rets, d) <= 1
      BY DEF BankedOnce, Banks
    <3>1. Fit(mem) /\ Books(mem, Home, stops) /\ stops \in Nat
      BY DEF StrategyInv, HostType, SessionInv, MemoryInv, Kept, BankInv
    <3>2. /\ Count(mem.banked, d) \in Nat
          /\ kind = "sme" => Count(mem.ranges, d) \in Nat /\ Count(mem.rets, d) \in Nat
      BY <3>1, SeriesTypes, CountFacts
    <3> QED BY <3>1, <3>2 DEF Books
  <2>3. MemorySurvives
    <3> SUFFICES ASSUME Banks, mem # None, store # None, setup.live => store.date = sess.date
                 PROVE  Covers(store.mem, mem)
      BY DEF MemorySurvives, Banks, Covers
    <3>1. setup.live => store.date = Home
      <4>1. store.date \in Nat
        BY TimeFacts DEF StrategyInv, StoreType
      <4> QED BY <4>1 DEF Home, NoDate
    <3> QED BY <3>1 DEF BankInv, StrategyInv, SessionInv
  <2> QED BY <2>1, <2>2, <2>3
<1>4. Spec => [](StrategyInv /\ CalendarInv /\ BankInv)
  BY <1>1, <1>2, StrategyHolds, PTL DEF Spec
<1> QED BY <1>3, <1>4, TypeCorrect, PTL DEF MemoryExact

-----------------------------------------------------------------------------
(* A strategy and a position of its own.  What a bar does to one that may  *)
(* or may not be managing: it starts to manage with an entry only.         *)
Carries(a, b) ==
  /\ b.phase \in Managing => a.phase \in Managing
  /\ b.phase = "pending" => a.phase = "pending" /\ b.tradesAtEntry = a.tradesAtEntry

Sent(out, ctx) ==
  /\ ctx.pos = None /\ ~ctx.warmup
  /\ out.mem.phase = "pending" /\ out.mem.tradesAtEntry = ctx.trades

(* It manages the position it is shown, which the engine has counted.      *)
Confirmed(m, ctx) ==
  /\ m.phase \in Managing /\ ctx.pos # None
  /\ m.phase = "pending" => ~(ctx.trades <= m.tradesAtEntry)

Quits(out) == out.signal = None /\ out.mem.phase \notin Managing

Tends(m, out, ctx) ==
  /\ IsEntry(out) => Sent(out, ctx)
  /\ ~IsEntry(out) => Carries(m, out.mem)
  /\ Confirmed(m, ctx) /\ Quits(out) => out.mem.phase = "done"

LEMMA CarriesOn ==
  ASSUME NEW a, NEW b, NEW c, Carries(a, b), Carries(b, c)
  PROVE  Carries(a, c)
BY DEF Carries

LEMMA SignalFacts ==
  /\ \A m : Wait(m).signal = None /\ Wait(m).mem = m /\ ~IsEntry(Wait(m))
  /\ \A m : \A d \in Directions :
       /\ Leave(m, d).signal # None /\ Leave(m, d).mem = m /\ ~IsEntry(Leave(m, d))
       /\ IsEntry(Enter(m, d)) /\ Enter(m, d).mem = m /\ Enter(m, d).signal.dir = d
<1>1. \A i \in {"ENTRY", "FLATTEN"} : \A d \in Directions : [intent |-> i, dir |-> d] # None
  BY SignalAssumption DEF Signals
<1> QED BY <1>1 DEF Wait, Leave, Enter, IsEntry

LEMMA InPhase == ASSUME NEW m, "phase" \in DOMAIN m, NEW phase PROVE In(m, phase).phase = phase
BY DEF In

(* A bar of a trade, and the search for one.                               *)
Manages(out, ctx) ==
  /\ ~IsEntry(out) /\ out.mem.phase # "pending"
  /\ ctx.pos # None /\ out.signal = None => out.mem.phase = "in_trade"

Searches(m, out, ctx) ==
  \/ /\ out.signal = None /\ ~IsEntry(out)
     /\ out.mem = m \/ (m.phase \notin Managing \cup {"done"} /\ out.mem.phase \notin Managing)
  \/ m.phase \notin Managing \cup {"done"} /\ Sent(out, ctx) /\ IsEntry(out)

(* A bar that settles, manages and then searches.                          *)
LEMMA TendsInStages ==
  ASSUME NEW m, NEW settled, NEW managed, NEW tried, NEW out, NEW ctx,
         Carries(m, settled), settled.phase # "pending",
         Confirmed(m, ctx) => settled.phase \in {"in_trade", "done"},
         settled.phase = "in_trade" => Manages(managed, ctx),
         settled.phase # "in_trade" => managed = Wait(settled),
         Searches(managed.mem, tried, ctx),
         out = IF managed.signal # None THEN managed ELSE tried
  PROVE  /\ Tends(m, out, ctx)
         /\ Confirmed(m, ctx) /\ settled.phase = "in_trade" =>
              /\ ~Quits(out)
              /\ managed.signal # None => out.signal # None
         /\ IsEntry(out) => out = tried
<1>1. CASE settled.phase = "in_trade"
  <2>1. m.phase \in Managing
    BY <1>1 DEF Carries, Managing
  <2>2. CASE managed.signal # None
    BY <1>1, <2>1, <2>2 DEF Manages, Tends, Carries, Quits
  <2>3. CASE managed.signal = None
    <3>1. CASE managed.mem.phase = "in_trade"
      <4>1. out = tried /\ out.mem = managed.mem /\ out.signal = None /\ ~IsEntry(out)
        BY <2>3, <3>1 DEF Searches, Managing
      <4> QED BY <2>1, <2>3, <3>1, <4>1 DEF Tends, Carries, Quits, Managing
    <3>2. CASE managed.mem.phase # "in_trade"
      <4>1. ctx.pos = None /\ managed.mem.phase \notin Managing /\ out = tried
        BY <1>1, <2>3, <3>2 DEF Manages, Managing
      <4>2. IsEntry(out) => Sent(out, ctx)
        BY <4>1 DEF Searches
      <4>3. ~IsEntry(out) => out.mem.phase \notin Managing
        BY <4>1 DEF Searches
      <4> QED BY <4>1, <4>2, <4>3 DEF Tends, Carries, Confirmed, Managing
    <3> QED BY <3>1, <3>2
  <2> QED BY <2>2, <2>3
<1>2. CASE settled.phase # "in_trade"
  <2>1. managed.mem = settled /\ managed.signal = None /\ settled.phase \notin Managing /\ out = tried
    BY <1>2, SignalFacts DEF Managing
  <2>2. IsEntry(out) => Sent(out, ctx)
    BY <2>1 DEF Searches
  <2>3. ~IsEntry(out) => out.signal = None /\ out.mem.phase \notin Managing
                         /\ (settled.phase = "done" => out.mem = settled)
    BY <2>1 DEF Searches
  <2>4. Confirmed(m, ctx) => settled.phase = "done" /\ ctx.pos # None
    BY <1>2 DEF Confirmed
  <2>5. ~IsEntry(out) => Carries(m, out.mem)
    BY <2>3 DEF Carries, Managing
  <2>6. Confirmed(m, ctx) /\ Quits(out) => out.mem.phase = "done"
    <3>1. Confirmed(m, ctx) => ~IsEntry(out)
      BY <2>2, <2>4 DEF Sent
    <3> QED BY <2>3, <2>4, <3>1
  <2> QED BY <1>2, <2>1, <2>2, <2>5, <2>6 DEF Tends
<1> QED BY <1>1, <1>2

(* naim keeps a position until a 1m bar makes it leave, in warmup too; it  *)
(* leaves on the first one of a close from 15:55 on.                       *)
NaimTends(m, out, in, ctx, slot) ==
  /\ Tends(m, out, ctx)
  /\ IsEntry(out) => slot \in EntrySlots
  /\ Confirmed(m, ctx) => ~Quits(out)
  /\ Confirmed(m, ctx) /\ in.tf # "5m" /\ slot \in RegularSlots /\ slot >= FlatAt => out.signal # None

LEMMA NaimManages ==
  ASSUME NEW m \in NaimMemory, m.phase = "in_trade", NEW in, NEW ctx, NEW slot,
         ctx.pos # None => ctx.pos.dir \in Directions
  PROVE  /\ Manages(NaimManage(m, in, ctx, slot), ctx)
         /\ ctx.pos # None /\ slot >= FlatAt => NaimManage(m, in, ctx, slot).signal # None
<1>1. In(m, "active").phase = "active" /\ In(m, "done").phase = "done"
  BY InPhase DEF NaimMemory
<1>2. CASE ctx.pos = None
  BY <1>1, <1>2, SignalFacts DEF NaimManage, Manages
<1>3. CASE ctx.pos # None
  <2>1. \/ NaimManage(m, in, ctx, slot) = Leave(In(m, "done"), ctx.pos.dir)
        \/ NaimManage(m, in, ctx, slot) = Leave(In(m, "active"), ctx.pos.dir)
        \/ ~(slot >= FlatAt) /\ NaimManage(m, in, ctx, slot) = Wait(m)
    BY <1>3 DEF NaimManage
  <2> QED BY <1>1, <1>3, <2>1, SignalFacts DEF Manages
<1> QED BY <1>2, <1>3

LEMMA NaimSearches ==
  ASSUME NEW m \in NaimMemory, NEW in, in.breaks \in {0, 1, -1}, NEW ctx, NEW slot, NEW set
  PROVE  /\ Searches(m, NaimTries(m, in, ctx, slot, set), ctx)
         /\ IsEntry(NaimTries(m, in, ctx, slot, set)) => slot \in EntrySlots
<1> DEFINE out == NaimTries(m, in, ctx, slot, set)
           sent == [m EXCEPT !.phase = "pending", !.tradesAtEntry = ctx.trades]
<1>1. In(m, "done").phase = "done" /\ sent.phase = "pending" /\ sent.tradesAtEntry = ctx.trades
  BY InPhase DEF NaimMemory
<1>2. \/ out = Wait(m)
      \/ m.phase = "active" /\ out = Wait(In(m, "done"))
      \/ /\ m.phase = "active" /\ slot \in EntrySlots /\ ctx.pos = None /\ ~ctx.warmup
         /\ in.breaks \in Directions /\ out = Enter(sent, in.breaks)
  BY DEF NaimTries, Directions
<1> HIDE DEF out, sent
<1>3. CASE out = Wait(m)
  BY <1>3, SignalFacts DEF Searches, out
<1>4. CASE m.phase = "active" /\ out = Wait(In(m, "done"))
  BY <1>1, <1>4, SignalFacts DEF Searches, Managing, out
<1>5. CASE /\ m.phase = "active" /\ slot \in EntrySlots /\ ctx.pos = None /\ ~ctx.warmup
           /\ in.breaks \in Directions /\ out = Enter(sent, in.breaks)
  BY <1>1, <1>5, SignalFacts DEF Searches, Managing, Sent, out
<1> QED BY <1>2, <1>3, <1>4, <1>5

LEMMA NaimTendsTo ==
  ASSUME NEW m \in NaimMemory, NEW in \in NaimInputs, NEW ctx, NEW slot, NEW set,
         ctx.pos # None => ctx.pos.dir \in Directions, m.phase = "pending" => m.entries < MaxEntries
  PROVE  NaimTends(m, NaimOnBar(m, in, ctx, slot, set), in, ctx, slot)
<1> DEFINE out == NaimOnBar(m, in, ctx, slot, set)
           begun == NaimBegun(m, in)  settled == NaimSettled(begun, ctx)
           managed == IF settled.phase = "in_trade" THEN NaimManage(settled, in, ctx, slot)
                      ELSE Wait(settled)
           tried == NaimTries(managed.mem, in, ctx, slot, set)
<1>1. CASE in.tf = "5m" \/ slot \notin RegularSlots
  <2>1. \E x : out = Wait(x) /\ x.phase = m.phase /\ x.tradesAtEntry = m.tradesAtEntry
    BY <1>1 DEF NaimOnBar, NaimSampled, NaimMemory
  <2> HIDE DEF out
  <2>2. out.signal = None /\ ~IsEntry(out) /\ out.mem.phase = m.phase
        /\ out.mem.tradesAtEntry = m.tradesAtEntry
    BY <2>1, SignalFacts
  <2> QED BY <1>1, <2>2 DEF NaimTends, Tends, Carries, Confirmed, Quits, out
<1>2. CASE in.tf # "5m" /\ slot \in RegularSlots
  <2>1. Carries(m, begun) /\ (m.phase \in Managing => begun = m)
    BY DEF NaimBegun, Carries, NaimMemory, Managing
  <2>2. begun \in NaimMemory
    BY NaimBegunKeeps
  <2>3. in.breaks \in {0, 1, -1}
    BY <1>2 DEF NaimInputs
  <2> HIDE DEF begun
  <2>4. Carries(begun, settled) /\ (Confirmed(begun, ctx) => settled.phase = "in_trade")
        /\ settled.phase # "pending"
    BY <2>2 DEF NaimSettled, Carries, Confirmed, Fate, NaimMemory, Managing
  <2>5. settled \in NaimMemory
    <3>1. begun.phase = "pending" => begun.entries < MaxEntries
      BY <2>1 DEF Carries, Managing
    <3> QED BY <2>2, <3>1, NaimSettledKeeps
  <2> HIDE DEF settled
  <2>6. settled.phase = "in_trade" => /\ Manages(managed, ctx)
                                      /\ ctx.pos # None /\ slot >= FlatAt => managed.signal # None
    BY <2>5, NaimManages
  <2>7. managed.mem \in NaimMemory
    <3>1. \A phase \in Phases : In(settled, phase) \in NaimMemory
      BY <2>5 DEF In, NaimMemory
    <3>2. managed.mem \in {settled, In(settled, "active"), In(settled, "done")}
      BY SignalFacts DEF NaimManage
    <3> QED BY <2>5, <3>1, <3>2 DEF Phases
  <2>8. Searches(managed.mem, tried, ctx) /\ (IsEntry(tried) => slot \in EntrySlots)
    <3> HIDE DEF managed
    <3> QED BY <2>3, <2>7, NaimSearches
  <2>9. out = IF managed.signal # None THEN managed ELSE tried
    BY <1>2 DEF NaimOnBar, NaimOnMinute, settled, begun
  <2>10. Carries(m, settled) /\ (Confirmed(m, ctx) => settled.phase = "in_trade")
    BY <2>1, <2>4, CarriesOn DEF Confirmed
  <2>11. settled.phase # "in_trade" => managed = Wait(settled)
    OBVIOUS
  <2> HIDE DEF managed, tried, out
  <2>12. /\ Tends(m, out, ctx)
         /\ Confirmed(m, ctx) => ~Quits(out) /\ (managed.signal # None => out.signal # None)
         /\ IsEntry(out) => out = tried
    BY <2>4, <2>6, <2>8, <2>9, <2>10, <2>11, TendsInStages
  <2> QED BY <2>6, <2>8, <2>10, <2>12 DEF NaimTends, Confirmed, out
<1> QED BY <1>1, <1>2

(* afr keeps one until a live bar makes it leave, or until, restarted into *)
(* a day without decisions, it is done; it remembers whom it fades.        *)
AfrTends(m, out, ctx, slot) ==
  /\ Tends(m, out, ctx)
  /\ IsEntry(out) => slot \in EntrySlots /\ out.mem.aggressor = - out.signal.dir
  /\ ~IsEntry(out) /\ out.mem.phase \in Managing => out.mem.aggressor = m.aggressor
  /\ Confirmed(m, ctx) /\ Quits(out) => ~m.day
  /\ ctx.warmup => out.signal = None
  /\ Confirmed(m, ctx) /\ ~ctx.warmup /\ slot \in RegularSlots /\ slot >= FlatAt =>
       out.signal # None \/ out.mem.phase = "done"

LEMMA AfrManages ==
  ASSUME NEW m \in AfrMemory, m.phase = "in_trade", NEW rec, NEW ctx, NEW slot, NEW set,
         ctx.pos # None => ctx.pos.dir \in Directions
  PROVE  /\ Manages(AfrManage(m, rec, ctx, slot, set), ctx)
         /\ AfrManage(m, rec, ctx, slot, set).mem.phase = "in_trade" =>
              AfrManage(m, rec, ctx, slot, set).mem.aggressor = m.aggressor
         /\ ctx.warmup => AfrManage(m, rec, ctx, slot, set).signal = None
         /\ ctx.pos # None /\ ~ctx.warmup /\ slot >= FlatAt =>
              AfrManage(m, rec, ctx, slot, set).signal # None
<1> DEFINE out == AfrManage(m, rec, ctx, slot, set)  held == [m EXCEPT !.held = Up(@, TimeStop)]
           left(phase) == [held EXCEPT !.held = 0, !.aggressor = 0, !.phase = phase]
<1>1. /\ In(m, "active").phase = "active" /\ held.phase = "in_trade" /\ held.aggressor = m.aggressor
      /\ left("active").phase = "active" /\ left("done").phase = "done"
  BY InPhase DEF AfrMemory
<1>2. \/ ctx.pos = None /\ out = Wait(In(m, "active"))
      \/ ctx.pos # None /\ out = Wait(held) /\ (ctx.warmup \/ ~(slot >= FlatAt))
      \/ /\ ctx.pos # None /\ ~ctx.warmup
         /\ out = Leave(left("done"), ctx.pos.dir) \/ out = Leave(left("active"), ctx.pos.dir)
  BY DEF AfrManage, AfrExit
<1> HIDE DEF out, held, left
<1>3. CASE ctx.pos = None /\ out = Wait(In(m, "active"))
  BY <1>1, <1>3, SignalFacts DEF Manages, out
<1>4. CASE ctx.pos # None /\ out = Wait(held) /\ (ctx.warmup \/ ~(slot >= FlatAt))
  BY <1>1, <1>4, SignalFacts DEF Manages, out
<1>5. CASE /\ ctx.pos # None /\ ~ctx.warmup
           /\ out = Leave(left("done"), ctx.pos.dir) \/ out = Leave(left("active"), ctx.pos.dir)
  BY <1>1, <1>5, SignalFacts DEF Manages, out
<1> QED BY <1>2, <1>3, <1>4, <1>5

LEMMA AfrSearches ==
  ASSUME NEW m \in AfrMemory, NEW rec \in AfrRecords \cup {None}, NEW ctx, NEW slot
  PROVE  /\ Searches(m, AfrTries(m, rec, ctx, slot), ctx)
         /\ IsEntry(AfrTries(m, rec, ctx, slot)) =>
              /\ slot \in EntrySlots
              /\ AfrTries(m, rec, ctx, slot).mem.aggressor = - AfrTries(m, rec, ctx, slot).signal.dir
         /\ ctx.warmup => AfrTries(m, rec, ctx, slot).signal = None
<1> DEFINE out == AfrTries(m, rec, ctx, slot)  side == rec.flow \div 2
           sent == [m EXCEPT !.phase = "pending", !.tradesAtEntry = ctx.trades, !.aggressor = side]
<1>1. /\ In(m, "done").phase = "done" /\ sent.phase = "pending" /\ sent.tradesAtEntry = ctx.trades
      /\ sent.aggressor = side
  BY InPhase DEF AfrMemory
<1>2. \/ out = Wait(m)
      \/ m.phase = "active" /\ out = Wait(In(m, "done"))
      \/ /\ m.phase = "active" /\ slot \in EntrySlots /\ ctx.pos = None /\ ~ctx.warmup
         /\ rec.flow \in {2, -2} /\ out = Enter(sent, - side)
  BY DEF AfrTries
<1> HIDE DEF out, sent
<1>3. CASE out = Wait(m)
  BY <1>3, SignalFacts DEF Searches, out
<1>4. CASE m.phase = "active" /\ out = Wait(In(m, "done"))
  BY <1>1, <1>4, SignalFacts DEF Searches, Managing, out
<1>5. CASE /\ m.phase = "active" /\ slot \in EntrySlots /\ ctx.pos = None /\ ~ctx.warmup
           /\ rec.flow \in {2, -2} /\ out = Enter(sent, - side)
  <2>1. - side \in Directions /\ side = - (- side)
    BY <1>5 DEF Directions
  <2> HIDE DEF side
  <2>2. IsEntry(out) /\ out.mem = sent /\ out.signal.dir = - side
    BY <1>5, <2>1, SignalFacts
  <2> QED BY <1>1, <1>5, <2>1, <2>2 DEF Searches, Managing, Sent, out
<1> QED BY <1>2, <1>3, <1>4, <1>5

LEMMA AfrTendsTo ==
  ASSUME NEW m \in AfrMemory, NEW in \in AfrInputs, NEW ctx, NEW slot, NEW set,
         ctx.pos # None => ctx.pos.dir \in Directions, m.phase = "pending" => m.entries < MaxEntries
  PROVE  AfrTends(m, AfrOnBar(m, in, ctx, slot, set), ctx, slot)
<1> DEFINE out == AfrOnBar(m, in, ctx, slot, set)
           begun == AfrDay(m, in)  settled == AfrSettled(begun, ctx)
           rec == IF settled.day THEN in.rec ELSE None
           managed == IF settled.phase = "in_trade" THEN AfrManage(settled, rec, ctx, slot, set)
                      ELSE Wait(settled)
           tried == AfrTries(managed.mem, rec, ctx, slot)
<1>1. CASE slot \notin RegularSlots
  <2>1. out = Wait(m)
    BY <1>1 DEF AfrOnBar
  <2> HIDE DEF out
  <2> QED BY <1>1, <2>1, SignalFacts DEF AfrTends, Tends, Carries, Confirmed, Quits, out
<1>2. CASE slot \in RegularSlots
  <2>1. /\ Carries(m, begun) /\ begun.aggressor = m.aggressor /\ begun.entries = m.entries
        /\ m.phase \in Managing => \/ begun.phase = m.phase /\ begun.tradesAtEntry = m.tradesAtEntry
                                   \/ begun.phase = "done" /\ ~m.day
    BY DEF AfrDay, Carries, AfrMemory, Managing, In
  <2>2. begun \in AfrMemory
    BY AfrDayKeeps
  <2> HIDE DEF begun
  <2>3. /\ Carries(begun, settled) /\ settled.phase # "pending" /\ settled.aggressor = begun.aggressor
        /\ Confirmed(begun, ctx) => settled.phase = "in_trade"
        /\ begun.phase = "done" => settled = begun
    BY <2>2 DEF AfrSettled, Carries, Confirmed, Fate, AfrMemory, Managing
  <2>4. settled \in AfrMemory
    <3>1. begun.phase = "pending" => begun.entries < MaxEntries
      BY <2>1 DEF Carries, Managing
    <3> QED BY <2>2, <3>1, AfrSettledKeeps
  <2>5. Confirmed(m, ctx) => settled.phase = "in_trade" \/ (settled.phase = "done" /\ ~m.day)
    BY <2>1, <2>3 DEF Confirmed
  <2>6. Carries(m, settled)
    BY <2>1, <2>3, CarriesOn
  <2> HIDE DEF settled
  <2>7. rec \in AfrRecords \cup {None}
    BY <2>4 DEF AfrInputs, AfrMemory
  <2> HIDE DEF rec
  <2>8. settled.phase = "in_trade" =>
          /\ Manages(managed, ctx)
          /\ managed.mem.phase = "in_trade" => managed.mem.aggressor = settled.aggressor
          /\ ctx.warmup => managed.signal = None
          /\ ctx.pos # None /\ ~ctx.warmup /\ slot >= FlatAt => managed.signal # None
    BY <2>4, AfrManages
  <2>9. settled.phase # "in_trade" => managed = Wait(settled)
    OBVIOUS
  <2>10. managed.mem \in AfrMemory
    <3>1. CASE settled.phase = "in_trade"
      <4>1. Good(settled, 0, ctx.trades, FALSE)
        BY <2>4, <3>1, MaxIsNat DEF Good, Room, AfrMemory
      <4> QED BY <2>4, <3>1, <4>1, AfrManageKeeps
    <3> QED BY <2>4, <3>1, SignalFacts
  <2>11. out = IF managed.signal # None THEN managed ELSE tried
    BY <1>2 DEF AfrOnBar, rec, settled, begun
  <2> HIDE DEF managed
  <2>12. /\ Searches(managed.mem, tried, ctx) /\ (ctx.warmup => tried.signal = None)
         /\ IsEntry(tried) => slot \in EntrySlots /\ tried.mem.aggressor = - tried.signal.dir
    BY <2>7, <2>10, AfrSearches
  <2> HIDE DEF tried, out
  <2>13. /\ Tends(m, out, ctx)
         /\ Confirmed(m, ctx) /\ settled.phase = "in_trade" =>
              ~Quits(out) /\ (managed.signal # None => out.signal # None)
         /\ IsEntry(out) => out = tried
    BY <2>3, <2>5, <2>6, <2>8, <2>9, <2>11, <2>12, TendsInStages
  <2>14. ctx.warmup => out.signal = None
    BY <2>8, <2>9, <2>11, <2>12, SignalFacts
  <2>15. ~IsEntry(out) /\ out.mem.phase \in Managing => out.mem.aggressor = m.aggressor
    <3>1. managed.mem.phase \in Managing => managed.mem.aggressor = m.aggressor
      BY <2>1, <2>3, <2>8, <2>9, SignalFacts DEF Manages, Managing
    <3>2. ~IsEntry(tried) /\ tried.mem.phase \in Managing => tried.mem = managed.mem
      BY <2>12 DEF Searches
    <3> QED BY <2>11, <3>1, <3>2
  <2>16. Confirmed(m, ctx) /\ ~ctx.warmup /\ slot >= FlatAt => out.signal # None \/ out.mem.phase = "done"
    BY <2>5, <2>8, <2>9, <2>11, <2>12, <2>13, SignalFacts DEF Confirmed, Searches, Managing
  <2> QED BY <2>5, <2>12, <2>13, <2>14, <2>15, <2>16 DEF AfrTends, out
<1> QED BY <1>1, <1>2

(* tfr too keeps one until a live bar makes it leave, unless it has gone   *)
(* blind, has no decisions or is off the map.                              *)
TfrTends(m, out, ctx, slot, set) ==
  /\ Tends(m, out, ctx)
  /\ IsEntry(out) /\ set.hours = "rth" => slot \in EntrySlots
  /\ ctx.warmup /\ out.signal # None => m.stale >= 2
  /\ Confirmed(m, ctx) /\ ~ctx.warmup /\ set.hours = "rth" /\ slot \in RegularSlots /\ slot >= FlatAt =>
       out.signal # None \/ out.mem.phase = "done"

LEMMA TfrExits ==
  ASSUME NEW m \in TfrMemory, NEW ctx, ctx.pos.dir \in Directions, NEW phase
  PROVE  /\ TfrExit(m, ctx, phase).signal # None /\ ~IsEntry(TfrExit(m, ctx, phase))
         /\ TfrExit(m, ctx, phase).mem.phase = phase
<1> DEFINE some == [m EXCEPT !.held = 0, !.regime = 0, !.prob = 0]
           out == [some EXCEPT !.decay = 0, !.phase = phase]
<1>1. "phase" \in DOMAIN some
  BY DEF TfrMemory
<1>2. TfrExit(m, ctx, phase) = Leave(out, ctx.pos.dir)
  BY DEF TfrExit
<1> HIDE DEF some
<1>3. out.phase = phase
  BY <1>1
<1> HIDE DEF out
<1> QED BY <1>2, <1>3, SignalFacts

LEMMA TfrManages ==
  ASSUME NEW m \in TfrMemory, m.phase = "in_trade", NEW rec, NEW ctx, NEW slot, NEW set,
         ctx.pos # None => ctx.pos.dir \in Directions
  PROVE  /\ Manages(TfrManage(m, rec, ctx, slot, set), ctx)
         /\ ctx.warmup => TfrManage(m, rec, ctx, slot, set).signal = None
         /\ ctx.pos # None /\ ~ctx.warmup /\ set.hours = "rth" /\ slot >= FlatAt =>
              TfrManage(m, rec, ctx, slot, set).signal # None
<1> DEFINE out == TfrManage(m, rec, ctx, slot, set)  held == [m EXCEPT !.held = Up(@, TimeStop)]
           next == IF rec = None THEN held ELSE Counted(held, rec, ctx.pos.dir, set.mode)
           turned == [next EXCEPT !.reverse = - ctx.pos.dir]
           ends == IF set.hours = "rth" THEN FlatAt ELSE Midnight
<1>1. In(m, "active").phase = "active"
  BY InPhase DEF TfrMemory
<1>2. held \in TfrMemory /\ held.phase = "in_trade"
  BY UpWithin, CapsAreNat DEF TfrMemory
<1> HIDE DEF held
<1>3. CASE ctx.pos = None
  <2>1. out = Wait(In(m, "active"))
    BY <1>3 DEF TfrManage
  <2> HIDE DEF out
  <2> QED BY <1>1, <1>3, <2>1, SignalFacts DEF Manages, out
<1>4. CASE ctx.pos # None /\ ctx.warmup
  <2>1. out = Wait(held)
    BY <1>4 DEF TfrManage, held
  <2> HIDE DEF out
  <2> QED BY <1>2, <1>4, <2>1, SignalFacts DEF Manages, out
<1>5. CASE ctx.pos # None /\ ~ctx.warmup
  <2>1. next \in TfrMemory /\ next.phase = "in_trade"
    BY <1>2, CountedKeeps
  <2>2. turned \in TfrMemory /\ turned.phase = "in_trade"
    <3>1. - ctx.pos.dir \in Directions
      BY <1>5 DEF Directions
    <3> HIDE DEF next
    <3> QED BY <2>1, <3>1 DEF TfrMemory
  <2>3. out = TfrManaged(held, rec, ctx, slot, set)
    BY <1>5 DEF TfrManage, held
  <2>4. \/ /\ \E x \in {held, next, turned}, phase \in {"active", "done"} : out = TfrExit(x, ctx, phase)
        \/ ~(slot >= ends) /\ \E x \in {held, next} : out = Wait(x)
    <3> HIDE DEF out, ends
    <3> QED BY <2>3 DEF TfrManaged, next, turned, ends
  <2> HIDE DEF next, turned, out
  <2>5. CASE \E x \in {held, next, turned}, phase \in {"active", "done"} : out = TfrExit(x, ctx, phase)
    BY <1>2, <1>5, <2>1, <2>2, <2>5, TfrExits DEF Manages, out
  <2>6. CASE ~(slot >= ends) /\ \E x \in {held, next} : out = Wait(x)
    BY <1>2, <1>5, <2>1, <2>6, SignalFacts DEF Manages, out
  <2> QED BY <2>4, <2>5, <2>6
<1> QED BY <1>3, <1>4, <1>5

LEMMA TfrSearches ==
  ASSUME NEW m \in TfrMemory, NEW rec \in TfrRecords \cup {None}, NEW ctx, NEW slot, NEW set
  PROVE  /\ Searches(m, TfrTries(m, rec, ctx, slot, set), ctx)
         /\ IsEntry(TfrTries(m, rec, ctx, slot, set)) /\ set.hours = "rth" => slot \in EntrySlots
         /\ ctx.warmup => TfrTries(m, rec, ctx, slot, set).signal = None
<1> DEFINE out == TfrTries(m, rec, ctx, slot, set)  side == EntryDirection(rec)
           forgot == [m EXCEPT !.reverse = None]
           sent == [forgot EXCEPT !.phase = "pending", !.tradesAtEntry = ctx.trades]
<1>1. /\ In(m, "done").phase = "done" /\ sent.phase = "pending" /\ sent.tradesAtEntry = ctx.trades
      /\ forgot.phase = m.phase
  BY InPhase DEF TfrMemory
<1>2. \/ out = Wait(m)
      \/ m.phase = "active" /\ (out = Wait(In(m, "done")) \/ out = Wait(forgot))
      \/ /\ m.phase = "active" /\ ctx.pos = None /\ ~ctx.warmup /\ rec # None /\ side # None
         /\ out = Enter(sent, side) /\ (set.hours = "rth" => slot \in EntrySlots)
  BY DEF TfrTries
<1> HIDE DEF out, sent, forgot
<1>3. CASE out = Wait(m)
  BY <1>3, SignalFacts DEF Searches, out
<1>4. CASE m.phase = "active" /\ (out = Wait(In(m, "done")) \/ out = Wait(forgot))
  BY <1>1, <1>4, SignalFacts DEF Searches, Managing, out
<1>5. CASE /\ m.phase = "active" /\ ctx.pos = None /\ ~ctx.warmup /\ rec # None /\ side # None
           /\ out = Enter(sent, side) /\ (set.hours = "rth" => slot \in EntrySlots)
  <2>1. side \in Directions
    <3>1. rec.flow \in {2, -2}
      BY <1>5 DEF EntryDirection
    <3> QED BY <1>5, <3>1 DEF EntryDirection, Directions
  <2> HIDE DEF side
  <2>2. IsEntry(out) /\ out.mem = sent
    BY <1>5, <2>1, SignalFacts
  <2> QED BY <1>1, <1>5, <2>2 DEF Searches, Managing, Sent, out
<1> QED BY <1>2, <1>3, <1>4, <1>5

LEMMA TfrTendsTo ==
  ASSUME NEW m, TfrFit(m), NEW in \in TfrInputs, NEW ctx, NEW slot, NEW set,
         ctx.pos # None => ctx.pos.dir \in Directions, m.phase = "pending" => m.entries < MaxEntries
  PROVE  TfrTends(m, TfrOnBar(m, in, ctx, slot, set), ctx, slot, set)
<1> DEFINE out == TfrOnBar(m, in, ctx, slot, set)
           day == TfrDay(m, in)  rec == IF day.day THEN in.rec ELSE None
           aged == TfrAged(day, rec)  settled == TfrSettled(aged, ctx)
           managed == IF settled.phase = "in_trade" THEN TfrManage(settled, rec, ctx, slot, set)
                      ELSE Wait(settled)
           tried == TfrTries(managed.mem, rec, ctx, slot, set)
           asleep == set.hours = "rth" /\ slot \notin RegularSlots
<1>1. CASE asleep
  <2>1. out = Wait(m)
    BY <1>1 DEF TfrOnBar
  <2> HIDE DEF out
  <2> QED BY <1>1, <2>1, SignalFacts DEF TfrTends, Tends, Carries, Confirmed, Quits, out
<1>2. m \in TfrMemory /\ (m.phase # "done" => m.stale <= 2)
  BY DEF TfrFit
<1>3. /\ Carries(m, day) /\ day.entries = m.entries /\ day.stale = m.stale
      /\ m.phase \in Managing => \/ day.phase = m.phase /\ day.tradesAtEntry = m.tradesAtEntry
                                 \/ day.phase = "done"
  BY <1>2 DEF TfrDay, Carries, TfrMemory, Managing, In
<1>4. TfrFit(day) /\ rec \in TfrRecords \cup {None}
  BY TfrDayKeeps DEF TfrInputs
<1> HIDE DEF day, rec
<1>5. /\ aged.phase = day.phase /\ aged.entries = day.entries /\ aged.tradesAtEntry = day.tradesAtEntry
      /\ aged.stale \in {day.stale, day.stale + 1, 0} /\ aged \in TfrMemory
      /\ TfrFit(aged) \/ Blind(aged)
  <2>1. aged \in TfrMemory /\ (TfrFit(aged) \/ Blind(aged))
    BY <1>4, TfrAgedKeeps
  <2> QED BY <1>4, <2>1 DEF TfrAged, TfrFit, TfrMemory
<1>6. /\ Carries(m, aged)
      /\ Confirmed(m, ctx) => aged.phase = "done" \/ Confirmed(aged, ctx)
  BY <1>3, <1>5 DEF Carries, Confirmed
<1> HIDE DEF aged
<1>7. CASE ~asleep /\ Blind(aged) /\ aged.phase = "in_trade" /\ ctx.pos # None
  <2>1. out = TfrExit(aged, ctx, "done")
    BY <1>7 DEF TfrOnBar, day, rec, aged
  <2>2. m.stale >= 2
    BY <1>2, <1>3, <1>5, <1>7 DEF Blind, TfrMemory
  <2> HIDE DEF out
  <2> QED BY <1>5, <1>7, <2>1, <2>2, TfrExits DEF TfrTends, Tends, Carries, Quits, Managing, out
<1>8. CASE ~asleep /\ out = Wait(In(aged, "done"))
  <2>1. In(aged, "done").phase = "done"
    BY <1>5, InPhase DEF TfrMemory
  <2> HIDE DEF out
  <2> QED BY <1>8, <2>1, SignalFacts DEF TfrTends, Tends, Carries, Quits, Managing, out
<1>9. CASE ~asleep /\ ~Blind(aged) /\ ~OffMap(aged, rec)
  <2>1. TfrFit(aged) /\ (aged.phase = "pending" => aged.entries < MaxEntries)
    BY <1>3, <1>5, <1>6, <1>9 DEF Carries
  <2>2. TfrFit(settled)
    BY <2>1, TfrSettledKeeps
  <2>3. /\ Carries(aged, settled) /\ settled.phase # "pending"
        /\ Confirmed(aged, ctx) => settled.phase = "in_trade"
        /\ aged.phase = "done" => settled = aged
    BY <1>5 DEF TfrSettled, TfrEntered, Carries, Confirmed, Fate, TfrMemory, Managing
  <2>4. Carries(m, settled) /\ (Confirmed(m, ctx) => settled.phase \in {"in_trade", "done"})
    BY <1>6, <2>3, CarriesOn
  <2> HIDE DEF settled
  <2>5. settled.phase = "in_trade" =>
          /\ Manages(managed, ctx)
          /\ ctx.warmup => managed.signal = None
          /\ ctx.pos # None /\ ~ctx.warmup /\ set.hours = "rth" /\ slot >= FlatAt => managed.signal # None
    BY <2>2, TfrManages DEF TfrFit
  <2>6. settled.phase # "in_trade" => managed = Wait(settled)
    OBVIOUS
  <2>7. managed.mem \in TfrMemory
    <3>1. CASE settled.phase = "in_trade"
      <4>1. Good(settled, 0, ctx.trades, FALSE)
        BY <2>2, <3>1, MaxIsNat DEF Good, Room, TfrMemory, TfrFit
      <4> QED BY <1>4, <2>2, <3>1, <4>1, TfrManageKeeps DEF TfrFit
    <3> QED BY <2>2, <3>1, SignalFacts DEF TfrFit
  <2>8. out = IF managed.signal # None THEN managed ELSE tried
    BY <1>9 DEF TfrOnBar, rec, day, aged, settled
  <2> HIDE DEF managed
  <2>9. /\ Searches(managed.mem, tried, ctx) /\ (ctx.warmup => tried.signal = None)
        /\ IsEntry(tried) /\ set.hours = "rth" => slot \in EntrySlots
    BY <1>4, <2>7, TfrSearches
  <2> HIDE DEF tried, out
  <2>10. /\ Tends(m, out, ctx)
         /\ Confirmed(m, ctx) /\ settled.phase = "in_trade" =>
              ~Quits(out) /\ (managed.signal # None => out.signal # None)
         /\ IsEntry(out) => out = tried
    BY <2>3, <2>4, <2>5, <2>6, <2>8, <2>9, TendsInStages
  <2>11. ctx.warmup => out.signal = None
    BY <2>5, <2>6, <2>8, <2>9, SignalFacts
  <2>12. Confirmed(m, ctx) /\ ~ctx.warmup /\ set.hours = "rth" /\ slot >= FlatAt =>
           out.signal # None \/ out.mem.phase = "done"
    BY <2>4, <2>5, <2>6, <2>8, <2>9, <2>10, SignalFacts DEF Confirmed, Searches, Managing
  <2> QED BY <2>9, <2>10, <2>11, <2>12 DEF TfrTends, out
<1>10. ~asleep =>
         \/ Blind(aged) /\ aged.phase = "in_trade" /\ ctx.pos # None
         \/ out = Wait(In(aged, "done"))
         \/ ~Blind(aged) /\ ~OffMap(aged, rec)
  BY DEF TfrOnBar, day, rec, aged
<1> QED BY <1>1, <1>7, <1>8, <1>9, <1>10

(* sme keeps one, as naim does, until a 1m bar makes it leave.             *)
SmeTends(m, out, in, ctx, slot) ==
  /\ Tends(m, out, ctx)
  /\ IsEntry(out) => slot \in EntrySlots
  /\ Confirmed(m, ctx) => ~Quits(out)
  /\ Confirmed(m, ctx) /\ in.tf # "5m" /\ slot \in RegularSlots /\ slot >= FlatAt => out.signal # None

LEMMA SmeManages ==
  ASSUME NEW m, SmeFit(m), m.phase = "in_trade", NEW in, NEW ctx, ctx.pos.dir \in Directions, NEW slot
  PROVE  LET out == SmeManage(m, ctx, in, slot)
         IN  /\ ~IsEntry(out) /\ out.mem.phase # "pending"
             /\ out.signal = None => out = Wait(out.mem) /\ out.mem.phase = "in_trade" /\ ~(slot >= FlatAt)
<1> DEFINE out == SmeManage(m, ctx, in, slot)
           moved == BrokenEven(m, in.bar, ctx.pos.dir)
           over == In(Cleared(m), "done")  won == In(Cleared(moved), "done")
           lost == WaitRearm(Cleared(moved))
<1>1. SmeFit(moved) /\ moved.phase = "in_trade"
  BY BrokenEvenKeeps
<1>2. m \in SmeMemory /\ moved \in SmeMemory /\ m.decided /\ moved.decided
  BY <1>1 DEF SmeFit
<1> HIDE DEF moved
<1>3. over.phase = "done" /\ won.phase = "done"
  BY <1>2, ClearedKeeps, DoneKeeps
<1>4. lost.phase \in {"done", "wait_rearm"}
  BY <1>2, ClearedKeeps, WaitRearmKeeps
<1>5. \/ out = Wait(moved) /\ ~(slot >= FlatAt)
      \/ \E x \in {over, won, lost} : out = Leave(x, ctx.pos.dir)
  BY DEF SmeManage, moved
<1> HIDE DEF over, won, lost, out
<1>6. CASE out = Wait(moved) /\ ~(slot >= FlatAt)
  <2>1. out.mem = moved /\ ~IsEntry(out)
    BY <1>6, SignalFacts
  <2> QED BY <1>1, <1>6, <2>1 DEF out
<1>7. CASE \E x \in {over, won, lost} : out = Leave(x, ctx.pos.dir)
  <2>1. out.signal # None /\ ~IsEntry(out) /\ out.mem \in {over, won, lost}
    BY <1>7, SignalFacts
  <2> QED BY <1>3, <1>4, <2>1 DEF out
<1> QED BY <1>5, <1>6, <1>7

LEMMA SmeSearches ==
  ASSUME NEW m, SmeFit(m), m.phase # "in_trade", NEW in, in.dir \in Directions, NEW ctx, NEW slot, NEW set
  PROVE  LET out == SmeTries(Rearmed(m, in), in, ctx, slot, set)
         IN  Searches(m, out, ctx) /\ (IsEntry(out) => slot \in EntrySlots)
<1> DEFINE armed == Rearmed(m, in)  out == SmeTries(armed, in, ctx, slot, set)
           done == In(armed, "done")  again == WaitRearm(armed)
           some == [armed EXCEPT !.phase = "pending", !.tradesAtEntry = ctx.trades]
           sent == [some EXCEPT !.vstop = - Risk * in.dir, !.be = FALSE]
<1>1. /\ SmeFit(armed)
      /\ armed = m \/ (m.phase = "wait_rearm" /\ armed.phase = "armed")
  <2>1. SmeFit(armed)
    BY RearmedKeeps
  <2>2. Rearmed(m, in) = m \/ (m.phase = "wait_rearm" /\ Rearmed(m, in) = In(m, "armed"))
    BY DEF Rearmed
  <2>3. In(m, "armed").phase = "armed"
    BY InPhase DEF SmeFit, SmeMemory
  <2> QED BY <2>1, <2>2, <2>3
<1> HIDE DEF armed
<1>2. armed \in SmeMemory /\ (armed.phase = "armed" => armed.decided)
  BY <1>1 DEF SmeFit
<1>3. armed.phase = "armed" => done.phase = "done" /\ again.phase \in {"done", "wait_rearm"}
  BY <1>2, DoneKeeps, WaitRearmKeeps
<1>4. some.phase = "pending" /\ some.tradesAtEntry = ctx.trades /\ {"vstop", "be"} \subseteq DOMAIN some
  BY <1>2 DEF SmeMemory
<1>5. sent = [armed EXCEPT !.phase = "pending", !.tradesAtEntry = ctx.trades,
                           !.vstop = - Risk * in.dir, !.be = FALSE]
  OBVIOUS
<1>6. sent.phase = "pending" /\ sent.tradesAtEntry = ctx.trades
  <2> HIDE DEF some
  <2> QED BY <1>4
<1> HIDE DEF some, sent
<1>7. \/ out = Wait(armed)
      \/ armed.phase = "armed" /\ \E x \in {done, again} : out = Wait(x)
      \/ /\ armed.phase = "armed" /\ slot \in EntrySlots /\ ctx.pos = None /\ ~ctx.warmup
         /\ out = Enter(sent, in.dir)
  BY <1>5 DEF SmeTries
<1> HIDE DEF done, again, out
<1>8. CASE out = Wait(armed)
  <2>1. out.signal = None /\ ~IsEntry(out) /\ out.mem = armed
    BY <1>8, SignalFacts
  <2> QED BY <1>1, <2>1 DEF Searches, Managing, out, armed
<1>9. CASE armed.phase = "armed" /\ \E x \in {done, again} : out = Wait(x)
  <2>1. out.signal = None /\ ~IsEntry(out) /\ out.mem \in {done, again}
    BY <1>9, SignalFacts
  <2> QED BY <1>1, <1>3, <1>9, <2>1 DEF Searches, Managing, out, armed
<1>10. CASE /\ armed.phase = "armed" /\ slot \in EntrySlots /\ ctx.pos = None /\ ~ctx.warmup
            /\ out = Enter(sent, in.dir)
  <2>1. IsEntry(out) /\ out.mem = sent
    BY <1>10, SignalFacts
  <2> QED BY <1>1, <1>6, <1>10, <2>1 DEF Searches, Managing, Sent, out, armed
<1> QED BY <1>7, <1>8, <1>9, <1>10

LEMMA SmeMinuteTends ==
  ASSUME NEW m, SmeFit(m), NEW in, in.dir \in Directions, NEW ctx, NEW slot, NEW date \in Nat, NEW set,
         ctx.pos # None => ctx.pos.dir \in Directions, m.phase = "pending" => m.entries < MaxEntries
  PROVE  SmeTends(m, SmeOnMinute(m, in, ctx, slot, date, set), in, ctx, slot)
<1> DEFINE out == SmeOnMinute(m, in, ctx, slot, date, set)
           begun == [m EXCEPT !.day = TRUE]
           decided == IF begun.decided THEN begun ELSE Decided(begun, None, date, set)
           settled == SmeSettled(decided, ctx)
           gone == Rearmed(WaitRearm(Cleared(settled)), in)
           managed == IF settled.phase # "in_trade" THEN Wait(settled)
                      ELSE IF ctx.pos = None THEN Wait(gone) ELSE SmeManage(settled, ctx, in, slot)
           tried == IF settled.phase = "in_trade" THEN Wait(managed.mem)
                    ELSE SmeTries(Rearmed(settled, in), in, ctx, slot, set)
<1>1. SmeFit(begun) /\ SmeSame(m, begun)
  <2>1. begun \in SmeMemory /\ SmeSame(m, begun)
    BY DEF SmeSame, SmeFit, SmeMemory
  <2> QED BY <2>1, SmeSameKeeps
<1> HIDE DEF begun
<1>2. /\ SmeFit(decided) /\ (decided.phase = "pending" => decided.entries < MaxEntries)
      /\ Carries(m, decided) /\ (m.phase \in Managing => decided = begun)
  <2>1. CASE begun.decided
    BY <1>1, <2>1 DEF SmeSame, Carries
  <2>2. CASE ~begun.decided
    <3> DEFINE next == Decided(begun, None, date, set)
    <3>1. SmeFit(next) /\ next.phase \in {"armed", "done"}
      BY <1>1, <2>2, DecidedKeeps
    <3>2. m.phase \notin Managing
      BY <1>1, <2>2 DEF SmeFit, SmeSame, Managing
    <3> HIDE DEF next
    <3>3. decided = next
      BY <2>2 DEF next
    <3> QED BY <3>1, <3>2, <3>3 DEF Carries, Managing
  <2> QED BY <2>1, <2>2
<1> HIDE DEF decided
<1>3. SmeFit(settled)
  BY <1>2, SmeSettledKeeps
<1>4. /\ Carries(decided, settled) /\ settled.phase # "pending"
      /\ Confirmed(decided, ctx) => settled.phase = "in_trade"
  <2> DEFINE blank == [decided EXCEPT !.tradesAtEntry = None]
             filled == [blank EXCEPT !.phase = "in_trade", !.entries = @ + 1, !.dir = ctx.pos.dir]
             stopped == [Cleared(blank) EXCEPT !.entries = @ + 1]
  <2>1. decided \in SmeMemory
    BY <1>2 DEF SmeFit
  <2>2. CASE decided.phase # "pending"
    BY <2>2 DEF SmeSettled, Carries, Confirmed, Managing
  <2>3. CASE decided.phase = "pending"
    <3>1. blank \in SmeMemory /\ blank.decided /\ blank.entries = decided.entries
      BY <1>2, <2>1, <2>3 DEF SmeMemory, SmeFit
    <3> HIDE DEF blank
    <3>2. filled.phase = "in_trade"
      BY <3>1 DEF SmeMemory
    <3>3. In(Cleared(blank), "done").phase = "done"
      BY <3>1, ClearedKeeps, DoneKeeps
    <3>4. WaitRearm(stopped).phase \in {"done", "wait_rearm"}
      <4>1. Cleared(blank) \in SmeMemory /\ Cleared(blank).decided /\ Cleared(blank).entries = decided.entries
        BY <3>1, ClearedKeeps
      <4>2. decided.entries + 1 \in 0 .. MaxEntries
        BY <1>2, <2>1, <2>3, SmeEntries
      <4>3. stopped \in SmeMemory /\ stopped.decided
        BY <4>1, <4>2 DEF SmeMemory
      <4> HIDE DEF stopped
      <4> QED BY <4>3, WaitRearmKeeps
    <3>5. \/ settled = filled
          \/ settled = WaitRearm(stopped) /\ ctx.pos = None
          \/ settled = In(Cleared(blank), "done") /\ ctx.trades <= decided.tradesAtEntry
      BY <2>3 DEF SmeSettled, Fate, blank
    <3> HIDE DEF filled, stopped, settled
    <3>6. settled.phase = "in_trade" \/ settled.phase \notin Managing
      BY <3>2, <3>3, <3>4, <3>5 DEF Managing
    <3>7. Confirmed(decided, ctx) => settled.phase = "in_trade"
      BY <2>3, <3>2, <3>5 DEF Confirmed
    <3> QED BY <2>3, <3>6, <3>7 DEF Carries, Managing
  <2> QED BY <2>2, <2>3
<1>5. Carries(m, settled) /\ (Confirmed(m, ctx) => settled.phase = "in_trade")
  <2>1. Confirmed(m, ctx) => Confirmed(decided, ctx)
    BY <1>1, <1>2 DEF Confirmed, SmeSame
  <2> QED BY <1>2, <1>4, <2>1, CarriesOn
<1>6. out = IF managed.signal # None THEN managed ELSE tried
  <2> DEFINE kept == SmeManage(settled, ctx, in, slot)
  <2>1. CASE settled.phase # "in_trade"
    <3>1. managed.signal = None /\ out = tried
      BY <2>1, SignalFacts DEF SmeOnMinute, settled, decided, begun
    <3> QED BY <3>1
  <2>2. CASE settled.phase = "in_trade" /\ ctx.pos = None
    <3>1. out = Wait(gone) /\ managed = Wait(gone) /\ tried = Wait(managed.mem)
      BY <2>2 DEF SmeOnMinute, settled, decided, begun
    <3> HIDE DEF gone, out, managed, tried
    <3> QED BY <3>1, SignalFacts
  <2>3. CASE settled.phase = "in_trade" /\ ctx.pos # None
    <3>1. out = kept /\ managed = kept /\ tried = Wait(managed.mem)
      BY <2>3 DEF SmeOnMinute, settled, decided, begun
    <3>2. kept.signal = None => kept = Wait(kept.mem)
      BY <1>3, <2>3, SmeManages
    <3> HIDE DEF kept, out, managed, tried
    <3> QED BY <3>1, <3>2
  <2> QED BY <2>1, <2>2, <2>3
<1> HIDE DEF settled
<1>7. settled.phase = "in_trade" => /\ Manages(managed, ctx)
                                    /\ ctx.pos # None /\ slot >= FlatAt => managed.signal # None
  <2> HAVE settled.phase = "in_trade"
  <2>1. CASE ctx.pos = None
    <3>1. settled \in SmeMemory /\ settled.decided
      BY <1>3 DEF SmeFit
    <3> DEFINE lost == WaitRearm(Cleared(settled))
    <3>2. SmeFit(lost) /\ lost.phase \in {"done", "wait_rearm"}
      BY <3>1, ClearedKeeps, WaitRearmKeeps
    <3> HIDE DEF lost
    <3>3. Rearmed(lost, in) = lost \/ Rearmed(lost, in) = In(lost, "armed")
      BY DEF Rearmed
    <3>4. In(lost, "armed").phase = "armed"
      <4>1. lost \in SmeMemory
        BY <3>2 DEF SmeFit
      <4>2. "phase" \in DOMAIN lost
        BY <4>1 DEF SmeMemory
      <4> QED BY <4>2, InPhase
    <3>5. gone.phase # "pending"
      BY <3>2, <3>3, <3>4 DEF lost
    <3>6. managed = Wait(gone)
      BY <2>1
    <3> HIDE DEF gone, managed
    <3> QED BY <2>1, <3>5, <3>6, SignalFacts DEF Manages
  <2>2. CASE ctx.pos # None
    <3> DEFINE kept == SmeManage(settled, ctx, in, slot)
    <3>1. /\ ~IsEntry(kept) /\ kept.mem.phase # "pending"
          /\ kept.signal = None => kept.mem.phase = "in_trade" /\ ~(slot >= FlatAt)
      BY <1>3, <2>2, SmeManages
    <3> HIDE DEF kept
    <3>2. managed = kept
      BY <2>2 DEF kept
    <3> QED BY <3>1, <3>2 DEF Manages
  <2> QED BY <2>1, <2>2
<1>8. settled.phase # "in_trade" => managed = Wait(settled)
  OBVIOUS
<1>9. Searches(managed.mem, tried, ctx) /\ (IsEntry(tried) => slot \in EntrySlots)
  <2>1. CASE settled.phase = "in_trade"
    <3>1. tried = Wait(managed.mem)
      BY <2>1
    <3> HIDE DEF tried, managed
    <3> QED BY <3>1, SignalFacts DEF Searches
  <2>2. CASE settled.phase # "in_trade"
    <3>1. managed.mem = settled /\ tried = SmeTries(Rearmed(settled, in), in, ctx, slot, set)
      BY <2>2, SignalFacts
    <3> HIDE DEF tried, managed
    <3> QED BY <1>3, <2>2, <3>1, SmeSearches
  <2> QED BY <2>1, <2>2
<1> HIDE DEF managed, tried, out
<1>10. /\ Tends(m, out, ctx)
       /\ Confirmed(m, ctx) => ~Quits(out) /\ (managed.signal # None => out.signal # None)
       /\ IsEntry(out) => out = tried
  BY <1>4, <1>5, <1>6, <1>7, <1>8, <1>9, TendsInStages
<1> QED BY <1>5, <1>7, <1>9, <1>10 DEF SmeTends, Confirmed, out

LEMMA SmeTendsTo ==
  ASSUME NEW m, SmeFit(m), NEW in \in SmeInputs, NEW ctx, NEW slot, NEW date \in Nat, NEW set,
         ctx.pos # None => ctx.pos.dir \in Directions, m.phase = "pending" => m.entries < MaxEntries
  PROVE  SmeTends(m, SmeOnBar(m, in, ctx, slot, date, set), in, ctx, slot)
<1> DEFINE out == SmeOnBar(m, in, ctx, slot, date, set)
<1>1. CASE in.tf = "5m"
  <2> DEFINE some == [m EXCEPT !.samples = TRUE]
  <2>1. some.phase = m.phase /\ some.tradesAtEntry = m.tradesAtEntry
    BY DEF SmeFit, SmeMemory
  <2>2. \A x : Trailed(x, in.bar).phase = x.phase /\ Trailed(x, in.bar).tradesAtEntry = x.tradesAtEntry
    BY DEF Trailed
  <2>3. \/ out = Wait(m) \/ out = Wait(Trailed(m, in.bar)) \/ out = Wait(Trailed(some, in.bar))
    BY <1>1 DEF SmeOnBar, SmeFiveMinutes
  <2> HIDE DEF some, out
  <2>4. out.signal = None /\ ~IsEntry(out) /\ out.mem.phase = m.phase
        /\ out.mem.tradesAtEntry = m.tradesAtEntry
    BY <2>1, <2>2, <2>3, SignalFacts
  <2> QED BY <1>1, <2>4 DEF SmeTends, Tends, Carries, Confirmed, Quits, out
<1>2. CASE in.tf # "5m" /\ \A s \in RegularSlots : slot < s
  <2> DEFINE begun == [m EXCEPT !.range = TRUE, !.day = TRUE]
             next == Decided(begun, in.opening, date, set)
  <2>1. CASE m.decided
    <3>1. out = Wait(m)
      BY <1>2, <2>1 DEF SmeOnBar, SmeOpening
    <3> HIDE DEF out
    <3>2. out.signal = None /\ ~IsEntry(out) /\ out.mem = m
      BY <3>1, SignalFacts
    <3>3. slot \notin RegularSlots
      <4> SUFFICES ASSUME slot \in RegularSlots PROVE FALSE
        OBVIOUS
      <4>1. slot < slot /\ slot \in Nat
        BY <1>2, StrategyAssumption
      <4> QED BY <4>1
    <3> QED BY <3>2, <3>3 DEF SmeTends, Tends, Carries, Confirmed, Quits, out
  <2>2. CASE ~m.decided
    <3>1. begun \in SmeMemory /\ SmeSame(m, begun)
      BY DEF SmeFit, SmeMemory, SmeSame
    <3>2. out = Wait(next)
      BY <1>2, <2>2 DEF SmeOnBar, SmeOpening
    <3> HIDE DEF begun
    <3>3. SmeFit(begun) /\ ~begun.decided
      BY <2>2, <3>1, SmeSameKeeps DEF SmeSame
    <3>4. in.opening \in {0, 1, -1, None}
      BY <1>2 DEF SmeInputs
    <3>5. next.phase \in {"armed", "done"}
      BY <3>3, <3>4, DecidedKeeps
    <3>6. m.phase = "idle"
      BY <2>2 DEF SmeFit
    <3> HIDE DEF next, out
    <3>7. out.signal = None /\ ~IsEntry(out) /\ out.mem = next
      BY <3>2, SignalFacts
    <3> QED BY <3>5, <3>6, <3>7 DEF SmeTends, Tends, Carries, Confirmed, Quits, Managing, out
  <2> QED BY <2>1, <2>2
<1>3. CASE in.tf # "5m" /\ ~\A s \in RegularSlots : slot < s
  <2>1. in.dir \in Directions
    BY <1>3 DEF SmeInputs, Directions
  <2> DEFINE minute == SmeOnMinute(m, in, ctx, slot, date, set)
  <2>2. SmeTends(m, minute, in, ctx, slot)
    BY <2>1, SmeMinuteTends
  <2> HIDE DEF minute
  <2>3. out = minute
    BY <1>3 DEF SmeOnBar, minute
  <2> QED BY <2>2, <2>3
<1> QED BY <1>1, <1>2, <1>3

-----------------------------------------------------------------------------
(* The four of them behind the engine: when each enters, what it gives as  *)
(* the reason when it lets go, and that it leaves before the close.        *)
Second(in) == kind \in {"naim", "sme"} /\ in.tf = "5m"
Closing(slot) == setup.hours = "rth" /\ slot \in RegularSlots /\ slot >= FlatAt

Watches(m, out, in, ctx, slot) ==
  /\ Tends(m, out, ctx)
  /\ IsEntry(out) /\ setup.hours = "rth" => slot \in EntrySlots
  /\ kind = "afr" => /\ IsEntry(out) => out.mem.aggressor = - out.signal.dir
                     /\ ~IsEntry(out) /\ out.mem.phase \in Managing => out.mem.aggressor = m.aggressor
  /\ ctx.warmup /\ out.signal # None => kind # "afr" /\ (kind = "tfr" => m.stale >= 2)
  /\ Confirmed(m, ctx) /\ Quits(out) => kind \in {"tfr", "afr"} /\ (kind = "afr" => ~m.day)
  /\ Confirmed(m, ctx) /\ ~ctx.warmup /\ Closing(slot) /\ ~Second(in) =>
       out.signal # None \/ out.mem.phase = "done"

LEMMA BarWatches ==
  ASSUME setup \in Setups, Managed, NEW m, Fit(m), NEW in \in Inputs, NEW ctx, NEW t \in Times,
         ctx.pos # None => ctx.pos.dir \in Directions, m.phase = "pending" => m.entries < MaxEntries
  PROVE  Watches(m, OnBar(m, in, ctx, t), in, ctx, Slot(t))
<1> DEFINE out == OnBar(m, in, ctx, t)  slot == Slot(t)  date == Day(t)
<1>1. date \in Nat
  BY TimeFacts
<1> HIDE DEF slot, date
<1>2. CASE kind = "tfr"
  <2>1. out = TfrOnBar(m, in, ctx, slot, setup)
    BY <1>2 DEF OnBar, slot
  <2>2. TfrTends(m, out, ctx, slot, setup)
    BY <1>2, <2>1, TfrTendsTo DEF Fit, Inputs
  <2> HIDE DEF out
  <2> QED BY <1>2, <2>2 DEF Watches, TfrTends, Closing, Second, out, slot
<1>3. CASE kind = "afr"
  <2>1. out = AfrOnBar(m, in, ctx, slot, setup)
    BY <1>3 DEF OnBar, slot
  <2>2. AfrTends(m, out, ctx, slot)
    BY <1>3, <2>1, AfrTendsTo DEF Fit, Inputs
  <2> HIDE DEF out
  <2> QED BY <1>3, <2>2 DEF Watches, AfrTends, Closing, Second, out, slot
<1>4. CASE kind = "naim"
  <2>1. out = NaimOnBar(m, in, ctx, slot, setup)
    BY <1>4 DEF OnBar, slot
  <2>2. NaimTends(m, out, in, ctx, slot)
    BY <1>4, <2>1, NaimTendsTo DEF Fit, Inputs
  <2> HIDE DEF out
  <2> QED BY <1>4, <2>2 DEF Watches, NaimTends, Closing, Second, out, slot
<1>5. CASE kind = "sme"
  <2>1. out = SmeOnBar(m, in, ctx, slot, date, setup)
    BY <1>5 DEF OnBar, slot, date
  <2>2. SmeTends(m, out, in, ctx, slot)
    BY <1>1, <1>5, <2>1, SmeTendsTo DEF Fit, Inputs
  <2> HIDE DEF out
  <2> QED BY <1>5, <2>2 DEF Watches, SmeTends, Closing, Second, out, slot
<1> QED BY <1>2, <1>3, <1>4, <1>5 DEF Managed

(* A position of its own, and the memory and notes kept with it: managed,  *)
(* on its side, or noted for a known reason.                               *)
Owned(p) == Managed /\ p # None /\ p.own

Minds(m, p, c, notes) == Owned(p) =>
  /\ notes.orphan \in {"no"} \cup KnownOrphans
  /\ m.phase \notin Managing => notes.orphan # "no"
  /\ m.phase = "pending" => ~(c <= m.tradesAtEntry)
  /\ kind = "afr" /\ m.phase \in Managing => m.aggressor = - p.dir

(* Once the last bar before the flatten is taken, the 5m bar still to come *)
(* finds nothing that is managed.                                          *)
FlatByNow ==
  (pc # "down" /\ (pc = "save" \/ five) /\ clock > backfill /\ Closing(Slot(clock)) /\ Owned(pos))
    => history.orphan # "no"

MindInv ==
  /\ pc # "down" => Minds(mem, pos, trades, history)
  /\ store # None => Minds(store.mem, store.pos, store.trades, store.history)
  /\ pc = "down" => pos = None
  /\ pc = "save" => clock > backfill
  /\ FlatByNow

LEMMA SaidWatches ==
  ASSUME StrategyInv, Managed, pc = "bar", NEW t \in Times, NEW in \in Inputs
  PROVE  Watches(Called(t), Said(t, in), in, Context(t, in), Slot(t))
<1> DEFINE m == Called(t)  ctx == Context(t, in)
<1>1. setup \in Setups /\ (ctx.pos # None => ctx.pos.dir \in Directions)
  BY DEF Context, Seen, StrategyInv, HostType, Position
<1>2. Fit(m) /\ Room(m, Sent0(t))
  BY CalledIsKept
<1>3. m.phase = "pending" => m.entries < MaxEntries
  BY <1>2 DEF Room
<1> HIDE DEF m, ctx
<1>4. Watches(m, OnBar(m, in, ctx, t), in, ctx, Slot(t))
  BY <1>1, <1>2, <1>3, BarWatches
<1> QED BY <1>4 DEF Said, m, ctx

(* A new session finds the strategy idle, and what is open unmanaged.      *)
LEMMA CalledAnew ==
  ASSUME StrategyInv, pc = "bar", NEW t \in Times, Changed(t), ~Adopts(t)
  PROVE  Called(t).phase \notin Managing
<1> DEFINE last == IF sess.date = NoDate THEN mem ELSE SessionEnd(mem, sess.date)
<1>1. /\ setup \in Setups /\ Kept(mem, pos, trades, history) /\ history \in Notes
      /\ sess.date \in Dates \cup {NoDate}
  BY DEF StrategyInv, HostType, MemoryInv
<1>2. Fit(last)
  <2>1. CASE sess.date = NoDate
    BY <1>1, <2>1 DEF Kept
  <2>2. CASE sess.date # NoDate
    <3>1. sess.date \in Nat /\ history.refused \in BOOLEAN
      BY <1>1, <2>2, TimeFacts DEF Notes
    <3> QED BY <1>1, <2>2, <3>1, EndKeeps DEF Kept
  <2> QED BY <2>1, <2>2
<1>3. Called(t) = SessionStart(last)
  BY DEF Called
<1> HIDE DEF last
<1>4. Begun(Called(t))
  BY <1>1, <1>2, <1>3, StartBegins
<1> QED BY <1>4 DEF Begun, Managing

(* The word noted when a confirmed position is let go.                     *)
LEMMA WordsOfRelease ==
  ASSUME Managed, NEW m, NEW out, NEW in, NEW ctx, NEW slot, Watches(m, out, in, ctx, slot),
         Confirmed(m, ctx), NEW t, ~(Changed(t) /\ ~Adopts(t))
  PROVE  LET word == Orphans(m, t, out, ctx.pos, ctx.warmup)
         IN  /\ word \in {"no"} \cup KnownOrphans
             /\ Quits(out) \/ (ctx.warmup /\ out.signal # None) => word # "no"
<1> DEFINE word == Orphans(m, t, out, ctx.pos, ctx.warmup)
<1>1. ctx.pos # None /\ m.phase \in {"pending", "in_trade"}
  BY DEF Confirmed, Managing
<1>2. CASE ctx.warmup /\ out.signal # None
  <2>1. word = IF kind = "tfr" /\ m.stale >= 2 THEN "blind" ELSE "suppressed"
    BY <1>1, <1>2 DEF Orphans
  <2>2. kind # "afr" /\ (kind = "tfr" => m.stale >= 2)
    BY <1>2 DEF Watches
  <2> HIDE DEF word
  <2>3. kind = "tfr" \/ kind = "naim" \/ kind = "sme"
    BY <2>2 DEF Managed
  <2>4. word \in KnownOrphans /\ word # "no"
    BY <2>1, <2>2, <2>3 DEF KnownOrphans
  <2> QED BY <2>4 DEF word
<1>3. CASE ~(ctx.warmup /\ out.signal # None) /\ out.mem.phase = "done" /\ out.signal = None
  <2>1. word = IF kind \in {"tfr", "afr"} /\ ~m.day THEN "nobook" ELSE "offmap"
    BY <1>1, <1>3 DEF Orphans
  <2>2. kind \in {"tfr", "afr"} /\ (kind = "afr" => ~m.day)
    BY <1>3 DEF Watches, Quits, Managing
  <2> HIDE DEF word
  <2>3. word \in KnownOrphans /\ word # "no"
    BY <2>1, <2>2 DEF KnownOrphans
  <2> QED BY <2>3 DEF word
<1>4. CASE ~(ctx.warmup /\ out.signal # None) /\ ~(out.mem.phase = "done" /\ out.signal = None)
  <2>1. word = "no"
    BY <1>1, <1>4 DEF Orphans
  <2>2. ~Quits(out)
    BY <1>4 DEF Watches, Tends, Quits
  <2> QED BY <1>4, <2>1, <2>2
<1> QED BY <1>2, <1>3, <1>4

(* After a bar, a position of its own is the one it has just entered, or   *)
(* the one it was shown; that one only a release leaves without a manager. *)
LEMMA OwnAfterBar ==
  ASSUME StrategyInv, pc = "bar", NEW t \in Times, NEW in \in Inputs,
         NEW outcome, Made(t, in, outcome), Noted(t, in, outcome), setup' = setup, Owned(pos)'
  PROVE  \/ /\ IsEntry(Said(t, in)) /\ Seen(in) = None /\ ~(t <= backfill)
            /\ pos'.dir = Said(t, in).signal.dir /\ history'.orphan = "no"
            /\ mem'.phase = "pending" /\ mem'.tradesAtEntry = Trades0(t) /\ trades' = Trades0(t) + 1
         \/ /\ ~IsEntry(Said(t, in)) /\ (Said(t, in).signal = None \/ t <= backfill)
            /\ pos' = pos /\ Seen(in) = pos /\ Owned(pos) /\ trades' = Trades0(t)
            /\ history'.orphan = IF history.orphan # "no" THEN history.orphan
                                 ELSE Orphans(Called(t), t, Said(t, in), pos, t <= backfill)
<1> DEFINE out == Said(t, in)  left == Left(t, in)  s == Seen(in)  c == Trades0(t)
           word == Orphans(Called(t), t, out, left, t <= backfill)
<1>1. /\ mem' = out.mem /\ pos' = Settled(left, out.signal, outcome)
      /\ trades' = IF outcome = "opened" /\ left = None THEN c + 1 ELSE c
      /\ history'.orphan = IF pos' = None \/ left = None THEN "no"
                           ELSE IF history.orphan # "no" THEN history.orphan ELSE word
      /\ outcome = "nothing" => out.signal = None \/ t <= backfill
      /\ outcome \in {"nothing", "closed", "vetoed", "opened", "adopted"}
  BY DEF Made, Noted
<1>2. outcome \in {"vetoed", "opened", "adopted"} => IsEntry(out)
  BY EntriesAreEntries DEF Made
<1>3. left # None => left = s /\ s = pos
  BY DEF Left, Seen
<1>4. Managed /\ pos' # None /\ pos'.own
  BY DEF Owned, Managed, kind
<1>5. IsEntry(out) => Sent(out, Context(t, in))
  BY <1>4, SaidWatches DEF Watches, Tends
<1>6. IsEntry(out) => s = None /\ ~(t <= backfill) /\ out.mem.phase = "pending" /\ out.mem.tradesAtEntry = c
  BY <1>5 DEF Sent, Context
<1> HIDE DEF out, left, s, c, word
<1>7. CASE left = None
  <2>1. outcome = "opened" /\ pos' = Opened(out.signal.dir, TRUE)
    BY <1>1, <1>4, <1>7 DEF Settled, Opened
  <2>2. pos'.dir = out.signal.dir
    BY <2>1 DEF Opened
  <2> QED BY <1>1, <1>2, <1>6, <1>7, <2>1, <2>2 DEF out, s, c
<1>8. CASE left # None
  <2>1. ~IsEntry(out) /\ outcome \in {"nothing", "closed"}
    BY <1>1, <1>2, <1>3, <1>6, <1>8
  <2>2. outcome = "nothing" /\ pos' = left
    BY <1>1, <1>4, <2>1 DEF Settled
  <2>3. pos' = pos /\ s = pos /\ left = pos
    BY <1>3, <1>8, <2>2
  <2>4. Owned(pos)
    BY <1>4, <2>3 DEF Owned
  <2> QED BY <1>1, <1>8, <2>1, <2>2, <2>3, <2>4 DEF out, s, c, word
<1> QED BY <1>7, <1>8

LEMMA MindBar ==
  ASSUME StrategyInv, MindInv, NEW t \in Times, Bar(t)
  PROVE  MindInv'
<1>1. /\ pc = "bar" /\ pc' = (IF t <= backfill THEN "bar" ELSE "save") /\ clock' = t
      /\ setup' = setup /\ store' = store /\ backfill' = backfill
  BY DEF Bar
<1>2. PICK in \in Inputs, outcome \in {"nothing", "closed", "vetoed", "opened", "adopted"} :
        Made(t, in, outcome) /\ Noted(t, in, outcome) /\ Delivers(t, in)
  BY BarMakes
<1> DEFINE out == Said(t, in)  m == Called(t)  ctx == Context(t, in)  slot == Slot(t)
           word == Orphans(m, t, out, pos, t <= backfill)
<1>3. mem' = out.mem
  BY <1>2 DEF Made
<1>4. backfill \in Int /\ t \in Int /\ trades \in Nat /\ Trades0(t) \in Nat
  <2>1. Trades0(t) \in Nat
    BY <1>1, CalledIsKept
  <2> QED BY <2>1, TimeFacts DEF StrategyInv, HostType, NoTime
<1>5. pc' = "save" => clock' > backfill'
  BY <1>1, <1>4
<1>6. ctx.pos = Seen(in) /\ ctx.warmup = (t <= backfill) /\ ctx.trades = Trades0(t)
  BY DEF Context
<1>7. Owned(pos)' => /\ Minds(mem, pos, trades, history)'
                     /\ ~(t <= backfill) /\ Closing(slot) => history'.orphan # "no"
  <2> SUFFICES ASSUME Owned(pos)'
               PROVE  /\ Minds(mem, pos, trades, history)'
                      /\ ~(t <= backfill) /\ Closing(slot) => history'.orphan # "no"
    OBVIOUS
  <2>1. Managed /\ kind' = kind /\ KnownOrphans' = KnownOrphans
    BY <1>1 DEF Owned, Managed, kind, KnownOrphans
  <2>2. Watches(m, out, in, ctx, slot)
    BY <1>1, <2>1, SaidWatches
  <2> SUFFICES /\ history'.orphan \in {"no"} \cup KnownOrphans
               /\ mem'.phase \notin Managing => history'.orphan # "no"
               /\ mem'.phase = "pending" => ~(trades' <= mem'.tradesAtEntry)
               /\ kind = "afr" /\ mem'.phase \in Managing => mem'.aggressor = - pos'.dir
               /\ ~(t <= backfill) /\ Closing(slot) => history'.orphan # "no"
    BY <2>1 DEF Minds
  <2>3. CASE /\ IsEntry(out) /\ Seen(in) = None /\ ~(t <= backfill)
             /\ pos'.dir = out.signal.dir /\ history'.orphan = "no"
             /\ mem'.phase = "pending" /\ mem'.tradesAtEntry = Trades0(t) /\ trades' = Trades0(t) + 1
    <3>1. kind = "afr" => mem'.aggressor = - pos'.dir
      BY <1>3, <2>2, <2>3 DEF Watches
    <3>2. ~Closing(slot)
      <4> SUFFICES ASSUME Closing(slot) PROVE FALSE
        OBVIOUS
      <4>1. slot \in EntrySlots /\ slot >= FlatAt
        BY <2>2, <2>3 DEF Watches, Closing
      <4>2. slot \in Nat /\ FlatAt \in Nat
        BY <4>1, StrategyAssumption
      <4> QED BY <4>1, <4>2, WindowAssumption
    <3> QED BY <1>4, <2>3, <3>1, <3>2 DEF Managing
  <2>4. CASE /\ ~IsEntry(out) /\ (out.signal = None \/ t <= backfill)
             /\ pos' = pos /\ Seen(in) = pos /\ Owned(pos) /\ trades' = Trades0(t)
             /\ history'.orphan = IF history.orphan # "no" THEN history.orphan ELSE word
    <3>1. pos # None /\ Minds(mem, pos, trades, history)
      BY <1>1, <2>4 DEF MindInv, Owned
    <3>2. /\ history.orphan \in {"no"} \cup KnownOrphans
          /\ mem.phase \notin Managing => history.orphan # "no"
          /\ mem.phase = "pending" => ~(trades <= mem.tradesAtEntry)
          /\ kind = "afr" /\ mem.phase \in Managing => mem.aggressor = - pos.dir
      BY <2>4, <3>1 DEF Minds
    <3>3. Carries(m, mem')
      BY <1>3, <2>2, <2>4 DEF Watches, Tends
    <3>4. CASE Changed(t) /\ ~Adopts(t)
      <4>1. m.phase \notin Managing
        BY <1>1, <3>4, CalledAnew
      <4>2. mem'.phase \notin Managing
        BY <3>3, <4>1 DEF Carries
      <4>3. word = "carried" /\ "carried" \in KnownOrphans
        BY <2>1, <3>1, <3>4 DEF Orphans, KnownOrphans, Managed
      <4> HIDE DEF word
      <4> QED BY <2>4, <3>2, <4>2, <4>3 DEF Managing
    <3>5. CASE ~(Changed(t) /\ ~Adopts(t))
      <4>1. m = mem /\ Trades0(t) = trades
        BY <3>5 DEF Called, Trades0, Rolled
      <4>2. CASE mem.phase \notin Managing
        <5>1. mem'.phase \notin Managing
          BY <3>3, <4>1, <4>2 DEF Carries
        <5> QED BY <2>4, <3>2, <4>2, <5>1 DEF Managing
      <4>3. CASE mem.phase \in Managing
        <5>1. Confirmed(m, ctx)
          BY <1>6, <2>4, <3>1, <3>2, <4>1, <4>3 DEF Confirmed
        <5>2. /\ word \in {"no"} \cup KnownOrphans
              /\ Quits(out) \/ (t <= backfill /\ out.signal # None) => word # "no"
          BY <1>6, <2>1, <2>2, <2>4, <3>5, <5>1, WordsOfRelease
        <5> HIDE DEF word
        <5>3. mem'.phase \notin Managing => Quits(out) \/ (t <= backfill /\ out.signal # None)
          BY <1>3, <2>4 DEF Quits
        <5>4. kind = "afr" /\ mem'.phase \in Managing => mem'.aggressor = - pos'.dir
          BY <1>3, <2>2, <2>4, <3>2, <4>1, <4>3 DEF Watches
        <5>5. mem'.phase = "pending" => ~(trades' <= mem'.tradesAtEntry)
          BY <2>4, <3>2, <3>3, <4>1 DEF Carries
        <5>6. ~(t <= backfill) /\ Closing(slot) => history'.orphan # "no"
          <6> SUFFICES ASSUME ~(t <= backfill), Closing(slot) PROVE history'.orphan # "no"
            OBVIOUS
          <6>1. CASE Second(in)
            <7>1. five /\ t = clock
              BY <1>2, <6>1 DEF Delivers, Second
            <7>2. history.orphan # "no"
              BY <1>1, <1>4, <2>4, <7>1 DEF MindInv, FlatByNow
            <7> QED BY <2>4, <7>2
          <6>2. CASE ~Second(in)
            <7>1. out.signal = None
              BY <2>4
            <7>2. out.mem.phase = "done"
              BY <1>6, <2>2, <5>1, <6>2, <7>1 DEF Watches
            <7>3. Quits(out)
              BY <7>1, <7>2 DEF Quits, Managing
            <7> QED BY <2>4, <5>2, <7>3
          <6> QED BY <6>1, <6>2
        <5> QED BY <2>4, <3>2, <5>2, <5>3, <5>4, <5>5, <5>6
      <4> QED BY <4>2, <4>3
    <3> QED BY <3>4, <3>5
  <2> HIDE DEF out, word
  <2>5. \/ /\ IsEntry(out) /\ Seen(in) = None /\ ~(t <= backfill)
           /\ pos'.dir = out.signal.dir /\ history'.orphan = "no"
           /\ mem'.phase = "pending" /\ mem'.tradesAtEntry = Trades0(t) /\ trades' = Trades0(t) + 1
        \/ /\ ~IsEntry(out) /\ (out.signal = None \/ t <= backfill)
           /\ pos' = pos /\ Seen(in) = pos /\ Owned(pos) /\ trades' = Trades0(t)
           /\ history'.orphan = IF history.orphan # "no" THEN history.orphan ELSE word
    BY <1>1, <1>2, OwnAfterBar DEF out, word
  <2> QED BY <2>3, <2>4, <2>5
<1>8. Minds(mem, pos, trades, history)'
  BY <1>7 DEF Minds
<1>9. FlatByNow'
  <2> SUFFICES ASSUME clock' > backfill', Closing(Slot(clock))', Owned(pos)' PROVE history'.orphan # "no"
    BY DEF FlatByNow
  <2>1. ~(t <= backfill) /\ Closing(slot)
    BY <1>1, <1>4 DEF Closing, Slot
  <2> QED BY <1>7, <2>1
<1>10. store' # None => Minds(store.mem, store.pos, store.trades, store.history)'
  BY <1>1 DEF MindInv, Minds, Owned, Managed, KnownOrphans, kind
<1>11. pc' # "down"
  BY <1>1
<1> QED BY <1>5, <1>8, <1>9, <1>10, <1>11 DEF MindInv

-----------------------------------------------------------------------------
(* A restart and a session's end keep what a position is managed with.     *)
LEMMA KeepsMinding ==
  ASSUME setup \in Setups, NEW m, Fit(m), NEW x, NEW p, NEW c, NEW notes,
         Minds(m, p, c, notes), x = RestoreState(m) \/ \E date : x = SessionEnd(m, date)
  PROVE  Minds(x, p, c, notes)
<1>1. CASE kind = "tfr"
  <2>1. x = m \/ x = TfrRestored(m)
    BY <1>1 DEF RestoreState, SessionEnd
  <2>2. m \in TfrMemory
    BY <1>1 DEF Fit, TfrFit
  <2>3. x.phase = m.phase /\ x.tradesAtEntry = m.tradesAtEntry
    BY <2>1, <2>2 DEF TfrRestored, TfrMemory
  <2> QED BY <1>1, <2>3 DEF Minds
<1>2. CASE kind = "afr"
  <2>1. x = m \/ x = AfrRestored(m)
    BY <1>2 DEF RestoreState, SessionEnd
  <2>2. m \in AfrMemory
    BY <1>2 DEF Fit
  <2>3. x.phase = m.phase /\ x.tradesAtEntry = m.tradesAtEntry /\ x.aggressor = m.aggressor
    BY <2>1, <2>2 DEF AfrRestored, AfrMemory
  <2> QED BY <1>2, <2>3 DEF Minds
<1>3. CASE kind \in {"naim", "sme"}
  <2>1. x = m \/ \E date : x = SessionEnd(m, date)
    BY <1>3 DEF RestoreState
  <2>2. {"phase", "tradesAtEntry"} \subseteq DOMAIN m /\ "banked" \in DOMAIN m
    BY <1>3 DEF Fit, NaimMemory, SmeFit, SmeMemory
  <2>3. x.phase = m.phase /\ x.tradesAtEntry = m.tradesAtEntry
    BY <1>3, <2>1, <2>2 DEF SessionEnd, NaimEnded, SmeEnded
  <2> QED BY <1>3, <2>3 DEF Minds
<1> QED BY <1>1, <1>2, <1>3 DEF Minds, Owned, Managed

LEMMA MindStart == ASSUME StrategyInv, MindInv, Start PROVE MindInv'
<1>1. pc' = "bar" /\ five' = FALSE /\ setup' = setup /\ store' = store
  BY DEF Start
<1>2. KnownOrphans' = KnownOrphans /\ Managed' = Managed /\ kind' = kind
  BY <1>1 DEF KnownOrphans, Managed, kind
<1>3. Minds(mem, pos, trades, history)'
  <2>1. CASE Resumes
    <3>1. /\ mem' = RestoreState(store.mem) /\ pos' = store.pos /\ trades' = store.trades
          /\ history' = store.history /\ store # None
      BY <2>1 DEF Start, Resumes
    <3>2. Minds(store.mem, store.pos, store.trades, store.history) /\ Fit(store.mem) /\ setup \in Setups
      BY <3>1 DEF MindInv, StrategyInv, MemoryInv, Kept, HostType
    <3>3. Minds(mem', pos', trades', history')
      BY <3>1, <3>2, KeepsMinding
    <3> QED BY <1>2, <3>3 DEF Minds, Owned
  <2>2. CASE ~Resumes
    <3>1. pos' = None
      BY <2>2 DEF Start
    <3> QED BY <3>1 DEF Minds, Owned
  <2> QED BY <2>1, <2>2
<1>4. store' # None => Minds(store.mem, store.pos, store.trades, store.history)'
  BY <1>1, <1>2 DEF MindInv, Minds, Owned
<1> QED BY <1>1, <1>3, <1>4 DEF MindInv, FlatByNow

LEMMA MindStop == ASSUME StrategyInv, MindInv, Stop PROVE MindInv'
<1>1. /\ pc' = "down" /\ pos' = None /\ setup' = setup /\ pc # "down"
      /\ store' = IF sess.date = NoDate THEN store ELSE Row(SessionEnd(mem, sess.date))
  BY DEF Stop, Forget
<1>2. KnownOrphans' = KnownOrphans /\ Managed' = Managed /\ kind' = kind
  BY <1>1 DEF KnownOrphans, Managed, kind
<1>3. store' # None => Minds(store.mem, store.pos, store.trades, store.history)'
  <2>1. CASE sess.date = NoDate
    BY <1>1, <1>2, <2>1 DEF MindInv, Minds, Owned
  <2>2. CASE sess.date # NoDate
    <3> DEFINE ended == SessionEnd(mem, sess.date)
    <3>1. Minds(mem, pos, trades, history) /\ Fit(mem) /\ setup \in Setups
      BY <1>1 DEF MindInv, StrategyInv, MemoryInv, Kept, HostType
    <3>2. Minds(ended, pos, trades, history)
      BY <3>1, KeepsMinding
    <3>3. /\ store'.mem = ended /\ store'.pos = pos /\ store'.trades = trades
          /\ store'.history = history
      BY <1>1, <2>2 DEF Row
    <3> HIDE DEF ended
    <3> QED BY <1>2, <3>2, <3>3 DEF Minds, Owned
  <2> QED BY <2>1, <2>2
<1> QED BY <1>1, <1>3 DEF MindInv, FlatByNow

LEMMA MindStep == ASSUME StrategyInv, MindInv, [Next]_vars PROVE MindInv'
<1>1. CASE Start
  BY <1>1, MindStart
<1>2. ASSUME NEW t \in Times, Bar(t) PROVE MindInv'
  BY <1>2, MindBar
<1>3. CASE Save
  <2>1. /\ pc = "save" /\ pc' = "bar" /\ store' = Row(mem)
        /\ UNCHANGED <<setup, clock, five, backfill, mem, pos, trades, history>>
    BY <1>3 DEF Save
  <2>2. /\ KnownOrphans' = KnownOrphans /\ Managed' = Managed /\ kind' = kind
        /\ Closing(Slot(clock))' = Closing(Slot(clock))
    BY <2>1 DEF KnownOrphans, Managed, kind, Closing, Slot
  <2>3. Minds(mem, pos, trades, history)
    BY <2>1 DEF MindInv
  <2>4. /\ store'.mem = mem /\ store'.pos = pos /\ store'.trades = trades /\ store'.history = history
    BY <2>1 DEF Row
  <2> QED BY <2>1, <2>2, <2>3, <2>4 DEF MindInv, Minds, Owned, FlatByNow
<1>4. CASE Repair
  <2>1. /\ pc' = "bar" /\ UNCHANGED <<setup, store>>
        /\ pos' = None \/ \E dir \in Directions : pos' = Opened(dir, FALSE)
    BY <1>4 DEF Repair
  <2>2. KnownOrphans' = KnownOrphans /\ Managed' = Managed /\ kind' = kind
    BY <2>1 DEF KnownOrphans, Managed, kind
  <2>3. ~Owned(pos)'
    BY <2>1 DEF Owned, Opened
  <2> QED BY <2>1, <2>2, <2>3 DEF MindInv, Minds, Owned, FlatByNow
<1>5. CASE Crash
  <2>1. pc' = "down" /\ pos' = None /\ UNCHANGED <<setup, store>>
    BY <1>5 DEF Crash, Forget
  <2>2. KnownOrphans' = KnownOrphans /\ Managed' = Managed /\ kind' = kind
    BY <2>1 DEF KnownOrphans, Managed, kind
  <2> QED BY <2>1, <2>2 DEF MindInv, Minds, Owned, FlatByNow
<1>6. CASE Stop
  BY <1>6, MindStop
<1>7. CASE Tick \/ UNCHANGED vars
  <2>1. UNCHANGED <<setup, store, pc, clock, five, backfill, mem, pos, trades, history>>
    BY <1>7 DEF Tick, vars, process, bookkeeping
  <2>2. /\ KnownOrphans' = KnownOrphans /\ Managed' = Managed /\ kind' = kind
        /\ Closing(Slot(clock))' = Closing(Slot(clock))
    BY <2>1 DEF KnownOrphans, Managed, kind, Closing, Slot
  <2> QED BY <2>1, <2>2 DEF MindInv, Minds, Owned, FlatByNow
<1> QED BY <1>1, <1>2, <1>3, <1>4, <1>5, <1>6, <1>7 DEF Next

(* A position a strategy opened stays managed until it is closed, on the   *)
(* side it was opened, but for the noted releases (tfr.py), and is left    *)
(* before the close.                                                       *)
THEOREM PositionsAreManaged == Spec => []PositionsManaged
<1>1. Init => MindInv
  BY DEF Init, MindInv, FlatByNow, Owned
<1>2. StrategyInv /\ MindInv => PositionsManaged
  <2> SUFFICES ASSUME StrategyInv, MindInv PROVE PositionsManaged
    OBVIOUS
  <2>1. Owned(pos) => pc # "down" /\ Minds(mem, pos, trades, history)
    BY DEF MindInv, Owned
  <2>2. OpenIsManaged /\ FadesTheAggressor
    BY <2>1 DEF OpenIsManaged, FadesTheAggressor, Minds, Owned, Managing, Managed
  <2>3. FlatByClose
    BY DEF FlatByClose, MindInv, FlatByNow, Closing, Owned
  <2> QED BY <2>2, <2>3 DEF PositionsManaged
<1>3. StrategyInv /\ MindInv /\ [Next]_vars => MindInv'
  BY MindStep
<1> QED BY <1>1, <1>2, <1>3, StrategyHolds, PTL DEF Spec
====
