---------------------------- MODULE LedgerProofs ----------------------------
(***************************************************************************)
(* The ledger, for any groups, jobs, number and order of fills, fees, lost *)
(* connections, failed calls, imports and tags: the table of fills holds   *)
(* what the broker executed, once; no lag is forgotten; the trades entered *)
(* by hand stay.                                                           *)
(***************************************************************************)
EXTENDS Ledger, FiniteSetTheorems, TLAPS

-----------------------------------------------------------------------------
(* The shapes of the records.                                              *)
Executions == [group : Groups, side : Sides, qty : Nat, at : Nat, rank : Nat]
Frames == [kind : {"fill", "fee"}, n : Nat]
FillSet ==
  [n : Nat, copy : {Api, Csv}, fee : BOOLEAN, group : Groups, side : Sides, qty : Nat, at : Nat,
   rank : Nat]
Steps == {"free", "next", "write", "prune", "ok", "failed"}
JobRecs == [step : Steps, todo : SUBSET Groups, group : Groups \cup {None}, rows : SUBSET FillSet]
TradeFields == {"ids", "fees", "tagged"}

LedgerTypes ==
  /\ bound \in Scenarios
  /\ market \in Seq(Executions) /\ charged \subseteq DOMAIN market
  /\ inbox \in Seq(Frames)
  /\ fills \subseteq FillSet
  /\ dirty \subseteq Groups /\ asked \subseteq Groups
  /\ job \in [Jobs -> JobRecs] /\ mishap \in BOOLEAN
  /\ \A k \in DOMAIN trades : DOMAIN trades[k] = TradeFields

(* A frame speaks of what the broker has executed and charged.             *)
InboxInv ==
  \A i \in DOMAIN inbox : inbox[i].n \in DOMAIN market /\ (inbox[i].kind = "fee" => inbox[i].n \in charged)

FillsInv == StoredOnce /\ (CsvHasIds => \A r \in fills : r.copy = Api)

(* Only groups with fills are marked, asked for, worked on and have trades.*)
Filled == {r.group : r \in fills}
AtWork(j) == job[j].step \in {"write", "prune"}

GroupsInv ==
  /\ dirty \cup asked \subseteq Filled
  /\ \A j \in Jobs : /\ job[j].todo \subseteq Filled
                     /\ AtWork(j) => job[j].group \in Filled
                     /\ ~AtWork(j) => job[j].group = None
                     /\ ~Busy(j) => job[j].todo = {}
  /\ \A k \in DOMAIN trades : k.group \in Filled \cup {Manual}

(* Without a mishap a group has one job; it works on the group's rows, or  *)
(* the group is marked again; what it has written is there until it has    *)
(* pruned; no lag is forgotten.                                            *)
InStep(k, rows) == trades[k].ids = TradeOf(k, rows).ids /\ trades[k].fees = TradeOf(k, rows).fees

Alone == \A i, j \in Jobs : \A g \in Groups : g \in Works(i) /\ g \in Works(j) => i = j
RowsRead == \A j \in Jobs : AtWork(j) => job[j].rows = Rows(job[j].group) \/ job[j].group \in dirty
Written ==
  \A j \in Jobs : job[j].step = "prune" =>
    \A k \in Keys(job[j].group, job[j].rows) : k \in DOMAIN trades /\ InStep(k, job[j].rows)
Remembered ==
  \A g \in Groups : Rows(g) # {} /\ Lags(g) => g \in dirty \/ \E j \in Jobs : g \in Works(j)

LedgerInv ==
  /\ LedgerTypes /\ InboxInv /\ FillsInv /\ GroupsInv /\ ManualStays
  /\ ~mishap => Alone /\ RowsRead /\ Written /\ Remembered

-----------------------------------------------------------------------------
LEMMA GroupFacts ==
  /\ Manual \notin Groups /\ None \notin Groups /\ CsvHasIds \in BOOLEAN
  /\ \A b \in Scenarios : b.groups \subseteq Groups /\ b.fills \in Nat /\ b.qty \in Nat /\ b.ranks \in Nat
BY LedgerAssumption

LEMMA MarketFacts ==
  ASSUME LedgerTypes
  PROVE  /\ Len(market) \in Nat /\ DOMAIN market = 1 .. Len(market)
         /\ \A n \in DOMAIN market : market[n] \in Executions /\ market[n].group \in Groups
<1>1. market \in Seq(Executions)
  BY DEF LedgerTypes
<1>2. /\ Len(market) \in Nat /\ DOMAIN market = 1 .. Len(market)
      /\ \A n \in DOMAIN market : market[n] \in Executions
  BY <1>1
<1>3. \A e \in Executions : e.group \in Groups
  BY DEF Executions
<1> QED BY <1>2, <1>3

LEMMA RowFacts ==
  ASSUME LedgerTypes, NEW n \in DOMAIN market, NEW fee \in BOOLEAN, NEW copy \in {Api, Csv}
  PROVE  /\ FillRow(n, fee, copy) \in FillSet /\ FillRow(n, fee, copy).group = market[n].group
         /\ FillRow(n, fee, copy).n = n /\ FillRow(n, fee, copy).copy = copy /\ FillRow(n, fee, copy).fee = fee
<1>1. n \in Nat /\ market[n] \in Executions
  BY MarketFacts
<1>2. market[n].group \in Groups /\ market[n].side \in Sides /\ market[n].qty \in Nat /\ market[n].at \in Nat
     /\ market[n].rank \in Nat
  BY <1>1 DEF Executions
<1> QED BY <1>1, <1>2 DEF FillRow, FillSet

LEMMA FillFacts ==
  ASSUME LedgerTypes, NEW r \in fills
  PROVE  r \in FillSet /\ r.group \in Groups /\ r.fee \in BOOLEAN /\ r.copy \in {Api, Csv} /\ r.n \in Nat
<1>1. r \in FillSet
  BY DEF LedgerTypes
<1> QED BY <1>1 DEF FillSet

LEMMA JobFacts ==
  ASSUME LedgerTypes, NEW j \in Jobs
  PROVE  /\ job[j] \in JobRecs /\ job[j].step \in Steps /\ job[j].todo \subseteq Groups
         /\ job[j].group \in Groups \cup {None} /\ job[j].rows \in SUBSET FillSet
<1>1. job[j] \in JobRecs
  BY DEF LedgerTypes
<1> QED BY <1>1 DEF JobRecs

LEMMA NoJobFacts ==
  /\ NoJob \in JobRecs /\ NoJob.step = "free" /\ NoJob.todo = {} /\ NoJob.group = None
  /\ \A gs \in SUBSET Groups :
       /\ Started(gs) \in JobRecs /\ Started(gs).step = "next" /\ Started(gs).todo = gs
       /\ Started(gs).group = None
  /\ \A step \in {"ok", "failed"} : \A j : Ended(j, step) \in {NoJob, [NoJob EXCEPT !.step = step]}
  /\ \A step \in {"ok", "failed"} :
       /\ [NoJob EXCEPT !.step = step] \in JobRecs
       /\ [NoJob EXCEPT !.step = step].step = step
       /\ [NoJob EXCEPT !.step = step].todo = {} /\ [NoJob EXCEPT !.step = step].group = None
<1>1. NoJob = [step |-> "free", todo |-> {}, group |-> None, rows |-> {}]
  BY DEF NoJob
<1>2. NoJob \in JobRecs /\ NoJob.step = "free" /\ NoJob.todo = {} /\ NoJob.group = None
  BY <1>1 DEF JobRecs, Steps
<1>3. ASSUME NEW gs \in SUBSET Groups
      PROVE  /\ Started(gs) \in JobRecs /\ Started(gs).step = "next" /\ Started(gs).todo = gs
             /\ Started(gs).group = None
  <2> DEFINE a == [NoJob EXCEPT !.step = "next"]
  <2>1. a = [step |-> "next", todo |-> {}, group |-> None, rows |-> {}]
    BY DEF NoJob
  <2>2. Started(gs) = [a EXCEPT !.todo = gs]
    BY <2>1, Zenon DEF Started
  <2> HIDE DEF a
  <2>3. Started(gs) = [step |-> "next", todo |-> gs, group |-> None, rows |-> {}]
    BY <2>1, <2>2
  <2> QED BY <2>3 DEF JobRecs, Steps
<1>4. \A step \in {"ok", "failed"} : \A j : Ended(j, step) \in {NoJob, [NoJob EXCEPT !.step = step]}
  BY DEF Ended
<1>5. ASSUME NEW step \in {"ok", "failed"}
      PROVE  /\ [NoJob EXCEPT !.step = step] \in JobRecs
             /\ [NoJob EXCEPT !.step = step].step = step
             /\ [NoJob EXCEPT !.step = step].todo = {} /\ [NoJob EXCEPT !.step = step].group = None
  <2>1. [NoJob EXCEPT !.step = step] = [step |-> step, todo |-> {}, group |-> None, rows |-> {}]
    BY DEF NoJob
  <2> QED BY <2>1 DEF JobRecs, Steps
<1> QED BY <1>2, <1>3, <1>4, <1>5

(* A set in some order, as a sequence.                                     *)
LEMMA OrderedFacts ==
  ASSUME NEW S, IsFiniteSet(S)
  PROVE  /\ SetToSeq(S) \in Seq(S)
         /\ \A i \in DOMAIN SetToSeq(S) : SetToSeq(S)[i] \in S
<1>1. Cardinality(S) \in Nat /\ ExistsBijection(1 .. Cardinality(S), S)
  BY FS_CardinalityType
<1>2. PICK f : f \in Bijection(1 .. Cardinality(S), S)
  BY <1>1 DEF ExistsBijection
<1>3. f \in [1 .. Cardinality(S) -> S] /\ IsInjective(f)
  BY <1>2 DEF Bijection, Injection
<1>4. SetToSeq(S) \in [1 .. Cardinality(S) -> S]
  BY <1>3, Zenon DEF SetToSeq
<1>5. \A c \in Nat : \A g \in [1 .. c -> S] : g \in Seq(S) /\ \A i \in DOMAIN g : g[i] \in S
  OBVIOUS
<1> QED BY <1>1, <1>4, <1>5

-----------------------------------------------------------------------------
(* The rows of a group.                                                    *)
LEMMA KeyFacts ==
  ASSUME NEW g, NEW rows, NEW k \in Keys(g, rows)
  PROVE  k.group = g
BY DEF Keys, KeyOf

LEMMA FilledFacts ==
  ASSUME NEW g
  PROVE  /\ g \in Filled <=> Rows(g) # {}
         /\ \A r \in fills : r.group = g => r \in Rows(g)
BY DEF Filled, Rows

LEMMA SameLag ==
  ASSUME NEW g, Rows(g)' = Rows(g), TradesOf(g)' = TradesOf(g),
         \A k \in TradesOf(g) : trades'[k].ids = trades[k].ids /\ trades'[k].fees = trades[k].fees
  PROVE  Lags(g)' = Lags(g)
BY DEF Lags

-----------------------------------------------------------------------------
(* The broker and the connection.                                          *)
LEMMA PushedFacts ==
  ASSUME LedgerTypes, NEW msg \in Frames
  PROVE  /\ Pushed(msg) \in Seq(Frames)
         /\ \A i \in DOMAIN Pushed(msg) : Pushed(msg)[i] = msg \/ (i \in DOMAIN inbox /\ Pushed(msg)[i] = inbox[i])
<1>1. inbox \in Seq(Frames)
  BY DEF LedgerTypes
<1>2. CASE ws
  <2>1. Pushed(msg) = Append(inbox, msg)
    BY <1>2 DEF Pushed
  <2>2. Append(inbox, msg) \in Seq(Frames) /\ Len(inbox) \in Nat
        /\ DOMAIN Append(inbox, msg) = 1 .. Len(inbox) + 1 /\ DOMAIN inbox = 1 .. Len(inbox)
    BY <1>1
  <2>3. \A i \in 1 .. Len(inbox) + 1 : i = Len(inbox) + 1 \/ i \in 1 .. Len(inbox)
    BY <2>2
  <2>4. /\ \A i \in 1 .. Len(inbox) : Append(inbox, msg)[i] = inbox[i]
        /\ Append(inbox, msg)[Len(inbox) + 1] = msg
    BY <1>1
  <2> QED BY <2>1, <2>2, <2>3, <2>4
<1>3. CASE ~ws
  BY <1>1, <1>3 DEF Pushed
<1> QED BY <1>2, <1>3

LEMMA FillsStay ==
  ASSUME LedgerTypes, FillsInv, fills' = fills, charged \subseteq charged', DOMAIN market \subseteq DOMAIN market',
         \A n \in DOMAIN market : market'[n] = market[n]
  PROVE  FillsInv'
<1>1. \A r \in fills : FillRow(r.n, r.fee, r.copy)' = FillRow(r.n, r.fee, r.copy)
  <2>1. SUFFICES ASSUME NEW r \in fills
                 PROVE  FillRow(r.n, r.fee, r.copy)' = FillRow(r.n, r.fee, r.copy)
    OBVIOUS
  <2>2. r.n \in DOMAIN market
    BY DEF FillsInv, StoredOnce
  <2> QED BY <2>2 DEF FillRow
<1>2. StoredOnce'
  BY <1>1 DEF FillsInv, StoredOnce
<1> QED BY <1>2 DEF FillsInv

LEMMA ExecuteStep ==
  ASSUME LedgerTypes, InboxInv, FillsInv,
         NEW g \in Groups, NEW side \in Sides, NEW qty \in Nat, NEW step \in {0, 1}, NEW rank \in Nat,
         Execute(g, side, qty, step, rank)
  PROVE  LedgerTypes' /\ InboxInv' /\ FillsInv' /\ UNCHANGED <<fills, dirty, asked, job, trades, mishap>>
<1> DEFINE at == IF market = <<>> THEN 1 ELSE market[Len(market)].at + step
           e == [group |-> g, side |-> side, qty |-> qty, at |-> at, rank |-> rank]
           msg == [kind |-> "fill", n |-> Len(market) + 1]
<1>1. market \in Seq(Executions) /\ Len(market) \in Nat /\ DOMAIN market = 1 .. Len(market)
  BY MarketFacts DEF LedgerTypes
<1>2. at \in Nat
  <2>1. CASE market = <<>>
    BY <2>1
  <2>2. CASE market # <<>>
    <3>1. Len(market) \in DOMAIN market
      BY <1>1, <2>2
    <3>2. market[Len(market)].at \in Nat
      BY <3>1, MarketFacts DEF Executions
    <3> QED BY <2>2, <3>2
  <2> QED BY <2>1, <2>2
<1>3. /\ market' = Append(market, e) /\ inbox' = Pushed(msg)
      /\ UNCHANGED <<charged, bound, fills, dirty, asked, job, trades, mishap>>
  <2>1. Len(market) + 1 - 1 = Len(market)
    BY <1>1
  <2> DEFINE first == IF market = <<>> THEN 1 ELSE market[Len(market) + 1 - 1].at + step
  <2>2. first = at
    BY <2>1
  <2>3. market' = Append(market, [group |-> g, side |-> side, qty |-> qty, at |-> first, rank |-> rank])
    BY DEF Execute
  <2>4. /\ inbox' = Pushed(msg)
        /\ UNCHANGED <<charged, bound, fills, dirty, asked, job, trades, mishap>>
    BY DEF Execute, pump, counts
  <2> HIDE DEF first, at, msg
  <2> QED BY <2>2, <2>3, <2>4
<1> HIDE DEF at
<1>4. e \in Executions /\ msg \in Frames
  BY <1>1, <1>2 DEF Executions, Frames
<1> HIDE DEF e
<1>5. /\ market' \in Seq(Executions) /\ DOMAIN market' = 1 .. Len(market) + 1
      /\ \A n \in DOMAIN market : market'[n] = market[n]
  BY <1>1, <1>3, <1>4
<1>6. DOMAIN market \subseteq DOMAIN market' /\ Len(market) + 1 \in DOMAIN market'
  BY <1>1, <1>5
<1>7. inbox' \in Seq(Frames)
  BY <1>3, <1>4, PushedFacts
<1>8. InboxInv'
  <2>1. ASSUME NEW i \in DOMAIN inbox'
        PROVE  inbox'[i].n \in DOMAIN market' /\ (inbox'[i].kind = "fee" => inbox'[i].n \in charged')
    <3>1. inbox'[i] = msg \/ (i \in DOMAIN inbox /\ inbox'[i] = inbox[i])
      BY <1>3, <1>4, <2>1, PushedFacts
    <3> QED BY <1>3, <1>6, <3>1 DEF InboxInv
  <2> QED BY <2>1 DEF InboxInv
<1>9. LedgerTypes'
  BY <1>3, <1>5, <1>6, <1>7 DEF LedgerTypes
<1>10. FillsInv'
  BY <1>3, <1>5, <1>6, FillsStay
<1> QED BY <1>3, <1>8, <1>9, <1>10

LEMMA ChargeStep ==
  ASSUME LedgerTypes, InboxInv, FillsInv, NEW n \in DOMAIN market, Charge(n)
  PROVE  LedgerTypes' /\ InboxInv' /\ FillsInv' /\ UNCHANGED <<fills, dirty, asked, job, trades, mishap>>
<1> DEFINE msg == [kind |-> "fee", n |-> n]
<1>1. /\ charged' = charged \cup {n} /\ inbox' = Pushed(msg)
      /\ UNCHANGED <<market, bound, fills, dirty, asked, job, trades, mishap>>
  BY DEF Charge, pump, counts
<1>2. msg \in Frames
  BY MarketFacts DEF Frames
<1>3. inbox' \in Seq(Frames)
  BY <1>1, <1>2, PushedFacts
<1>4. InboxInv'
  <2>1. ASSUME NEW i \in DOMAIN inbox'
        PROVE  inbox'[i].n \in DOMAIN market' /\ (inbox'[i].kind = "fee" => inbox'[i].n \in charged')
    <3>1. inbox'[i] = msg \/ (i \in DOMAIN inbox /\ inbox'[i] = inbox[i])
      BY <1>1, <1>2, <2>1, PushedFacts
    <3> QED BY <1>1, <3>1 DEF InboxInv
  <2> QED BY <2>1 DEF InboxInv
<1>5. LedgerTypes'
  BY <1>1, <1>3 DEF LedgerTypes
<1>6. FillsInv'
  BY <1>1, FillsStay
<1> QED BY <1>1, <1>4, <1>5, <1>6

LEMMA ConnectStep ==
  ASSUME LedgerTypes, InboxInv, FillsInv, Connect \/ Drop
  PROVE  LedgerTypes' /\ InboxInv' /\ FillsInv' /\ UNCHANGED <<fills, dirty, asked, job, trades, mishap>>
<1>1. UNCHANGED <<market, charged, bound, fills, dirty, asked, job, trades, mishap>>
  BY DEF Connect, Drop, broker, pump, counts
<1>2. FillsInv'
  BY <1>1, FillsStay
<1>3. SUFFICES /\ inbox' \in Seq(Frames)
               /\ \A i \in DOMAIN inbox' :
                    inbox'[i].n \in DOMAIN market /\ (inbox'[i].kind = "fee" => inbox'[i].n \in charged)
  BY <1>1, <1>2 DEF LedgerTypes, InboxInv
<1>4. CASE Drop
  <2>1. inbox' = <<>>
    BY <1>4 DEF Drop
  <2>2. <<>> \in Seq(Frames) /\ Len(<<>>) = 0
    OBVIOUS
  <2>3. DOMAIN <<>> = {}
    BY <2>2
  <2> QED BY <2>1, <2>2, <2>3
<1>5. CASE Connect
  <2> DEFINE S == {[kind |-> "fee", n |-> n] : n \in charged}
             a == [n \in 1 .. Len(market) |-> [kind |-> "fill", n |-> n]]
             b == SetToSeq(S)
  <2>1. inbox' = a \o b
    BY <1>5 DEF Connect, Snapshot
  <2>2. Len(market) \in Nat /\ DOMAIN market = 1 .. Len(market) /\ charged \subseteq 1 .. Len(market)
    BY MarketFacts DEF LedgerTypes
  <2>3. IsFiniteSet(S)
    <3>1. IsFiniteSet(charged)
      <4>1. IsFiniteSet(1 .. Len(market))
        BY <2>2, FS_Interval
      <4> QED BY <2>2, <4>1, FS_Subset
    <3> DEFINE f == [n \in charged |-> [kind |-> "fee", n |-> n]]
    <3>2. f \in Surjection(charged, S)
      BY DEF Surjection
    <3> QED BY <3>1, <3>2, FS_Surjection
  <2>4. b \in Seq(S) /\ \A i \in DOMAIN b : b[i] \in S
    BY <2>3, OrderedFacts
  <2>5. \A i \in 1 .. Len(market) : a[i] \in Frames /\ a[i].kind = "fill" /\ a[i].n = i
    BY <2>2 DEF Frames
  <2>6. \A s \in S : s \in Frames /\ s.n \in charged
    BY <2>2 DEF Frames
  <2> HIDE DEF S
  <2>7. a \in Seq(Frames) /\ Len(a) = Len(market)
    BY <2>2, <2>5
  <2> HIDE DEF a, b
  <2>8. Len(b) \in Nat /\ DOMAIN b = 1 .. Len(b)
    BY <2>4
  <2>9. b \in Seq(Frames)
    BY <2>4, <2>6, <2>8
  <2>10. a \o b \in Seq(Frames) /\ DOMAIN (a \o b) = 1 .. Len(market) + Len(b)
    BY <2>7, <2>8, <2>9, <2>2
  <2>11. ASSUME NEW i \in 1 .. Len(market) + Len(b)
         PROVE  /\ (a \o b)[i].n \in DOMAIN market
                /\ ((a \o b)[i].kind = "fee" => (a \o b)[i].n \in charged)
    <3>1. CASE i \in 1 .. Len(market)
      <4>1. (a \o b)[i] = a[i]
        BY <2>7, <2>9, <3>1
      <4> QED BY <2>2, <2>5, <3>1, <4>1 DEF a
    <3>2. CASE i \notin 1 .. Len(market)
      <4>1. i - Len(market) \in 1 .. Len(b) /\ (a \o b)[i] = b[i - Len(market)]
        BY <2>2, <2>7, <2>8, <2>9, <2>11, <3>2
      <4>2. (a \o b)[i] \in S
        BY <2>4, <2>8, <4>1
      <4> QED BY <2>2, <2>6, <4>2
    <3> QED BY <3>1, <3>2
  <2> QED BY <2>1, <2>10, <2>11
<1> QED BY <1>4, <1>5

(* A step that touches neither rows, marks, jobs nor trades.               *)
LEMMA QuietStays ==
  ASSUME LedgerInv, UNCHANGED <<fills, dirty, asked, job, trades, mishap>>
  PROVE  /\ GroupsInv' /\ ManualStays'
         /\ ~mishap' => Alone' /\ RowsRead' /\ Written' /\ Remembered'
<1>1. GroupsInv' /\ ManualStays'
  BY DEF LedgerInv, GroupsInv, ManualStays, Filled, AtWork, Busy
<1>2. \A g : Rows(g)' = Rows(g) /\ TradesOf(g)' = TradesOf(g)
  BY DEF Rows, TradesOf
<1>3. \A g : Lags(g)' = Lags(g)
  BY <1>2 DEF Lags
<1>4. \A j : Works(j)' = Works(j)
  BY DEF Works
<1>5. ~mishap => Alone' /\ RowsRead' /\ Written'
  BY <1>2, <1>4 DEF LedgerInv, Alone, RowsRead, Written, AtWork, InStep, Rows
<1>6. ~mishap => Remembered'
  BY <1>2, <1>3, <1>4 DEF LedgerInv, Remembered
<1> QED BY <1>1, <1>5, <1>6

-----------------------------------------------------------------------------
(* The pump.  Rows that change mark their group.                           *)
LEMMA MarkedStays ==
  ASSUME LedgerInv, UNCHANGED <<asked, job, trades>>, mishap => mishap',
         dirty \subseteq dirty', dirty' \subseteq Filled', Filled \subseteq Filled',
         ~mishap' => \A g \in Groups : g \notin dirty' => Rows(g)' = Rows(g)
  PROVE  /\ GroupsInv' /\ ManualStays'
         /\ ~mishap' => Alone' /\ RowsRead' /\ Written' /\ Remembered'
<1>1. /\ \A j : Works(j)' = Works(j) /\ (AtWork(j)' <=> AtWork(j)) /\ (Busy(j)' <=> Busy(j))
      /\ asked' = asked /\ job' = job /\ trades' = trades
  BY DEF Works, AtWork, Busy
<1>2. GroupsInv' /\ ManualStays'
  <2>1. dirty' \cup asked' \subseteq Filled'
    BY <1>1 DEF LedgerInv, GroupsInv
  <2>2. \A k \in DOMAIN trades : k.group \in Filled' \cup {Manual}
    BY DEF LedgerInv, GroupsInv
  <2>3. \A j \in Jobs : /\ job[j].todo \subseteq Filled'
                        /\ AtWork(j) => job[j].group \in Filled'
                        /\ ~AtWork(j) => job[j].group = None
                        /\ ~Busy(j) => job[j].todo = {}
    BY DEF LedgerInv, GroupsInv
  <2>4. GroupsInv'
    BY <1>1, <2>1, <2>2, <2>3 DEF GroupsInv
  <2> QED BY <2>4 DEF ManualStays, LedgerInv
<1>3. Alone => Alone'
  BY <1>1 DEF Alone
<1>4. ASSUME RowsRead, ~mishap'
      PROVE  RowsRead'
  <2>1. ASSUME NEW j \in Jobs, AtWork(j)
        PROVE  job[j].rows = Rows(job[j].group)' \/ job[j].group \in dirty'
    <3>1. job[j].rows = Rows(job[j].group) \/ job[j].group \in dirty
      BY <1>4, <2>1 DEF RowsRead
    <3>2. job[j].group \in Groups
      <4>1. job[j].group \in Filled
        BY <2>1 DEF LedgerInv, GroupsInv
      <4> QED BY <4>1, FillFacts DEF Filled, LedgerInv
    <3>3. PICK g \in Groups : g = job[j].group
      BY <3>2
    <3>4. g \notin dirty' => Rows(g)' = Rows(g)
      BY <1>4
    <3>5. Rows(job[j].group)' = Rows(g)'
      BY <3>3 DEF Rows
    <3> QED BY <3>1, <3>3, <3>4, <3>5
  <2> QED BY <1>1, <2>1 DEF RowsRead
<1>5. Written => Written'
  BY <1>1 DEF Written, InStep
<1>6. ASSUME Remembered, ~mishap'
      PROVE  Remembered'
  <2>1. ASSUME NEW g \in Groups, Rows(g)' # {}, Lags(g)', g \notin dirty'
        PROVE  \E j \in Jobs : g \in Works(j)
    <3>1. Rows(g)' = Rows(g) /\ TradesOf(g)' = TradesOf(g)
      BY <1>1, <1>6, <2>1 DEF TradesOf
    <3>2. Lags(g)' = Lags(g)
      BY <1>1, <3>1, SameLag
    <3> QED BY <1>6, <2>1, <3>1, <3>2 DEF Remembered
  <2> QED BY <1>1, <2>1 DEF Remembered
<1> QED BY <1>2, <1>3, <1>4, <1>5, <1>6 DEF LedgerInv

Fit(r) ==
  /\ r \in FillSet /\ r.n \in DOMAIN market /\ r = FillRow(r.n, r.fee, r.copy)
  /\ r.fee => r.n \in charged
  /\ CsvHasIds => r.copy = Api

LEMMA UpsertFacts ==
  ASSUME LedgerTypes, FillsInv, NEW new, \A r \in new : Fit(r), \A q, r \in new : q.n = r.n => q = r,
         fills' = fills \cup New(new), market' = market, charged' = charged
  PROVE  /\ FillsInv' /\ fills' \subseteq FillSet /\ Filled \subseteq Filled'
         /\ \A r \in new : r.group \in Filled'
         /\ \A g : (\A r \in new : r.group # g) => Rows(g)' = Rows(g)
<1>1. /\ fills \subseteq fills' /\ fills' \subseteq fills \cup new
      /\ \A r \in new : r \in fills' \/ \E q \in fills : SameKey(q, r)
      /\ \A r \in fills' : r \notin fills => ~\E q \in fills : SameKey(q, r)
  BY DEF New
<1>2. \A r \in fills : Fit(r)
  BY FillFacts DEF FillsInv, StoredOnce, Fit
<1>3. \A r \in fills' : Fit(r)
  BY <1>1, <1>2
<1>4. ASSUME NEW q \in fills', NEW r \in fills', q.n = r.n, CsvHasIds \/ q.copy = r.copy
      PROVE  q = r
  <2>1. q.copy = r.copy
    BY <1>3, <1>4 DEF Fit
  <2>2. SameKey(q, r) /\ SameKey(r, q)
    BY <1>4, <2>1 DEF SameKey
  <2>3. CASE q \in fills /\ r \in fills
    BY <1>4, <2>3 DEF FillsInv, StoredOnce
  <2>4. CASE q \notin fills /\ r \notin fills
    BY <1>1, <1>4, <2>4
  <2> QED BY <1>1, <2>2, <2>3, <2>4
<1>5. \A n, fee, copy : FillRow(n, fee, copy)' = FillRow(n, fee, copy)
  BY DEF FillRow
<1>6. FillsInv'
  <2>1. \A r \in fills' : r.n \in DOMAIN market' /\ r = FillRow(r.n, r.fee, r.copy) /\ (r.fee => r.n \in charged')
    BY <1>3 DEF Fit
  <2>2. \A r \in fills' : r = FillRow(r.n, r.fee, r.copy)'
    BY <1>5, <2>1 DEF FillRow
  <2>3. CsvHasIds => \A r \in fills' : r.copy = Api
    BY <1>3 DEF Fit
  <2> QED BY <1>4, <2>1, <2>2, <2>3 DEF FillsInv, StoredOnce, FillRow
<1>7. fills' \subseteq FillSet /\ Filled \subseteq Filled'
  BY <1>1, <1>3 DEF Fit, Filled
<1>8. ASSUME NEW r \in new
      PROVE  r.group \in Filled'
  <2>1. CASE r \in fills'
    BY <2>1 DEF Filled
  <2>2. CASE r \notin fills'
    <3>1. PICK q \in fills : SameKey(q, r)
      BY <1>1, <2>2
    <3>2. q.n = r.n /\ q = FillRow(q.n, q.fee, q.copy) /\ r = FillRow(r.n, r.fee, r.copy)
      BY <1>2, <1>8, <3>1 DEF SameKey, Fit
    <3>3. \A n, fee, copy : FillRow(n, fee, copy).group = market[n].group
      BY DEF FillRow
    <3>4. q.group = r.group
      BY <3>2, <3>3
    <3> QED BY <1>1, <3>1, <3>4 DEF Filled
  <2> QED BY <2>1, <2>2
<1>9. ASSUME NEW g, \A r \in new : r.group # g
      PROVE  Rows(g)' = Rows(g)
  BY <1>1, <1>9 DEF Rows
<1> QED BY <1>6, <1>7, <1>8, <1>9

LEMMA FrameFacts ==
  ASSUME LedgerTypes, InboxInv, inbox # <<>>, inbox' = Tail(inbox), UNCHANGED <<market, charged>>
  PROVE  /\ Head(inbox).n \in DOMAIN market /\ (Head(inbox).kind = "fee" => Head(inbox).n \in charged)
         /\ inbox' \in Seq(Frames) /\ InboxInv'
<1>1. inbox \in Seq(Frames) /\ Len(inbox) \in Nat /\ Len(inbox) # 0 /\ DOMAIN inbox = 1 .. Len(inbox)
  BY DEF LedgerTypes
<1>2. Head(inbox) = inbox[1] /\ 1 \in DOMAIN inbox
  BY <1>1
<1>3. /\ Tail(inbox) \in Seq(Frames) /\ DOMAIN Tail(inbox) = 1 .. Len(inbox) - 1
      /\ \A i \in 1 .. Len(inbox) - 1 : Tail(inbox)[i] = inbox[i + 1] /\ i + 1 \in DOMAIN inbox
  BY <1>1
<1>4. ASSUME NEW i \in 1 .. Len(inbox) - 1
      PROVE  /\ Tail(inbox)[i].n \in DOMAIN market
             /\ (Tail(inbox)[i].kind = "fee" => Tail(inbox)[i].n \in charged)
  <2>1. PICK m \in DOMAIN inbox : Tail(inbox)[i] = inbox[m]
    BY <1>3, <1>4
  <2> QED BY <2>1 DEF InboxInv
<1>5. InboxInv'
  BY <1>3, <1>4 DEF InboxInv
<1> QED BY <1>2, <1>3, <1>5 DEF InboxInv

LEMMA FillStep ==
  ASSUME LedgerInv, HandleFill
  PROVE  LedgerInv'
<1> DEFINE n == Head(inbox).n  row == FillRow(n, FALSE, Api)
<1> USE DEF LedgerInv
<1>1. /\ inbox # <<>> /\ inbox' = Tail(inbox)
      /\ UNCHANGED <<market, charged, bound, asked, job, trades>>
      /\ mishap' = mishap \/ mishap' = TRUE
  BY DEF HandleFill, broker, MarkDirty, pump
<1>2. n \in DOMAIN market /\ inbox' \in Seq(Frames) /\ InboxInv'
  BY <1>1, FrameFacts
<1>3. CASE fills' = fills /\ dirty' = dirty /\ mishap' = mishap
  <2>1. FillsInv'
    BY <1>1, <1>3, FillsStay
  <2>2. LedgerTypes'
    BY <1>1, <1>2, <1>3 DEF LedgerTypes
  <2> QED BY <1>1, <1>2, <1>3, <2>1, <2>2, QuietStays
<1>4. CASE /\ fills' = fills \cup New({row})
           /\ dirty' = dirty \cup {market[n].group} \/ (dirty' = dirty /\ mishap' = TRUE)
  <2>1. /\ row \in FillSet /\ row.group = market[n].group /\ row.n = n /\ row.copy = Api /\ row.fee = FALSE
    BY <1>2, RowFacts
  <2>2. Fit(row)
    BY <1>2, <2>1 DEF Fit
  <2> HIDE DEF row
  <2>3. /\ FillsInv' /\ fills' \subseteq FillSet /\ Filled \subseteq Filled'
        /\ row.group \in Filled'
        /\ \A g : row.group # g => Rows(g)' = Rows(g)
    <3> DEFINE new == {row}
    <3>1. (\A r \in new : Fit(r)) /\ (\A q, r \in new : q.n = r.n => q = r) /\ fills' = fills \cup New(new)
      BY <1>4, <2>2
    <3>2. row \in new /\ \A g : row.group # g => \A r \in new : r.group # g
      OBVIOUS
    <3> HIDE DEF new
    <3> QED BY <1>1, <3>1, <3>2, UpsertFacts
  <2>4. market[n].group \in Groups
    BY <1>2, MarketFacts
  <2>5. LedgerTypes'
    BY <1>1, <1>2, <1>4, <2>3, <2>4 DEF LedgerTypes
  <2>6. /\ dirty \subseteq dirty' /\ dirty' \subseteq Filled'
        /\ ~mishap' => \A g \in Groups : g \notin dirty' => Rows(g)' = Rows(g)
    BY <1>4, <2>1, <2>3 DEF GroupsInv
  <2> QED BY <1>1, <1>2, <2>3, <2>5, <2>6, MarkedStays
<1>5. \/ fills' = fills /\ dirty' = dirty /\ mishap' = mishap
      \/ /\ fills' = fills \cup New({row})
         /\ dirty' = dirty \cup {market[n].group} \/ (dirty' = dirty /\ mishap' = TRUE)
  BY DEF HandleFill, Upsert, MarkDirty, Marked, pump
<1> QED BY <1>3, <1>4, <1>5

LEMMA SameFields ==
  ASSUME NEW a \in FillSet, NEW b \in FillSet, a.n = b.n, a.copy = b.copy, a.fee = b.fee, a.group = b.group,
         a.side = b.side, a.qty = b.qty, a.at = b.at, a.rank = b.rank
  PROVE  a = b
BY DEF FillSet

(* A fee changes only the rows it is of, and only their fee.               *)
Hit(n) == {r \in fills : r.n = n /\ r.copy = Api}

LEMMA FeeFacts ==
  ASSUME LedgerTypes, FillsInv, NEW n \in DOMAIN market, n \in charged, fills' = Charged(fills, n),
         UNCHANGED <<market, charged>>
  PROVE  /\ FillsInv' /\ fills' \subseteq FillSet /\ Filled' = Filled
         /\ \A r \in Hit(n) : r.group \in Filled /\ r.group \in Groups
         /\ \A g \in Groups : (\A r \in Hit(n) : r.group # g) => Rows(g)' = Rows(g)
<1> DEFINE hit == {r \in fills : r.n = n /\ r.copy = Api}
<1>1. Hit(n) = hit
  BY DEF Hit
<1>2. n \in DOMAIN market /\ n \in charged
  OBVIOUS
<1>3. \A r \in fills : r \in FillSet /\ r.n \in DOMAIN market /\ r = FillRow(r.n, r.fee, r.copy)
                       /\ (r.fee => r.n \in charged)
  BY FillFacts DEF FillsInv, StoredOnce
<1> DEFINE now(r) == IF r.n = n /\ r.copy = Api THEN [r EXCEPT !.fee = TRUE] ELSE r
<1>4. fills' = {now(r) : r \in fills}
  BY DEF Charged
<1>5. ASSUME NEW r \in fills
      PROVE  /\ now(r) \in FillSet /\ now(r).n = r.n /\ now(r).copy = r.copy /\ now(r).group = r.group
             /\ now(r).fee => now(r).n \in charged
             /\ now(r) = FillRow(now(r).n, now(r).fee, now(r).copy)
             /\ r \notin hit => now(r) = r
  <2>1. r \in FillSet /\ r.n \in DOMAIN market /\ (r.fee => r.n \in charged)
    BY <1>3
  <2>2. CASE r \in hit
    <3>1. now(r) = [r EXCEPT !.fee = TRUE]
      BY <2>2
    <3>2. /\ now(r) \in FillSet /\ now(r).n = r.n /\ now(r).copy = r.copy /\ now(r).group = r.group
          /\ now(r).fee = TRUE
      BY <2>1, <3>1 DEF FillSet
    <3>3. now(r) = FillRow(r.n, TRUE, r.copy)
      <4>1. PICK a : a = FillRow(r.n, TRUE, r.copy)
        OBVIOUS
      <4>2. r = FillRow(r.n, r.fee, r.copy)
        BY <1>3
      <4>3. r.copy \in {Api, Csv}
        BY FillFacts
      <4>4. a \in FillSet /\ a.n = r.n /\ a.copy = r.copy /\ a.fee = TRUE
        BY <2>1, <4>1, <4>3, RowFacts
      <4>5. /\ a.group = market[r.n].group /\ a.side = market[r.n].side /\ a.qty = market[r.n].qty
            /\ a.at = market[r.n].at /\ a.rank = market[r.n].rank
        BY <4>1 DEF FillRow
      <4>6. /\ r.group = market[r.n].group /\ r.side = market[r.n].side /\ r.qty = market[r.n].qty
            /\ r.at = market[r.n].at /\ r.rank = market[r.n].rank
        <5>1. \A n1, fee, copy : LET f == FillRow(n1, fee, copy)
                                 IN /\ f.group = market[n1].group /\ f.side = market[n1].side
                                    /\ f.qty = market[n1].qty /\ f.at = market[n1].at
                                    /\ f.rank = market[n1].rank
          BY DEF FillRow
        <5> QED BY <4>2, <5>1
      <4>7. /\ now(r).group = r.group /\ now(r).side = r.side /\ now(r).qty = r.qty /\ now(r).at = r.at
            /\ now(r).rank = r.rank
        BY <2>1, <3>1 DEF FillSet
      <4>8. now(r) = a
        <5>1. PICK b : b = now(r)
          OBVIOUS
        <5>2. /\ b \in FillSet /\ b.n = a.n /\ b.copy = a.copy /\ b.fee = a.fee
              /\ b.group = a.group /\ b.side = a.side /\ b.qty = a.qty /\ b.at = a.at /\ b.rank = a.rank
          BY <3>2, <4>4, <4>5, <4>6, <4>7, <5>1, Zenon
        <5>3. b = a
          BY <4>4, <5>2, SameFields
        <5> QED BY <5>1, <5>3
      <4> QED BY <4>1, <4>8
    <3> QED BY <2>2, <3>2, <3>3
  <2>3. CASE r \notin hit
    <3>1. now(r) = r
      BY <2>3
    <3> QED BY <1>3, <2>1, <2>3, <3>1
  <2> QED BY <2>2, <2>3
<1> HIDE DEF now
<1>6. FillsInv'
  <2>1. \A r \in fills' : r.n \in DOMAIN market /\ r = FillRow(r.n, r.fee, r.copy) /\ (r.fee => r.n \in charged)
    BY <1>3, <1>4, <1>5
  <2>2. ASSUME NEW q \in fills', NEW r \in fills', q.n = r.n, CsvHasIds \/ q.copy = r.copy
        PROVE  q = r
    <3>1. PICK a \in fills : q = now(a)
      BY <1>4
    <3>2. PICK b \in fills : r = now(b)
      BY <1>4
    <3>3. a.n = b.n /\ (CsvHasIds \/ a.copy = b.copy)
      BY <1>5, <2>2, <3>1, <3>2
    <3>4. a = b
      BY <3>3 DEF FillsInv, StoredOnce
    <3> QED BY <3>1, <3>2, <3>4
  <2>3. CsvHasIds => \A r \in fills' : r.copy = Api
    BY <1>4, <1>5 DEF FillsInv
  <2> QED BY <2>1, <2>2, <2>3 DEF FillsInv, StoredOnce, FillRow
<1>7. Filled' = Filled
  BY <1>4, <1>5 DEF Filled
<1>8. \A r \in hit : r.group \in Filled /\ r.group \in Groups
  BY FillFacts DEF Filled
<1>9. fills' \subseteq FillSet
  BY <1>4, <1>5
<1>10. ASSUME NEW g \in Groups, \A r \in hit : r.group # g
       PROVE  Rows(g)' = Rows(g)
  <2>1. \A r \in fills : r.group = g => now(r) = r
    BY <1>5, <1>10
  <2> QED BY <1>4, <1>5, <2>1 DEF Rows
<1> QED BY <1>1, <1>6, <1>7, <1>8, <1>9, <1>10

LEMMA FeeStep ==
  ASSUME LedgerInv, HandleFee
  PROVE  LedgerInv'
<1> DEFINE n == Head(inbox).n
<1> USE DEF LedgerInv
<1>1. /\ inbox # <<>> /\ inbox' = Tail(inbox) /\ Head(inbox).kind = "fee"
      /\ UNCHANGED <<market, charged, bound, asked, job, trades>>
      /\ mishap' = mishap \/ mishap' = TRUE
      /\ \/ fills' = fills /\ dirty' = dirty /\ mishap' = mishap
         \/ /\ fills' = Charged(fills, n)
            /\ dirty' = dirty \cup {r.group : r \in Hit(n)} \/ (dirty' = dirty /\ mishap' = TRUE)
  BY DEF HandleFee, broker, pump, MarkDirty, Marked, Hit
<1>2. n \in DOMAIN market /\ n \in charged /\ inbox' \in Seq(Frames) /\ InboxInv'
  BY <1>1, FrameFacts
<1> HIDE DEF n
<1>3. CASE fills' = fills /\ dirty' = dirty /\ mishap' = mishap
  <2>1. FillsInv'
    BY <1>1, <1>3, FillsStay
  <2>2. LedgerTypes'
    BY <1>1, <1>2, <1>3 DEF LedgerTypes
  <2> QED BY <1>1, <1>2, <1>3, <2>1, <2>2, QuietStays
<1>4. CASE /\ fills' = Charged(fills, n)
           /\ dirty' = dirty \cup {r.group : r \in Hit(n)} \/ (dirty' = dirty /\ mishap' = TRUE)
  <2>1. /\ FillsInv' /\ fills' \subseteq FillSet /\ Filled' = Filled
        /\ \A r \in Hit(n) : r.group \in Filled /\ r.group \in Groups
        /\ \A g \in Groups : (\A r \in Hit(n) : r.group # g) => Rows(g)' = Rows(g)
    BY <1>1, <1>2, <1>4, FeeFacts
  <2>2. LedgerTypes'
    BY <1>1, <1>2, <1>4, <2>1 DEF LedgerTypes
  <2>3. /\ dirty \subseteq dirty' /\ dirty' \subseteq Filled'
        /\ ~mishap' => \A g \in Groups : g \notin dirty' => Rows(g)' = Rows(g)
    BY <1>4, <2>1 DEF GroupsInv
  <2> QED BY <1>1, <1>2, <2>1, <2>2, <2>3, MarkedStays
<1> QED BY <1>1, <1>3, <1>4

-----------------------------------------------------------------------------
(* The rebuilds.  A step of one job leaves the others as they are.         *)
LEMMA JobSet ==
  ASSUME LedgerTypes, NEW j \in Jobs, NEW J \in JobRecs, job' = [job EXCEPT ![j] = J]
  PROVE  /\ job' \in [Jobs -> JobRecs] /\ job'[j] = J
         /\ \A i \in Jobs : i # j => job'[i] = job[i]
         /\ \A i \in Jobs : i # j => Works(i)' = Works(i) /\ (AtWork(i)' <=> AtWork(i)) /\ (Busy(i)' <=> Busy(i))
<1>1. /\ job' \in [Jobs -> JobRecs] /\ job'[j] = J
      /\ \A i \in Jobs : i # j => job'[i] = job[i]
  BY DEF LedgerTypes
<1>2. ASSUME NEW i \in Jobs, i # j
      PROVE  Works(i)' = Works(i) /\ (AtWork(i)' <=> AtWork(i)) /\ (Busy(i)' <=> Busy(i))
  <2>1. job'[i] = job[i]
    BY <1>1, <1>2
  <2> QED BY <2>1 DEF Works, AtWork, Busy
<1> QED BY <1>1, <1>2

LEMMA GroupsStay ==
  ASSUME LedgerTypes, GroupsInv,
         NEW j \in Jobs, NEW J \in JobRecs, job' = [job EXCEPT ![j] = J],
         Filled \subseteq Filled', dirty' \cup asked' \subseteq Filled', J.todo \subseteq Filled',
         J.step \in {"write", "prune"} => J.group \in Filled',
         J.step \notin {"write", "prune"} => J.group = None,
         J.step = "free" => J.todo = {},
         \A k \in DOMAIN trades' : k.group \in Filled' \cup {Manual}
  PROVE  GroupsInv'
<1>1. ASSUME NEW i \in Jobs
      PROVE  /\ job'[i].todo \subseteq Filled'
             /\ job'[i].step \in {"write", "prune"} => job'[i].group \in Filled'
             /\ job'[i].step \notin {"write", "prune"} => job'[i].group = None
             /\ job'[i].step = "free" => job'[i].todo = {}
  <2>1. CASE i = j
    <3>1. job'[i] = J
      BY <2>1, JobSet
    <3> QED BY <3>1
  <2>2. CASE i # j
    <3>1. job'[i] = job[i]
      BY <2>2, JobSet
    <3>2. /\ job[i].todo \subseteq Filled
          /\ job[i].step \in {"write", "prune"} => job[i].group \in Filled
          /\ job[i].step \notin {"write", "prune"} => job[i].group = None
          /\ job[i].step = "free" => job[i].todo = {}
      BY DEF GroupsInv, AtWork, Busy
    <3> QED BY <3>1, <3>2
  <2> QED BY <2>1, <2>2
<1> QED BY <1>1 DEF GroupsInv, AtWork, Busy

LEMMA WorksFacts ==
  ASSUME LedgerTypes, GroupsInv, NEW j \in Jobs
  PROVE  /\ job[j].step \in {"ok", "failed"} => Works(j) = {}
         /\ job[j].step \in {"free", "next"} => Works(j) = job[j].todo \cup {None}
         /\ AtWork(j) => /\ Works(j) = job[j].todo \cup {job[j].group}
                         /\ job[j].group \in Groups /\ job[j].group \in Filled /\ job[j].rows \subseteq FillSet
         /\ ~Busy(j) => job[j].todo = {}
<1>1. AtWork(j) => job[j].group \in Filled
  BY DEF GroupsInv
<1>2. Filled \subseteq Groups
  BY FillFacts DEF Filled
<1>3. ~AtWork(j) => job[j].group = None
  BY DEF GroupsInv
<1>4. job[j].rows \subseteq FillSet
  BY JobFacts
<1> QED BY <1>1, <1>2, <1>3, <1>4 DEF Works, AtWork, Busy, GroupsInv

LEMMA StartStep ==
  ASSUME LedgerInv, NEW gs \in SUBSET Groups, NEW j \in Jobs, ~Busy(j), job' = [job EXCEPT ![j] = Started(gs)],
         trades' = trades, mishap' = (mishap \/ Overlaps(gs)),
         gs \subseteq Filled', Filled \subseteq Filled', dirty' \cup asked' \subseteq Filled',
         \A g \in Groups : g \notin gs => Rows(g)' = Rows(g),
         \A g \in dirty : g \in dirty' \/ g \in gs
  PROVE  /\ job' \in [Jobs -> JobRecs] /\ GroupsInv' /\ ManualStays'
         /\ ~mishap' => Alone' /\ RowsRead' /\ Written' /\ Remembered'
<1> USE DEF LedgerInv
<1>1. PICK J \in JobRecs : J = Started(gs) /\ J.step = "next" /\ J.todo = gs /\ J.group = None
  BY NoJobFacts
<1>2. job' = [job EXCEPT ![j] = J]
  BY <1>1
<1>3. /\ job' \in [Jobs -> JobRecs] /\ job'[j] = J
      /\ \A i \in Jobs : i # j => job'[i] = job[i]
      /\ \A i \in Jobs : i # j => Works(i)' = Works(i) /\ (AtWork(i)' <=> AtWork(i)) /\ (Busy(i)' <=> Busy(i))
  BY <1>2, JobSet
<1>4. \A k \in DOMAIN trades' : k.group \in Filled' \cup {Manual}
  BY DEF GroupsInv
<1>5. GroupsInv'
  <2>1. J.step \notin {"write", "prune", "free"}
    BY <1>1
  <2> QED BY <1>1, <1>2, <1>4, <2>1, GroupsStay
<1>6. ManualStays'
  BY DEF ManualStays
<1>7. ASSUME ~mishap'
      PROVE  Alone' /\ RowsRead' /\ Written' /\ Remembered'
  <2>1. ~mishap /\ Alone /\ RowsRead /\ Written /\ Remembered
    BY <1>7
  <2>2. \A i \in Jobs : Works(i) \cap gs = {}
    BY <1>7 DEF Overlaps
  <2>3. Works(j)' = gs \cup {None} /\ ~AtWork(j)' /\ job'[j].step = "next"
    BY <1>1, <1>3 DEF Works, AtWork
  <2>4. Works(j) = {None}
    BY WorksFacts DEF Busy
  <2>5. None \notin Groups
    BY GroupFacts
  <2>6. Alone'
    <3>1. SUFFICES ASSUME NEW a \in Jobs, NEW b \in Jobs, NEW g \in Groups, g \in Works(a)', g \in Works(b)'
                   PROVE  a = b
      BY DEF Alone
    <3>2. \A i \in Jobs : i # j /\ g \in Works(i)' => g \in Works(i) /\ g \notin gs
      BY <1>3, <2>2
    <3>3. g \in Works(j)' => g \in gs
      BY <2>3, <2>5
    <3> QED BY <2>1, <3>1, <3>2, <3>3 DEF Alone
  <2>7. RowsRead'
    <3>1. ASSUME NEW i \in Jobs, AtWork(i)'
          PROVE  \E g : g = job'[i].group /\ (job'[i].rows = Rows(g)' \/ g \in dirty')
      <4>1. i # j /\ job'[i] = job[i] /\ AtWork(i)
        BY <1>3, <2>3, <3>1
      <4>2. PICK g \in Groups : g = job[i].group /\ g \in Works(i)
        BY <4>1, WorksFacts
      <4>3. job[i].rows = Rows(g) \/ g \in dirty
        BY <2>1, <4>1, <4>2 DEF RowsRead
      <4>4. g \notin gs
        BY <2>2, <4>2
      <4> QED BY <4>1, <4>2, <4>3, <4>4
    <3> QED BY <3>1 DEF RowsRead, Rows
  <2>8. Written'
    <3>1. ASSUME NEW i \in Jobs, job'[i].step = "prune"
          PROVE  \E g, rows : /\ g = job'[i].group /\ rows = job'[i].rows
                              /\ \A k \in Keys(g, rows) : k \in DOMAIN trades' /\ InStep(k, rows)'
      <4>1. i # j /\ job'[i] = job[i]
        BY <1>3, <2>3, <3>1
      <4>2. PICK g, rows : g = job[i].group /\ rows = job[i].rows
        OBVIOUS
      <4>3. \A k \in Keys(g, rows) : k \in DOMAIN trades /\ InStep(k, rows)
        BY <2>1, <3>1, <4>1, <4>2 DEF Written
      <4>4. \A k : InStep(k, rows)' <=> InStep(k, rows)
        BY DEF InStep
      <4> QED BY <4>1, <4>2, <4>3, <4>4
    <3> QED BY <3>1 DEF Written, InStep
  <2>9. Remembered'
    <3>1. SUFFICES ASSUME NEW g \in Groups, Rows(g)' # {}, Lags(g)'
                   PROVE  g \in dirty' \/ \E i \in Jobs : g \in Works(i)'
      BY DEF Remembered
    <3>2. CASE g \in gs
      BY <2>3, <3>2
    <3>3. CASE g \notin gs
      <4>1. Rows(g)' = Rows(g) /\ TradesOf(g)' = TradesOf(g)
        BY <3>3 DEF TradesOf
      <4>2. Lags(g)' = Lags(g)
        BY <4>1, SameLag
      <4>3. g \in dirty \/ \E i \in Jobs : g \in Works(i)
        BY <2>1, <3>1, <4>1, <4>2 DEF Remembered
      <4>4. ASSUME NEW i \in Jobs, g \in Works(i)
            PROVE  g \in Works(i)'
        <5>1. i # j
          BY <2>4, <2>5, <4>4
        <5> QED BY <1>3, <4>4, <5>1
      <4> QED BY <3>3, <4>3, <4>4
    <3> QED BY <3>2, <3>3
  <2> QED BY <2>6, <2>7, <2>8, <2>9
<1> QED BY <1>3, <1>5, <1>6, <1>7

LEMMA PostStep ==
  ASSUME LedgerInv, Post
  PROVE  LedgerInv'
<1> USE DEF LedgerInv
<1>1. /\ UNCHANGED <<market, charged, inbox, bound, fills, trades>>
      /\ asked' = dirty /\ dirty' = {} /\ mishap' = (mishap \/ Overlaps(dirty))
  BY DEF Post, broker, sync, counts
<1>2. PICK j \in Jobs : ~Busy(j) /\ job' = [job EXCEPT ![j] = Started(dirty)]
  BY DEF Post
<1>3. Filled' = Filled /\ \A g \in Groups : Rows(g)' = Rows(g)
  BY <1>1 DEF Filled, Rows
<1>4. dirty \in SUBSET Groups /\ dirty \subseteq Filled'
  BY <1>3 DEF LedgerTypes, GroupsInv
<1>5. /\ job' \in [Jobs -> JobRecs] /\ GroupsInv' /\ ManualStays'
      /\ ~mishap' => Alone' /\ RowsRead' /\ Written' /\ Remembered'
  BY <1>1, <1>2, <1>3, <1>4, StartStep
<1>6. FillsInv'
  BY <1>1, FillsStay
<1>7. mishap' \in BOOLEAN
  BY <1>1 DEF Overlaps
<1>8. LedgerTypes' /\ InboxInv'
  BY <1>1, <1>4, <1>5, <1>7 DEF LedgerTypes, InboxInv
<1> QED BY <1>5, <1>6, <1>8

LEMMA ImportStep ==
  ASSUME LedgerInv, NEW first \in DOMAIN market, ImportCsv(first)
  PROVE  LedgerInv'
<1> USE DEF LedgerInv
<1> DEFINE ns == first .. Len(market)
           gs == {market[n].group : n \in ns}
           new == {FillRow(n, n \in charged, CsvCopy) : n \in ns}
<1>1. /\ UNCHANGED <<market, charged, inbox, bound, dirty, asked, trades>>
      /\ fills' = fills \cup New(new) /\ mishap' = (mishap \/ Overlaps(gs))
      /\ \E j \in Jobs : ~Busy(j) /\ job' = [job EXCEPT ![j] = Started(gs)]
  BY DEF ImportCsv, Upsert, broker, sync, pump
<1>2. ns \subseteq DOMAIN market
  BY MarketFacts
<1>3. CsvCopy \in {Api, Csv} /\ (CsvHasIds => CsvCopy = Api)
  BY DEF CsvCopy
<1>4. ASSUME NEW n \in ns
      PROVE  /\ Fit(FillRow(n, n \in charged, CsvCopy)) /\ FillRow(n, n \in charged, CsvCopy).n = n
             /\ FillRow(n, n \in charged, CsvCopy).group = market[n].group
  <2>1. PICK fee \in BOOLEAN : fee = (n \in charged)
    BY (n \in charged) \in BOOLEAN, Zenon
  <2>2. PICK r : r = FillRow(n, fee, CsvCopy)
    OBVIOUS
  <2>3. r \in FillSet /\ r.n = n /\ r.group = market[n].group /\ r.copy = CsvCopy /\ r.fee = fee
    BY <1>2, <1>3, <2>2, RowFacts
  <2>4. Fit(r)
    BY <1>2, <1>3, <2>1, <2>2, <2>3 DEF Fit
  <2>5. FillRow(n, n \in charged, CsvCopy) = r
    BY <2>1, <2>2
  <2> QED BY <2>3, <2>4, <2>5
<1>5. /\ \A r \in new : Fit(r)
      /\ \A q, r \in new : q.n = r.n => q = r
      /\ \A r \in new : r.group \in gs
      /\ \A g \in gs : \E r \in new : r.group = g
  BY <1>4
<1>6. gs \in SUBSET Groups
  BY <1>2, MarketFacts
<1> HIDE DEF ns, gs, new
<1>7. /\ FillsInv' /\ fills' \subseteq FillSet /\ Filled \subseteq Filled'
      /\ \A r \in new : r.group \in Filled'
      /\ \A g : (\A r \in new : r.group # g) => Rows(g)' = Rows(g)
  BY <1>1, <1>5, UpsertFacts
<1>8. gs \subseteq Filled' /\ \A g \in Groups : g \notin gs => Rows(g)' = Rows(g)
  BY <1>5, <1>7
<1>9. dirty' \cup asked' \subseteq Filled'
  BY <1>1, <1>7 DEF GroupsInv
<1>10. PICK j \in Jobs : ~Busy(j) /\ job' = [job EXCEPT ![j] = Started(gs)]
  BY <1>1
<1>11. /\ job' \in [Jobs -> JobRecs] /\ GroupsInv' /\ ManualStays'
       /\ ~mishap' => Alone' /\ RowsRead' /\ Written' /\ Remembered'
  BY <1>1, <1>6, <1>7, <1>8, <1>9, <1>10, StartStep
<1>12. mishap' \in BOOLEAN
  BY <1>1 DEF Overlaps
<1>13. LedgerTypes' /\ InboxInv'
  BY <1>1, <1>7, <1>11, <1>12 DEF LedgerTypes, InboxInv
<1> QED BY <1>7, <1>11, <1>13

(* A job that ends, or fails: without a mishap its groups are not asked    *)
(* for any more, because it has none left.                                 *)
LEMMA EndStep ==
  ASSUME LedgerInv, UNCHANGED <<fills, trades>>, dirty \subseteq dirty', dirty' \cup asked' \subseteq Filled,
         mishap => mishap', DOMAIN job' = Jobs, job' = [i \in Jobs |-> job'[i]],
         \A i \in Jobs : \/ job'[i] = job[i]
                         \/ job'[i] = NoJob /\ job[i].step \in {"ok", "failed"}
  PROVE  /\ job' \in [Jobs -> JobRecs] /\ GroupsInv' /\ ManualStays'
         /\ ~mishap' => Alone' /\ RowsRead' /\ Written' /\ Remembered'
<1> USE DEF LedgerInv
<1>1. \A i \in Jobs : job[i] \in JobRecs
  BY JobFacts
<1>2. job' \in [Jobs -> JobRecs]
  <2>1. \A i \in Jobs : job'[i] \in JobRecs
    BY <1>1, NoJobFacts
  <2> QED BY <2>1
<1>3. Filled' = Filled /\ \A g : Rows(g)' = Rows(g) /\ TradesOf(g)' = TradesOf(g)
  BY DEF Filled, Rows, TradesOf
<1>4. \A g : Lags(g)' = Lags(g)
  BY <1>3 DEF Lags
<1>5. ASSUME NEW i \in Jobs
      PROVE  /\ AtWork(i)' => AtWork(i) /\ job'[i] = job[i]
             /\ job'[i].todo \subseteq Filled
             /\ ~AtWork(i)' => job'[i].group = None
             /\ ~Busy(i)' => job'[i].todo = {}
             /\ \A g \in Groups : g \in Works(i)' <=> g \in Works(i)
  <2>1. CASE job'[i] = job[i]
    <3>1. Works(i)' = Works(i) /\ (AtWork(i)' <=> AtWork(i)) /\ (Busy(i)' <=> Busy(i))
      BY <2>1 DEF Works, AtWork, Busy
    <3> QED BY <2>1, <3>1 DEF GroupsInv
  <2>2. CASE job'[i] = NoJob /\ job[i].step \in {"ok", "failed"}
    <3>1. NoJob.step = "free" /\ NoJob.todo = {} /\ NoJob.group = None
      BY NoJobFacts
    <3>2. ~AtWork(i)' /\ Works(i)' = {None} /\ Works(i) = {}
      BY <2>2, <3>1 DEF AtWork, Works
    <3> QED BY <2>2, <3>1, <3>2, GroupFacts
  <2> QED BY <2>1, <2>2
<1>6. GroupsInv'
  <2>1. ASSUME NEW i \in Jobs, AtWork(i)'
        PROVE  job'[i].group \in Filled
    BY <1>5, <2>1 DEF GroupsInv
  <2>2. \A k \in DOMAIN trades' : k.group \in Filled' \cup {Manual}
    BY <1>3 DEF GroupsInv
  <2> QED BY <1>3, <1>5, <2>1, <2>2 DEF GroupsInv
<1>7. ManualStays'
  BY DEF ManualStays
<1>8. ASSUME ~mishap'
      PROVE  Alone' /\ RowsRead' /\ Written' /\ Remembered'
  <2>1. Alone'
    BY <1>5, <1>8 DEF Alone
  <2>2. RowsRead'
    <3>1. ASSUME NEW i \in Jobs, AtWork(i)'
          PROVE  \E g : g = job'[i].group /\ (job'[i].rows = Rows(g)' \/ g \in dirty')
      <4>1. job'[i] = job[i] /\ AtWork(i)
        BY <1>5, <3>1
      <4>2. job[i].rows = Rows(job[i].group) \/ job[i].group \in dirty
        BY <1>8, <4>1 DEF RowsRead
      <4> QED BY <1>3, <4>1, <4>2
    <3> QED BY <3>1 DEF RowsRead, Rows
  <2>3. Written'
    <3>1. ASSUME NEW i \in Jobs, job'[i].step = "prune"
          PROVE  job'[i] = job[i]
      BY <1>5, <3>1 DEF AtWork
    <3> QED BY <1>8, <3>1 DEF Written, InStep
  <2>4. Remembered'
    BY <1>3, <1>4, <1>5, <1>8 DEF Remembered
  <2> QED BY <2>1, <2>2, <2>3, <2>4
<1> QED BY <1>2, <1>6, <1>7, <1>8

LEMMA AnswerStep ==
  ASSUME LedgerInv, Answer \/ LostCall
  PROVE  LedgerInv'
<1> USE DEF LedgerInv
<1>1. /\ UNCHANGED <<market, charged, inbox, bound, fills, trades>>
      /\ dirty' \in {dirty, dirty \cup asked} /\ asked' = {} /\ mishap' \in BOOLEAN /\ (mishap => mishap')
  BY DEF Answer, LostCall, broker, sync, counts
<1>2. \/ job' = job
      \/ job[answerer].step \in {"ok", "failed"} /\ job' = [job EXCEPT ![answerer] = NoJob]
  BY DEF Answer, LostCall
<1>3. job \in [Jobs -> JobRecs]
  BY DEF LedgerTypes
<1>4. /\ DOMAIN job' = Jobs /\ job' = [i \in Jobs |-> job'[i]]
      /\ \A i \in Jobs : \/ job'[i] = job[i]
                         \/ job'[i] = NoJob /\ job[i].step \in {"ok", "failed"}
  <2>1. CASE job' = job
    BY <1>3, <2>1
  <2>2. CASE job[answerer].step \in {"ok", "failed"} /\ job' = [job EXCEPT ![answerer] = NoJob]
    <3>1. DOMAIN job' = Jobs /\ job' = [i \in Jobs |-> job'[i]]
      BY <1>3, <2>2
    <3>2. ASSUME NEW i \in Jobs
          PROVE  \/ job'[i] = job[i]
                 \/ job'[i] = NoJob /\ job[i].step \in {"ok", "failed"}
      BY <1>3, <2>2
    <3> QED BY <3>1, <3>2
  <2> QED BY <1>2, <2>1, <2>2
<1>5. dirty \subseteq dirty' /\ dirty' \cup asked' \subseteq Filled
  BY <1>1 DEF GroupsInv
<1>6. /\ job' \in [Jobs -> JobRecs] /\ GroupsInv' /\ ManualStays'
      /\ ~mishap' => Alone' /\ RowsRead' /\ Written' /\ Remembered'
  BY <1>1, <1>4, <1>5, EndStep
<1>7. FillsInv'
  BY <1>1, FillsStay
<1>8. LedgerTypes' /\ InboxInv'
  BY <1>1, <1>6 DEF LedgerTypes, InboxInv
<1> QED BY <1>6, <1>7, <1>8

LEMMA EndedFacts ==
  ASSUME NEW j, NEW step \in {"ok", "failed"}
  PROVE  /\ Ended(j, step) \in JobRecs /\ Ended(j, step).todo = {} /\ Ended(j, step).group = None
         /\ Ended(j, step).step \in {"free", "ok", "failed"}
BY NoJobFacts

(* After an error only the types and the groups matter.                    *)
LEMMA FailStep ==
  ASSUME LedgerInv, NEW j \in Jobs, job' = [job EXCEPT ![j] = Ended(j, "failed")], mishap' = TRUE,
         UNCHANGED <<market, charged, inbox, bound, fills, dirty, asked, trades>>
  PROVE  LedgerInv'
<1> USE DEF LedgerInv
<1>1. PICK J \in JobRecs : /\ J = Ended(j, "failed") /\ J.todo = {} /\ J.group = None
                           /\ J.step \in {"free", "ok", "failed"}
  BY EndedFacts
<1>2. job' \in [Jobs -> JobRecs]
  BY <1>1, JobSet
<1>3. Filled' = Filled
  BY DEF Filled
<1>4. dirty' \cup asked' \subseteq Filled' /\ \A k \in DOMAIN trades' : k.group \in Filled' \cup {Manual}
  BY <1>3 DEF GroupsInv
<1>5. J.step \notin {"write", "prune"}
  BY <1>1
<1>6. GroupsInv'
  BY <1>1, <1>3, <1>4, <1>5, GroupsStay
<1>7. FillsInv'
  BY FillsStay
<1> QED BY <1>2, <1>6, <1>7 DEF LedgerTypes, InboxInv, ManualStays

LEMMA RecFacts ==
  ASSUME NEW step \in Steps, NEW todo \in SUBSET Groups, NEW group \in Groups \cup {None}, NEW rows \in SUBSET FillSet
  PROVE  \E J \in JobRecs : /\ J = [step |-> step, todo |-> todo, group |-> group, rows |-> rows]
                            /\ J.step = step /\ J.todo = todo /\ J.group = group /\ J.rows = rows
<1>1. PICK J : J = [step |-> step, todo |-> todo, group |-> group, rows |-> rows]
  OBVIOUS
<1>2. J.step = step /\ J.todo = todo /\ J.group = group /\ J.rows = rows
  BY <1>1
<1>3. J \in JobRecs
  BY <1>1 DEF JobRecs
<1> QED BY <1>1, <1>2, <1>3

LEMMA ReadStep ==
  ASSUME LedgerInv, NEW j \in Jobs, Read(j)
  PROVE  LedgerInv'
<1> USE DEF LedgerInv
<1>1. /\ UNCHANGED <<market, charged, inbox, bound, fills, dirty, asked, trades>>
      /\ job[j].step = "next"
  BY DEF Read, broker, sync, pump
<1>2. CASE Errs /\ mishap' = TRUE /\ job' = [job EXCEPT ![j] = Ended(j, "failed")]
  BY <1>1, <1>2, FailStep DEF Errs
<1>3. ASSUME NEW g \in job[j].todo, mishap' = mishap,
             job' = [job EXCEPT ![j] = [step |-> "write", todo |-> job[j].todo \ {g}, group |-> g, rows |-> Rows(g)]]
      PROVE  LedgerInv'
  <2>1. g \in Groups /\ g \in Filled /\ job[j].todo \subseteq Filled
    BY JobFacts DEF GroupsInv
  <2>2. Rows(g) \subseteq FillSet
    BY DEF Rows, LedgerTypes
  <2>3. PICK J \in JobRecs : /\ J = [step |-> "write", todo |-> job[j].todo \ {g}, group |-> g, rows |-> Rows(g)]
                             /\ J.step = "write" /\ J.todo = job[j].todo \ {g} /\ J.group = g /\ J.rows = Rows(g)
    <3>1. PICK todo, rows : todo = job[j].todo \ {g} /\ rows = Rows(g)
      OBVIOUS
    <3>2. todo \in SUBSET Groups /\ rows \in SUBSET FillSet /\ "write" \in Steps
      BY <2>1, <2>2, <3>1, JobFacts DEF Steps
    <3>3. \E J \in JobRecs : /\ J = [step |-> "write", todo |-> todo, group |-> g, rows |-> rows]
                             /\ J.step = "write" /\ J.todo = todo /\ J.group = g /\ J.rows = rows
      BY <2>1, <3>2, RecFacts
    <3> QED BY <3>1, <3>3
  <2>4. job' = [job EXCEPT ![j] = J]
    BY <1>3, <2>3
  <2>5. /\ job' \in [Jobs -> JobRecs] /\ job'[j] = J
        /\ \A i \in Jobs : i # j => job'[i] = job[i]
        /\ \A i \in Jobs : i # j => Works(i)' = Works(i) /\ (AtWork(i)' <=> AtWork(i)) /\ (Busy(i)' <=> Busy(i))
    BY <2>4, JobSet
  <2>6. Filled' = Filled /\ \A h : Rows(h)' = Rows(h) /\ TradesOf(h)' = TradesOf(h)
    BY <1>1 DEF Filled, Rows, TradesOf
  <2>7. \A h : Lags(h)' = Lags(h)
    BY <1>1, <2>6 DEF Lags
  <2>8. GroupsInv'
    <3>1. dirty' \cup asked' \subseteq Filled' /\ \A k \in DOMAIN trades' : k.group \in Filled' \cup {Manual}
      BY <1>1, <2>6 DEF GroupsInv
    <3>2. J.todo \subseteq Filled' /\ J.group \in Filled' /\ J.step \in {"write", "prune"} /\ J.step # "free"
      BY <2>1, <2>3, <2>6
    <3> QED BY <2>4, <2>6, <3>1, <3>2, GroupsStay
  <2>9. \A h \in Groups : \A i \in Jobs : h \in Works(i)' <=> h \in Works(i)
    <3>1. Works(j)' = job[j].todo
      BY <2>3, <2>5 DEF Works
    <3>2. Works(j) = job[j].todo \cup {None}
      BY <1>1, WorksFacts
    <3> QED BY <2>5, <3>1, <3>2, GroupFacts
  <2>10. ASSUME ~mishap'
         PROVE  Alone' /\ RowsRead' /\ Written' /\ Remembered'
    <3>1. Alone /\ RowsRead /\ Written /\ Remembered
      BY <1>3, <2>10
    <3>2. Alone'
      BY <2>9, <3>1 DEF Alone
    <3>3. RowsRead'
      <4>1. ASSUME NEW i \in Jobs, AtWork(i)'
            PROVE  \E h : h = job'[i].group /\ (job'[i].rows = Rows(h)' \/ h \in dirty')
        <5>1. CASE i = j
          BY <2>3, <2>5, <2>6, <5>1
        <5>2. CASE i # j
          BY <1>1, <2>5, <2>6, <3>1, <4>1, <5>2 DEF RowsRead
        <5> QED BY <5>1, <5>2
      <4> QED BY <4>1 DEF RowsRead, Rows
    <3>4. Written'
      <4>1. ASSUME NEW i \in Jobs, job'[i].step = "prune"
            PROVE  job'[i] = job[i]
        BY <2>3, <2>5, <4>1
      <4> QED BY <1>1, <3>1, <4>1 DEF Written, InStep
    <3>5. Remembered'
      BY <1>1, <2>6, <2>7, <2>9, <3>1 DEF Remembered
    <3> QED BY <3>2, <3>3, <3>4, <3>5
  <2>11. FillsInv'
    BY <1>1, FillsStay
  <2> QED BY <1>1, <1>3, <2>5, <2>8, <2>10, <2>11 DEF LedgerTypes, InboxInv, ManualStays
<1> QED BY <1>2, <1>3 DEF Read

LEMMA WriteStep ==
  ASSUME LedgerInv, NEW j \in Jobs, Write(j)
  PROVE  LedgerInv'
<1> USE DEF LedgerInv
<1> DEFINE g == job[j].group
           keys == Keys(g, job[j].rows)
<1>1. /\ UNCHANGED <<market, charged, inbox, bound, fills, dirty, asked>>
      /\ job[j].step = "write"
  BY DEF Write, broker, sync, pump
<1>2. CASE job' = [job EXCEPT ![j] = Ended(j, "failed")] /\ mishap' = TRUE /\ trades' = trades
  BY <1>1, <1>2, FailStep
<1>3. ASSUME trades' = [k \in DOMAIN trades \cup keys |->
                          IF k \in keys THEN Row(k, job[j].rows, KeptTag(k)) ELSE trades[k]],
             job' = [job EXCEPT ![j].step = "prune"], mishap' = mishap
      PROVE  LedgerInv'
  <2>1. /\ AtWork(j) /\ g \in Groups /\ g \in Filled /\ job[j].todo \subseteq Filled
        /\ Works(j) = job[j].todo \cup {g}
    BY <1>1, WorksFacts DEF AtWork, GroupsInv
  <2>2. PICK J \in JobRecs : /\ J = [job[j] EXCEPT !.step = "prune"]
                             /\ J.step = "prune" /\ J.todo = job[j].todo /\ J.group = g /\ J.rows = job[j].rows
    <3>1. job[j] \in JobRecs
      BY JobFacts
    <3>2. PICK r \in JobRecs : r = job[j]
      BY <3>1
    <3>3. PICK J : J = [r EXCEPT !.step = "prune"]
      OBVIOUS
    <3>4. J \in JobRecs
      BY <3>3 DEF JobRecs, Steps
    <3>5. J.step = "prune" /\ J.todo = r.todo /\ J.group = r.group /\ J.rows = r.rows
      BY <3>3 DEF JobRecs
    <3>6. J = [job[j] EXCEPT !.step = "prune"]
      BY <3>2, <3>3
    <3> QED BY <3>2, <3>4, <3>5, <3>6
  <2>3. job' = [job EXCEPT ![j] = J]
    BY <1>3, <2>2
  <2>4. /\ job' \in [Jobs -> JobRecs] /\ job'[j] = J
        /\ \A i \in Jobs : i # j => job'[i] = job[i]
        /\ \A i \in Jobs : i # j => Works(i)' = Works(i) /\ (AtWork(i)' <=> AtWork(i)) /\ (Busy(i)' <=> Busy(i))
    BY <2>3, JobSet
  <2>5. \A k \in keys : k.group = g
    BY KeyFacts
  <2>6. /\ DOMAIN trades' = DOMAIN trades \cup keys
        /\ \A k \in keys : /\ DOMAIN trades'[k] = TradeFields
                           /\ trades'[k].ids = TradeOf(k, job[j].rows).ids
                           /\ trades'[k].fees = TradeOf(k, job[j].rows).fees
        /\ \A k \in DOMAIN trades : k \notin keys => trades'[k] = trades[k]
    <3>1. /\ DOMAIN trades' = DOMAIN trades \cup keys
          /\ \A k \in keys : trades'[k] = Row(k, job[j].rows, KeptTag(k))
          /\ \A k \in DOMAIN trades : k \notin keys => trades'[k] = trades[k]
      <4> HIDE DEF keys
      <4> QED BY <1>3
    <3>2. \A k, rows, tagged : /\ DOMAIN Row(k, rows, tagged) = TradeFields
                               /\ Row(k, rows, tagged).ids = TradeOf(k, rows).ids
                               /\ Row(k, rows, tagged).fees = TradeOf(k, rows).fees
      BY DEF Row, TradeFields
    <3>3. ASSUME NEW k \in keys
          PROVE  /\ DOMAIN trades'[k] = TradeFields
                 /\ trades'[k].ids = TradeOf(k, job[j].rows).ids
                 /\ trades'[k].fees = TradeOf(k, job[j].rows).fees
      <4>1. PICK rows, tagged, row : rows = job[j].rows /\ tagged = KeptTag(k) /\ row = Row(k, rows, tagged)
        OBVIOUS
      <4>2. DOMAIN row = TradeFields /\ row.ids = TradeOf(k, rows).ids /\ row.fees = TradeOf(k, rows).fees
        BY <3>2, <4>1
      <4>3. trades'[k] = row
        BY <3>1, <4>1
      <4> QED BY <4>1, <4>2, <4>3
    <3> HIDE DEF keys
    <3> QED BY <3>1, <3>3
  <2> HIDE DEF keys
  <2>7. Filled' = Filled /\ \A h : Rows(h)' = Rows(h)
    BY <1>1 DEF Filled, Rows
  <2>8. GroupsInv'
    <3>1. dirty' \cup asked' \subseteq Filled'
      BY <1>1, <2>7 DEF GroupsInv
    <3>2. \A k \in DOMAIN trades' : k.group \in Filled' \cup {Manual}
      BY <2>1, <2>5, <2>6, <2>7 DEF GroupsInv
    <3>3. J.todo \subseteq Filled' /\ J.group \in Filled' /\ J.step \in {"write", "prune"} /\ J.step # "free"
      BY <2>1, <2>2, <2>7
    <3> QED BY <2>3, <2>7, <3>1, <3>2, <3>3, GroupsStay
  <2>9. LedgerTypes'
    <3>1. \A k \in DOMAIN trades' : DOMAIN trades'[k] = TradeFields
      BY <2>6 DEF LedgerTypes
    <3> QED BY <1>1, <1>3, <2>4, <3>1 DEF LedgerTypes
  <2>10. Works(j)' = Works(j)
    BY <1>1, <2>2, <2>4 DEF Works
  <2>11. ASSUME ~mishap'
         PROVE  Alone' /\ RowsRead' /\ Written' /\ Remembered'
    <3>1. Alone /\ RowsRead /\ Written /\ Remembered
      BY <1>3, <2>11
    <3>2. \A i \in Jobs : Works(i)' = Works(i)
      BY <2>4, <2>10
    <3>3. Alone'
      BY <3>1, <3>2 DEF Alone
    <3>4. RowsRead'
      <4>1. ASSUME NEW i \in Jobs, AtWork(i)'
            PROVE  \E h : h = job'[i].group /\ (job'[i].rows = Rows(h)' \/ h \in dirty')
        <5>1. AtWork(i) /\ job'[i].group = job[i].group /\ job'[i].rows = job[i].rows
          BY <2>1, <2>2, <2>4, <4>1
        <5> QED BY <1>1, <2>7, <3>1, <5>1 DEF RowsRead
      <4> QED BY <4>1 DEF RowsRead, Rows
    <3>5. Written'
      <4>1. ASSUME NEW i \in Jobs, job'[i].step = "prune"
            PROVE  \E h, rows : /\ h = job'[i].group /\ rows = job'[i].rows
                                /\ \A k \in Keys(h, rows) : k \in DOMAIN trades' /\ InStep(k, rows)'
        <5>1. CASE i = j
          <6>1. PICK h, rows : h = g /\ rows = job[j].rows
            OBVIOUS
          <6>2. \A k \in Keys(h, rows) : k \in DOMAIN trades' /\ InStep(k, rows)'
            BY <2>6, <6>1 DEF InStep, keys
          <6> QED BY <2>2, <2>4, <5>1, <6>1, <6>2
        <5>2. CASE i # j
          <6>1. job'[i] = job[i] /\ job[i].step = "prune"
            BY <2>4, <4>1, <5>2
          <6>2. PICK h, rows : h = job[i].group /\ rows = job[i].rows
            OBVIOUS
          <6>3. h \in Groups /\ h \in Works(i)
            BY <6>1, <6>2, WorksFacts DEF AtWork
          <6>4. h # g
            BY <2>1, <3>1, <5>2, <6>3 DEF Alone
          <6>5. \A k \in Keys(h, rows) : k \in DOMAIN trades /\ InStep(k, rows)
            BY <3>1, <6>1, <6>2 DEF Written
          <6>6. \A k \in Keys(h, rows) : k.group = h
            BY KeyFacts
          <6>7. ASSUME NEW k \in Keys(h, rows)
                PROVE  k \in DOMAIN trades' /\ InStep(k, rows)'
            <7>1. k \in DOMAIN trades /\ k \notin keys
              BY <2>5, <6>4, <6>5, <6>6
            <7>2. trades'[k] = trades[k] /\ k \in DOMAIN trades'
              BY <2>6, <7>1
            <7> QED BY <6>5, <7>2 DEF InStep
          <6> QED BY <6>1, <6>2, <6>7
        <5> QED BY <5>1, <5>2
      <4> QED BY <4>1 DEF Written, InStep
    <3>6. Remembered'
      <4>1. SUFFICES ASSUME NEW h \in Groups, Rows(h)' # {}, Lags(h)'
                     PROVE  h \in dirty' \/ \E i \in Jobs : h \in Works(i)'
        BY DEF Remembered
      <4>2. CASE h = g
        BY <2>1, <2>10, <4>2
      <4>3. CASE h # g
        <5>1. TradesOf(h)' = TradesOf(h) /\ \A k \in TradesOf(h) : trades'[k] = trades[k]
          BY <2>5, <2>6, <4>3 DEF TradesOf
        <5>2. Lags(h)' = Lags(h)
          BY <2>7, <5>1, SameLag
        <5> QED BY <1>1, <2>7, <3>1, <3>2, <4>1, <5>2 DEF Remembered
      <4> QED BY <4>2, <4>3
    <3> QED BY <3>3, <3>4, <3>5, <3>6
  <2>12. FillsInv'
    BY <1>1, FillsStay
  <2>13. ManualStays'
    BY <2>6 DEF ManualStays
  <2> QED BY <1>1, <2>8, <2>9, <2>11, <2>12, <2>13 DEF InboxInv
<1> HIDE DEF keys
<1> QED BY <1>2, <1>3 DEF Write, Errs, keys

LEMMA PruneStep ==
  ASSUME LedgerInv, NEW j \in Jobs, Prune(j)
  PROVE  LedgerInv'
<1> USE DEF LedgerInv
<1> DEFINE g == job[j].group
           stale == Stale(g, job[j].rows)
<1>1. /\ UNCHANGED <<market, charged, inbox, bound, fills, dirty, asked>>
      /\ job[j].step = "prune"
      /\ job' = [job EXCEPT ![j] = IF job[j].todo = {} THEN Ended(j, "ok")
                                   ELSE [NoJob EXCEPT !.step = "next", !.todo = job[j].todo]]
  BY DEF Prune, broker, sync, pump
<1>2. \/ trades' = [k \in DOMAIN trades \ stale |-> trades[k]] /\ mishap' = mishap
      \/ trades' = trades /\ mishap' = TRUE
  BY DEF Prune, Errs
<1>3. /\ AtWork(j) /\ g \in Groups /\ g \in Filled /\ job[j].todo \subseteq Filled /\ job[j].todo \in SUBSET Groups
      /\ Works(j) = job[j].todo \cup {g}
  BY <1>1, WorksFacts, JobFacts DEF AtWork, GroupsInv
<1>4. PICK J \in JobRecs : /\ job' = [job EXCEPT ![j] = J]
                           /\ J.todo = job[j].todo /\ J.group = None /\ J.step \notin {"write", "prune"}
                           /\ J.todo # {} => J.step = "next"
  <2>1. CASE job[j].todo = {}
    <3>1. PICK J \in JobRecs : /\ J = Ended(j, "ok") /\ J.todo = {} /\ J.group = None
                               /\ J.step \in {"free", "ok", "failed"}
      BY EndedFacts
    <3> QED BY <1>1, <2>1, <3>1
  <2>2. CASE job[j].todo # {}
    <3>1. PICK gs \in SUBSET Groups : gs = job[j].todo
      BY <1>3
    <3>2. PICK J \in JobRecs : J = Started(gs) /\ J.step = "next" /\ J.todo = gs /\ J.group = None
      BY NoJobFacts
    <3>3. job' = [job EXCEPT ![j] = Started(gs)]
      BY <1>1, <2>2, <3>1 DEF Started
    <3> QED BY <3>1, <3>2, <3>3
  <2> QED BY <2>1, <2>2
<1>5. /\ job' \in [Jobs -> JobRecs] /\ job'[j] = J
      /\ \A i \in Jobs : i # j => job'[i] = job[i]
      /\ \A i \in Jobs : i # j => Works(i)' = Works(i) /\ (AtWork(i)' <=> AtWork(i)) /\ (Busy(i)' <=> Busy(i))
  BY <1>4, JobSet
<1>6. \A k \in DOMAIN trades : k \in stale <=> k.group = g /\ k \notin Keys(g, job[j].rows)
  BY DEF Stale
<1> HIDE DEF stale
<1>7. /\ DOMAIN trades' \subseteq DOMAIN trades
      /\ \A k \in DOMAIN trades' : trades'[k] = trades[k]
      /\ \A k \in DOMAIN trades : k.group # g => k \in DOMAIN trades'
      /\ ~mishap' => ~mishap /\ DOMAIN trades' = DOMAIN trades \ stale
      /\ mishap' \in BOOLEAN
  <2>1. CASE trades' = trades /\ mishap' = TRUE
    BY <2>1
  <2>2. CASE trades' = [k \in DOMAIN trades \ stale |-> trades[k]] /\ mishap' = mishap
    BY <1>6, <2>2 DEF LedgerTypes
  <2> QED BY <1>2, <2>1, <2>2
<1>8. Filled' = Filled /\ \A h : Rows(h)' = Rows(h)
  BY <1>1 DEF Filled, Rows
<1>9. GroupsInv'
  <2>1. dirty' \cup asked' \subseteq Filled'
    BY <1>1, <1>8 DEF GroupsInv
  <2>2. \A k \in DOMAIN trades' : k.group \in Filled' \cup {Manual}
    BY <1>7, <1>8 DEF GroupsInv
  <2>3. J.todo \subseteq Filled' /\ (J.step = "free" => J.todo = {})
    BY <1>3, <1>4, <1>8
  <2> QED BY <1>4, <1>8, <2>1, <2>2, <2>3, GroupsStay
<1>10. LedgerTypes'
  <2>1. \A k \in DOMAIN trades' : DOMAIN trades'[k] = TradeFields
    BY <1>7 DEF LedgerTypes
  <2> QED BY <1>1, <1>5, <1>7, <2>1 DEF LedgerTypes
<1>11. ManualStays'
  <2>1. ManualKey.group = Manual /\ Manual # g
    BY <1>3, GroupFacts DEF ManualKey
  <2> QED BY <1>7, <2>1 DEF ManualStays
<1>12. FillsInv'
  BY <1>1, FillsStay
<1>13. ASSUME ~mishap'
       PROVE  Alone' /\ RowsRead' /\ Written' /\ Remembered'
  <2>1. Alone /\ RowsRead /\ Written /\ Remembered
    BY <1>7, <1>13
  <2>2. ~AtWork(j)' /\ \A h \in Groups : h \in Works(j)' <=> h \in job[j].todo
    <3>1. Works(j)' = IF J.step \in {"ok", "failed"} THEN {} ELSE job[j].todo \cup {None}
      BY <1>4, <1>5 DEF Works
    <3> QED BY <1>4, <1>5, <3>1, GroupFacts DEF AtWork
  <2>3. \A i \in Jobs : \A h \in Groups : h \in Works(i)' => h \in Works(i)
    BY <1>3, <1>5, <2>2
  <2>4. Alone'
    BY <2>1, <2>3 DEF Alone
  <2>5. RowsRead'
    <3>1. ASSUME NEW i \in Jobs, AtWork(i)'
          PROVE  \E h : h = job'[i].group /\ (job'[i].rows = Rows(h)' \/ h \in dirty')
      <4>1. AtWork(i) /\ job'[i] = job[i]
        BY <1>5, <2>2, <3>1
      <4> QED BY <1>1, <1>8, <2>1, <4>1 DEF RowsRead
    <3> QED BY <3>1 DEF RowsRead, Rows
  <2>6. Written'
    <3>1. ASSUME NEW i \in Jobs, job'[i].step = "prune"
          PROVE  \E h, rows : /\ h = job'[i].group /\ rows = job'[i].rows
                              /\ \A k \in Keys(h, rows) : k \in DOMAIN trades' /\ InStep(k, rows)'
      <4>1. i # j /\ job'[i] = job[i] /\ job[i].step = "prune"
        BY <1>4, <1>5, <3>1
      <4>2. PICK h, rows : h = job[i].group /\ rows = job[i].rows
        OBVIOUS
      <4>3. h \in Groups /\ h \in Works(i)
        BY <4>1, <4>2, WorksFacts DEF AtWork
      <4>4. h # g
        BY <1>3, <2>1, <4>1, <4>3 DEF Alone
      <4>5. \A k \in Keys(h, rows) : k \in DOMAIN trades /\ InStep(k, rows)
        BY <2>1, <4>1, <4>2 DEF Written
      <4>6. \A k \in Keys(h, rows) : k.group = h
        BY KeyFacts
      <4>7. ASSUME NEW k \in Keys(h, rows)
            PROVE  k \in DOMAIN trades' /\ InStep(k, rows)'
        <5>1. k \in DOMAIN trades' /\ trades'[k] = trades[k]
          BY <1>7, <4>4, <4>5, <4>6
        <5> QED BY <4>5, <5>1 DEF InStep
      <4> QED BY <4>1, <4>2, <4>7
    <3> QED BY <3>1 DEF Written, InStep
  <2>7. Remembered'
    <3>1. SUFFICES ASSUME NEW h \in Groups, Rows(h)' # {}, Lags(h)'
                   PROVE  h \in dirty' \/ \E i \in Jobs : h \in Works(i)'
      BY DEF Remembered
    <3>2. CASE h = g
      <4>1. CASE g \in dirty
        BY <1>1, <3>2, <4>1
      <4>2. CASE g \notin dirty
        <5>1. job[j].rows = Rows(h)
          BY <1>3, <2>1, <3>2, <4>2 DEF RowsRead
        <5>2. \A k \in Keys(h, Rows(h)) : k \in DOMAIN trades /\ InStep(k, Rows(h)) /\ k.group = h
          BY <1>1, <2>1, <3>2, <5>1, KeyFacts DEF Written
        <5>3. DOMAIN trades' = DOMAIN trades \ stale
          BY <1>7, <1>13
        <5>4. TradesOf(h)' = Keys(h, Rows(h))
          BY <1>6, <3>2, <5>1, <5>2, <5>3 DEF TradesOf
        <5>5. ASSUME NEW k \in TradesOf(h)'
              PROVE  /\ trades'[k].ids = TradeOf(k, Rows(h)).ids
                     /\ trades'[k].fees = TradeOf(k, Rows(h)).fees
          <6>1. k \in DOMAIN trades'
            BY <5>5 DEF TradesOf
          <6> QED BY <1>7, <5>2, <5>4, <5>5, <6>1 DEF InStep
        <5>6. Rows(h)' = Rows(h)
          BY <1>8
        <5>7. ~Lags(h)'
          BY <5>4, <5>5, <5>6 DEF Lags
        <5> QED BY <3>1, <5>7
      <4> QED BY <4>1, <4>2
    <3>3. CASE h # g
      <4>1. TradesOf(h)' = TradesOf(h) /\ \A k \in TradesOf(h) : trades'[k] = trades[k]
        BY <1>7, <3>3 DEF TradesOf
      <4>2. Lags(h)' = Lags(h)
        BY <1>8, <4>1, SameLag
      <4>3. h \in dirty \/ \E i \in Jobs : h \in Works(i)
        BY <1>8, <2>1, <3>1, <4>2 DEF Remembered
      <4>4. \A i \in Jobs : h \in Works(i) => h \in Works(i)'
        BY <1>3, <1>5, <2>2, <3>3
      <4> QED BY <1>1, <4>3, <4>4
    <3> QED BY <3>2, <3>3
  <2> QED BY <2>4, <2>5, <2>6, <2>7
<1> QED BY <1>1, <1>9, <1>10, <1>11, <1>12, <1>13 DEF InboxInv

LEMMA TagStep ==
  ASSUME LedgerInv, NEW k \in DOMAIN trades, Tag(k)
  PROVE  LedgerInv'
<1> USE DEF LedgerInv
<1>1. /\ UNCHANGED <<market, charged, inbox, bound, fills, dirty, asked, job, mishap>>
      /\ trades' = [trades EXCEPT ![k].tagged = TRUE]
  BY DEF Tag, broker, sync, pump
<1>2. DOMAIN trades' = DOMAIN trades
  BY <1>1
<1>3. ASSUME NEW l \in DOMAIN trades
      PROVE  /\ DOMAIN trades'[l] = TradeFields
             /\ trades'[l].ids = trades[l].ids /\ trades'[l].fees = trades[l].fees
  <2>1. DOMAIN trades[l] = TradeFields
    BY DEF LedgerTypes
  <2>2. trades'[l] = IF l = k THEN [trades[l] EXCEPT !.tagged = TRUE] ELSE trades[l]
    BY <1>1
  <2>3. CASE l = k
    <3>1. PICK t : t = trades[l] /\ DOMAIN t = TradeFields
      BY <2>1
    <3>2. /\ DOMAIN [t EXCEPT !.tagged = TRUE] = TradeFields
          /\ [t EXCEPT !.tagged = TRUE].ids = t.ids /\ [t EXCEPT !.tagged = TRUE].fees = t.fees
      BY <3>1 DEF TradeFields
    <3> QED BY <2>2, <2>3, <3>1, <3>2
  <2>4. CASE l # k
    BY <2>1, <2>2, <2>4
  <2> QED BY <2>3, <2>4
<1>4. LedgerTypes'
  BY <1>1, <1>2, <1>3 DEF LedgerTypes
<1>5. FillsInv'
  BY <1>1, FillsStay
<1>6. Filled' = Filled /\ \A h : Rows(h)' = Rows(h) /\ TradesOf(h)' = TradesOf(h)
  BY <1>1, <1>2 DEF Filled, Rows, TradesOf
<1>7. GroupsInv' /\ ManualStays'
  BY <1>1, <1>2, <1>6 DEF GroupsInv, ManualStays, AtWork, Busy
<1>8. \A i : Works(i)' = Works(i)
  BY <1>1 DEF Works
<1>9. \A l \in DOMAIN trades : trades'[l].ids = trades[l].ids /\ trades'[l].fees = trades[l].fees
  BY <1>3
<1>10. \A h : Lags(h)' = Lags(h)
  <2>1. ASSUME NEW h
        PROVE  Lags(h)' = Lags(h)
    <3>1. \A l \in TradesOf(h) : l \in DOMAIN trades
      BY DEF TradesOf
    <3>2. \A l \in TradesOf(h) : trades'[l].ids = trades[l].ids /\ trades'[l].fees = trades[l].fees
      BY <1>9, <3>1
    <3>3. Rows(h)' = Rows(h) /\ TradesOf(h)' = TradesOf(h)
      BY <1>6
    <3> QED BY <3>2, <3>3, SameLag
  <2> QED BY <2>1
<1>11. ASSUME ~mishap'
       PROVE  Alone' /\ RowsRead' /\ Written' /\ Remembered'
  <2>1. ~mishap /\ Alone /\ RowsRead /\ Written /\ Remembered
    BY <1>1, <1>11
  <2>2. Alone'
    BY <1>8, <2>1 DEF Alone
  <2>3. RowsRead'
    BY <1>1, <2>1 DEF RowsRead, AtWork, Rows
  <2>4. Written'
    <3>1. ASSUME NEW i \in Jobs, job[i].step = "prune", NEW l \in Keys(job[i].group, job[i].rows)
          PROVE  /\ l \in DOMAIN trades'
                 /\ trades'[l].ids = TradeOf(l, job[i].rows).ids
                 /\ trades'[l].fees = TradeOf(l, job[i].rows).fees
      <4>1. l \in DOMAIN trades /\ InStep(l, job[i].rows)
        BY <2>1, <3>1 DEF Written
      <4> QED BY <1>2, <1>3, <4>1 DEF InStep
    <3> QED BY <1>1, <3>1 DEF Written, InStep
  <2>5. Remembered'
    BY <1>1, <1>6, <1>8, <1>10, <2>1 DEF Remembered
  <2> QED BY <2>2, <2>3, <2>4, <2>5
<1> QED BY <1>1, <1>4, <1>5, <1>7, <1>11 DEF InboxInv

-----------------------------------------------------------------------------
LEMMA InitHolds ==
  ASSUME Init
  PROVE  LedgerInv
<1> USE DEF Init
<1>1. job \in [Jobs -> JobRecs] /\ \A j \in Jobs : job[j] = NoJob
  BY NoJobFacts
<1>2. \A j \in Jobs : /\ job[j].step = "free" /\ job[j].todo = {} /\ job[j].group = None
                      /\ ~AtWork(j) /\ Works(j) = {None}
  BY <1>1, NoJobFacts DEF AtWork, Works
<1>3. DOMAIN trades = {ManualKey} /\ ManualKey.group = Manual /\ DOMAIN trades[ManualKey] = TradeFields
  BY DEF ManualKey, TradeFields
<1>4. market \in Seq(Executions) /\ inbox \in Seq(Frames) /\ DOMAIN inbox = {}
  OBVIOUS
<1>5. LedgerTypes
  BY <1>1, <1>3, <1>4 DEF LedgerTypes
<1>6. InboxInv /\ FillsInv
  BY <1>4 DEF InboxInv, FillsInv, StoredOnce
<1>7. GroupsInv
  BY <1>2, <1>3 DEF GroupsInv
<1>8. ManualStays
  BY <1>3 DEF ManualStays
<1>9. \A g : Rows(g) = {}
  BY DEF Rows
<1>10. Alone /\ RowsRead /\ Written /\ Remembered
  <2>1. Alone
    BY <1>2, GroupFacts DEF Alone
  <2>2. RowsRead /\ Written
    BY <1>2 DEF RowsRead, Written
  <2>3. Remembered
    BY <1>9 DEF Remembered
  <2> QED BY <2>1, <2>2, <2>3
<1> QED BY <1>5, <1>6, <1>7, <1>8, <1>10 DEF LedgerInv

LEMMA StutterHolds ==
  ASSUME LedgerInv, UNCHANGED vars
  PROVE  LedgerInv'
<1> USE DEF LedgerInv
<1>1. UNCHANGED <<market, charged, inbox, bound, fills, dirty, asked, job, trades, mishap>>
  BY DEF vars, broker, sync, pump, counts
<1>2. FillsInv'
  BY <1>1, FillsStay
<1> QED BY <1>1, <1>2, QuietStays DEF LedgerTypes, InboxInv

LEMMA StepHolds ==
  ASSUME LedgerInv, Next
  PROVE  LedgerInv'
<1> USE DEF LedgerInv
<1>1. ASSUME NEW g \in bound.groups, NEW side \in Sides, NEW qty \in 1 .. bound.qty, NEW step \in {0, 1},
             NEW rank \in 1 .. bound.ranks, Execute(g, side, qty, step, rank)
      PROVE  LedgerInv'
  <2>1. bound.groups \subseteq Groups /\ bound.qty \in Nat /\ bound.ranks \in Nat
    BY GroupFacts DEF LedgerTypes
  <2>2. g \in Groups /\ qty \in Nat /\ rank \in Nat
    BY <2>1
  <2> QED BY <1>1, <2>2, ExecuteStep, QuietStays
<1>2. ASSUME NEW n \in DOMAIN market, Charge(n)
      PROVE  LedgerInv'
  BY <1>2, ChargeStep, QuietStays
<1>3. CASE Connect \/ Drop
  BY <1>3, ConnectStep, QuietStays
<1>4. CASE HandleFill
  BY <1>4, FillStep
<1>5. CASE HandleFee
  BY <1>5, FeeStep
<1>6. CASE Post
  BY <1>6, PostStep
<1>7. CASE Answer \/ LostCall
  BY <1>7, AnswerStep
<1>8. ASSUME NEW n \in DOMAIN market, ImportCsv(n)
      PROVE  LedgerInv'
  BY <1>8, ImportStep
<1>9. ASSUME NEW j \in Jobs, Read(j) \/ Write(j) \/ Prune(j)
      PROVE  LedgerInv'
  BY <1>9, ReadStep, WriteStep, PruneStep
<1>10. ASSUME NEW k \in DOMAIN trades, Tag(k)
       PROVE  LedgerInv'
  BY <1>10, TagStep
<1> HIDE DEF LedgerInv
<1> QED BY <1>1, <1>2, <1>3, <1>4, <1>5, <1>6, <1>7, <1>8, <1>9, <1>10 DEF Next

(* The inductive invariant, for any groups, jobs and scenarios: what is    *)
(* stored, marked, worked on and written keeps together through every      *)
(* order of fills, fees, replays, imports, rebuilds and failures           *)
(* (fill_pump.py, lib/ingest/rebuild.ts).                                  *)
THEOREM LedgerInvariant == Spec => []LedgerInv
<1>1. LedgerInv /\ [Next]_vars => LedgerInv'
  BY StepHolds, StutterHolds
<1> QED BY <1>1, InitHolds, PTL DEF Spec

(* A fill counts once however often it is replayed or imported, trades     *)
(* that lag behind their fills are marked or worked on as long as nothing  *)
(* failed or overlapped, a group without fills has no trades, and what was *)
(* entered by hand stays (fill_pump.py, lib/ingest/rebuild.ts).            *)
THEOREM LedgerKeepsStep == Spec => []LedgerInStep
<1>1. LedgerInv => LedgerInStep
  <2> SUFFICES ASSUME LedgerInv
               PROVE  LedgerInStep
    OBVIOUS
  <2>1. StoredOnce /\ ManualStays
    BY DEF LedgerInv, FillsInv
  <2>2. ASSUME ~mishap, NEW g \in Groups
        PROVE  IF Rows(g) = {} THEN TradesOf(g) = {} ELSE Lags(g) => (g \in dirty \/ \E j \in Jobs : g \in Works(j))
    <3>1. CASE Rows(g) = {}
      <4>1. g \notin Filled /\ g # Manual
        BY <3>1, FilledFacts, GroupFacts
      <4>2. \A k \in DOMAIN trades : k.group # g
        BY <4>1 DEF LedgerInv, GroupsInv
      <4> QED BY <3>1, <4>2 DEF TradesOf
    <3>2. CASE Rows(g) # {}
      BY <2>2, <3>2 DEF LedgerInv, Remembered
    <3> QED BY <3>1, <3>2
  <2>3. LagIsMarked
    BY <2>2 DEF LagIsMarked
  <2> QED BY <2>1, <2>3 DEF LedgerInStep
<1> QED BY <1>1, LedgerInvariant, PTL
=============================================================================
