------------------------------- MODULE Ledger -------------------------------
(***************************************************************************)
(* The desk's ledger: the broker's fills as they come over the user-sync   *)
(* websocket (tradovate.py) into the table of fills (fill_pump.py), and    *)
(* the trades rebuilt from them by the web application (lib/ingest), also  *)
(* after an import of the broker's CSV export.                             *)
(*                                                                         *)
(* A fill is its number in the order the broker executed them, with a      *)
(* group (account and contract), a side, a quantity, a timestamp, and its  *)
(* rank among the fills of the same moment, which is not the order they    *)
(* were executed in: their order and execution ids are compared as text.   *)
(* Its price is left out, its fee is one unit per contract once known.     *)
(***************************************************************************)
EXTENDS Integers, Sequences, FiniteSets, SequencesExt, FiniteSetsExt

CONSTANTS
  None,
  Groups,       \* (account, contract) pairs with fills
  CsvHasIds,    \* whether the CSV export has a column of execution ids
  Jobs,         \* bound: rebuilds that run at once
  Scenarios     \* bounds: each with the groups that trade, the number of fills,
                \* contracts of a fill, ranks in a moment, fees, lost connections,
                \* statements and calls that fail, imports, and trades the user tags

Sides == {1, -1}   \* bought, sold
Manual == "manual"

ASSUME LedgerAssumption ==
  /\ Manual \notin Groups /\ None \notin Groups /\ IsFiniteSet(Groups) /\ CsvHasIds \in BOOLEAN
  /\ IsFiniteSet(Jobs)
  /\ Scenarios \subseteq [groups : SUBSET Groups, fills : Nat, qty : Nat \ {0}, ranks : Nat,
                          fees : Nat, drops : Nat, fails : Nat, imports : Nat, tags : Nat]

VARIABLES
  bound,      \* the scenario of this behaviour
  market,     \* fills the broker has executed, in order
  charged,    \* numbers of the fills whose fee the broker has reported
  ws,         \* UserSync: whether the websocket is open
  inbox,      \* its frames that have not been handled, oldest first
  fills,      \* table fills
  dirty,      \* FillPump._dirty
  task,       \* FillPump._rebuild_task: "none", "asleep" or "posted"
  asked,      \* the groups of its request
  answerer,   \* the job that works on its request, or None
  job,        \* rebuildGroups at work: job -> its step, groups and rows
  trades,     \* table trades: natural key -> row
  missed,     \* history: fills whose lookup or upsert failed
  late,       \* history: groups that got a fill which sorts before one they had
  mishap,     \* history: a request failed, or two rebuilds ran at once
  drops, fails, imports, tags

broker == <<market, charged>>
sync == <<ws, inbox>>
pump == <<dirty, task, asked, answerer>>
counts == <<bound, drops, fails, imports, tags>>
vars == <<broker, sync, fills, pump, job, trades, missed, late, mishap, counts>>

-----------------------------------------------------------------------------
(* reconstructTrades (lib/ingest/reconstruct.ts): a walk over one group's  *)
(* fills in order of time, order and execution, which holds the open       *)
(* position.  A fill against it closes at most what is open; what is left  *)
(* of it opens the next trade, and takes its share of the fee with it.     *)
Before(a, b) ==
  \/ a.at < b.at
  \/ a.at = b.at /\ (a.rank < b.rank \/ (a.rank = b.rank /\ a.copy < b.copy))

Sorted(rows) == SetToSortSeq(rows, Before)

Fee(row, qty) == IF row.fee THEN qty ELSE 0

OpenedBy(row, qty) ==
  [dir |-> row.side, at |-> row.at, size |-> qty, entered |-> qty, exited |-> 0,
   fees |-> Fee(row, qty), ids |-> {row.n}]

Scaled(open, row) ==
  [open EXCEPT !.size = @ + row.qty, !.entered = @ + row.qty,
               !.fees = @ + Fee(row, row.qty), !.ids = @ \cup {row.n}]

ClosedBy(open, row) == IF row.qty < open.size THEN row.qty ELSE open.size

Reduced(open, row) ==
  LET qty == ClosedBy(open, row)
  IN [open EXCEPT !.size = @ - qty, !.exited = @ + qty,
                  !.fees = @ + Fee(row, qty), !.ids = @ \cup {row.n}]

(* Mutant: the next trade bears the whole fee of a fill that crosses zero. *)
FlippedAtFullFee(open, row) ==
  LET left == row.qty - ClosedBy(open, row)
  IN IF left > 0 THEN [OpenedBy(row, left) EXCEPT !.fees = Fee(row, row.qty)] ELSE None

Flipped(open, row) ==
  LET left == row.qty - ClosedBy(open, row)
  IN IF left > 0 THEN OpenedBy(row, left) ELSE None

Walked(walk, row) ==
  IF walk.open = None THEN [walk EXCEPT !.open = OpenedBy(row, row.qty)]
  ELSE IF row.side = walk.open.dir THEN [walk EXCEPT !.open = Scaled(@, row)]
  ELSE IF ClosedBy(walk.open, row) < walk.open.size THEN [walk EXCEPT !.open = Reduced(@, row)]
  ELSE [trades |-> Append(walk.trades, Reduced(walk.open, row)), open |-> Flipped(walk.open, row)]

Reconstructed(rows) == FoldLeft(Walked, [trades |-> <<>>, open |-> None], Sorted(rows))

Rows(g) == {r \in fills : r.group = g}
KeyOf(g, t) == [group |-> g, dir |-> t.dir, at |-> t.at]
Keys(g, rows) == {KeyOf(g, t) : t \in ToSet(Reconstructed(rows).trades)}
TradeOf(k, rows) ==
  CHOOSE t \in ToSet(Reconstructed(rows).trades) : t.dir = k.dir /\ t.at = k.at
Row(k, rows, tagged) ==
  LET t == TradeOf(k, rows) IN [ids |-> t.ids, fees |-> t.fees, tagged |-> tagged]

-----------------------------------------------------------------------------
NoJob == [step |-> "free", todo |-> {}, group |-> None, rows |-> {}]

ManualKey == [group |-> Manual, dir |-> 1, at |-> 0]

Init ==
  /\ bound \in Scenarios
  /\ market = <<>> /\ charged = {}
  /\ ws = FALSE /\ inbox = <<>>
  /\ fills = {} /\ dirty = {} /\ task = "none" /\ asked = {} /\ answerer = None
  /\ job = [j \in Jobs |-> NoJob]
  /\ trades = [k \in {ManualKey} |-> [ids |-> {}, fees |-> 0, tagged |-> TRUE]]
  /\ missed = {} /\ late = {} /\ mishap = FALSE
  /\ drops = 0 /\ fails = 0 /\ imports = 0 /\ tags = 0

(* The broker: a fill, perhaps at the same moment as the one before, and   *)
(* later the fee of it.                                                    *)
Pushed(msg) == IF ws THEN Append(inbox, msg) ELSE inbox

Execute(g, side, qty, step, rank) ==
  LET n == Len(market) + 1
      at == IF market = <<>> THEN 1 ELSE market[n - 1].at + step
  IN /\ n <= bound.fills
     /\ \A m \in DOMAIN market : market[m].at = at => market[m].rank # rank
     /\ market' = Append(market, [group |-> g, side |-> side, qty |-> qty, at |-> at, rank |-> rank])
     /\ inbox' = Pushed([kind |-> "fill", n |-> n])
     /\ UNCHANGED <<charged, ws, fills, pump, job, trades, missed, late, mishap, counts>>

Charge(n) ==
  /\ n \in DOMAIN market \ charged /\ Cardinality(charged) < bound.fees
  /\ charged' = charged \cup {n} /\ inbox' = Pushed([kind |-> "fee", n |-> n])
  /\ UNCHANGED <<market, ws, fills, pump, job, trades, missed, late, mishap, counts>>

-----------------------------------------------------------------------------
(* UserSync.run_forever: whenever the connection is gone it is made again, *)
(* and the snapshot that follows replays every fill and fee of the account.*)
Snapshot ==
  [n \in 1 .. Len(market) |-> [kind |-> "fill", n |-> n]]
    \o SetToSeq({[kind |-> "fee", n |-> n] : n \in charged})

Connect ==
  /\ ~ws /\ ws' = TRUE /\ inbox' = Snapshot
  /\ UNCHANGED <<broker, fills, pump, job, trades, missed, late, mishap, counts>>

Drop ==
  /\ ws /\ drops < bound.drops /\ drops' = drops + 1
  /\ ws' = FALSE /\ inbox' = <<>>
  /\ UNCHANGED <<broker, fills, pump, job, trades, missed, late, mishap, bound, fails, imports, tags>>

(* FillPump._mark_dirty: a task is made only when there is none or the     *)
(* last one has ended.                                                     *)
(* Mutant: while there is one, nothing is marked.                          *)
MarkedOnce(gs) == IF task = "none" THEN dirty \cup gs ELSE dirty

Marked(gs) == dirty \cup gs

MarkDirty(gs) ==
  /\ dirty' = Marked(gs)
  /\ task' = IF gs # {} /\ task = "none" THEN "asleep" ELSE task
  /\ UNCHANGED <<asked, answerer>>

(* The row of a fill, as the API or the CSV export names it: an export     *)
(* without execution ids gets ids of its own.                              *)
Api == 0
Csv == 1

FillRow(n, fee, copy) ==
  [n |-> n, copy |-> copy, fee |-> fee, group |-> market[n].group, side |-> market[n].side,
   qty |-> market[n].qty, at |-> market[n].at, rank |-> market[n].rank]

SameKey(a, b) == a.n = b.n /\ a.copy = b.copy

New(rows) == {r \in rows : ~\E q \in fills : SameKey(q, r)}

Overtaken(rows) == {r.group : r \in {x \in rows : \E q \in fills : q.group = x.group /\ Before(x, q)}}

Upsert(rows) == fills' = fills \cup New(rows) /\ late' = late \cup Overtaken(New(rows))

(* A request to the database that fails: the event loop logs it and goes   *)
(* on.  It may have been carried out all the same.                         *)
Errs == fails < bound.fails /\ fails' = fails + 1

(* FillPump.handle_fill: order, account and contract looked up, the row    *)
(* upserted, the group marked; whatever fails is logged and dropped.       *)
HandleFill ==
  /\ inbox # <<>> /\ Head(inbox).kind = "fill" /\ inbox' = Tail(inbox)
  /\ LET n == Head(inbox).n  rows == {FillRow(n, FALSE, Api)}
     IN \/ /\ Upsert(rows) /\ MarkDirty({market[n].group})
           /\ missed' = missed \ {n} /\ UNCHANGED <<mishap, fails>>
        \/ Errs /\ missed' = missed \cup {n} /\ UNCHANGED <<fills, late, pump, mishap>>
        \/ Errs /\ Upsert(rows) /\ mishap' = TRUE /\ UNCHANGED <<missed, pump>>
  /\ UNCHANGED <<broker, ws, job, trades, bound, drops, imports, tags>>

(* FillPump.handle_fill_fee: folded into the row, if it is there.          *)
Charged(rows, n) == {IF r.n = n /\ r.copy = Api THEN [r EXCEPT !.fee = TRUE] ELSE r : r \in rows}

HandleFee ==
  /\ inbox # <<>> /\ Head(inbox).kind = "fee" /\ inbox' = Tail(inbox)
  /\ LET n == Head(inbox).n
     IN \/ /\ fills' = Charged(fills, n)
           /\ MarkDirty({r.group : r \in {q \in fills : q.n = n /\ q.copy = Api}})
           /\ UNCHANGED <<mishap, fails>>
        \/ Errs /\ UNCHANGED <<fills, pump, mishap>>
        \/ Errs /\ fills' = Charged(fills, n) /\ mishap' = TRUE /\ UNCHANGED pump
  /\ UNCHANGED <<broker, ws, job, trades, missed, late, bound, drops, imports, tags>>

-----------------------------------------------------------------------------
(* A rebuild starts in the web application: asked for by the pump, or by   *)
(* an import.  Two that work on one group at once are a mishap.            *)
Busy(j) == job[j].step # "free"
Works(j) == IF job[j].step \in {"ok", "failed"} THEN {} ELSE job[j].todo \cup {job[j].group}
Overlaps(gs) == \E j \in Jobs : Works(j) \cap gs # {}
Started(gs) == [NoJob EXCEPT !.step = "next", !.todo = gs]

(* FillPump._rebuild_soon: after the debounce the marked groups are taken  *)
(* and posted; an answer other than 200 is logged.                         *)
Post ==
  /\ task = "asleep" /\ dirty # {}
  /\ task' = "posted" /\ asked' = dirty /\ dirty' = {}
  /\ \E j \in Jobs :
       /\ ~Busy(j) /\ job' = [job EXCEPT ![j] = Started(dirty)] /\ answerer' = j
  /\ mishap' = (mishap \/ Overlaps(dirty))
  /\ UNCHANGED <<broker, sync, fills, trades, missed, late, counts>>

Answer ==
  /\ answerer # None /\ job[answerer].step \in {"ok", "failed"}
  /\ mishap' = (mishap \/ job[answerer].step = "failed")
  /\ job' = [job EXCEPT ![answerer] = NoJob] /\ answerer' = None
  /\ task' = "none" /\ asked' = {}
  /\ UNCHANGED <<broker, sync, fills, dirty, trades, missed, late, counts>>

(* The call is lost: after a ClientError the groups are marked again, but  *)
(* no task is made for them; after a timeout, which is not a ClientError,  *)
(* the task ends with the exception.  What was begun goes on.              *)
LostCall ==
  /\ task = "posted" /\ fails < bound.fails /\ fails' = fails + 1
  /\ dirty' \in {dirty \cup asked, dirty}
  /\ task' = "none" /\ asked' = {} /\ answerer' = None /\ mishap' = TRUE
  /\ job' = IF job[answerer].step \in {"ok", "failed"} THEN [job EXCEPT ![answerer] = NoJob] ELSE job
  /\ UNCHANGED <<broker, sync, fills, trades, missed, late, bound, drops, imports, tags>>

(* importCsv: the file's fills are upserted, then the groups they belong   *)
(* to rebuilt.  An export reaches from some fill to the latest one.        *)
CsvCopy == IF CsvHasIds THEN Api ELSE Csv

ImportCsv(first) ==
  /\ imports < bound.imports /\ imports' = imports + 1
  /\ LET ns == first .. Len(market)
         gs == {market[n].group : n \in ns}
     IN /\ ns # {}
        /\ Upsert({FillRow(n, n \in charged, CsvCopy) : n \in ns})
        /\ missed' = missed \ ns
        /\ \E j \in Jobs : ~Busy(j) /\ job' = [job EXCEPT ![j] = Started(gs)]
        /\ mishap' = (mishap \/ Overlaps(gs))
  /\ UNCHANGED <<broker, sync, pump, trades, bound, drops, fails, tags>>

-----------------------------------------------------------------------------
(* rebuildGroups: group after group, its fills are read, its trades        *)
(* upserted, the trades it no longer has pruned.  An error in reading or   *)
(* writing ends the whole rebuild; one in pruning is a warning.            *)
Ended(j, step) == IF answerer = j THEN [NoJob EXCEPT !.step = step] ELSE NoJob

Read(j) ==
  /\ job[j].step = "next" /\ job[j].todo # {}
  /\ \/ /\ \E g \in job[j].todo :
             job' = [job EXCEPT ![j] = [step |-> "write", todo |-> job[j].todo \ {g},
                                        group |-> g, rows |-> Rows(g)]]
        /\ UNCHANGED <<fails, mishap>>
     \/ Errs /\ mishap' = TRUE /\ job' = [job EXCEPT ![j] = Ended(j, "failed")]
  /\ UNCHANGED <<broker, sync, fills, pump, trades, missed, late, bound, drops, imports, tags>>

(* Two trades of one key in one statement are an error of the database.    *)
(* Mutant: a trade that is written again loses what the user attached.     *)
TwiceKeyed(rows) ==
  LET ts == Reconstructed(rows).trades
  IN \E a, b \in DOMAIN ts : a # b /\ ts[a].dir = ts[b].dir /\ ts[a].at = ts[b].at

KeptTagNever(k) == FALSE

KeptTag(k) == k \in DOMAIN trades /\ trades[k].tagged

Write(j) ==
  /\ job[j].step = "write"
  /\ LET rows == job[j].rows
         keys == Keys(job[j].group, rows)
     IN \/ /\ ~TwiceKeyed(rows)
           /\ trades' = [k \in DOMAIN trades \cup keys |->
                           IF k \in keys THEN Row(k, rows, KeptTag(k)) ELSE trades[k]]
           /\ job' = [job EXCEPT ![j].step = "prune"] /\ UNCHANGED <<fails, mishap>>
        \/ /\ TwiceKeyed(rows) /\ mishap' = TRUE
           /\ job' = [job EXCEPT ![j] = Ended(j, "failed")] /\ UNCHANGED <<fails, trades>>
        \/ Errs /\ mishap' = TRUE /\ job' = [job EXCEPT ![j] = Ended(j, "failed")] /\ UNCHANGED trades
  /\ UNCHANGED <<broker, sync, fills, pump, missed, late, bound, drops, imports, tags>>

Stale(g, rows) == {k \in DOMAIN trades : k.group = g} \ Keys(g, rows)

Prune(j) ==
  /\ job[j].step = "prune"
  /\ LET stale == Stale(job[j].group, job[j].rows)
     IN \/ /\ trades' = [k \in DOMAIN trades \ stale |-> trades[k]] /\ UNCHANGED <<fails, mishap>>
        \/ stale # {} /\ Errs /\ mishap' = TRUE /\ UNCHANGED trades
  /\ job' = [job EXCEPT ![j] = IF job[j].todo = {} THEN Ended(j, "ok")
                               ELSE [NoJob EXCEPT !.step = "next", !.todo = job[j].todo]]
  /\ UNCHANGED <<broker, sync, fills, pump, missed, late, bound, drops, imports, tags>>

(* The user attaches tags, a narrative or a screenshot to a trade.         *)
Tag(k) ==
  /\ tags < bound.tags /\ tags' = tags + 1 /\ k \in DOMAIN trades /\ ~trades[k].tagged
  /\ trades' = [trades EXCEPT ![k].tagged = TRUE]
  /\ UNCHANGED <<broker, sync, fills, pump, job, missed, late, mishap, bound, drops, fails, imports>>

Next ==
  \/ \E g \in bound.groups, side \in Sides, qty \in 1 .. bound.qty, step \in {0, 1},
        rank \in 1 .. bound.ranks : Execute(g, side, qty, step, rank)
  \/ \E n \in DOMAIN market : Charge(n)
  \/ Connect
  \/ Drop
  \/ HandleFill
  \/ HandleFee
  \/ Post
  \/ Answer
  \/ LostCall
  \/ \E n \in DOMAIN market : ImportCsv(n)
  \/ \E j \in Jobs : Read(j) \/ Write(j) \/ Prune(j)
  \/ \E k \in DOMAIN trades : Tag(k)

Spec == Init /\ [][Next]_vars

(* The event loops run: the connection is retried, frames are handled.     *)
FairSpec == Spec /\ WF_vars(Connect) /\ WF_vars(HandleFill) /\ WF_vars(HandleFee)

-----------------------------------------------------------------------------
(* Types.                                                                  *)
FillRows ==
  [n : 1 .. bound.fills, copy : {Api, Csv}, fee : BOOLEAN, group : Groups, side : Sides,
   qty : 1 .. bound.qty, at : 1 .. bound.fills, rank : 1 .. bound.ranks]

TypeOK ==
  /\ Len(market) <= bound.fills /\ charged \subseteq DOMAIN market
  /\ fills \subseteq FillRows
  /\ ws \in BOOLEAN /\ \A m \in ToSet(inbox) : m.kind \in {"fill", "fee"} /\ m.n \in DOMAIN market
  /\ dirty \cup asked \subseteq Groups /\ task \in {"none", "asleep", "posted"}
  /\ answerer \in Jobs \cup {None} /\ (answerer # None => task = "posted")
  /\ \A j \in Jobs :
       /\ job[j].step \in {"free", "next", "write", "prune", "ok", "failed"}
       /\ job[j].todo \subseteq Groups /\ job[j].rows \subseteq FillRows
  /\ DOMAIN trades \subseteq [group : Groups \cup {Manual}, dir : Sides, at : 0 .. bound.fills]
  /\ missed \subseteq DOMAIN market /\ late \subseteq Groups /\ mishap \in BOOLEAN

(* However often a fill is replayed by a snapshot or imported again, the   *)
(* table has it once, as the broker executed it, with a fee only when the  *)
(* broker has reported it (the natural key of table fills, fill_pump.py).  *)
StoredOnce ==
  /\ \A r \in fills : r.n \in DOMAIN market /\ r = FillRow(r.n, r.fee, r.copy) /\ (r.fee => r.n \in charged)
  /\ \A q, r \in fills : (q.n = r.n /\ (CsvHasIds \/ q.copy = r.copy)) => q = r

Net(rows) == FoldSet(LAMBDA r, sum : sum + r.side * r.qty, 0, rows)

(* Every contract and every fee of every fill is in exactly one trade or   *)
(* in the open position, flips included, and the open position is the net  *)
(* of the fills (reconstructTrades).                                       *)
Accounted ==
  \A g \in Groups :
    LET rec == Reconstructed(Rows(g))
        parts == rec.trades \o (IF rec.open = None THEN <<>> ELSE <<rec.open>>)
        Total(Of(_)) == FoldLeft(LAMBDA sum, t : sum + Of(t), 0, parts)
    IN /\ Total(LAMBDA t : t.entered + t.exited) = FoldSet(LAMBDA r, sum : sum + r.qty, 0, Rows(g))
       /\ Total(LAMBDA t : t.fees) = FoldSet(LAMBDA r, sum : sum + Fee(r, r.qty), 0, Rows(g))
       /\ Net(Rows(g)) = IF rec.open = None THEN 0 ELSE rec.open.dir * rec.open.size

(* The trades a user entered by hand are no rebuild's to prune.            *)
ManualStays == ManualKey \in DOMAIN trades

(* As long as no request failed and no two rebuilds overlapped, a group    *)
(* whose trades lag behind its fills is marked for a rebuild, or one is at *)
(* work on it; a group without fills has no trades.                        *)
TradesOf(g) == {k \in DOMAIN trades : k.group = g}

Lags(g) ==
  \/ TradesOf(g) # Keys(g, Rows(g))
  \/ \E k \in TradesOf(g) : trades[k].ids # TradeOf(k, Rows(g)).ids \/ trades[k].fees # TradeOf(k, Rows(g)).fees

LagIsMarked ==
  ~mishap => \A g \in Groups :
    IF Rows(g) = {} THEN TradesOf(g) = {} ELSE Lags(g) => (g \in dirty \/ \E j \in Jobs : g \in Works(j))

(* A trade that is in the journal stays there with what the user attached  *)
(* to it, through every later fill, fee, replay, import and rebuild, as    *)
(* long as its group got its fills in the order they are walked in, no     *)
(* request failed and no two rebuilds overlapped.  A fill that arrives     *)
(* after one it sorts before, because it was imported, looked up or        *)
(* ranked late, may regroup the trades, and the next rebuild prunes.       *)
TradesStay ==
  [][\A k \in DOMAIN trades :
       ~mishap' /\ k.group \notin late' =>
         k \in DOMAIN trades' /\ (trades[k].tagged => trades'[k].tagged)]_vars

(* What was missed while the connection was down comes with the snapshot:  *)
(* every fill reaches the table unless its own lookup fails.               *)
SnapshotBackfills ==
  \A n \in 1 .. 3 : (n \in DOMAIN market) ~> (n \in missed \/ \E r \in fills : r.n = n)

(* The ledger adds up: every contract and every fee is in one trade or the *)
(* open position (reconstruct.ts).                                         *)
LedgerAddsUp == TypeOK /\ Accounted

(* The ledger keeps step: a fill counts once, trades that lag behind their *)
(* fills are marked, and those entered by hand stay (fill_pump.py,         *)
(* rebuild.ts).                                                            *)
LedgerInStep == StoredOnce /\ LagIsMarked /\ ManualStays

(* Nothing is lost: no rebuild takes from the user the tags of a trade     *)
(* that later fills leave in place, and what was missed while the          *)
(* connection was down comes back.                                         *)
NothingLost == TradesStay /\ SnapshotBackfills
=============================================================================
