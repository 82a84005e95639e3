------------------------------ MODULE Studies -------------------------------
(***************************************************************************)
(* The research studies as they read a session: a file that grows a few    *)
(* minutes at a time and that every study scans from its beginning.  What  *)
(* the studies find decides which strategy is built and run, so the        *)
(* questions are whether a scan uses what was not yet known, whether its   *)
(* simulated trades could have been made, and whether it reports what its  *)
(* definition says.                                                        *)
(*                                                                         *)
(* bound is one of Scenarios: the study, the pieces a file is made of, its *)
(* longest length, and the study's inputs that the file does not hold.     *)
(* The file holds the minutes or five-minute records of one session, or,   *)
(* for the studies that walk forward, one session after the other.         *)
(***************************************************************************)
EXTENDS Vpc, Sdd, Ict, Sfb, Regimes, Fmb, Mae

CONSTANT Scenarios

VARIABLES
  bound,
  tape,  \* the session file so far
  found  \* what the study finds in it

vars == <<bound, tape, found>>

(* The simulation is given a setup at every five-minute close.             *)
EveryClose(b, file) ==
  [i \in 1 .. Len(file) \div Block |-> [minute |-> i * Block, dir |-> b.dir, swing |-> b.swing]]

(* A trade at the open of every minute, as the engine would end it, and    *)
(* what the studies of past trades say of it.                              *)
Walks(b, file) ==
  {LET t == MarketEntry(file, k - 1, b.dir)
   IN  [trade |-> t, fmb |-> FirstPassage(file, k, b.dir, FlattenAt + 1).exit,
        ssx |-> Passage(file, t, FlattenAt), alone |-> InitialStopOnly(file, t),
        walk |-> WalkExcursions(file, t)] : k \in Present(file)}

Scan(b, file) ==
  CASE b.study = "setups" -> Setups(file, b.opt)
    [] b.study = "vpc"    -> SimulateCell(b.cell, EveryClose(b, file), file)
    [] b.study = "fvg"    -> StudyFvg(file, FALSE)
    [] b.study = "sweep"  -> StudySweep(file, FALSE, b.prev)
    [] b.study = "sfb"    -> FindEvents(file, b.levels, b.candles)
    [] b.study = "tape"   -> FiveMinutes(file)
    [] b.study = "walks"  -> Walks(b, file)
    [] b.study = "regimes" -> Decisions(file)
    [] b.study = "proxy"  -> ProxyDecisions(file, DOMAIN file)
    [] b.study = "rank"   -> Ranked(file)
    [] b.study = "rcp"    -> StudyRcp(file)
    [] b.study = "odc"    -> StudyOdc(file)
    [] b.study = "paid"   -> StudyPaid(file)
    [] b.study = "cst"    -> StudyCst(file)
    [] b.study = "smt"    -> [window |-> ScanSession(file, b.day)] @@ ScanSessionState(file, b.day)

Pieces == {p \in bound.pieces : Len(tape) + Len(p) <= bound.length}

(* Minutes are drawn relative to the last close.                           *)
LastPrice == IF Present(tape) = {} THEN 0 ELSE LastClose(tape).px
Shifted(bar) ==
  IF bar = None THEN None
  ELSE [bar EXCEPT !.o = @ + LastPrice, !.h = @ + LastPrice, !.l = @ + LastPrice, !.c = @ + LastPrice]

Init ==
  /\ bound \in Scenarios
  /\ tape = <<>>
  /\ found = Scan(bound, <<>>)

Longer(piece) ==
  /\ tape' = tape \o piece
  /\ found' = Scan(bound, tape')
  /\ UNCHANGED bound

Forward == {"regimes", "proxy", "rank", "rcp", "odc", "paid", "cst"}

FiveMinuteRecord ==
  /\ bound.study \in {"setups", "smt"}
  /\ \E p \in Pieces : Longer(p)

NextSession ==
  /\ bound.study \in Forward
  /\ \E p \in Pieces : Longer(p)

Minutes ==
  /\ bound.study \notin {"setups", "smt"} \cup Forward
  /\ \E p \in Pieces : Longer([i \in DOMAIN p |-> Shifted(p[i])])

Next == FiveMinuteRecord \/ Minutes \/ NextSession
Spec == Init /\ [][Next]_vars

-----------------------------------------------------------------------------
Of(study) == bound.study = study
Closed(trade) == trade.exit.why # "end"

(* What is over and done with in the findings of a file.                   *)
Settled(f) ==
  CASE Of("setups") -> ToSet(f)
    [] Of("vpc")    -> {t \in ToSet(f) : Closed(t)}
    [] Of("sweep")  -> {s \in f : Closed(s.trade) /\ (s.native # None => s.native.why # "end")}
    [] Of("sfb")    -> {e \in f : e.verdict # "DROPPED"}
    [] Of("smt")    -> {e \in f.window : e.disp # None} \cup ToSet(f.events)
    [] Of("walks")  -> {w \in f : Closed(w.trade) /\ w.fmb.why # "end" /\ w.alone.why # "end"}
    [] bound.study \in Forward -> f
    [] OTHER        -> {}

(* No hindsight: a setup, a closed trade, a triggered event or a verdict   *)
(* found in a session so far is still found, unchanged, when the session   *)
(* goes on.  The scans run over whole files and index forwards and back;   *)
(* one that reads a bar too far reports what nobody could have traded.     *)
NoHindsight == [][Settled(found) \subseteq Settled(found')]_vars

(* The gap study has hindsight in one way only: a gap that formed while an *)
(* earlier limit was still waiting is traded or not depending on whether   *)
(* the earlier limit fills later (the session is scanned gap by gap, not   *)
(* minute by minute).                                                      *)
HindsightOnlyOfLimits ==
  [][Of("fvg") =>
       \A t \in ToSet(found) : Closed(t) =>
         \/ t \in ToSet(found')
         \/ \E u \in ToSet(found') : u.signal < t.signal /\ u.from > t.from]_vars

(* A study that walks forward finds, when a session is added, only what    *)
(* that session holds; the days before an expiry are told with it.         *)
ForwardOnly ==
  [][bound.study \in Forward \ {"rcp"} => \A x \in found' \ found : x.on = Len(tape')]_vars

(* "Zero lookahead": the tables, cuts and models a session is decided by   *)
(* are those before it, whatever the session then is; its records are      *)
(* told the same whatever follows them; and a direction taken from earlier *)
(* sessions is not the session's own.                                      *)
Instead(d, session) == {x \in Scan(bound, [tape EXCEPT ![d] = session]) : x.on = d}

ToldBefore(x, y) ==
  CASE Of("regimes") -> x.cut = y.cut /\ x.table = y.table /\ x.model = y.model
    [] Of("proxy")   -> x.table = y.table
    [] Of("rcp")     -> x.k = y.k => x.dir = y.dir
    [] Of("paid")    -> x.dir = y.dir
    [] OTHER         -> TRUE

ZeroLookahead ==
  bound.study \in Forward =>
    \A x \in found :
      /\ \A p \in bound.pieces : \A i \in DOMAIN p : \A y \in Instead(x.on, p[i]) : ToldBefore(x, y)
      /\ bound.study \in {"regimes", "proxy"} =>
           \A j \in DOMAIN x.bars :
             \A y \in Instead(x.on, [tape[x.on] EXCEPT !.bars = SubSeq(@, 1, j)]) :
               y.bars = SubSeq(x.bars, 1, j)

-----------------------------------------------------------------------------
(* The price a bar would have given had it traded high first or low first. *)
PathExit(bar, d, stop, target, highFirst) ==
  LET path == IF highFirst THEN <<bar.o, bar.h, bar.l, bar.c>> ELSE <<bar.o, bar.l, bar.h, bar.c>>
      Stops(i) == d * (path[i] - stop) <= 0
      Pays(i)  == target # None /\ d * (path[i] - target) >= 0
      hit      == FirstOf({i \in 1 .. 4 : Stops(i) \/ Pays(i)})
  IN  IF hit = None THEN None
      ELSE IF Stops(hit) THEN StopFill(bar, d, stop) ELSE target

MarketTrades == IF Of("vpc") THEN ToSet(found)
                ELSE IF Of("sweep") THEN {s.trade : s \in found} ELSE {}

TradeTarget(t) ==
  IF Of("vpc") THEN Target(bound.cell, [dir |-> t.dir, swing |-> bound.swing], t.entry)
  ELSE t.entry + t.dir * TargetTicks

(* Adverse first: in the bar that ends a trade entered at the market,      *)
(* neither order of its high and its low would have given a worse price    *)
(* than the one booked from the minute bar.                                *)
AdverseFirst ==
  \A t \in MarketTrades : \A highFirst \in BOOLEAN :
    LET px == PathExit(tape[t.exit.at], t.dir, t.entry - t.dir * StopTicks, TradeTarget(t), highFirst)
    IN  px # None => t.dir * t.exit.px <= t.dir * px

(* The studies that walk a past trade again end it in the minute and for   *)
(* the reason the engine's bracket did, at the same price, except that     *)
(* first_passage and the overlays book a stop the bar opened beyond at the *)
(* stop, less a tick; fmb1 leaves at the open after the flatten.           *)
WalksAgree ==
  Of("walks") =>
    \A w \in {w \in found : Closed(w.trade)} :
      LET e    == w.trade.exit
          stop == w.trade.entry - w.trade.dir * StopTicks
          late == e.why = "stop" /\ Gapped(tape[e.at], w.trade.dir, stop)
      IN  /\ w.ssx = IF late THEN [e EXCEPT !.px = stop - w.trade.dir] ELSE e
          /\ e.why # "time" /\ e.at <= FlattenAt => w.fmb = w.ssx
          /\ (w.walk.mae >= StopTicks) = (e.why = "stop")
          /\ late \/ StopAt(w.trade, w.walk.mae, StopTicks) = Result(w.trade)
          /\ e.why = "stop" /\ e.at <= FlattenAt =>
               w.alone = IF late THEN e ELSE [e EXCEPT !.px = stop]

(* The initial stop alone is "flat at the deadline", unless the minute of  *)
(* the deadline is missing: then the file's last close is taken, however   *)
(* late.                                                                   *)
FlatAtDeadline ==
  Of("walks") =>
    \A w \in found : w.alone.at > FlattenAt =>
      w.trade.from > FlattenAt \/ tape[FlattenAt] = None

(* One position at a time: a trade starts after the one before it is over, *)
(* for the pullbacks not at the close of the bar that ended it, and a      *)
(* session has no more of them than its cap.                               *)
OneAtATime ==
  LET apart == IF Of("vpc") THEN 1 ELSE 0 IN
  Of("vpc") \/ Of("fvg") =>
    /\ \A i, j \in DOMAIN found : i < j => found[j].from > found[i].exit.at + apart
    /\ Len(found) <= IF Of("vpc") THEN Cap ELSE GapCap

(* A five-minute bar is made of exactly its own minutes unless the block   *)
(* before it that had any lost its last one: then it may be cut from       *)
(* minutes of several blocks.                                              *)
BlocksWhole ==
  Of("tape") =>
    \A b \in DOMAIN found :
      LET before == {k \in Present(tape) : k <= b - Block}
          own    == {k \in Present(tape) : b - Block < k /\ k <= b}
      IN  (before = {} \/ Max(before) % Block = 0) =>
            Cardinality(own) = Block /\ ToSet(found[b].of) = own

(* A fade is entered after its breach, except where the breach is in the   *)
(* first minute of a five-minute bar: the scan then starts at the close    *)
(* before the breach, and a fade may be entered at the open of the very    *)
(* minute that breaches later.                                             *)
FadesFollowBreach ==
  Of("sweep") =>
    \A s \in found :
      s.trade.from > s.breach \/ (s.trade.from = s.breach /\ s.breach % Block = 1)

(* Sweeps of one minute within the tolerance of each other are one event,  *)
(* unless a level between them in the order of the classes, too far from   *)
(* the second, was taken in last.                                          *)
OneEventPerSweep ==
  Of("sfb") =>
    \A e, f \in found :
      e # f /\ InOrder(e.sweep, f.sweep) /\ SameSweep(e.sweep, f.sweep) =>
        \E g \in found : /\ InOrder(e.sweep, g.sweep) /\ InOrder(g.sweep, f.sweep)
                         /\ ~SameSweep(g.sweep, f.sweep)

-----------------------------------------------------------------------------
(* A setup is earned: a strong flow in its direction lies no more than     *)
(* TrendBars back and none against it after that, and an extension lies    *)
(* between the setup before it and its own pullback, since when a quiet    *)
(* one has seen no more than quiet flow against it.                        *)
SetupsEarned ==
  Of("setups") /\ bound.opt.trend = 0 /\ bound.opt.flow =>
    \A n \in DOMAIN found :
      LET s == found[n]
          seen == {i \in 1 .. s.at : tape[i].f1 # None /\ tape[i].off # None}
          With(i)   == tape[i].f1 * s.dir >= Strong
          Contra(i) == tape[i].f1 * s.dir <= -Strong
      IN  /\ \E i \in seen : With(i) /\ s.at - i <= TrendBars /\ \A j \in seen : j > i => ~Contra(j)
          /\ \E i \in seen : /\ tape[i].off * s.dir >= Extended
                             /\ \A m \in 1 .. (n - 1) : found[m].at < i
                             /\ s.flavor = "quiet" =>
                                  \A j \in seen : j > i => tape[j].f1 * s.dir > -Quiet

(* The absorbed flavour cannot happen where the study looks for it: a      *)
(* strong flow against the trend is an impulse of the other sign, and      *)
(* restarts the trend before it could be called absorbed.  It takes a bar  *)
(* without a VWAP, or the control's fixed trend.                           *)
AbsorbedOnlyUnseen ==
  Of("setups") =>
    \A s \in ToSet(found) : s.flavor = "absorbed" =>
      bound.opt.trend # 0 \/ \E i \in s.ext .. s.at : tape[i].f1 # None /\ tape[i].off = None

-----------------------------------------------------------------------------
(* A flag tells the truth while it is up: NQ has not traded beyond its     *)
(* level and, for a divergence, no ES extreme that NQ had a bar for has    *)
(* confirmed it; and it came down for a reason.                            *)
FlagsHonest ==
  Of("smt") =>
    LET x == Session(tape, bound.day)
        EsBefore(t, side) == {Edge(tape[u].es, side) : u \in {u \in 1 .. (t - 1) : tape[u].es # None}}
        Broken(up, j) ==
          \/ Past(up.side, Edge(x.nq[j], up.side), up.level)
          \/ /\ up.kind = "smt" /\ j > up.ext + 1 /\ x.es[j] # None
             /\ Past(up.side, Edge(x.es[j], up.side),
                     Best(up.side, Bound(bound.day.esRef[up.side]) \cup EsBefore(x.m5[j], up.side)))
    IN  \A k \in ToSet(found.killed) :
          /\ \A j \in (k.flag.ext + 1) .. (k.at - 1) : ~Broken(k.flag, j)
          /\ k.cause # "session_end" => Broken(k.flag, k.at)

(* The two triggers agree: a displacement the window finds after a         *)
(* divergence is the first one of the flag that divergence raised, unless  *)
(* ES took the flag down in between.                                       *)
TriggersAgree ==
  Of("smt") =>
    \A e \in found.window : e.disp # None /\ e.smt = "smt" =>
      \/ \E f \in ToSet(found.events) :
           f.side = e.side /\ f.ext = e.ext /\ f.disp = e.disp /\ f.kind = "smt" /\ f.rank = 1
      \/ \E k \in ToSet(found.killed) :
           k.flag.side = e.side /\ k.flag.ext = e.ext /\ k.cause = "es_confirm" /\ k.at <= e.disp

(* A displacement triggers one event of a side: the extreme it answers is  *)
(* the last one before it.                                                 *)
OneTrigger ==
  Of("smt") =>
    \A e, f \in found.window : e.disp # None /\ e.side = f.side /\ e.disp = f.disp => e.ext = f.ext

-----------------------------------------------------------------------------
(* The trades a study books could have been traded: at the adverse price,  *)
(* one at a time, after what they answer; and the studies agree on them.   *)
Tradable ==
  AdverseFirst /\ OneAtATime /\ FadesFollowBreach /\ WalksAgree /\ FlatAtDeadline

(* What a study finds is what it defines: whole bars, earned setups, true  *)
(* flags that trigger once, sweeps told apart, tables of the past only.    *)
AsDefined ==
  /\ BlocksWhole /\ OneEventPerSweep /\ SetupsEarned /\ AbsorbedOnlyUnseen
  /\ FlagsHonest /\ TriggersAgree /\ OneTrigger /\ ZeroLookahead

(* No study knows the future, but for the gaps and their limits.           *)
Causal == NoHindsight /\ HindsightOnlyOfLimits /\ ForwardOnly
=============================================================================
