-------------------------------- MODULE Flow --------------------------------
(***************************************************************************)
(* Tick flow (flow.py) and its two users: the shadow run, which feeds live *)
(* ticks to FlowEngine, keeps the session's minutes in a file and          *)
(* calibrates tomorrow from the files (run_shadow.py), and the desk's      *)
(* market state engine, which keeps the volume at each price (state/).     *)
(*                                                                         *)
(* A tick is one contract at a price, in a minute of a session, with the   *)
(* side of its aggressor.  A ratio of flow is the pair it divides.         *)
(***************************************************************************)
EXTENDS Integers, Sequences, FiniteSets, SequencesExt, FiniteSetsExt, Functions, Folds

CONSTANTS
  None,
  Prices,
  Span,         \* minutes of a decision record (5)
  LastIndex,    \* RTH_LAST_INDEX: the last minute of a session
  EndMinute,    \* the minute in which a shadow run stops (16:35)
  Behind,       \* minutes before now at which the state engine begins (5)
  Days,
  Scenarios     \* bounds: each with the days, ticks, sides of a tick, and how often the
                \* shadow run may stop with its finally block, or be killed, and start
                \* late, and the state engine start again

Sides == {"B", "A", "N"}

ASSUME FlowAssumption ==
  /\ Prices \subseteq Int /\ Span \in Nat \ {0} /\ LastIndex \in Nat /\ LastIndex % Span = 0
  /\ EndMinute \in Nat /\ EndMinute > LastIndex /\ Behind \in Nat /\ IsFiniteSet(Days)
  /\ Days = 1 .. Cardinality(Days) /\ Days # {}
  /\ \A s \in Scenarios : s.sides \subseteq Sides /\ s.days \in Days

VARIABLES
  bound,     \* the scenario of this behaviour
  now,       \* [day, minute]
  tape,      \* the market's ticks, oldest first
  offline,   \* history: session -> its aggregates, recomputed from all of its ticks
  priors,    \* history: those aggregates before each tick of the tape
  shadow,    \* the shadow run: whether it is up, the ticks it was fed, its FlowEngine
  book,      \* the decisions it handed to the strategy: session -> end -> record
  rows,      \* its state store: session -> last minute of the bars it processed, or None
  files,     \* var/flow: session -> record
  calibrated,\* sessions whose files the calibration was computed from
  rough,     \* history: sessions in which a run stopped or began after the first tick
  gapped,    \* history: sessions in which a run was killed or began after the first tick
  state,     \* the market state engine
  vbp,       \* redis desk:vbp:<minute>: [day, minute] -> price -> volume
  used       \* what has been used of the bound

shadowVars == <<shadow, book, rows, files, calibrated, rough, gapped>>
deskVars == <<state, vbp>>
market == <<tape, offline, priors>>
vars == <<bound, now, market, shadowVars, deskVars, used>>

-----------------------------------------------------------------------------
(* MinuteFlowAggregator: an unknown side is resolved by the tick rule; what *)
(* neither resolves counts as volume only.                                 *)
NoMinute == [buy |-> 0, sell |-> 0, vol |-> 0]
FreshAgg == [minutes |-> <<>>, prev |-> None, dir |-> 0, unknown |-> 0, total |-> 0]

Put(minutes, i, new) ==
  [k \in DOMAIN minutes \cup {i} |-> IF k = i THEN new ELSE minutes[k]]

MinuteOf(agg, i) == IF i \in DOMAIN agg.minutes THEN agg.minutes[i] ELSE NoMinute

Sign(x) == IF x > 0 THEN 1 ELSE IF x < 0 THEN -1 ELSE 0

Rule(agg, tick) ==
  IF agg.prev = None THEN 0
  ELSE IF tick.price = agg.prev THEN agg.dir ELSE Sign(tick.price - agg.prev)

Aggressor(agg, tick) ==
  CASE tick.side = "B" -> 1 [] tick.side = "A" -> -1 [] tick.side = "N" -> Rule(agg, tick)

OnTick(agg, tick) ==
  LET dir == Aggressor(agg, tick)
      m == MinuteOf(agg, tick.minute)
      next == [buy |-> m.buy + (IF dir = 1 THEN 1 ELSE 0), sell |-> m.sell + (IF dir = -1 THEN 1 ELSE 0),
               vol |-> m.vol + 1]
      rule == Rule(agg, tick)
  IN IF tick.minute \notin 1 .. LastIndex THEN agg
     ELSE [minutes |-> Put(agg.minutes, tick.minute, next), prev |-> tick.price,
           dir |-> IF rule = 0 THEN agg.dir ELSE rule,
           unknown |-> agg.unknown + (IF tick.side = "N" THEN 1 ELSE 0), total |-> agg.total + 1]

(* qa(): a session with no tick, or more than one in twenty of unknown side*)
Excluded(agg) == agg.total = 0 \/ agg.unknown * 20 > agg.total

(* flow_over                                                               *)
Window(agg, end, span) == Restrict(agg.minutes, {i \in DOMAIN agg.minutes : i \in end - span + 1 .. end})
Net(minutes) == MapThenSumSet(LAMBDA i : minutes[i].buy - minutes[i].sell, DOMAIN minutes)
Volume(minutes) == MapThenSumSet(LAMBDA i : minutes[i].vol, DOMAIN minutes)

FlowOver(agg, end, span) ==
  [net |-> Net(Window(agg, end, span)), vol |-> Volume(Window(agg, end, span))]

(* FlowEngine                                                              *)
FreshFlow == [session |-> None, agg |-> FreshAgg, emitted |-> 0]

Decision(agg, end) == [near |-> FlowOver(agg, end, Span), far |-> FlowOver(agg, end, 3 * Span)]

HasBars(agg, end) == \E i \in end - Span + 1 .. end : i \in DOMAIN agg.minutes

(* The boundaries that a tick in a minute completes.                       *)
Boundary(minute) == ((minute - 1) \div Span) * Span

(* Those not handed out yet.                                               *)
Emitted(flow, upto) ==
  {end \in flow.emitted + 1 .. (IF upto < LastIndex THEN upto ELSE LastIndex) : end % Span = 0}

Decided(bars, flow, ends) ==
  LET new == {end \in ends : HasBars(flow.agg, end)}
  IN [end \in DOMAIN bars \cup new |-> IF end \in new THEN Decision(flow.agg, end) ELSE bars[end]]

(* _new_session and on_tick.                                               *)
InSession(flow, tick) ==
  IF flow.session = tick.day THEN flow ELSE [FreshFlow EXCEPT !.session = tick.day]

Fed(flow, tick) ==
  LET begun == InSession(flow, tick)
      ends == Emitted(begun, Boundary(tick.minute))
  IN [begun EXCEPT !.agg = OnTick(@, tick), !.emitted = IF ends = {} THEN @ ELSE Max(ends)]

BookAfter(records, flow, tick) ==
  LET begun == InSession(flow, tick)
      bars == IF flow.session = tick.day THEN records[tick.day] ELSE <<>>
  IN [records EXCEPT ![tick.day] = Decided(bars, begun, Emitted(begun, Boundary(tick.minute)))]

-----------------------------------------------------------------------------
(* A session's file: its minutes, and whether the calibration skips it.    *)
Counts == [buy : Nat, sell : Nat, vol : Nat]
Tables == UNION {[S -> Counts] : S \in SUBSET (1 .. LastIndex)}
Files == [minutes : Tables, partial : BOOLEAN, excluded : BOOLEAN]

ASSUME FileAssumption == None \notin Files

FreshState ==
  [up |-> FALSE, pos |-> 0, last |-> None, bins |-> <<>>, tapped |-> 0, profile |-> <<>>]

Down == [up |-> FALSE, pos |-> 0, flow |-> FreshFlow]

Init ==
  /\ bound \in Scenarios
  /\ now = [day |-> 1, minute |-> 0]
  /\ tape = <<>> /\ offline = [d \in Days |-> FreshAgg] /\ priors = <<>>
  /\ shadow = Down /\ book = [d \in Days |-> <<>>]
  /\ rows = [d \in Days |-> None] /\ files = [d \in Days |-> None]
  /\ calibrated = {} /\ rough = {} /\ gapped = {}
  /\ state = FreshState /\ vbp = <<>>
  /\ used = [stops |-> 0, kills |-> 0, starts |-> 0]

Spend(kind) == used[kind] < bound[kind] /\ used' = [used EXCEPT ![kind] = @ + 1]

(* The market and the time.                                                *)
TickNow(price, side) == [day |-> now.day, minute |-> now.minute, price |-> price, side |-> side]

(* The offline recomputation (audit_drift.py): a session's ticks, all of   *)
(* them, in the order of the tape.                                         *)
Recomputed(tick) == [offline EXCEPT ![tick.day] = OnTick(@, tick)]

Trade(price, side) ==
  /\ Len(tape) < bound.ticks /\ side \in bound.sides
  /\ tape' = Append(tape, TickNow(price, side))
  /\ priors' = Append(priors, offline[now.day])
  /\ offline' = Recomputed(TickNow(price, side))
  /\ UNCHANGED <<bound, now, shadowVars, deskVars, used>>

Minute ==
  /\ now' = IF now.minute < EndMinute THEN [now EXCEPT !.minute = @ + 1]
            ELSE [day |-> now.day + 1, minute |-> 0]
  /\ now'.day <= bound.days
  /\ shadow.up => now'.day = now.day
  /\ UNCHANGED <<bound, market, shadowVars, deskVars, used>>

-----------------------------------------------------------------------------
(* run_shadow.main: what an earlier run of the day has written is          *)
(* preloaded; the engine resumes after the last bar it processed, the feed *)
(* replays what came since, or begins with what comes next.                *)
(* Mutant: a fresh engine, whatever the file says.                         *)
PreloadedNot(day) == FreshFlow
Preloaded(day) ==
  IF files[day] = None THEN FreshFlow
  ELSE [session |-> day, agg |-> [FreshAgg EXCEPT !.minutes = files[day].minutes], emitted |-> 0]

From(day) ==
  IF rows[day] = None THEN Len(tape)
  ELSE Cardinality({i \in DOMAIN tape : tape[i].day < day \/ (tape[i].day = day /\ tape[i].minute <= rows[day])})

Launch ==
  /\ ~shadow.up /\ now.minute < EndMinute /\ Spend("starts")
  /\ shadow' = [up |-> TRUE, pos |-> From(now.day), flow |-> Preloaded(now.day)]
  /\ book' = [d \in Days |-> <<>>]
  /\ LET late == rows[now.day] = None /\ (\E i \in DOMAIN tape : tape[i].day = now.day)
     IN /\ rough' = IF late THEN rough \cup {now.day} ELSE rough
        /\ gapped' = IF late THEN gapped \cup {now.day} ELSE gapped
  /\ UNCHANGED <<bound, now, market, rows, files, calibrated, deskVars>>

(* A tick reaches the tap, then the bars of the minutes before it close    *)
(* and the engine saves the last of them.                                  *)
Feed ==
  /\ shadow.up /\ shadow.pos < Len(tape)
  /\ LET tick == tape[shadow.pos + 1]
         prior == {i \in 1 .. shadow.pos : tape[i].day = tick.day /\ tape[i].minute < tick.minute}
     IN /\ shadow' = [shadow EXCEPT !.pos = @ + 1, !.flow = Fed(@, tick)]
        /\ book' = BookAfter(book, shadow.flow, tick)
        /\ rows' = IF prior = {} THEN rows ELSE [rows EXCEPT ![tick.day] = tape[Max(prior)].minute]
  /\ UNCHANGED <<bound, now, market, files, calibrated, rough, gapped, deskVars, used>>

(* The finally block: the file of the session, partial unless the session  *)
(* has ended; then the calibration, of what is neither partial nor         *)
(* excluded.                                                               *)
Written(partial) ==
  [minutes |-> shadow.flow.agg.minutes, partial |-> partial, excluded |-> Excluded(shadow.flow.agg)]

(* Mutant: a run that did not last writes nothing.                         *)
PersistedNot(partial) == IF partial THEN files ELSE [files EXCEPT ![now.day] = Written(partial)]

Persisted(partial) ==
  IF DOMAIN shadow.flow.agg.minutes = {} THEN files ELSE [files EXCEPT ![now.day] = Written(partial)]

(* compute_calibration.                                                    *)
Usable(store) == {d \in Days : store[d] # None /\ ~store[d].partial /\ ~store[d].excluded}

Finish ==
  /\ shadow.up /\ now.minute >= EndMinute /\ shadow.pos = Len(tape)
  /\ files' = Persisted(FALSE) /\ calibrated' = Usable(Persisted(FALSE))
  /\ shadow' = Down
  /\ UNCHANGED <<bound, now, market, book, rows, rough, gapped, deskVars, used>>

Stop ==
  /\ shadow.up /\ now.minute < EndMinute /\ Spend("stops")
  /\ files' = Persisted(TRUE) /\ shadow' = Down
  /\ rough' = rough \cup {now.day}
  /\ UNCHANGED <<bound, now, market, book, rows, calibrated, gapped, deskVars>>

Kill ==
  /\ shadow.up /\ Spend("kills")
  /\ shadow' = Down /\ rough' = rough \cup {now.day} /\ gapped' = gapped \cup {now.day}
  /\ UNCHANGED <<bound, now, market, book, rows, files, calibrated, deskVars>>

-----------------------------------------------------------------------------
(* DeskStateEngine.  PriceBinAggregator: the volume at each price of a     *)
(* minute; drain_before hands out the minutes that have gone by on the     *)
(* clock and forgets them.                                                 *)
KeyOf(t) == [day |-> t.day, minute |-> t.minute]
VolumeAt(bins, price) == IF price \in DOMAIN bins THEN bins[price] ELSE 0
BinsAt(minutes, key) == IF key \in DOMAIN minutes THEN minutes[key] ELSE <<>>
Added(bins, more) ==
  [p \in DOMAIN bins \cup DOMAIN more |-> VolumeAt(bins, p) + VolumeAt(more, p)]

Elapsed(bins) ==
  {k \in DOMAIN bins : k.day < now.day \/ (k.day = now.day /\ k.minute < now.minute)}

Left(bins) == Restrict(bins, DOMAIN bins \ Elapsed(bins))

Profiled(profile, bins) ==
  FoldSet(LAMBDA k, acc : Added(acc, bins[k]), profile, {k \in Elapsed(bins) : k.minute \in 1 .. LastIndex})

(* hset: a price of the minute is overwritten, others stay.                *)
Stored(bins) == [k \in Elapsed(bins) |-> bins[k] @@ BinsAt(vbp, k)] @@ vbp

StateStart ==
  /\ ~state.up
  /\ state' = [FreshState EXCEPT !.up = TRUE,
       !.pos = Cardinality({i \in DOMAIN tape : \/ tape[i].day < now.day
                                                \/ tape[i].minute < now.minute - Behind})]
  /\ UNCHANGED <<bound, now, market, shadowVars, vbp, used>>

(* tap, and on_bar when the tick closes the bar of a minute before it.     *)
StateTick ==
  /\ state.up /\ state.pos < Len(tape)
  /\ LET tick == tape[state.pos + 1]
         k == KeyOf(tick)
         bins == (k :> Added(BinsAt(state.bins, k), tick.price :> 1)) @@ state.bins
         closes == state.last # None /\ state.last # k
     IN /\ state' = [state EXCEPT !.pos = @ + 1, !.last = k,
                       !.tapped = @ + (IF tick.minute \in 1 .. LastIndex THEN 1 ELSE 0),
                       !.bins = IF closes THEN Left(bins) ELSE bins,
                       !.profile = IF closes THEN Profiled(@, bins) ELSE @]
        /\ vbp' = IF closes THEN Stored(bins) ELSE vbp
  /\ UNCHANGED <<bound, now, market, shadowVars, used>>

StateDies ==
  /\ state.up /\ Spend("stops") /\ state' = FreshState
  /\ UNCHANGED <<bound, now, market, shadowVars, vbp>>

Next ==
  \/ (\E price \in Prices, side \in Sides : Trade(price, side)) \/ Minute
  \/ Launch \/ Feed \/ Finish \/ Stop \/ Kill
  \/ (bound.desk /\ (StateStart \/ StateTick \/ StateDies))

Spec == Init /\ [][Next]_vars

(* A tick that is there is delivered, and the run's timeout fires.         *)
FairSpec == Spec /\ WF_vars(Feed) /\ WF_vars(Finish) /\ WF_vars(Minute)
-----------------------------------------------------------------------------
(* Every variable has its type, and no record is decided before its end.   *)
TypeOK ==
  /\ now \in [day : Days, minute : 0 .. EndMinute]
  /\ shadow.pos \in 0 .. Len(tape) /\ state.pos \in 0 .. Len(tape)
  /\ shadow.flow.emitted \in 0 .. LastIndex /\ shadow.flow.emitted <= now.minute
  /\ DOMAIN shadow.flow.agg.minutes \subseteq 1 .. LastIndex
  /\ \A d \in Days : /\ DOMAIN book[d] \subseteq 1 .. LastIndex
                      /\ rows[d] \in {None} \cup 0 .. EndMinute
                      /\ files[d] # None => DOMAIN files[d].minutes \subseteq 1 .. LastIndex
  /\ calibrated \subseteq Days /\ gapped \subseteq rough

(* The live path reproduces the research features (flow.py:8-12): in a     *)
(* session of one run, every decision record is the one computed offline   *)
(* from all of the session's ticks, and none that is due is missing.       *)
Exact(d) ==
  /\ \A end \in DOMAIN book[d] : book[d][end] = Decision(offline[d], end)
  /\ shadow.flow.session = d =>
       \A end \in 1 .. shadow.flow.emitted :
         (end % Span = 0 /\ HasBars(offline[d], end)) => end \in DOMAIN book[d]
RecordsFinal == \A d \in Days \ rough : Exact(d)

(* A file that is not marked partial holds every tick of its session, over *)
(* any number of runs that ended with their finally block                  *)
(* (run_shadow.py:54-62 and 111-123).                                      *)
Covers(more, minutes) ==
  \A i \in DOMAIN minutes : i \in DOMAIN more /\ more[i].vol >= minutes[i].vol
Whole(d) == Covers(files[d].minutes, offline[d].minutes)
NothingMissing == \A d \in Days \ gapped : (files[d] # None /\ ~files[d].partial) => Whole(d)

(* A partial record never feeds the calibration (run_shadow.py:113-115):   *)
(* what it was computed from is whole, unless a run was killed.            *)
CalibratedWhole == \A d \in calibrated \ gapped : Whole(d)

(* The market state engine's profile counts each tick of the session it    *)
(* was fed once, in whichever of its flushes (engine.py:135-146).          *)
ProfileOnce ==
  LET sum(bins) == MapThenSumSet(LAMBDA p : bins[p], DOMAIN bins)
      held == {k \in DOMAIN state.bins : k.minute \in 1 .. LastIndex}
  IN sum(state.profile) + MapThenSumSet(LAMBDA k : sum(state.bins[k]), held) = state.tapped

(* What a run has aggregated of a session reaches its file, whether the    *)
(* run lasts or stops, unless it is killed.                                *)
RecordKept ==
  \A d \in Days : (shadow.up /\ shadow.flow.session = d /\ DOMAIN shadow.flow.agg.minutes # {})
    ~> (files[d] # None \/ d \in gapped)

(* What the flow engine records is exact, final and whole, and feeds the   *)
(* calibration only then (flow.py, run_shadow.py).                         *)
RecordsExact == TypeOK /\ RecordsFinal /\ NothingMissing /\ CalibratedWhole

(* No tick is counted twice by the state engine, none that a run has       *)
(* aggregated is lost.                                                     *)
TicksKept == []ProfileOnce /\ RecordKept
=============================================================================
