----------------------------- MODULE FlowProofs -----------------------------
(***************************************************************************)
(* Tick flow, for any prices, length of a window, session and horizon, any *)
(* number of ticks, stops, kills, restarts and days: the records decided   *)
(* live are those computed offline, the files hold every tick, and the     *)
(* calibration is computed from nothing else.                              *)
(***************************************************************************)
EXTENDS Flow, FiniteSetTheorems, TLAPS

-----------------------------------------------------------------------------
(* The shapes of the records.                                              *)
Aggs == [minutes : Tables, prev : Prices \cup {None}, dir : {-1, 0, 1}, unknown : Nat, total : Nat]
Flows == [session : Days \cup {None}, agg : Aggs, emitted : 0 .. LastIndex]
Times == [day : Days, minute : 0 .. EndMinute]
Ticks == [day : Days, minute : 0 .. EndMinute, price : Prices, side : Sides]
StateFields == {"up", "pos", "last", "bins", "tapped", "profile"}

FlowTypes ==
  /\ bound \in Scenarios /\ now \in Times
  /\ tape \in Seq(Ticks) /\ priors \in Seq(Aggs) /\ Len(priors) = Len(tape)
  /\ offline \in [Days -> Aggs]
  /\ shadow \in [up : BOOLEAN, pos : Nat, flow : Flows] /\ shadow.pos <= Len(tape)
  /\ DOMAIN book = Days /\ \A d \in Days : DOMAIN book[d] \subseteq 1 .. LastIndex
  /\ rows \in [Days -> {None} \cup 0 .. EndMinute]
  /\ files \in [Days -> Files \cup {None}]
  /\ calibrated \subseteq Days /\ gapped \subseteq rough /\ rough \subseteq Days
  /\ DOMAIN state = StateFields /\ state.pos \in 0 .. Len(tape)

(* The tape is in the order of time.                                       *)
Before(a, b) == a.day < b.day \/ (a.day = b.day /\ a.minute <= b.minute)

TapeOrdered ==
  /\ \A i, j \in DOMAIN tape : i <= j => Before(tape[i], tape[j])
  /\ \A i \in DOMAIN tape : Before(tape[i], now)

(* What the recomputation is after a tick, and what it no longer changes.  *)
After(i) ==
  IF i < Len(tape) /\ tape[i + 1].day = tape[i].day THEN priors[i + 1] ELSE offline[tape[i].day]

Upto(agg, m) == Restrict(agg.minutes, {k \in DOMAIN agg.minutes : k <= m})

AuditInv ==
  /\ \A d \in Days : (\A i \in DOMAIN tape : tape[i].day # d) => offline[d] = FreshAgg
  /\ \A i \in DOMAIN tape : After(i) = OnTick(priors[i], tape[i])
  /\ \A i \in DOMAIN tape : \A m \in Int :
       m < tape[i].minute => Upto(priors[i], m) = Upto(offline[tape[i].day], m)
  /\ \A i \in DOMAIN tape : Covers(offline[tape[i].day].minutes, priors[i].minutes)
  /\ \A i, j \in DOMAIN tape :
       i <= j /\ tape[i].day = tape[j].day => Covers(priors[j].minutes, priors[i].minutes)

(* The recomputation of what a run has been fed of the day.                *)
PriorAt(p) == IF p < Len(tape) THEN priors[p + 1] ELSE offline[now.day]

(* A run is fed the ticks of its day, in order, and those of the minutes   *)
(* it has processed not again.                                             *)
RunInv ==
  /\ ~shadow.up => shadow = Down
  /\ shadow.up => \A i \in DOMAIN tape : i > shadow.pos => tape[i].day = now.day
  /\ shadow.flow.session \in {None, now.day}
  /\ shadow.flow.session # now.day => shadow.flow = FreshFlow
  /\ shadow.flow.emitted = 0 \/ shadow.flow.emitted < now.minute

(* What a run has processed is behind a tick of a later minute.            *)
RowsInv ==
  /\ \A d \in Days : d > now.day => rows[d] = None /\ files[d] = None
  /\ \A d \in Days : rows[d] # None => \E i \in DOMAIN tape : tape[i].day = d /\ tape[i].minute > rows[d]
  /\ shadow.up /\ rows[now.day] # None =>
       \A i \in DOMAIN tape : tape[i].day = now.day /\ tape[i].minute <= rows[now.day] => i <= shadow.pos

(* In a session of one run the engine has what the recomputation has, and  *)
(* what it decided was past.                                               *)
LiveInv ==
  /\ ~shadow.up /\ now.day \notin rough /\ now.minute < EndMinute =>
       rows[now.day] = None /\ files[now.day] = None
  /\ shadow.up /\ now.day \notin rough => shadow.flow.agg = PriorAt(shadow.pos)
  /\ \A d \in Days \ rough : \A end \in DOMAIN book[d] :
       /\ book[d][end] = Decision(offline[d], end)
       /\ d < now.day \/ (d = now.day /\ end < now.minute)
  /\ shadow.flow.session = now.day /\ now.day \notin rough =>
       \A end \in 1 .. shadow.flow.emitted :
         (end % Span = 0 /\ HasBars(offline[now.day], end)) => end \in DOMAIN book[now.day]

(* Over runs that were not killed, what was fed is in the engine or in the *)
(* file; a file that is not partial stays.                                 *)
Saved(d) == Preloaded(d).agg.minutes

FilesInv ==
  /\ shadow.up /\ now.day \notin gapped => Covers(shadow.flow.agg.minutes, PriorAt(shadow.pos).minutes)
  /\ ~shadow.up /\ now.day \notin gapped /\ rows[now.day] # None /\ now.minute < EndMinute =>
       \E p \in 0 .. Len(tape) :
         /\ \A i \in DOMAIN tape : tape[i].day = now.day /\ tape[i].minute <= rows[now.day] => i <= p
         /\ \A i \in DOMAIN tape : i > p => tape[i].day = now.day
         /\ Covers(Saved(now.day), PriorAt(p).minutes)
  /\ \A d \in Days : files[d] # None /\ ~files[d].partial =>
       d < now.day \/ (d = now.day /\ now.minute = EndMinute /\ ~shadow.up)
  /\ \A d \in Days \ gapped : files[d] # None /\ ~files[d].partial => Whole(d)
  /\ \A d \in calibrated : files[d] # None /\ ~files[d].partial

FlowInv == FlowTypes /\ TapeOrdered /\ AuditInv /\ RunInv /\ RowsInv /\ LiveInv /\ FilesInv

LEMMA ConstantFacts ==
  /\ Span \in Nat \ {0} /\ LastIndex \in Nat /\ EndMinute \in Nat /\ LastIndex < EndMinute
  /\ Days \subseteq Nat /\ 1 \in Days /\ Prices \subseteq Int
  /\ \A d \in Days : \A e \in Nat : e >= 1 /\ e <= d => e \in Days
<1>1. Cardinality(Days) \in Nat /\ Days = 1 .. Cardinality(Days) /\ Days # {}
  BY FS_CardinalityType, FlowAssumption
<1> QED BY <1>1, FlowAssumption

-----------------------------------------------------------------------------
(* A tick changes the minute it falls in, and adds one contract to it.     *)
LEMMA MinuteFacts ==
  ASSUME NEW agg \in Aggs, NEW i
  PROVE  /\ agg.minutes \in Tables /\ DOMAIN agg.minutes \subseteq 1 .. LastIndex
         /\ \A k \in DOMAIN agg.minutes : agg.minutes[k] \in Counts
         /\ MinuteOf(agg, i) \in Counts
<1>1. agg.minutes \in Tables
  BY DEF Aggs
<1>2. PICK S \in SUBSET (1 .. LastIndex) : agg.minutes \in [S -> Counts]
  BY <1>1 DEF Tables
<1>3. MinuteOf(agg, i) \in Counts
  BY <1>2 DEF MinuteOf, NoMinute, Counts
<1> QED BY <1>1, <1>2, <1>3

Ticked(agg, tick) == OnTick(agg, tick).minutes

LEMMA OnTickFacts ==
  ASSUME NEW agg \in Aggs, NEW tick \in Ticks
  PROVE  /\ OnTick(agg, tick) \in Aggs
         /\ tick.minute \notin 1 .. LastIndex => OnTick(agg, tick) = agg
         /\ tick.minute \in 1 .. LastIndex =>
              /\ DOMAIN Ticked(agg, tick) = DOMAIN agg.minutes \cup {tick.minute}
              /\ \A k \in DOMAIN agg.minutes : k # tick.minute => Ticked(agg, tick)[k] = agg.minutes[k]
              /\ Ticked(agg, tick)[tick.minute].vol = MinuteOf(agg, tick.minute).vol + 1
<1>1. CASE tick.minute \notin 1 .. LastIndex
  BY <1>1 DEF OnTick, Ticked
<1>2. CASE tick.minute \in 1 .. LastIndex
  <2> DEFINE m == MinuteOf(agg, tick.minute)
             dir == Aggressor(agg, tick)
             new == [buy |-> m.buy + (IF dir = 1 THEN 1 ELSE 0), sell |-> m.sell + (IF dir = -1 THEN 1 ELSE 0),
                     vol |-> m.vol + 1]
             rule == Rule(agg, tick)
             result == [minutes |-> Put(agg.minutes, tick.minute, new), prev |-> tick.price,
                        dir |-> IF rule = 0 THEN agg.dir ELSE rule,
                        unknown |-> agg.unknown + (IF tick.side = "N" THEN 1 ELSE 0), total |-> agg.total + 1]
  <2>1. OnTick(agg, tick) = result
    BY <1>2 DEF OnTick
  <2>2. m \in Counts /\ DOMAIN agg.minutes \subseteq 1 .. LastIndex
        /\ (\A k \in DOMAIN agg.minutes : agg.minutes[k] \in Counts)
    BY MinuteFacts
  <2>3. new \in Counts /\ new.vol = m.vol + 1
    <3> HIDE DEF m, dir
    <3> QED BY <2>2 DEF Counts
  <2>4. agg \in Aggs /\ agg.dir \in {-1, 0, 1} /\ agg.prev \in Prices \cup {None} /\ agg.unknown \in Nat
        /\ agg.total \in Nat /\ tick.price \in Prices /\ Prices \subseteq Int
    BY ConstantFacts DEF Aggs, Ticks
  <2>5. rule \in {-1, 0, 1}
    BY <2>4 DEF Rule, Sign
  <2> HIDE DEF new, rule
  <2> DEFINE table == Put(agg.minutes, tick.minute, new)
  <2>6. table = [k \in DOMAIN agg.minutes \cup {tick.minute} |->
                   IF k = tick.minute THEN new ELSE agg.minutes[k]]
    BY DEF Put
  <2>7. /\ DOMAIN table = DOMAIN agg.minutes \cup {tick.minute} /\ table[tick.minute] = new
        /\ \A k \in DOMAIN agg.minutes : k # tick.minute => table[k] = agg.minutes[k]
    BY <2>6
  <2>8. table \in Tables
    <3>1. \A k \in DOMAIN agg.minutes \cup {tick.minute} :
            (IF k = tick.minute THEN new ELSE agg.minutes[k]) \in Counts
      BY <2>2, <2>3
    <3>2. DOMAIN agg.minutes \cup {tick.minute} \in SUBSET (1 .. LastIndex)
      BY <1>2, <2>2
    <3>3. table \in [DOMAIN agg.minutes \cup {tick.minute} -> Counts]
      BY <2>6, <3>1
    <3> QED BY <3>2, <3>3 DEF Tables
  <2> HIDE DEF table
  <2>9. result \in Aggs /\ result.minutes = table
    BY <2>4, <2>5, <2>8 DEF Aggs, table
  <2> HIDE DEF result
  <2> QED BY <1>2, <2>1, <2>3, <2>7, <2>9 DEF Ticked
<1> QED BY <1>1, <1>2

LEMMA CoversSelf ==
  ASSUME NEW a \in Aggs
  PROVE  Covers(a.minutes, a.minutes)
<1>1. \A i \in DOMAIN a.minutes : a.minutes[i].vol \in Nat
  BY MinuteFacts DEF Counts
<1> QED BY <1>1 DEF Covers

LEMMA CoversTrans ==
  ASSUME NEW a \in Aggs, NEW b \in Aggs, NEW more \in Tables,
         Covers(more, a.minutes), Covers(a.minutes, b.minutes)
  PROVE  Covers(more, b.minutes)
<1>1. PICK S \in SUBSET (1 .. LastIndex) : more \in [S -> Counts]
  BY DEF Tables
<1>2. \A i \in DOMAIN more : more[i].vol \in Nat
  BY <1>1 DEF Counts
<1>3. \A i \in DOMAIN a.minutes : a.minutes[i].vol \in Nat
  BY MinuteFacts DEF Counts
<1>4. \A i \in DOMAIN b.minutes : b.minutes[i].vol \in Nat
  BY MinuteFacts DEF Counts
<1>5. ASSUME NEW i \in DOMAIN b.minutes
      PROVE  i \in DOMAIN more /\ more[i].vol >= b.minutes[i].vol
  <2>1. i \in DOMAIN a.minutes /\ a.minutes[i].vol >= b.minutes[i].vol
    BY <1>5 DEF Covers
  <2>2. i \in DOMAIN more /\ more[i].vol >= a.minutes[i].vol
    BY <2>1 DEF Covers
  <2> QED BY <2>1, <2>2, <1>2, <1>3, <1>4
<1> QED BY <1>5 DEF Covers

(* More stays more, whatever tick both are given.                          *)
LEMMA OnTickCovers ==
  ASSUME NEW a \in Aggs, NEW b \in Aggs, NEW tick \in Ticks, Covers(a.minutes, b.minutes)
  PROVE  Covers(Ticked(a, tick), Ticked(b, tick))
<1>1. CASE tick.minute \notin 1 .. LastIndex
  BY <1>1, OnTickFacts DEF Ticked
<1>2. CASE tick.minute \in 1 .. LastIndex
  <2> DEFINE m == tick.minute
  <2>1. /\ DOMAIN Ticked(a, tick) = DOMAIN a.minutes \cup {m}
        /\ \A k \in DOMAIN a.minutes : k # m => Ticked(a, tick)[k] = a.minutes[k]
        /\ Ticked(a, tick)[m].vol = MinuteOf(a, m).vol + 1
    BY <1>2, OnTickFacts
  <2>2. /\ DOMAIN Ticked(b, tick) = DOMAIN b.minutes \cup {m}
        /\ \A k \in DOMAIN b.minutes : k # m => Ticked(b, tick)[k] = b.minutes[k]
        /\ Ticked(b, tick)[m].vol = MinuteOf(b, m).vol + 1
    BY <1>2, OnTickFacts
  <2>3. MinuteOf(a, m).vol \in Nat /\ MinuteOf(b, m).vol \in Nat
    BY MinuteFacts DEF Counts
  <2>4. MinuteOf(a, m).vol >= MinuteOf(b, m).vol
    <3>1. CASE m \in DOMAIN b.minutes
      <4>1. m \in DOMAIN a.minutes /\ a.minutes[m].vol >= b.minutes[m].vol
        BY <3>1 DEF Covers
      <4> QED BY <3>1, <4>1 DEF MinuteOf
    <3>2. CASE m \notin DOMAIN b.minutes
      <4>1. MinuteOf(b, m).vol = 0
        BY <3>2 DEF MinuteOf, NoMinute
      <4> QED BY <4>1, <2>3
    <3> QED BY <3>1, <3>2
  <2>5. ASSUME NEW i \in DOMAIN Ticked(b, tick)
        PROVE  i \in DOMAIN Ticked(a, tick) /\ Ticked(a, tick)[i].vol >= Ticked(b, tick)[i].vol
    <3>1. CASE i = m
      BY <3>1, <2>1, <2>2, <2>3, <2>4
    <3>2. CASE i # m
      <4>1. i \in DOMAIN b.minutes /\ Ticked(b, tick)[i] = b.minutes[i]
        BY <3>2, <2>2
      <4>2. i \in DOMAIN a.minutes /\ a.minutes[i].vol >= b.minutes[i].vol
        BY <4>1 DEF Covers
      <4> QED BY <3>2, <4>1, <4>2, <2>1
    <3> QED BY <3>1, <3>2
  <2> QED BY <2>5 DEF Covers
<1> QED BY <1>1, <1>2

LEMMA OnTickGrows ==
  ASSUME NEW a \in Aggs, NEW tick \in Ticks
  PROVE  Covers(Ticked(a, tick), a.minutes)
<1>1. CASE tick.minute \notin 1 .. LastIndex
  BY <1>1, OnTickFacts, CoversSelf DEF Ticked
<1>2. CASE tick.minute \in 1 .. LastIndex
  <2>1. /\ DOMAIN Ticked(a, tick) = DOMAIN a.minutes \cup {tick.minute}
        /\ \A k \in DOMAIN a.minutes : k # tick.minute => Ticked(a, tick)[k] = a.minutes[k]
        /\ Ticked(a, tick)[tick.minute].vol = MinuteOf(a, tick.minute).vol + 1
    BY <1>2, OnTickFacts
  <2>2. \A i \in DOMAIN a.minutes : a.minutes[i].vol \in Nat
    BY MinuteFacts DEF Counts
  <2>3. \A i \in DOMAIN a.minutes : Ticked(a, tick)[i].vol >= a.minutes[i].vol
    <3>1. SUFFICES ASSUME NEW i \in DOMAIN a.minutes
                   PROVE  Ticked(a, tick)[i].vol >= a.minutes[i].vol
      OBVIOUS
    <3>2. CASE i = tick.minute
      <4>1. MinuteOf(a, tick.minute) = a.minutes[i]
        BY <3>2 DEF MinuteOf
      <4> QED BY <4>1, <3>2, <2>1, <2>2
    <3>3. CASE i # tick.minute
      BY <3>3, <2>1, <2>2
    <3> QED BY <3>2, <3>3
  <2> QED BY <2>1, <2>3 DEF Covers
<1> QED BY <1>1, <1>2

(* A decision looks at the minutes up to its end, and a tick changes none  *)
(* before its own.                                                         *)
LEMMA OnTickSettled ==
  ASSUME NEW a \in Aggs, NEW tick \in Ticks, NEW m \in Int, m < tick.minute
  PROVE  Upto(OnTick(a, tick), m) = Upto(a, m)
<1>1. CASE tick.minute \notin 1 .. LastIndex
  BY <1>1, OnTickFacts
<1>2. CASE tick.minute \in 1 .. LastIndex
  <2>1. /\ DOMAIN Ticked(a, tick) = DOMAIN a.minutes \cup {tick.minute}
        /\ \A k \in DOMAIN a.minutes : k # tick.minute => Ticked(a, tick)[k] = a.minutes[k]
    BY <1>2, OnTickFacts
  <2>2. {k \in DOMAIN Ticked(a, tick) : k <= m} = {k \in DOMAIN a.minutes : k <= m}
    BY <2>1, <1>2
  <2>3. \A k \in {k \in DOMAIN a.minutes : k <= m} : Ticked(a, tick)[k] = a.minutes[k]
    BY <2>1, <1>2
  <2> QED BY <2>2, <2>3 DEF Upto, Restrict, Ticked
<1> QED BY <1>1, <1>2

LEMMA SameWindow ==
  ASSUME NEW a \in Aggs, NEW b \in Aggs, NEW end \in Int, NEW span \in Int, Upto(a, end) = Upto(b, end)
  PROVE  Window(a, end, span) = Window(b, end, span)
<1> DEFINE A == {k \in DOMAIN a.minutes : k <= end}
           B == {k \in DOMAIN b.minutes : k <= end}
<1>1. A = B /\ \A k \in A : a.minutes[k] = b.minutes[k]
  <2>1. DOMAIN Upto(a, end) = A /\ DOMAIN Upto(b, end) = B
    BY DEF Upto, Restrict
  <2>2. \A k \in A : Upto(a, end)[k] = a.minutes[k]
    BY DEF Upto, Restrict
  <2>3. \A k \in B : Upto(b, end)[k] = b.minutes[k]
    BY DEF Upto, Restrict
  <2> HIDE DEF A, B
  <2> QED BY <2>1, <2>2, <2>3
<1>2. DOMAIN a.minutes \subseteq Int /\ DOMAIN b.minutes \subseteq Int
  BY MinuteFacts, ConstantFacts
<1>3. {i \in DOMAIN a.minutes : i \in end - span + 1 .. end} = {i \in DOMAIN b.minutes : i \in end - span + 1 .. end}
  BY <1>1, <1>2
<1>4. \A i \in {i \in DOMAIN a.minutes : i \in end - span + 1 .. end} : a.minutes[i] = b.minutes[i]
  BY <1>1, <1>2
<1> QED BY <1>3, <1>4 DEF Window, Restrict

LEMMA SameDecision ==
  ASSUME NEW a \in Aggs, NEW b \in Aggs, NEW end \in Int, Upto(a, end) = Upto(b, end)
  PROVE  Decision(a, end) = Decision(b, end) /\ HasBars(a, end) = HasBars(b, end)
<1>1. Span \in Int /\ 3 * Span \in Int
  BY ConstantFacts
<1>2. Window(a, end, Span) = Window(b, end, Span) /\ Window(a, end, 3 * Span) = Window(b, end, 3 * Span)
  BY <1>1, SameWindow
<1>3. Decision(a, end) = Decision(b, end)
  BY <1>2 DEF Decision, FlowOver
<1>4. DOMAIN Window(a, end, Span) = DOMAIN Window(b, end, Span)
  BY <1>2
<1>5. HasBars(a, end) = HasBars(b, end)
  BY <1>4 DEF HasBars, Window, Restrict
<1> QED BY <1>3, <1>5

-----------------------------------------------------------------------------
(* The largest of some whole numbers below a bound.                        *)
LEMMA MaxFacts ==
  ASSUME NEW b \in Int, NEW S \in SUBSET Int, S # {}, \A x \in S : x <= b
  PROVE  Max(S) \in S /\ \A x \in S : x <= Max(S)
<1> DEFINE Below == {b - x : x \in S}
<1>1. Below \subseteq Nat /\ Below # {}
  OBVIOUS
<1> HIDE DEF Below
<1>2. PICK y \in Below : \A z \in Below : ~(<<z, y>> \in OpToRel(<, Nat))
  BY <1>1, NatLessThanWellFounded, WFMin
<1>3. \A z \in Below : ~(z < y)
  BY <1>1, <1>2 DEF OpToRel
<1>4. PICK m \in S : y = b - m
  BY <1>2 DEF Below
<1>5. \A x \in S : b - x \in Below
  BY DEF Below
<1>6. \A x \in S : m >= x
  BY <1>1, <1>3, <1>4, <1>5
<1>7. \E x \in S : \A z \in S : x >= z
  BY <1>4, <1>6
<1>8. Max(S) \in S /\ \A z \in S : Max(S) >= z
  BY <1>7, Zenon DEF Max
<1> QED BY <1>8

(* The boundaries a tick completes lie before its minute.                  *)
LEMMA BoundaryFacts ==
  ASSUME NEW minute \in Nat
  PROVE  Boundary(minute) \in Int /\ Boundary(minute) < minute
<1>1. Span \in Nat \ {0} /\ minute - 1 \in Int
  BY ConstantFacts
<1> DEFINE q == (minute - 1) \div Span  r == (minute - 1) % Span
<1>2. q \in Int /\ r \in 0 .. Span - 1 /\ minute - 1 = Span * q + r
  BY <1>1, SMT
<1>3. Boundary(minute) = q * Span
  BY DEF Boundary
<1> HIDE DEF q, r
<1>4. q * Span = Span * q /\ Span * q \in Int
  BY <1>1, <1>2
<1> QED BY <1>1, <1>2, <1>3, <1>4

LEMMA EmittedFacts ==
  ASSUME NEW flow \in Flows, NEW minute \in Nat
  PROVE  LET ends == Emitted(flow, Boundary(minute))
         IN /\ ends \in SUBSET (1 .. LastIndex)
            /\ \A end \in ends : end > flow.emitted /\ end < minute /\ end % Span = 0
            /\ ends # {} => Max(ends) \in ends /\ \A end \in ends : end <= Max(ends)
            /\ \A last \in ends : \A end \in flow.emitted + 1 .. last : end % Span = 0 => end \in ends
<1> DEFINE ends == Emitted(flow, Boundary(minute))
<1>1. flow.emitted \in 0 .. LastIndex /\ LastIndex \in Nat
  BY ConstantFacts DEF Flows
<1>2. Boundary(minute) \in Int /\ Boundary(minute) < minute
  BY BoundaryFacts
<1>3. PICK u \in Int : u = IF Boundary(minute) < LastIndex THEN Boundary(minute) ELSE LastIndex
  BY <1>1, <1>2
<1>4. u <= LastIndex /\ u <= Boundary(minute) /\ u < minute
  BY <1>1, <1>2, <1>3
<1>5. ends = {end \in flow.emitted + 1 .. u : end % Span = 0}
  BY <1>3 DEF Emitted
<1> HIDE DEF ends
<1>6. ends \in SUBSET (1 .. LastIndex) /\ ends \in SUBSET Int /\ \A end \in ends : end <= LastIndex
  BY <1>1, <1>4, <1>5
<1>7. \A end \in ends : end > flow.emitted /\ end < minute /\ end % Span = 0
  BY <1>1, <1>4, <1>5
<1>8. ends # {} => Max(ends) \in ends /\ \A end \in ends : end <= Max(ends)
  <2>1. SUFFICES ASSUME ends # {}
                 PROVE  Max(ends) \in ends /\ \A end \in ends : end <= Max(ends)
    OBVIOUS
  <2>2. LastIndex \in Int
    BY <1>1
  <2> QED BY <1>6, <2>1, <2>2, MaxFacts
<1>9. \A last \in ends : \A end \in flow.emitted + 1 .. last : end % Span = 0 => end \in ends
  BY <1>1, <1>5
<1> QED BY <1>6, <1>7, <1>8, <1>9 DEF ends

(* A set of the first numbers is told by how many there are.               *)
LEMMA PrefixFacts ==
  ASSUME NEW n \in Nat, NEW S \in SUBSET (1 .. n), \A i \in S : \A j \in 1 .. i : j \in S
  PROVE  Cardinality(S) \in 0 .. n /\ S = 1 .. Cardinality(S)
<1>1. CASE S = {}
  <2>1. Cardinality(S) = 0
    BY <1>1, FS_EmptySet
  <2> QED BY <1>1, <2>1
<1>2. CASE S # {}
  <2>1. n \in Int /\ S \in SUBSET Int /\ \A x \in S : x <= n
    OBVIOUS
  <2>2. Max(S) \in S /\ \A x \in S : x <= Max(S)
    BY <1>2, <2>1, MaxFacts
  <2>3. PICK m \in S : m = Max(S)
    BY <2>2
  <2>4. m \in 1 .. n /\ \A x \in S : x \in 1 .. m
    BY <2>2, <2>3
  <2>5. \A j \in 1 .. m : j \in S
    BY <2>3
  <2>6. S = 1 .. m
    BY <2>4, <2>5
  <2>7. Cardinality(1 .. m) = m
    BY <2>4, FS_Interval
  <2> QED BY <2>4, <2>6, <2>7
<1> QED BY <1>1, <1>2

-----------------------------------------------------------------------------
(* Types.                                                                  *)
LEMMA FreshFacts ==
  /\ FreshAgg \in Aggs /\ DOMAIN FreshAgg.minutes = {} /\ FreshFlow \in Flows
  /\ FreshFlow.session = None /\ FreshFlow.agg = FreshAgg /\ FreshFlow.emitted = 0
  /\ Down \in [up : BOOLEAN, pos : Nat, flow : Flows] /\ Down.flow = FreshFlow
  /\ Down.up = FALSE /\ Down.pos = 0
<1>1. <<>> \in Tables
  <2>1. <<>> \in Seq(Counts) /\ Len(<<>>) = 0
    OBVIOUS
  <2>2. <<>> \in [1 .. 0 -> Counts] /\ 1 .. 0 = {}
    BY <2>1
  <2>3. {} \in SUBSET (1 .. LastIndex)
    OBVIOUS
  <2> QED BY <2>2, <2>3 DEF Tables
<1>2. FreshAgg \in Aggs /\ DOMAIN FreshAgg.minutes = {}
  BY <1>1 DEF FreshAgg, Aggs
<1>3. FreshFlow \in Flows
  BY <1>2, ConstantFacts DEF FreshFlow, Flows
<1>4. FreshFlow.session = None /\ FreshFlow.agg = FreshAgg /\ FreshFlow.emitted = 0
  BY DEF FreshFlow
<1>5. Down \in [up : BOOLEAN, pos : Nat, flow : Flows] /\ Down.flow = FreshFlow
      /\ Down.up = FALSE /\ Down.pos = 0
  BY <1>3 DEF Down
<1> QED BY <1>2, <1>3, <1>4, <1>5

LEMMA TapeFacts ==
  ASSUME FlowTypes
  PROVE  /\ Len(tape) \in Nat /\ DOMAIN tape = 1 .. Len(tape) /\ DOMAIN priors = 1 .. Len(tape)
         /\ \A i \in 1 .. Len(tape) :
              /\ tape[i] \in Ticks /\ priors[i] \in Aggs /\ tape[i].day \in Days
              /\ tape[i].minute \in 0 .. EndMinute /\ tape[i].minute \in Nat
         /\ now.day \in Days /\ now.minute \in 0 .. EndMinute /\ now.day \in Nat /\ now.minute \in Nat
         /\ EndMinute \in Nat
<1>1. tape \in Seq(Ticks) /\ priors \in Seq(Aggs) /\ Len(priors) = Len(tape) /\ now \in Times
  BY DEF FlowTypes
<1>2. /\ Len(tape) \in Nat /\ DOMAIN tape = 1 .. Len(tape) /\ DOMAIN priors = 1 .. Len(tape)
      /\ \A i \in 1 .. Len(tape) : tape[i] \in Ticks /\ priors[i] \in Aggs
  BY <1>1
<1>3. EndMinute \in Nat /\ Days \subseteq Nat
  BY ConstantFacts
<1>4. \A t \in Ticks : t.day \in Days /\ t.minute \in 0 .. EndMinute
  BY DEF Ticks
<1>5. now.day \in Days /\ now.minute \in 0 .. EndMinute
  BY <1>1 DEF Times
<1>6. now.day \in Nat /\ now.minute \in Nat
  <2>1. \A x \in 0 .. EndMinute : x \in Nat
    OBVIOUS
  <2> QED BY <1>3, <1>5, <2>1, Zenon
<1>7. \A i \in 1 .. Len(tape) :
        tape[i].day \in Days /\ tape[i].minute \in 0 .. EndMinute /\ tape[i].minute \in Nat
  BY <1>2, <1>3, <1>4
<1> QED BY <1>2, <1>3, <1>5, <1>6, <1>7

Skipped(d) ==
  {i \in DOMAIN tape : tape[i].day < d \/ (tape[i].day = d /\ tape[i].minute <= rows[d])}

LEMMA FromFacts ==
  ASSUME FlowTypes, TapeOrdered, NEW d \in Days
  PROVE  /\ From(d) \in 0 .. Len(tape)
         /\ rows[d] = None => From(d) = Len(tape)
         /\ rows[d] # None => Skipped(d) = 1 .. From(d)
<1>1. CASE rows[d] = None
  BY <1>1, TapeFacts DEF From
<1>2. CASE rows[d] # None
  <2>1. From(d) = Cardinality(Skipped(d))
    BY <1>2 DEF From, Skipped
  <2>2. rows[d] \in Nat /\ d \in Nat
    BY <1>2, ConstantFacts DEF FlowTypes
  <2>3. Skipped(d) \in SUBSET (1 .. Len(tape))
    BY TapeFacts DEF Skipped
  <2>4. ASSUME NEW i \in Skipped(d), NEW j \in 1 .. i
        PROVE  j \in Skipped(d)
    <3>1. i \in DOMAIN tape /\ j \in DOMAIN tape /\ j <= i
      BY TapeFacts, <2>3, <2>4
    <3>2. Before(tape[j], tape[i])
      BY <3>1 DEF TapeOrdered
    <3>3. /\ tape[i].day \in Nat /\ tape[i].minute \in Nat /\ tape[j].day \in Nat /\ tape[j].minute \in Nat
      BY <3>1, TapeFacts, ConstantFacts
    <3>4. tape[i].day < d \/ (tape[i].day = d /\ tape[i].minute <= rows[d])
      BY <2>4 DEF Skipped
    <3>5. tape[j].day < d \/ (tape[j].day = d /\ tape[j].minute <= rows[d])
      BY <2>2, <3>2, <3>3, <3>4 DEF Before
    <3> QED BY <3>1, <3>5 DEF Skipped
  <2>5. Len(tape) \in Nat
    BY TapeFacts
  <2> QED BY <1>2, <2>1, <2>3, <2>4, <2>5, PrefixFacts
<1> QED BY <1>1, <1>2

LEMMA PreloadedFacts ==
  ASSUME FlowTypes, NEW d \in Days
  PROVE  /\ Preloaded(d) \in Flows /\ Preloaded(d).emitted = 0 /\ Preloaded(d).session \in {None, d}
         /\ Preloaded(d).session # d => Preloaded(d) = FreshFlow
         /\ files[d] = None => Preloaded(d) = FreshFlow
         /\ Saved(d) \in Tables
         /\ files[d] # None => Saved(d) = files[d].minutes
<1>1. CASE files[d] = None
  <2>1. Preloaded(d) = FreshFlow
    BY <1>1 DEF Preloaded
  <2> QED BY <1>1, <2>1, FreshFacts DEF Saved, Aggs
<1>2. CASE files[d] # None
  <2>1. files[d] \in Files
    BY <1>2 DEF FlowTypes
  <2>2. files[d].minutes \in Tables
    BY <2>1 DEF Files
  <2> DEFINE a == [FreshAgg EXCEPT !.minutes = files[d].minutes]
  <2>3. a \in Aggs /\ a.minutes = files[d].minutes
    BY <2>2, FreshFacts DEF Aggs
  <2>4. Preloaded(d) = [session |-> d, agg |-> a, emitted |-> 0]
    BY <1>2 DEF Preloaded
  <2> HIDE DEF a
  <2>5. Preloaded(d) \in Flows /\ Preloaded(d).agg = a /\ Preloaded(d).session = d /\ Preloaded(d).emitted = 0
    BY <2>3, <2>4, ConstantFacts DEF Flows
  <2> QED BY <1>2, <2>2, <2>3, <2>5 DEF Saved
<1> QED BY <1>1, <1>2

(* The decisions due at a tick.                                            *)
Due(flow, tick) == Emitted(InSession(flow, tick), Boundary(tick.minute))

LEMMA FedFacts ==
  ASSUME NEW flow \in Flows, NEW tick \in Ticks
  PROVE  /\ InSession(flow, tick) \in Flows /\ InSession(flow, tick).session = tick.day
         /\ flow.session = tick.day => InSession(flow, tick) = flow
         /\ flow.session # tick.day =>
              InSession(flow, tick).agg = FreshAgg /\ InSession(flow, tick).emitted = 0
         /\ Fed(flow, tick) \in Flows /\ Fed(flow, tick).session = tick.day
         /\ Fed(flow, tick).agg = OnTick(InSession(flow, tick).agg, tick)
         /\ Due(flow, tick) = {} => Fed(flow, tick).emitted = InSession(flow, tick).emitted
         /\ Due(flow, tick) # {} => Fed(flow, tick).emitted = Max(Due(flow, tick))
<1> DEFINE begun == InSession(flow, tick)
           ends == Emitted(begun, Boundary(tick.minute))
<1>1. tick.day \in Days /\ tick.minute \in Nat
  BY ConstantFacts DEF Ticks
<1>2. /\ begun \in Flows /\ begun.session = tick.day
      /\ flow.session = tick.day => begun = flow
      /\ flow.session # tick.day => begun.agg = FreshAgg /\ begun.emitted = 0
  <2>1. CASE flow.session = tick.day
    BY <2>1 DEF InSession
  <2>2. CASE flow.session # tick.day
    <3>1. begun = [FreshFlow EXCEPT !.session = tick.day]
      BY <2>2 DEF InSession
    <3>2. FreshFlow \in Flows /\ FreshFlow.agg = FreshAgg /\ FreshFlow.emitted = 0
      BY FreshFacts
    <3> QED BY <2>2, <3>1, <3>2, <1>1 DEF Flows
  <2> QED BY <2>1, <2>2
<1> HIDE DEF begun
<1>3. ends \in SUBSET (1 .. LastIndex) /\ (ends # {} => Max(ends) \in ends)
  BY <1>1, <1>2, EmittedFacts
<1>4. begun.agg \in Aggs /\ begun.emitted \in 0 .. LastIndex
  BY <1>2 DEF Flows
<1>5. OnTick(begun.agg, tick) \in Aggs
  BY <1>4, OnTickFacts
<1>6. PICK e \in 0 .. LastIndex : e = IF ends = {} THEN begun.emitted ELSE Max(ends)
  <2>1. CASE ends = {}
    BY <1>4, <2>1
  <2>2. CASE ends # {}
    BY <1>3, <2>2
  <2> QED BY <2>1, <2>2
<1>7. Fed(flow, tick) = [begun EXCEPT !.agg = OnTick(begun.agg, tick), !.emitted = e]
  BY <1>6 DEF Fed, begun
<1> HIDE DEF ends
<1>8. /\ Fed(flow, tick) \in Flows /\ Fed(flow, tick).session = begun.session
      /\ Fed(flow, tick).agg = OnTick(begun.agg, tick) /\ Fed(flow, tick).emitted = e
  BY <1>2, <1>5, <1>7 DEF Flows
<1> QED BY <1>2, <1>6, <1>8 DEF begun, ends, Due

-----------------------------------------------------------------------------
(* The market: a trade comes at the end of the tape.                       *)
Rest == <<bound, now, shadowVars, deskVars, used>>

LEMMA TradeFacts ==
  ASSUME FlowTypes, NEW price \in Prices, NEW side \in Sides, Trade(price, side)
  PROVE  /\ TickNow(price, side) \in Ticks
         /\ TickNow(price, side).day = now.day /\ TickNow(price, side).minute = now.minute
         /\ tape' \in Seq(Ticks) /\ priors' \in Seq(Aggs)
         /\ Len(tape') = Len(tape) + 1 /\ Len(priors') = Len(tape) + 1
         /\ DOMAIN tape' = 1 .. Len(tape) + 1
         /\ \A i \in 1 .. Len(tape) : tape'[i] = tape[i] /\ priors'[i] = priors[i]
         /\ tape'[Len(tape) + 1] = TickNow(price, side) /\ priors'[Len(tape) + 1] = offline[now.day]
         /\ offline' \in [Days -> Aggs] /\ offline[now.day] \in Aggs
         /\ offline'[now.day] = OnTick(offline[now.day], TickNow(price, side))
         /\ \A d \in Days : d # now.day => offline'[d] = offline[d]
         /\ UNCHANGED Rest
<1> DEFINE new == TickNow(price, side)
<1>1. now.day \in Days /\ now.minute \in 0 .. EndMinute /\ Len(tape) \in Nat
  BY TapeFacts
<1>2. new \in Ticks /\ new.day = now.day /\ new.minute = now.minute
  BY <1>1 DEF TickNow, Ticks
<1>3. /\ tape' = Append(tape, new) /\ priors' = Append(priors, offline[now.day])
      /\ offline' = Recomputed(new) /\ UNCHANGED Rest
  BY DEF Trade, Rest
<1> HIDE DEF new
<1>4. offline \in [Days -> Aggs] /\ offline[now.day] \in Aggs /\ tape \in Seq(Ticks) /\ priors \in Seq(Aggs)
      /\ Len(priors) = Len(tape)
  BY <1>1 DEF FlowTypes
<1>5. OnTick(offline[now.day], new) \in Aggs
  BY <1>2, <1>4, OnTickFacts
<1>6. offline' = [offline EXCEPT ![now.day] = OnTick(offline[now.day], new)]
  BY <1>2, <1>3 DEF Recomputed
<1>7. /\ offline' \in [Days -> Aggs] /\ offline'[now.day] = OnTick(offline[now.day], new)
      /\ \A d \in Days : d # now.day => offline'[d] = offline[d]
  BY <1>1, <1>4, <1>5, <1>6
<1>8. /\ tape' \in Seq(Ticks) /\ Len(tape') = Len(tape) + 1 /\ DOMAIN tape' = 1 .. Len(tape) + 1
      /\ \A i \in 1 .. Len(tape) : tape'[i] = tape[i]
      /\ tape'[Len(tape) + 1] = new
  BY <1>2, <1>3, <1>4
<1>9. /\ priors' \in Seq(Aggs) /\ Len(priors') = Len(tape) + 1
      /\ \A i \in 1 .. Len(tape) : priors'[i] = priors[i]
      /\ priors'[Len(tape) + 1] = offline[now.day]
  BY <1>3, <1>4
<1> QED BY <1>2, <1>3, <1>4, <1>7, <1>8, <1>9 DEF new

LEMMA TradeOrdered ==
  ASSUME FlowTypes, TapeOrdered, NEW price \in Prices, NEW side \in Sides, Trade(price, side)
  PROVE  TapeOrdered'
<1> DEFINE n == Len(tape)
<1>1. /\ DOMAIN tape' = 1 .. n + 1 /\ n \in Nat /\ DOMAIN tape = 1 .. n
      /\ \A i \in 1 .. n : tape'[i] = tape[i]
      /\ tape'[n + 1].day = now.day /\ tape'[n + 1].minute = now.minute /\ now' = now
  BY TradeFacts, TapeFacts DEF Rest
<1>2. now.day \in Nat /\ now.minute \in Nat
  BY TapeFacts
<1>3. \A i \in 1 .. n + 1 : Before(tape'[i], now)
  BY <1>1, <1>2 DEF TapeOrdered, Before
<1>4. ASSUME NEW i \in 1 .. n + 1, NEW j \in 1 .. n + 1, i <= j
      PROVE  Before(tape'[i], tape'[j])
  <2>1. CASE j = n + 1
    BY <1>1, <1>3, <2>1 DEF Before
  <2>2. CASE j # n + 1
    <3>1. i \in 1 .. n /\ j \in 1 .. n
      BY <1>1, <1>4, <2>2
    <3> QED BY <1>1, <1>4, <3>1 DEF TapeOrdered
  <2> QED BY <2>1, <2>2
<1> QED BY <1>1, <1>3, <1>4 DEF TapeOrdered, Before

LEMMA TradeAudit ==
  ASSUME FlowTypes, TapeOrdered, AuditInv, NEW price \in Prices, NEW side \in Sides, Trade(price, side)
  PROVE  AuditInv'
<1> DEFINE n == Len(tape)  new == TickNow(price, side)  D == now.day
<1>1. /\ DOMAIN tape' = 1 .. n + 1 /\ Len(tape') = n + 1
      /\ \A i \in 1 .. n : tape'[i] = tape[i] /\ priors'[i] = priors[i]
      /\ tape'[n + 1] = new /\ priors'[n + 1] = offline[D]
      /\ new \in Ticks /\ new.day = D /\ new.minute = now.minute
      /\ offline[D] \in Aggs /\ offline'[D] = OnTick(offline[D], new)
      /\ \A d \in Days : d # D => offline'[d] = offline[d]
  BY TradeFacts
<1>2. /\ n \in Nat /\ DOMAIN tape = 1 .. n /\ D \in Days /\ D \in Nat /\ now.minute \in Nat
      /\ \A i \in 1 .. n : tape[i].day \in Days /\ tape[i].minute \in Nat /\ priors[i] \in Aggs
  BY TapeFacts
<1>3. \A i \in 1 .. n : offline[tape[i].day] \in Aggs
  BY <1>2 DEF FlowTypes
<1> HIDE DEF n, new, D
<1>4. \A i \in 1 .. n + 1 : i \in 1 .. n \/ i = n + 1
  BY <1>2
<1>5. ASSUME NEW d \in Days, \A i \in 1 .. n + 1 : tape'[i].day # d
      PROVE  offline'[d] = FreshAgg
  <2>1. d # D /\ \A i \in 1 .. n : tape[i].day # d
    BY <1>1, <1>2, <1>5
  <2> QED BY <2>1, <1>1, <1>2 DEF AuditInv
<1>6. ASSUME NEW i \in 1 .. n + 1
      PROVE  (IF i < n + 1 /\ tape'[i + 1].day = tape'[i].day THEN priors'[i + 1] ELSE offline'[tape'[i].day])
               = OnTick(priors'[i], tape'[i])
  <2>1. CASE i = n + 1
    BY <1>1, <1>2, <2>1
  <2>2. CASE i \in 1 .. n
    <3>1. (IF i < n /\ tape[i + 1].day = tape[i].day THEN priors[i + 1] ELSE offline[tape[i].day])
            = OnTick(priors'[i], tape'[i])
      BY <1>1, <1>2, <2>2 DEF AuditInv, After, n
    <3>2. CASE i = n
      <4>1. i < n + 1 /\ i + 1 = n + 1 /\ ~(i < n)
        BY <1>2, <3>2
      <4>2. tape'[i + 1].day = D /\ priors'[i + 1] = offline[D] /\ tape'[i] = tape[i]
        BY <1>1, <2>2, <4>1
      <4>3. offline[tape[i].day] = OnTick(priors'[i], tape'[i])
        BY <3>1, <4>1
      <4>4. tape[i].day # D => offline'[tape[i].day] = offline[tape[i].day]
        BY <1>1, <1>2, <2>2
      <4> QED BY <4>1, <4>2, <4>3, <4>4
    <3>3. CASE i < n
      <4>1. i + 1 \in 1 .. n /\ i <= i + 1
        BY <1>2, <2>2, <3>3
      <4>2. tape'[i + 1] = tape[i + 1] /\ tape'[i] = tape[i] /\ priors'[i + 1] = priors[i + 1]
        BY <1>1, <2>2, <4>1
      <4>3. tape[i + 1].day # tape[i].day => tape[i].day # D
        <5>1. Before(tape[i], tape[i + 1]) /\ Before(tape[i + 1], now)
          BY <1>2, <2>2, <4>1 DEF TapeOrdered
        <5>2. tape[i].day \in Nat /\ tape[i + 1].day \in Nat
          BY <1>2, <2>2, <4>1, ConstantFacts
        <5> QED BY <5>1, <5>2, <1>2 DEF Before, D
      <4>4. tape[i].day # D => offline'[tape[i].day] = offline[tape[i].day]
        BY <1>1, <1>2, <2>2
      <4>5. i < n + 1
        BY <1>2, <2>2
      <4> QED BY <3>1, <3>3, <4>2, <4>3, <4>4, <4>5
    <3> QED BY <1>2, <2>2, <3>2, <3>3
  <2> QED BY <1>4, <2>1, <2>2
<1>7. ASSUME NEW i \in 1 .. n + 1, NEW m \in Int, m < tape'[i].minute
      PROVE  Upto(priors'[i], m) = Upto(offline'[tape'[i].day], m)
  <2>1. CASE i = n + 1
    <3>1. m < new.minute
      BY <1>1, <1>7, <2>1
    <3>2. Upto(OnTick(offline[D], new), m) = Upto(offline[D], m)
      BY <1>1, <3>1, OnTickSettled
    <3> QED BY <1>1, <2>1, <3>2
  <2>2. CASE i \in 1 .. n
    <3>1. Upto(priors[i], m) = Upto(offline[tape[i].day], m) /\ tape'[i] = tape[i] /\ priors'[i] = priors[i]
      BY <1>1, <1>2, <1>7, <2>2 DEF AuditInv
    <3>2. CASE tape[i].day = D
      <4>1. Before(tape[i], now) /\ tape[i].minute \in Nat
        BY <1>2, <2>2 DEF TapeOrdered
      <4>2. m < new.minute
        BY <1>1, <1>2, <1>7, <3>1, <3>2, <4>1 DEF Before, D
      <4>3. Upto(OnTick(offline[D], new), m) = Upto(offline[D], m)
        BY <1>1, <4>2, OnTickSettled
      <4> QED BY <1>1, <3>1, <3>2, <4>3
    <3>3. CASE tape[i].day # D
      BY <1>1, <1>2, <2>2, <3>1, <3>3
    <3> QED BY <3>2, <3>3
  <2> QED BY <1>4, <2>1, <2>2
<1>8. Covers(offline'[D].minutes, offline[D].minutes)
  <2>1. Covers(Ticked(offline[D], new), offline[D].minutes)
    BY <1>1, OnTickGrows
  <2> QED BY <1>1, <2>1 DEF Ticked
<1>9. ASSUME NEW i \in 1 .. n + 1
      PROVE  Covers(offline'[tape'[i].day].minutes, priors'[i].minutes)
  <2>1. CASE i = n + 1
    BY <1>1, <1>8, <2>1
  <2>2. CASE i \in 1 .. n
    <3>1. Covers(offline[tape[i].day].minutes, priors[i].minutes) /\ tape'[i] = tape[i] /\ priors'[i] = priors[i]
      BY <1>1, <1>2, <2>2 DEF AuditInv
    <3>2. CASE tape[i].day = D
      <4>1. offline'[D] \in Aggs
        BY <1>1, OnTickFacts
      <4>2. offline'[D].minutes \in Tables /\ priors[i] \in Aggs
        BY <1>2, <2>2, <4>1, MinuteFacts
      <4>3. Covers(offline[D].minutes, priors[i].minutes)
        BY <3>1, <3>2
      <4>4. Covers(offline'[D].minutes, priors[i].minutes)
        BY <1>1, <1>8, <4>2, <4>3, CoversTrans
      <4> QED BY <3>1, <3>2, <4>4
    <3>3. CASE tape[i].day # D
      BY <1>1, <1>2, <2>2, <3>1, <3>3
    <3> QED BY <3>2, <3>3
  <2> QED BY <1>4, <2>1, <2>2
<1>10. ASSUME NEW i \in 1 .. n + 1, NEW j \in 1 .. n + 1, i <= j, tape'[i].day = tape'[j].day
       PROVE  Covers(priors'[j].minutes, priors'[i].minutes)
  <2>1. CASE j \in 1 .. n
    <3>1. i \in 1 .. n
      BY <1>2, <1>10, <2>1
    <3> QED BY <1>1, <1>2, <1>10, <2>1, <3>1 DEF AuditInv
  <2>2. CASE j = n + 1 /\ i = n + 1
    BY <1>1, <2>2, CoversSelf
  <2>3. CASE j = n + 1 /\ i \in 1 .. n
    <3>1. tape[i].day = D
      BY <1>1, <1>10, <2>3
    <3> QED BY <1>1, <1>2, <2>3, <3>1 DEF AuditInv
  <2> QED BY <1>4, <2>1, <2>2, <2>3
<1>11. \A i \in 1 .. n + 1 : After(i)' = OnTick(priors'[i], tape'[i])
  BY <1>1, <1>6 DEF After
<1> QED BY <1>1, <1>5, <1>7, <1>9, <1>10, <1>11 DEF AuditInv, Upto, Covers

LEMMA MarketStays ==
  ASSUME TapeOrdered, AuditInv, UNCHANGED <<now, market>>
  PROVE  TapeOrdered' /\ AuditInv'
<1>1. tape' = tape /\ priors' = priors /\ offline' = offline /\ now' = now
  BY DEF market
<1>2. TapeOrdered'
  BY <1>1 DEF TapeOrdered, Before
<1>3. \A i : After(i)' = After(i)
  BY <1>1 DEF After
<1>4. AuditInv'
  BY <1>1, <1>3 DEF AuditInv, Upto, Covers
<1> QED BY <1>2, <1>4

LEMMA MinuteMarket ==
  ASSUME FlowTypes, TapeOrdered, AuditInv, Minute
  PROVE  /\ now' \in Times /\ TapeOrdered' /\ AuditInv' /\ UNCHANGED market
         /\ \/ now'.day = now.day /\ now'.minute = now.minute + 1 /\ now.minute < EndMinute
            \/ now'.day = now.day + 1 /\ now'.minute = 0 /\ now.minute = EndMinute
<1>1. tape' = tape /\ priors' = priors /\ offline' = offline /\ UNCHANGED market
  BY DEF Minute, market
<1>2. /\ now.day \in Days /\ now.day \in Nat /\ now.minute \in Nat /\ now.minute \in 0 .. EndMinute
      /\ EndMinute \in Nat
  BY TapeFacts
<1>3. \A i \in DOMAIN tape : tape[i].day \in Nat /\ tape[i].minute \in Nat /\ Before(tape[i], now)
  BY TapeFacts, ConstantFacts DEF TapeOrdered
<1>4. \A i : After(i)' = After(i)
  BY <1>1 DEF After
<1>5. AuditInv'
  BY <1>1, <1>4 DEF AuditInv, Upto, Covers
<1>6. ASSUME \A i \in DOMAIN tape : Before(tape[i], now')
      PROVE  TapeOrdered'
  BY <1>1, <1>6 DEF TapeOrdered, Before
<1>7. CASE now.minute < EndMinute
  <2>1. now' = [now EXCEPT !.minute = @ + 1] /\ now \in Times
    BY <1>7 DEF Minute, FlowTypes
  <2>2. now'.day = now.day /\ now'.minute = now.minute + 1 /\ now' \in Times
    BY <1>2, <1>7, <2>1 DEF Times
  <2>3. \A i \in DOMAIN tape : Before(tape[i], now')
    BY <1>2, <1>3, <2>2 DEF Before
  <2> QED BY <1>1, <1>7, <1>5, <1>6, <2>2, <2>3
<1>8. CASE ~(now.minute < EndMinute)
  <2>1. now' = [day |-> now.day + 1, minute |-> 0] /\ now'.day <= bound.days /\ bound \in Scenarios
    BY <1>8 DEF Minute, FlowTypes
  <2>2. bound.days \in Days /\ now.day + 1 <= bound.days /\ now.day + 1 >= 1
    BY <1>2, <2>1, FlowAssumption
  <2>3. now.day + 1 \in Days
    <3>1. PICK e \in Nat : e = now.day + 1
      BY <1>2
    <3>2. e \in Days
      BY <2>2, <3>1, ConstantFacts
    <3> QED BY <3>1, <3>2
  <2>4. now'.day = now.day + 1 /\ now'.minute = 0 /\ now' \in Times /\ now.minute = EndMinute
    BY <1>2, <1>8, <2>1, <2>3 DEF Times
  <2>5. \A i \in DOMAIN tape : Before(tape[i], now')
    BY <1>2, <1>3, <2>4 DEF Before
  <2> QED BY <1>1, <1>5, <1>6, <2>4, <2>5
<1> QED BY <1>7, <1>8

-----------------------------------------------------------------------------
(* A run is fed the next tick of the tape, which is of its day.            *)
Tick == tape[shadow.pos + 1]
New(flow, tick) == {end \in Due(flow, tick) : HasBars(InSession(flow, tick).agg, end)}

LEMMA FeedFacts ==
  ASSUME FlowTypes, RunInv, Feed
  PROVE  /\ shadow.up /\ shadow.pos \in Nat /\ shadow.pos + 1 \in 1 .. Len(tape) /\ shadow.flow \in Flows
         /\ Tick \in Ticks /\ Tick.day = now.day /\ Tick.minute \in Nat
         /\ shadow'.up /\ shadow'.pos = shadow.pos + 1 /\ shadow'.flow = Fed(shadow.flow, Tick)
         /\ shadow' \in [up : BOOLEAN, pos : Nat, flow : Flows]
         /\ book' = BookAfter(book, shadow.flow, Tick)
         /\ rows' # rows => \E i \in 1 .. shadow.pos :
              /\ tape[i].day = now.day /\ tape[i].minute < Tick.minute
              /\ rows' = [rows EXCEPT ![now.day] = tape[i].minute]
         /\ UNCHANGED <<bound, now, market, files, calibrated, rough, gapped, state>>
<1>1. shadow \in [up : BOOLEAN, pos : Nat, flow : Flows] /\ Len(tape) \in Nat
  BY TapeFacts DEF FlowTypes
<1>2. shadow.up /\ shadow.pos < Len(tape) /\ shadow.pos \in Nat /\ shadow.flow \in Flows
  BY <1>1 DEF Feed
<1>3. shadow.pos + 1 \in 1 .. Len(tape) /\ shadow.pos + 1 > shadow.pos
  BY <1>1, <1>2
<1>4. Tick \in Ticks /\ Tick.minute \in Nat
  BY <1>3, TapeFacts DEF Tick
<1>5. Tick.day = now.day
  BY <1>2, <1>3, TapeFacts DEF RunInv, Tick
<1> DEFINE prior == {i \in 1 .. shadow.pos : tape[i].day = Tick.day /\ tape[i].minute < Tick.minute}
<1>6. /\ shadow' = [shadow EXCEPT !.pos = @ + 1, !.flow = Fed(@, Tick)]
      /\ book' = BookAfter(book, shadow.flow, Tick)
      /\ rows' = IF prior = {} THEN rows ELSE [rows EXCEPT ![Tick.day] = tape[Max(prior)].minute]
      /\ UNCHANGED <<bound, now, market, files, calibrated, rough, gapped, state>>
  BY DEF Feed, Tick, deskVars
<1>7. Fed(shadow.flow, Tick) \in Flows
  BY <1>2, <1>4, FedFacts
<1>8. /\ shadow'.up = shadow.up /\ shadow'.pos = shadow.pos + 1 /\ shadow'.flow = Fed(shadow.flow, Tick)
      /\ shadow' \in [up : BOOLEAN, pos : Nat, flow : Flows]
  <2> DEFINE f == Fed(shadow.flow, Tick)
  <2>1. shadow' = [shadow EXCEPT !.pos = shadow.pos + 1, !.flow = f] /\ f \in Flows
    BY <1>6, <1>7
  <2> HIDE DEF f
  <2>2. PICK p \in Nat : p = shadow.pos + 1
    BY <1>2
  <2>3. shadow' = [shadow EXCEPT !.pos = p, !.flow = f]
    BY <2>1, <2>2
  <2>4. shadow'.up = shadow.up /\ shadow'.pos = p /\ shadow'.flow = f
        /\ shadow' \in [up : BOOLEAN, pos : Nat, flow : Flows]
    BY <1>1, <2>1, <2>3
  <2> QED BY <2>2, <2>4 DEF f
<1>9. ASSUME rows' # rows
      PROVE  \E i \in 1 .. shadow.pos :
              /\ tape[i].day = now.day /\ tape[i].minute < Tick.minute
              /\ rows' = [rows EXCEPT ![now.day] = tape[i].minute]
  <2>1. prior # {} /\ rows' = [rows EXCEPT ![Tick.day] = tape[Max(prior)].minute]
    BY <1>6, <1>9
  <2>2. prior \in SUBSET Int /\ shadow.pos \in Int /\ \A x \in prior : x <= shadow.pos
    BY <1>2
  <2>3. Max(prior) \in prior
    BY <2>1, <2>2, MaxFacts
  <2> QED BY <1>5, <2>1, <2>3
<1> QED BY <1>2, <1>3, <1>4, <1>5, <1>6, <1>8, <1>9

LEMMA BookFacts ==
  ASSUME DOMAIN book = Days, NEW flow \in Flows, NEW tick \in Ticks, book' = BookAfter(book, flow, tick)
  PROVE  /\ DOMAIN book' = Days
         /\ \A d \in Days : d # tick.day => book'[d] = book[d]
         /\ New(flow, tick) \subseteq DOMAIN book'[tick.day]
         /\ \A end \in New(flow, tick) : book'[tick.day][end] = Decision(InSession(flow, tick).agg, end)
         /\ \A end \in DOMAIN book'[tick.day] : end \notin New(flow, tick) =>
              /\ flow.session = tick.day /\ end \in DOMAIN book[tick.day]
              /\ book'[tick.day][end] = book[tick.day][end]
         /\ flow.session = tick.day => DOMAIN book[tick.day] \subseteq DOMAIN book'[tick.day]
<1> DEFINE begun == InSession(flow, tick)
           bars == IF flow.session = tick.day THEN book[tick.day] ELSE <<>>
           new == New(flow, tick)
           decided == Decided(bars, begun, Due(flow, tick))
<1>1. tick.day \in Days
  BY DEF Ticks
<1>2. book' = [book EXCEPT ![tick.day] = decided]
  BY DEF BookAfter, Due
<1>3. decided = [end \in DOMAIN bars \cup new |-> IF end \in new THEN Decision(begun.agg, end) ELSE bars[end]]
  BY DEF Decided, New
<1>4. DOMAIN <<>> = {}
  <2>1. <<>> \in Seq(Int) /\ Len(<<>>) = 0
    OBVIOUS
  <2> QED BY <2>1
<1> HIDE DEF decided, new, begun
<1>5. flow.session # tick.day => DOMAIN bars = {}
  BY <1>4
<1>6. flow.session = tick.day => bars = book[tick.day]
  OBVIOUS
<1> HIDE DEF bars
<1>7. book'[tick.day] = decided /\ DOMAIN book' = Days /\ \A d \in Days : d # tick.day => book'[d] = book[d]
  BY <1>1, <1>2
<1>8. /\ DOMAIN decided = DOMAIN bars \cup new
      /\ \A end \in new : decided[end] = Decision(begun.agg, end)
      /\ \A end \in DOMAIN decided : end \notin new => end \in DOMAIN bars /\ decided[end] = bars[end]
  BY <1>3
<1> QED BY <1>5, <1>6, <1>7, <1>8 DEF new, begun

LEMMA FeedTypes ==
  ASSUME FlowTypes, RunInv, Feed
  PROVE  FlowTypes'
<1>1. /\ shadow.pos + 1 \in 1 .. Len(tape) /\ shadow.flow \in Flows
      /\ Tick \in Ticks /\ Tick.day = now.day
      /\ shadow'.pos = shadow.pos + 1
      /\ shadow' \in [up : BOOLEAN, pos : Nat, flow : Flows]
      /\ book' = BookAfter(book, shadow.flow, Tick)
      /\ bound' = bound /\ now' = now /\ UNCHANGED market /\ files' = files /\ calibrated' = calibrated
      /\ rough' = rough /\ gapped' = gapped /\ state' = state
  BY FeedFacts
<1>2. tape' = tape /\ priors' = priors /\ offline' = offline
  BY <1>1 DEF market
<1>3. DOMAIN book = Days
  BY DEF FlowTypes
<1>4. InSession(shadow.flow, Tick) \in Flows /\ Tick.minute \in Nat
  BY <1>1, FedFacts, FeedFacts
<1>5. New(shadow.flow, Tick) \subseteq 1 .. LastIndex
  BY <1>4, EmittedFacts DEF New, Due
<1>6. DOMAIN book' = Days /\ \A d \in Days : DOMAIN book'[d] \subseteq 1 .. LastIndex
  <2>1. DOMAIN book' = Days
    BY <1>1, <1>3, BookFacts
  <2>2. ASSUME NEW d \in Days
        PROVE  DOMAIN book'[d] \subseteq 1 .. LastIndex
    <3>1. DOMAIN book[d] \subseteq 1 .. LastIndex
      BY DEF FlowTypes
    <3>2. CASE d = Tick.day
      <4>1. \A end \in DOMAIN book'[d] : end \in New(shadow.flow, Tick) \/ end \in DOMAIN book[d]
        BY <1>1, <1>3, <3>2, BookFacts
      <4> QED BY <1>5, <3>1, <4>1
    <3>3. CASE d # Tick.day
      BY <1>1, <1>3, <3>1, <3>3, BookFacts
    <3> QED BY <3>2, <3>3
  <2> QED BY <2>1, <2>2
<1>7. rows' \in [Days -> {None} \cup 0 .. EndMinute]
  <2>1. rows \in [Days -> {None} \cup 0 .. EndMinute]
    BY DEF FlowTypes
  <2>2. CASE rows' = rows
    BY <2>1, <2>2
  <2>3. CASE rows' # rows
    <3>1. PICK i \in 1 .. shadow.pos : rows' = [rows EXCEPT ![now.day] = tape[i].minute]
      BY <2>3, FeedFacts
    <3>2. i \in 1 .. Len(tape)
      BY <1>1, <3>1, FeedFacts, TapeFacts
    <3>3. tape[i].minute \in 0 .. EndMinute
      BY <3>2, TapeFacts
    <3> QED BY <2>1, <3>1, <3>3
  <2> QED BY <2>2, <2>3
<1>8. shadow'.pos <= Len(tape')
  BY <1>1, <1>2, TapeFacts
<1> QED BY <1>1, <1>2, <1>6, <1>7, <1>8 DEF FlowTypes

LEMMA LaunchTypes ==
  ASSUME FlowTypes, TapeOrdered, Launch
  PROVE  FlowTypes'
<1>1. now.day \in Days /\ Len(tape) \in Nat
  BY TapeFacts
<1>2. From(now.day) \in 0 .. Len(tape) /\ Preloaded(now.day) \in Flows
  BY <1>1, FromFacts, PreloadedFacts
<1>3. /\ shadow' = [up |-> TRUE, pos |-> From(now.day), flow |-> Preloaded(now.day)]
      /\ book' = [d \in Days |-> <<>>]
      /\ bound' = bound /\ now' = now /\ tape' = tape /\ priors' = priors /\ offline' = offline
      /\ rows' = rows /\ files' = files /\ calibrated' = calibrated /\ state' = state
  BY DEF Launch, market, deskVars
<1>4. gapped' \subseteq rough' /\ rough' \subseteq Days
  <2>1. gapped \subseteq rough /\ rough \subseteq Days
    BY DEF FlowTypes
  <2> QED BY <1>1, <2>1 DEF Launch
<1>5. shadow' \in [up : BOOLEAN, pos : Nat, flow : Flows] /\ shadow'.pos <= Len(tape)
  BY <1>1, <1>2, <1>3
<1>6. DOMAIN book' = Days /\ \A d \in Days : DOMAIN book'[d] \subseteq 1 .. LastIndex
  <2>1. <<>> \in Seq(Int) /\ Len(<<>>) = 0
    OBVIOUS
  <2>2. DOMAIN <<>> = {}
    BY <2>1
  <2> QED BY <1>3, <2>2
<1> QED BY <1>3, <1>4, <1>5, <1>6 DEF FlowTypes

(* What a run that ends writes.                                            *)
LEMMA PersistedFacts ==
  ASSUME FlowTypes, NEW partial \in BOOLEAN
  PROVE  /\ Persisted(partial) \in [Days -> Files \cup {None}]
         /\ \A d \in Days : d # now.day => Persisted(partial)[d] = files[d]
         /\ DOMAIN shadow.flow.agg.minutes = {} => Persisted(partial) = files
         /\ DOMAIN shadow.flow.agg.minutes # {} =>
              /\ Persisted(partial)[now.day] # None
              /\ Persisted(partial)[now.day].minutes = shadow.flow.agg.minutes
              /\ Persisted(partial)[now.day].partial = partial
<1>1. files \in [Days -> Files \cup {None}] /\ now.day \in Days
  BY TapeFacts DEF FlowTypes
<1>2. shadow.flow.agg \in Aggs
  BY DEF FlowTypes, Flows
<1>3. shadow.flow.agg.minutes \in Tables /\ Excluded(shadow.flow.agg) \in BOOLEAN
  BY <1>2, MinuteFacts DEF Excluded
<1>4. /\ Written(partial) \in Files
      /\ Written(partial).minutes = shadow.flow.agg.minutes /\ Written(partial).partial = partial
  BY <1>3 DEF Written, Files
<1>5. Written(partial) # None
  BY <1>4, FileAssumption
<1> QED BY <1>1, <1>4, <1>5 DEF Persisted

(* A run that ends leaves what it has written, or nothing.                 *)
Ended ==
  /\ shadow.up /\ shadow' = Down
  /\ UNCHANGED <<bound, now, market, book, rows, deskVars>>

LEMMA EndFacts ==
  ASSUME FlowTypes, Finish \/ Stop \/ Kill
  PROVE  Ended
BY DEF Finish, Stop, Kill, Ended

LEMMA EndTypes ==
  ASSUME FlowTypes, Finish \/ Stop \/ Kill
  PROVE  FlowTypes'
<1>1. /\ bound' = bound /\ now' = now /\ tape' = tape /\ priors' = priors /\ offline' = offline
      /\ book' = book /\ rows' = rows /\ state' = state /\ shadow' = Down
  BY EndFacts DEF Ended, market, deskVars
<1>2. /\ shadow' \in [up : BOOLEAN, pos : Nat, flow : Flows] /\ shadow'.pos <= Len(tape)
  BY <1>1, FreshFacts, TapeFacts
<1>3. files' \in [Days -> Files \cup {None}]
  <2>1. files' = files \/ files' = Persisted(TRUE) \/ files' = Persisted(FALSE)
    BY DEF Finish, Stop, Kill
  <2> QED BY <2>1, PersistedFacts DEF FlowTypes
<1>4. calibrated' \subseteq Days
  <2>1. calibrated' = calibrated \/ calibrated' = Usable(Persisted(FALSE))
    BY DEF Finish, Stop, Kill
  <2> QED BY <2>1 DEF FlowTypes, Usable
<1>5. gapped' \subseteq rough' /\ rough' \subseteq Days
  <2>1. gapped \subseteq rough /\ rough \subseteq Days /\ now.day \in Days
    BY TapeFacts DEF FlowTypes
  <2>2. CASE Finish
    BY <2>1, <2>2 DEF Finish
  <2>3. CASE Stop
    BY <2>1, <2>3 DEF Stop
  <2>4. CASE Kill
    BY <2>1, <2>4 DEF Kill
  <2> QED BY <2>2, <2>3, <2>4
<1> QED BY <1>1, <1>2, <1>3, <1>4, <1>5 DEF FlowTypes

LEMMA StateTypes ==
  ASSUME FlowTypes, StateStart \/ StateTick \/ StateDies
  PROVE  FlowTypes' /\ UNCHANGED <<now, market, shadowVars>>
<1>1. /\ bound' = bound /\ UNCHANGED <<now, market, shadowVars>>
  BY DEF StateStart, StateTick, StateDies
<1>2. /\ now' = now /\ tape' = tape /\ priors' = priors /\ offline' = offline /\ shadow' = shadow
      /\ book' = book /\ rows' = rows /\ files' = files /\ calibrated' = calibrated
      /\ rough' = rough /\ gapped' = gapped
  BY <1>1 DEF market, shadowVars
<1>3. Len(tape) \in Nat /\ DOMAIN tape = 1 .. Len(tape)
  BY TapeFacts
<1>4. DOMAIN FreshState = StateFields /\ FreshState.pos = 0
  BY DEF FreshState, StateFields
<1>5. CASE StateStart
  <2> DEFINE S == {i \in DOMAIN tape : \/ tape[i].day < now.day
                                       \/ tape[i].minute < now.minute - Behind}
             s == [FreshState EXCEPT !.up = TRUE]
  <2>1. state' = [FreshState EXCEPT !.up = TRUE, !.pos = Cardinality(S)]
    BY <1>5 DEF StateStart
  <2>2. Cardinality(S) \in 0 .. Len(tape)
    <3>1. S \subseteq 1 .. Len(tape)
      BY <1>3
    <3>2. IsFiniteSet(1 .. Len(tape)) /\ Cardinality(1 .. Len(tape)) = Len(tape)
      <4>1. 1 \in Int /\ Len(tape) \in Int /\ Len(tape) >= 0
        BY <1>3
      <4>2. IsFiniteSet(1 .. Len(tape))
        BY <4>1, FS_Interval, Zenon
      <4>3. Cardinality(1 .. Len(tape)) = IF 1 > Len(tape) THEN 0 ELSE Len(tape) - 1 + 1
        BY <4>1, FS_Interval, Zenon
      <4> QED BY <4>1, <4>2, <4>3
    <3>3. IsFiniteSet(S) /\ Cardinality(S) <= Len(tape)
      BY <3>1, <3>2, FS_Subset
    <3>4. Cardinality(S) \in Nat
      BY <3>3, FS_CardinalityType
    <3> QED BY <1>3, <3>3, <3>4
  <2> HIDE DEF S
  <2>3. DOMAIN state' = StateFields /\ state'.pos = Cardinality(S)
    BY <1>4, <2>1 DEF StateFields
  <2> QED BY <1>1, <1>2, <2>2, <2>3 DEF FlowTypes
<1>6. CASE StateTick
  <2>1. state.pos \in 0 .. Len(tape) /\ state.pos < Len(tape) /\ DOMAIN state = StateFields
    BY <1>6 DEF StateTick, FlowTypes
  <2>2. PICK q \in 0 .. Len(tape) : q = state.pos + 1
    BY <1>3, <2>1
  <2>3. \E last, tapped, bins, profile :
          state' = [state EXCEPT !.pos = q, !.last = last, !.tapped = tapped, !.bins = bins, !.profile = profile]
    BY <1>6, <2>2 DEF StateTick
  <2>4. PICK last, tapped, bins, profile :
          state' = [state EXCEPT !.pos = q, !.last = last, !.tapped = tapped, !.bins = bins, !.profile = profile]
    BY <2>3
  <2> DEFINE s == [state EXCEPT !.pos = q, !.last = last]
  <2>5. DOMAIN s = StateFields /\ s.pos = q
    BY <2>1 DEF StateFields
  <2>6. state' = [s EXCEPT !.tapped = tapped, !.bins = bins, !.profile = profile]
    BY <2>4, Zenon
  <2> HIDE DEF s
  <2>7. DOMAIN state' = StateFields /\ state'.pos = q
    BY <2>5, <2>6 DEF StateFields
  <2> QED BY <1>1, <1>2, <2>7 DEF FlowTypes
<1>7. CASE StateDies
  <2>1. state' = FreshState
    BY <1>7 DEF StateDies
  <2> QED BY <1>1, <1>2, <1>3, <1>4, <2>1 DEF FlowTypes
<1> QED BY <1>1, <1>5, <1>6, <1>7

-----------------------------------------------------------------------------
(* A step of the market, of the run, or of its end: what stays.            *)
LEMMA BeforeNow ==
  ASSUME FlowTypes, TapeOrdered, NEW i \in DOMAIN tape
  PROVE  /\ i \in 1 .. Len(tape) /\ tape[i].day \in Nat /\ tape[i].minute \in Nat /\ tape[i].day <= now.day
         /\ tape[i].day = now.day => tape[i].minute <= now.minute
<1>1. i \in 1 .. Len(tape) /\ tape[i].day \in Nat /\ tape[i].minute \in Nat /\ now.day \in Nat
  BY TapeFacts, ConstantFacts
<1>2. tape[i].day < now.day \/ (tape[i].day = now.day /\ tape[i].minute <= now.minute)
  BY DEF TapeOrdered, Before
<1> QED BY <1>1, <1>2

LEMMA FeedDue ==
  ASSUME FlowTypes, TapeOrdered, RunInv, Feed
  PROVE  /\ Due(shadow.flow, Tick) \subseteq 1 .. LastIndex
         /\ \A end \in Due(shadow.flow, Tick) :
              end < Tick.minute /\ end % Span = 0 /\ end > InSession(shadow.flow, Tick).emitted
         /\ Tick.minute <= now.minute /\ InSession(shadow.flow, Tick).emitted \in Nat
         /\ Due(shadow.flow, Tick) = {} => shadow'.flow.emitted = InSession(shadow.flow, Tick).emitted
         /\ Due(shadow.flow, Tick) # {} =>
              /\ shadow'.flow.emitted \in Due(shadow.flow, Tick)
              /\ \A end \in InSession(shadow.flow, Tick).emitted + 1 .. shadow'.flow.emitted :
                   end % Span = 0 => end \in Due(shadow.flow, Tick)
<1>1. /\ shadow.flow \in Flows /\ Tick \in Ticks /\ Tick.day = now.day /\ Tick.minute \in Nat
      /\ shadow'.flow = Fed(shadow.flow, Tick) /\ shadow.pos + 1 \in 1 .. Len(tape)
  BY FeedFacts
<1>2. InSession(shadow.flow, Tick) \in Flows
  BY <1>1, FedFacts
<1>3. InSession(shadow.flow, Tick).emitted \in Nat
  BY <1>2, ConstantFacts DEF Flows
<1>4. Tick.minute <= now.minute
  BY <1>1, TapeFacts, BeforeNow DEF Tick
<1> DEFINE due == Due(shadow.flow, Tick)
           begun == InSession(shadow.flow, Tick)
<1>5. /\ due \in SUBSET (1 .. LastIndex)
      /\ \A end \in due : end > begun.emitted /\ end < Tick.minute /\ end % Span = 0
      /\ due # {} => Max(due) \in due
      /\ \A last \in due : \A end \in begun.emitted + 1 .. last : end % Span = 0 => end \in due
  BY <1>1, <1>2, EmittedFacts DEF Due
<1>6. /\ due = {} => shadow'.flow.emitted = begun.emitted
      /\ due # {} => shadow'.flow.emitted = Max(due)
  BY <1>1, FedFacts
<1> HIDE DEF due, begun
<1>7. due # {} => /\ shadow'.flow.emitted \in due
                  /\ \A end \in begun.emitted + 1 .. shadow'.flow.emitted : end % Span = 0 => end \in due
  BY <1>5, <1>6
<1> QED BY <1>3, <1>4, <1>5, <1>6, <1>7 DEF due, begun

LEMMA RunStep ==
  ASSUME FlowTypes, TapeOrdered, RunInv, [Next]_vars
  PROVE  RunInv'
<1>1. /\ Len(tape) \in Nat /\ DOMAIN tape = 1 .. Len(tape) /\ now.day \in Days /\ now.minute \in Nat
      /\ now.day \in Nat /\ shadow.flow.emitted \in Nat
  BY TapeFacts, ConstantFacts DEF FlowTypes, Flows
<1>2. ASSUME NEW price \in Prices, NEW side \in Sides, Trade(price, side)
      PROVE  RunInv'
  <2>1. /\ DOMAIN tape' = 1 .. Len(tape) + 1 /\ now' = now /\ shadow' = shadow
        /\ \A i \in 1 .. Len(tape) : tape'[i] = tape[i]
        /\ tape'[Len(tape) + 1].day = now.day
    BY <1>2, TradeFacts DEF Rest, shadowVars
  <2>2. ASSUME shadow.up, NEW i \in 1 .. Len(tape) + 1, i > shadow.pos
        PROVE  tape'[i].day = now.day
    <3>1. i \in 1 .. Len(tape) \/ i = Len(tape) + 1
      BY <1>1
    <3> QED BY <1>1, <2>1, <2>2, <3>1 DEF RunInv
  <2> QED BY <2>1, <2>2 DEF RunInv
<1>3. CASE Minute
  <2>1. tape' = tape /\ shadow' = shadow
    BY <1>3 DEF Minute, market, shadowVars
  <2>2. CASE shadow.up
    <3>1. now'.day = now.day
      BY <1>3, <2>2 DEF Minute
    <3>2. now'.minute = now.minute + 1
      <4>1. now.day # now.day + 1
        BY <1>1
      <4>2. (now'.day = now.day /\ now'.minute = now.minute + 1) \/ now'.day = now.day + 1
        <5>1. CASE now.minute < EndMinute
          BY <1>3, <5>1 DEF Minute, FlowTypes, Times
        <5>2. CASE ~(now.minute < EndMinute)
          BY <1>3, <5>2 DEF Minute
        <5> QED BY <5>1, <5>2
      <4> QED BY <3>1, <4>1, <4>2
    <3> QED BY <1>1, <2>1, <2>2, <3>1, <3>2 DEF RunInv
  <2>3. CASE ~shadow.up
    <3>1. shadow.flow = FreshFlow /\ shadow = Down
      BY <2>3, FreshFacts DEF RunInv
    <3> QED BY <2>1, <2>3, <3>1, FreshFacts DEF RunInv
  <2> QED BY <2>2, <2>3
<1>4. CASE Launch
  <2>1. /\ shadow' = [up |-> TRUE, pos |-> From(now.day), flow |-> Preloaded(now.day)]
        /\ tape' = tape /\ now' = now
    BY <1>4 DEF Launch, market
  <2>2. /\ Preloaded(now.day).emitted = 0 /\ Preloaded(now.day).session \in {None, now.day}
        /\ Preloaded(now.day).session # now.day => Preloaded(now.day) = FreshFlow
    BY <1>1, PreloadedFacts
  <2>3. ASSUME NEW i \in DOMAIN tape, i > From(now.day)
        PROVE  tape[i].day = now.day
    <3>1. Skipped(now.day) = 1 .. From(now.day) /\ From(now.day) \in 0 .. Len(tape)
      BY <1>1, <2>3, FromFacts
    <3>2. i \notin Skipped(now.day)
      <4>1. i \notin 1 .. From(now.day)
        BY <1>1, <2>3, <3>1
      <4> QED BY <3>1, <4>1
    <3>3. ~(tape[i].day < now.day)
      BY <2>3, <3>2 DEF Skipped
    <3> QED BY <1>1, <2>3, <3>3, BeforeNow
  <2> QED BY <2>1, <2>2, <2>3 DEF RunInv
<1>5. CASE Feed
  <2>1. /\ shadow.up /\ shadow.pos \in Nat /\ shadow'.up /\ shadow'.pos = shadow.pos + 1
        /\ shadow'.flow.session = now.day /\ tape' = tape /\ now' = now
    BY <1>5, FeedFacts, FedFacts DEF market
  <2>2. shadow'.flow.emitted = 0 \/ shadow'.flow.emitted < now.minute
    <3>1. CASE Due(shadow.flow, Tick) = {}
      <4>1. InSession(shadow.flow, Tick).emitted = 0 \/ InSession(shadow.flow, Tick).emitted < now.minute
        <5>1. CASE shadow.flow.session = Tick.day
          <6>1. InSession(shadow.flow, Tick) = shadow.flow
            BY <1>5, <5>1, FeedFacts, FedFacts
          <6> QED BY <6>1 DEF RunInv
        <5>2. CASE shadow.flow.session # Tick.day
          BY <1>5, <5>2, FeedFacts, FedFacts
        <5> QED BY <5>1, <5>2
      <4> QED BY <1>5, <3>1, <4>1, FeedDue
    <3>2. CASE Due(shadow.flow, Tick) # {}
      <4>1. shadow'.flow.emitted \in 1 .. LastIndex /\ shadow'.flow.emitted < Tick.minute
            /\ Tick.minute <= now.minute
        BY <1>5, <3>2, FeedDue
      <4>2. Tick.minute \in Nat
        BY <1>5, FeedFacts
      <4> QED BY <1>1, <4>1, <4>2
    <3> QED BY <3>1, <3>2
  <2>3. \A i \in DOMAIN tape : i > shadow.pos + 1 => tape[i].day = now.day
    BY <1>1, <2>1 DEF RunInv
  <2> QED BY <2>1, <2>2, <2>3 DEF RunInv
<1>6. CASE Finish \/ Stop \/ Kill
  <2>1. shadow' = Down /\ now' = now
    BY <1>6, EndFacts DEF Ended
  <2> QED BY <2>1, FreshFacts DEF RunInv
<1>7. CASE UNCHANGED <<now, market, shadowVars>>
  BY <1>7 DEF RunInv, market, shadowVars
<1>8. (StateStart \/ StateTick \/ StateDies \/ UNCHANGED vars) => UNCHANGED <<now, market, shadowVars>>
  BY DEF StateStart, StateTick, StateDies, vars
<1> QED BY <1>2, <1>3, <1>4, <1>5, <1>6, <1>7, <1>8 DEF Next

LEMMA RowsStep ==
  ASSUME FlowTypes, TapeOrdered, RunInv, RowsInv, [Next]_vars
  PROVE  RowsInv'
<1>1. /\ Len(tape) \in Nat /\ DOMAIN tape = 1 .. Len(tape) /\ now.day \in Days /\ now.minute \in Nat
      /\ now.day \in Nat /\ Days \subseteq Nat
  BY TapeFacts, ConstantFacts
<1>2. \A d \in Days : rows[d] # None => rows[d] \in Nat
  BY ConstantFacts DEF FlowTypes
<1>3. ASSUME NEW price \in Prices, NEW side \in Sides, Trade(price, side)
      PROVE  RowsInv'
  <2>1. /\ DOMAIN tape' = 1 .. Len(tape) + 1 /\ now' = now /\ shadow' = shadow /\ rows' = rows /\ files' = files
        /\ \A i \in 1 .. Len(tape) : tape'[i] = tape[i]
        /\ tape'[Len(tape) + 1].day = now.day /\ tape'[Len(tape) + 1].minute = now.minute
    BY <1>3, TradeFacts DEF Rest, shadowVars
  <2>2. ASSUME NEW d \in Days, rows[d] # None
        PROVE  \E i \in 1 .. Len(tape) + 1 : tape'[i].day = d /\ tape'[i].minute > rows[d]
    <3>1. PICK i \in 1 .. Len(tape) : tape[i].day = d /\ tape[i].minute > rows[d]
      BY <1>1, <2>2 DEF RowsInv
    <3>2. i \in 1 .. Len(tape) + 1
      BY <1>1
    <3> QED BY <2>1, <3>1, <3>2
  <2>3. ASSUME shadow.up, rows[now.day] # None, NEW i \in 1 .. Len(tape) + 1,
               tape'[i].day = now.day, tape'[i].minute <= rows[now.day]
        PROVE  i <= shadow.pos
    <3>1. PICK w \in 1 .. Len(tape) : tape[w].day = now.day /\ tape[w].minute > rows[now.day]
      BY <1>1, <2>3 DEF RowsInv
    <3>2. now.minute > rows[now.day]
      BY <1>1, <1>2, <2>3, <3>1, BeforeNow
    <3>3. i # Len(tape) + 1
      BY <1>1, <1>2, <2>1, <2>3, <3>2
    <3>4. i \in 1 .. Len(tape)
      BY <1>1, <3>3
    <3> QED BY <1>1, <2>1, <2>3, <3>4 DEF RowsInv
  <2> QED BY <2>1, <2>2, <2>3 DEF RowsInv
<1>4. CASE Minute
  <2>1. tape' = tape /\ shadow' = shadow /\ rows' = rows /\ files' = files
    BY <1>4 DEF Minute, market, shadowVars
  <2>2. now'.day = now.day \/ (now'.day = now.day + 1 /\ ~shadow.up)
    <3>1. CASE now.minute < EndMinute
      BY <1>4, <3>1 DEF Minute, FlowTypes, Times
    <3>2. CASE ~(now.minute < EndMinute)
      <4>1. now'.day = now.day + 1
        BY <1>4, <3>2 DEF Minute
      <4>2. now.day + 1 # now.day
        BY <1>1
      <4> QED BY <1>4, <4>1, <4>2 DEF Minute
    <3> QED BY <3>1, <3>2
  <2>3. \A d \in Days : d > now'.day => d > now.day
    BY <1>1, <2>2
  <2> QED BY <2>1, <2>2, <2>3 DEF RowsInv
<1>5. CASE Launch
  <2>1. /\ shadow' = [up |-> TRUE, pos |-> From(now.day), flow |-> Preloaded(now.day)]
        /\ tape' = tape /\ now' = now /\ rows' = rows /\ files' = files
    BY <1>5 DEF Launch, market
  <2>2. ASSUME rows[now.day] # None, NEW i \in DOMAIN tape, tape[i].day = now.day, tape[i].minute <= rows[now.day]
        PROVE  i <= From(now.day)
    <3>1. Skipped(now.day) = 1 .. From(now.day) /\ From(now.day) \in 0 .. Len(tape)
      BY <1>1, <2>2, FromFacts
    <3>2. i \in Skipped(now.day)
      BY <2>2 DEF Skipped
    <3> QED BY <1>1, <3>1, <3>2
  <2> QED BY <2>1, <2>2 DEF RowsInv
<1>6. CASE Feed
  <2>1. /\ shadow.up /\ shadow.pos \in Nat /\ shadow'.up /\ shadow'.pos = shadow.pos + 1
        /\ shadow.pos + 1 \in 1 .. Len(tape) /\ Tick = tape[shadow.pos + 1]
        /\ tape' = tape /\ now' = now /\ files' = files /\ Tick.day = now.day /\ Tick.minute \in Nat
    BY <1>6, FeedFacts DEF market, Tick
  <2>2. CASE rows' = rows
    BY <1>1, <2>1, <2>2 DEF RowsInv
  <2>3. CASE rows' # rows
    <3>1. PICK i \in 1 .. shadow.pos :
            /\ tape[i].day = now.day /\ tape[i].minute < Tick.minute
            /\ rows' = [rows EXCEPT ![now.day] = tape[i].minute]
      BY <1>6, <2>3, FeedFacts
    <3>2. rows \in [Days -> {None} \cup 0 .. EndMinute]
      BY DEF FlowTypes
    <3>3. rows'[now.day] = tape[i].minute /\ \A d \in Days : d # now.day => rows'[d] = rows[d]
      BY <1>1, <3>1, <3>2
    <3>4. \A d \in Days : d > now.day => rows'[d] = None /\ files[d] = None
      BY <1>1, <3>3 DEF RowsInv
    <3>5. ASSUME NEW d \in Days, rows'[d] # None
          PROVE  \E k \in DOMAIN tape : tape[k].day = d /\ tape[k].minute > rows'[d]
      <4>1. CASE d = now.day
        <5>1. tape[shadow.pos + 1].minute > rows'[d] /\ tape[shadow.pos + 1].day = d
          <6>1. i \in 1 .. Len(tape)
            BY <1>1, <2>1
          <6>2. tape[i].minute \in Nat
            BY <6>1, TapeFacts
          <6> QED BY <2>1, <3>1, <3>3, <4>1, <6>2
        <5> QED BY <1>1, <2>1, <5>1
      <4>2. CASE d # now.day
        BY <3>3, <3>5, <4>2 DEF RowsInv
      <4> QED BY <4>1, <4>2
    <3>6. ASSUME NEW k \in DOMAIN tape, tape[k].day = now.day, tape[k].minute <= rows'[now.day]
          PROVE  k <= shadow.pos + 1
      <4>1. SUFFICES ASSUME k > shadow.pos + 1
                     PROVE  FALSE
        BY <1>1, <2>1
      <4>2. Before(tape[shadow.pos + 1], tape[k]) /\ tape[k].minute \in Nat /\ i \in 1 .. Len(tape)
        BY <1>1, <2>1, <4>1, TapeFacts DEF TapeOrdered
      <4>3. Tick.minute <= tape[k].minute
        BY <1>1, <2>1, <3>6, <4>2 DEF Before
      <4>4. tape[i].minute \in Nat
        BY <4>2, TapeFacts
      <4> QED BY <2>1, <3>1, <3>3, <3>6, <4>2, <4>3, <4>4
    <3> QED BY <2>1, <3>4, <3>5, <3>6 DEF RowsInv
  <2> QED BY <2>2, <2>3
<1>7. CASE Finish \/ Stop \/ Kill
  <2>1. shadow' = Down /\ now' = now /\ tape' = tape /\ rows' = rows /\ Down.up = FALSE
    BY <1>7, EndFacts, FreshFacts DEF Ended, market
  <2>2. \A d \in Days : d # now.day => files'[d] = files[d]
    <3>1. files' = files \/ files' = Persisted(TRUE) \/ files' = Persisted(FALSE)
      BY <1>7 DEF Finish, Stop, Kill
    <3> QED BY <3>1, PersistedFacts
  <2>3. ASSUME NEW d \in Days, d > now.day
        PROVE  rows[d] = None /\ files'[d] = None
    <3>1. d # now.day
      BY <1>1, <2>3
    <3> QED BY <2>2, <2>3, <3>1 DEF RowsInv
  <2> QED BY <2>1, <2>3 DEF RowsInv
<1>8. CASE UNCHANGED <<now, market, shadowVars>>
  BY <1>8 DEF RowsInv, market, shadowVars
<1>9. (StateStart \/ StateTick \/ StateDies \/ UNCHANGED vars) => UNCHANGED <<now, market, shadowVars>>
  BY DEF StateStart, StateTick, StateDies, vars
<1> QED BY <1>3, <1>4, <1>5, <1>6, <1>7, <1>8, <1>9 DEF Next

-----------------------------------------------------------------------------
(* The recomputation of what a run was fed: a trade is not fed yet, a tick *)
(* that is fed brings the run to the next.                                 *)
LEMMA PriorTypes ==
  ASSUME FlowTypes, NEW p \in 0 .. Len(tape)
  PROVE  PriorAt(p) \in Aggs /\ offline[now.day] \in Aggs
<1>1. offline[now.day] \in Aggs /\ Len(tape) \in Nat
  BY TapeFacts DEF FlowTypes
<1>2. CASE p < Len(tape)
  <2>1. p + 1 \in 1 .. Len(tape)
    BY <1>1, <1>2
  <2>2. priors[p + 1] \in Aggs
    BY <2>1, TapeFacts
  <2> QED BY <1>1, <1>2, <2>2 DEF PriorAt
<1>3. CASE ~(p < Len(tape))
  BY <1>1, <1>3 DEF PriorAt
<1> QED BY <1>2, <1>3

LEMMA TradePrior ==
  ASSUME FlowTypes, NEW price \in Prices, NEW side \in Sides, Trade(price, side), NEW p \in 0 .. Len(tape)
  PROVE  PriorAt(p)' = PriorAt(p)
<1>1. /\ Len(tape') = Len(tape) + 1 /\ now' = now /\ Len(tape) \in Nat
      /\ \A i \in 1 .. Len(tape) : priors'[i] = priors[i]
      /\ priors'[Len(tape) + 1] = offline[now.day]
  BY TradeFacts, TapeFacts DEF Rest
<1>2. PriorAt(p)' = priors'[p + 1]
  BY <1>1 DEF PriorAt
<1>3. CASE p < Len(tape)
  <2>1. p + 1 \in 1 .. Len(tape)
    BY <1>1, <1>3
  <2> QED BY <1>1, <1>2, <1>3, <2>1 DEF PriorAt
<1>4. CASE ~(p < Len(tape))
  <2>1. p = Len(tape)
    BY <1>1, <1>4
  <2> QED BY <1>1, <1>2, <1>4, <2>1 DEF PriorAt
<1> QED BY <1>3, <1>4

LEMMA FeedAgg ==
  ASSUME FlowTypes, TapeOrdered, AuditInv, RunInv, Feed
  PROVE  /\ PriorAt(shadow.pos) = priors[shadow.pos + 1] /\ priors[shadow.pos + 1] \in Aggs
         /\ PriorAt(shadow.pos + 1) = OnTick(priors[shadow.pos + 1], Tick)
         /\ InSession(shadow.flow, Tick).agg = shadow.flow.agg
         /\ shadow.flow.agg \in Aggs
         /\ shadow'.flow.agg = OnTick(shadow.flow.agg, Tick)
         /\ \A m \in Int : m < Tick.minute => Upto(priors[shadow.pos + 1], m) = Upto(offline[now.day], m)
<1> DEFINE p == shadow.pos + 1
<1>1. /\ shadow.up /\ shadow.pos \in Nat /\ p \in 1 .. Len(tape) /\ shadow.flow \in Flows
      /\ Tick \in Ticks /\ Tick.day = now.day /\ Tick = tape[p]
      /\ shadow'.flow = Fed(shadow.flow, Tick)
  BY FeedFacts DEF Tick
<1>2. Len(tape) \in Nat /\ DOMAIN tape = 1 .. Len(tape) /\ priors[p] \in Aggs
  BY <1>1, TapeFacts
<1>3. PriorAt(shadow.pos) = priors[p]
  BY <1>1, <1>2 DEF PriorAt
<1>4. After(p) = OnTick(priors[p], Tick)
  BY <1>1, <1>2 DEF AuditInv
<1>5. PriorAt(p) = After(p)
  <2>1. CASE p < Len(tape)
    <3>1. p + 1 \in 1 .. Len(tape) /\ p + 1 > shadow.pos
      BY <1>1, <1>2, <2>1
    <3>2. tape[p + 1].day = now.day
      BY <1>1, <1>2, <3>1 DEF RunInv
    <3> QED BY <1>1, <2>1, <3>2 DEF PriorAt, After
  <2>2. CASE ~(p < Len(tape))
    BY <1>1, <2>2 DEF PriorAt, After
  <2> QED BY <2>1, <2>2
<1>6. InSession(shadow.flow, Tick).agg = shadow.flow.agg
  <2>1. CASE shadow.flow.session = now.day
    BY <1>1, <2>1, FedFacts
  <2>2. CASE shadow.flow.session # now.day
    <3>1. shadow.flow = FreshFlow
      BY <2>2 DEF RunInv
    <3> QED BY <1>1, <2>2, <3>1, FedFacts, FreshFacts
  <2> QED BY <2>1, <2>2
<1>7. shadow'.flow.agg = OnTick(shadow.flow.agg, Tick) /\ shadow.flow.agg \in Aggs
  BY <1>1, <1>6, FedFacts DEF Flows
<1>8. \A m \in Int : m < Tick.minute => Upto(priors[p], m) = Upto(offline[now.day], m)
  BY <1>1, <1>2 DEF AuditInv
<1> QED BY <1>2, <1>3, <1>4, <1>5, <1>6, <1>7, <1>8

LEMMA LiveTrade ==
  ASSUME FlowTypes, RunInv, LiveInv, NEW price \in Prices, NEW side \in Sides, Trade(price, side)
  PROVE  LiveInv'
<1> DEFINE D == now.day
<1>1. /\ now' = now /\ shadow' = shadow /\ rows' = rows /\ files' = files /\ book' = book /\ rough' = rough
      /\ TickNow(price, side) \in Ticks /\ TickNow(price, side).minute = now.minute
      /\ offline' \in [Days -> Aggs] /\ offline[D] \in Aggs
      /\ offline'[D] = OnTick(offline[D], TickNow(price, side))
      /\ \A d \in Days : d # D => offline'[d] = offline[d]
  BY TradeFacts DEF Rest, shadowVars
<1>2. D \in Days /\ now.minute \in Nat /\ D \in Nat /\ Len(tape) \in Nat /\ shadow.pos \in 0 .. Len(tape)
  BY TapeFacts DEF FlowTypes
<1>3. ASSUME NEW end \in Int, end < now.minute
      PROVE  Decision(offline'[D], end) = Decision(offline[D], end)
             /\ HasBars(offline'[D], end) = HasBars(offline[D], end)
  <2>1. Upto(OnTick(offline[D], TickNow(price, side)), end) = Upto(offline[D], end)
    BY <1>1, <1>3, OnTickSettled
  <2>2. offline'[D] \in Aggs /\ Upto(offline'[D], end) = Upto(offline[D], end)
    BY <1>1, <1>2, <2>1
  <2> QED BY <1>1, <2>2, SameDecision
<1>4. PriorAt(shadow.pos)' = PriorAt(shadow.pos)
  <2>1. PICK p \in 0 .. Len(tape) : p = shadow.pos
    BY <1>2
  <2>2. PriorAt(p)' = PriorAt(p)
    BY TradePrior
  <2> QED BY <1>1, <2>1, <2>2 DEF PriorAt
<1>5. ASSUME NEW d \in Days \ rough, NEW end \in DOMAIN book[d]
      PROVE  /\ book[d][end] = Decision(offline'[d], end)
             /\ d < D \/ (d = D /\ end < now.minute)
  <2>1. book[d][end] = Decision(offline[d], end) /\ (d < D \/ (d = D /\ end < now.minute))
    BY <1>5 DEF LiveInv
  <2>2. end \in Int
    BY <1>5, ConstantFacts DEF FlowTypes
  <2>3. CASE d = D
    BY <1>2, <1>3, <2>1, <2>2, <2>3
  <2>4. CASE d # D
    BY <1>1, <2>1, <2>4
  <2> QED BY <2>3, <2>4
<1>6. ASSUME shadow.flow.session = D, D \notin rough, NEW end \in 1 .. shadow.flow.emitted,
             end % Span = 0, HasBars(offline'[D], end)
      PROVE  end \in DOMAIN book[D]
  <2>1. shadow.flow.emitted \in Nat
    BY ConstantFacts DEF FlowTypes, Flows
  <2>2. end < now.minute /\ end \in Int
    BY <1>2, <1>6, <2>1 DEF RunInv
  <2> QED BY <1>3, <1>6, <2>2 DEF LiveInv
<1> QED BY <1>1, <1>4, <1>5, <1>6 DEF LiveInv

LEMMA LiveFeed ==
  ASSUME FlowTypes, TapeOrdered, AuditInv, RunInv, LiveInv, Feed
  PROVE  LiveInv'
<1> DEFINE D == now.day  begun == InSession(shadow.flow, Tick)  p == shadow.pos + 1
           new == New(shadow.flow, Tick)
<1>1. /\ shadow.up /\ shadow'.up /\ shadow'.pos = p /\ shadow.flow \in Flows
      /\ Tick \in Ticks /\ Tick.day = D /\ Tick.minute \in Nat
      /\ now' = now /\ tape' = tape /\ priors' = priors /\ offline' = offline /\ files' = files
      /\ rough' = rough /\ book' = BookAfter(book, shadow.flow, Tick)
  BY FeedFacts DEF market
<1>2. D \in Days /\ now.minute \in Nat /\ DOMAIN book = Days /\ offline[D] \in Aggs
  BY TapeFacts DEF FlowTypes
<1>3. /\ PriorAt(shadow.pos) = priors[p] /\ priors[p] \in Aggs
      /\ PriorAt(p) = OnTick(priors[p], Tick)
      /\ begun.agg = shadow.flow.agg /\ shadow'.flow.agg = OnTick(shadow.flow.agg, Tick)
      /\ \A m \in Int : m < Tick.minute => Upto(priors[p], m) = Upto(offline[D], m)
  BY FeedAgg
<1>4. /\ begun \in Flows /\ shadow'.flow.session = D
      /\ shadow.flow.session = D => begun = shadow.flow
      /\ shadow.flow.session # D => begun.emitted = 0
  BY <1>1, FedFacts, FeedFacts
<1>5. /\ Due(shadow.flow, Tick) \subseteq 1 .. LastIndex /\ new \subseteq Due(shadow.flow, Tick)
      /\ \A end \in Due(shadow.flow, Tick) : end < Tick.minute /\ end \in Int
      /\ Tick.minute <= now.minute /\ begun.emitted \in Nat
      /\ Due(shadow.flow, Tick) = {} => shadow'.flow.emitted = begun.emitted
      /\ Due(shadow.flow, Tick) # {} =>
           \A end \in begun.emitted + 1 .. shadow'.flow.emitted :
             end % Span = 0 => end \in Due(shadow.flow, Tick)
  <2>1. Due(shadow.flow, Tick) \subseteq 1 .. LastIndex /\ LastIndex \in Nat
    BY FeedDue, ConstantFacts
  <2>2. new \subseteq Due(shadow.flow, Tick)
    BY DEF New
  <2>3. \A end \in Due(shadow.flow, Tick) : end \in Int
    BY <2>1
  <2> HIDE DEF begun, new
  <2> QED BY <2>1, <2>2, <2>3, FeedDue DEF begun
<1>6. PriorAt(shadow.pos)' = PriorAt(p)
  BY <1>1 DEF PriorAt
<1> HIDE DEF p, begun, new
<1>7. ASSUME D \notin rough
      PROVE  begun.agg = priors[p] /\ shadow'.flow.agg = PriorAt(p)
  BY <1>1, <1>3, <1>7 DEF LiveInv
<1>8. ASSUME D \notin rough, NEW end \in Due(shadow.flow, Tick)
      PROVE  Decision(begun.agg, end) = Decision(offline[D], end)
             /\ HasBars(begun.agg, end) = HasBars(offline[D], end)
  <2>1. end \in Int /\ Upto(priors[p], end) = Upto(offline[D], end)
    BY <1>3, <1>5, <1>8
  <2>2. Decision(priors[p], end) = Decision(offline[D], end)
        /\ HasBars(priors[p], end) = HasBars(offline[D], end)
    BY <1>2, <1>3, <2>1, SameDecision
  <2> QED BY <1>7, <1>8, <2>2
<1>9. /\ \A d \in Days : d # D => book'[d] = book[d]
      /\ new \subseteq DOMAIN book'[D]
      /\ \A end \in new : book'[D][end] = Decision(begun.agg, end)
      /\ \A end \in DOMAIN book'[D] : end \notin new =>
           end \in DOMAIN book[D] /\ book'[D][end] = book[D][end]
      /\ shadow.flow.session = D => DOMAIN book[D] \subseteq DOMAIN book'[D]
  BY <1>1, <1>2, BookFacts DEF begun, new
<1>10. ASSUME NEW d \in Days \ rough, NEW end \in DOMAIN book'[d]
       PROVE  /\ book'[d][end] = Decision(offline[d], end)
              /\ d < D \/ (d = D /\ end < now.minute)
  <2>1. CASE d = D /\ end \in new
    <3>1. book'[d][end] = Decision(offline[d], end)
      BY <1>5, <1>8, <1>9, <1>10, <2>1
    <3>2. end < now.minute
      BY <1>1, <1>2, <1>5, <2>1
    <3> QED BY <2>1, <3>1, <3>2
  <2>2. CASE d = D /\ end \notin new
    BY <1>9, <1>10, <2>2 DEF LiveInv
  <2>3. CASE d # D
    BY <1>9, <1>10, <2>3 DEF LiveInv
  <2> QED BY <2>1, <2>2, <2>3
<1>11. ASSUME D \notin rough, NEW end \in 1 .. shadow'.flow.emitted, end % Span = 0, HasBars(offline[D], end)
       PROVE  end \in DOMAIN book'[D]
  <2>1. CASE end <= begun.emitted
    <3>1. shadow.flow.session = D /\ end \in 1 .. shadow.flow.emitted
      BY <1>4, <1>5, <1>11, <2>1
    <3>2. end \in DOMAIN book[D]
      BY <1>11, <3>1 DEF LiveInv
    <3> QED BY <1>9, <3>1, <3>2
  <2>2. CASE ~(end <= begun.emitted)
    <3>1. end \in begun.emitted + 1 .. shadow'.flow.emitted
      BY <1>5, <1>11, <2>2
    <3>2. Due(shadow.flow, Tick) # {}
      BY <1>5, <1>11, <2>2
    <3>3. end \in Due(shadow.flow, Tick)
      BY <1>5, <1>11, <3>1, <3>2
    <3>4. end \in new
      BY <1>8, <1>11, <3>3 DEF new, New, begun
    <3> QED BY <1>9, <3>4
  <2> QED BY <2>1, <2>2
<1>12. shadow'.up /\ D \notin rough => shadow'.flow.agg = PriorAt(shadow.pos)'
  BY <1>6, <1>7
<1> QED BY <1>1, <1>10, <1>11, <1>12 DEF LiveInv

LEMMA LiveStep ==
  ASSUME FlowTypes, TapeOrdered, AuditInv, RunInv, RowsInv, LiveInv, [Next]_vars
  PROVE  LiveInv'
<1> DEFINE D == now.day
<1>1. /\ Len(tape) \in Nat /\ DOMAIN tape = 1 .. Len(tape) /\ D \in Days /\ now.minute \in Nat
      /\ D \in Nat /\ now.minute <= EndMinute /\ EndMinute \in Nat /\ Days \subseteq Nat
  BY TapeFacts, ConstantFacts
<1>2. CASE Minute
  <2>1. /\ tape' = tape /\ priors' = priors /\ offline' = offline /\ shadow' = shadow /\ rows' = rows
        /\ files' = files /\ book' = book /\ rough' = rough /\ now' \in Times
        /\ (shadow.up => now'.day = D)
        /\ \/ now'.day = D /\ now'.minute = now.minute + 1 /\ now.minute < EndMinute
           \/ now'.day = D + 1 /\ now'.minute = 0 /\ now.minute = EndMinute
    BY <1>2, MinuteMarket DEF Minute, market, shadowVars
  <2>2. now'.day \in Days /\ (now'.day = D \/ (now'.day > D /\ ~shadow.up))
    BY <1>1, <2>1 DEF Times
  <2>3. ASSUME ~shadow.up, now'.day \notin rough, now'.minute < EndMinute
        PROVE  rows[now'.day] = None /\ files[now'.day] = None
    <3>1. CASE now'.day = D
      <4>1. now.minute < EndMinute
        BY <1>1, <2>1, <3>1
      <4> QED BY <2>3, <3>1, <4>1 DEF LiveInv
    <3>2. CASE now'.day > D
      BY <2>2, <3>2 DEF RowsInv
    <3> QED BY <2>2, <3>1, <3>2
  <2>4. ASSUME shadow.up, now'.day \notin rough
        PROVE  shadow.flow.agg = PriorAt(shadow.pos)'
    <3>1. PriorAt(shadow.pos)' = PriorAt(shadow.pos) /\ now'.day = D
      BY <2>1, <2>4 DEF PriorAt
    <3> QED BY <2>4, <3>1 DEF LiveInv
  <2>5. ASSUME NEW d \in Days \ rough, NEW end \in DOMAIN book[d]
        PROVE  /\ book[d][end] = Decision(offline[d], end)
               /\ d < now'.day \/ (d = now'.day /\ end < now'.minute)
    <3>1. book[d][end] = Decision(offline[d], end) /\ (d < D \/ (d = D /\ end < now.minute))
      BY <2>5 DEF LiveInv
    <3>2. end \in Int /\ d \in Nat
      BY <1>1, <2>5, ConstantFacts DEF FlowTypes
    <3> QED BY <1>1, <2>1, <3>1, <3>2
  <2>6. ASSUME shadow.flow.session = now'.day, now'.day \notin rough, NEW end \in 1 .. shadow.flow.emitted,
               end % Span = 0, HasBars(offline[now'.day], end)
        PROVE  end \in DOMAIN book[now'.day]
    <3>1. CASE shadow.up
      <4>1. now'.day = D
        BY <2>1, <3>1
      <4> QED BY <2>6, <4>1 DEF LiveInv
    <3>2. CASE ~shadow.up
      <4>1. shadow.flow.emitted = 0
        BY <3>2, FreshFacts DEF RunInv
      <4> QED BY <2>6, <4>1
    <3> QED BY <3>1, <3>2
  <2> QED BY <2>1, <2>3, <2>4, <2>5, <2>6 DEF LiveInv
<1>3. CASE Launch
  <2>1. /\ shadow' = [up |-> TRUE, pos |-> From(D), flow |-> Preloaded(D)] /\ ~shadow.up
        /\ now.minute < EndMinute /\ book' = [d \in Days |-> <<>>] /\ now' = now
        /\ tape' = tape /\ priors' = priors /\ offline' = offline /\ rough \subseteq rough'
        /\ (D \notin rough' => D \notin rough /\ ~(rows[D] = None /\ \E i \in DOMAIN tape : tape[i].day = D))
    BY <1>3 DEF Launch, market
  <2>2. Preloaded(D).emitted = 0 /\ (files[D] = None => Preloaded(D) = FreshFlow)
    BY <1>1, PreloadedFacts
  <2>3. ASSUME D \notin rough'
        PROVE  Preloaded(D).agg = PriorAt(shadow.pos)'
    <3>1. rows[D] = None /\ files[D] = None
      BY <2>1, <2>3 DEF LiveInv
    <3>2. \A i \in DOMAIN tape : tape[i].day # D
      BY <2>1, <2>3, <3>1
    <3>3. offline[D] = FreshAgg
      BY <1>1, <3>2 DEF AuditInv
    <3>4. From(D) = Len(tape)
      BY <1>1, <3>1, FromFacts
    <3>5. PriorAt(shadow.pos)' = offline[D]
      BY <1>1, <2>1, <3>4 DEF PriorAt
    <3> QED BY <2>2, <3>1, <3>3, <3>5, FreshFacts
  <2>4. \A d \in Days : DOMAIN book'[d] = {}
    <3>1. <<>> \in Seq(Int) /\ Len(<<>>) = 0
      OBVIOUS
    <3>2. DOMAIN <<>> = {}
      BY <3>1
    <3> QED BY <2>1, <3>2
  <2>5. shadow'.up /\ shadow'.flow = Preloaded(D)
    BY <2>1
  <2>6. 1 .. shadow'.flow.emitted = {}
    BY <2>2, <2>5
  <2> QED BY <2>1, <2>3, <2>4, <2>5, <2>6 DEF LiveInv
<1>4. CASE Finish \/ Stop \/ Kill
  <2>1. /\ shadow' = Down /\ now' = now /\ offline' = offline /\ rows' = rows /\ book' = book
        /\ Down.up = FALSE /\ Down.flow.emitted = 0
    BY <1>4, EndFacts, FreshFacts DEF Ended, market
  <2>2. rough \subseteq rough' /\ (D \in rough' \/ ~(now.minute < EndMinute))
    <3>1. CASE Finish
      BY <1>1, <3>1 DEF Finish
    <3>2. CASE Stop
      BY <3>2 DEF Stop
    <3>3. CASE Kill
      BY <3>3 DEF Kill
    <3> QED BY <1>4, <3>1, <3>2, <3>3
  <2>3. 1 .. shadow'.flow.emitted = {}
    BY <2>1
  <2>4. \A d \in Days \ rough' : d \in Days \ rough
    BY <2>2
  <2> QED BY <2>1, <2>2, <2>3, <2>4 DEF LiveInv
<1>5. CASE UNCHANGED <<now, market, shadowVars>>
  <2>1. /\ tape' = tape /\ priors' = priors /\ offline' = offline /\ now' = now /\ shadow' = shadow /\ rows' = rows
        /\ files' = files /\ book' = book /\ rough' = rough
    BY <1>5 DEF market, shadowVars
  <2>2. PriorAt(shadow.pos)' = PriorAt(shadow.pos)
    BY <2>1 DEF PriorAt
  <2> QED BY <2>1, <2>2 DEF LiveInv
<1>6. (StateStart \/ StateTick \/ StateDies \/ UNCHANGED vars) => UNCHANGED <<now, market, shadowVars>>
  BY DEF StateStart, StateTick, StateDies, vars
<1> QED BY <1>2, <1>3, <1>4, <1>5, <1>6, LiveTrade, LiveFeed DEF Next

-----------------------------------------------------------------------------
(* A later recomputation of the day covers an earlier one.                 *)
LEMMA PriorGrows ==
  ASSUME FlowTypes, TapeOrdered, AuditInv, NEW p \in 0 .. Len(tape), NEW q \in 0 .. Len(tape), q <= p,
         \A i \in DOMAIN tape : i > q => tape[i].day = now.day
  PROVE  Covers(PriorAt(p).minutes, PriorAt(q).minutes)
<1>1. Len(tape) \in Nat /\ DOMAIN tape = 1 .. Len(tape)
  BY TapeFacts
<1>2. CASE ~(q < Len(tape))
  <2>1. PriorAt(p) = PriorAt(q)
    BY <1>1, <1>2 DEF PriorAt
  <2>2. PriorAt(q) \in Aggs
    BY PriorTypes
  <2> QED BY <2>1, <2>2, CoversSelf
<1>3. CASE q < Len(tape)
  <2>1. q + 1 \in DOMAIN tape /\ tape[q + 1].day = now.day /\ PriorAt(q) = priors[q + 1]
    BY <1>1, <1>3 DEF PriorAt
  <2>2. CASE p < Len(tape)
    <3>1. p + 1 \in DOMAIN tape /\ tape[p + 1].day = now.day /\ PriorAt(p) = priors[p + 1] /\ q + 1 <= p + 1
      BY <1>1, <2>2 DEF PriorAt
    <3> QED BY <2>1, <3>1 DEF AuditInv
  <2>3. CASE ~(p < Len(tape))
    BY <2>1, <2>3 DEF AuditInv, PriorAt
  <2> QED BY <2>2, <2>3
<1> QED BY <1>2, <1>3

LEMMA FilesTrade ==
  ASSUME FlowTypes, TapeOrdered, RowsInv, FilesInv, NEW price \in Prices, NEW side \in Sides, Trade(price, side)
  PROVE  FilesInv'
<1> DEFINE D == now.day  n == Len(tape)  new == TickNow(price, side)
<1>1. /\ now' = now /\ shadow' = shadow /\ rows' = rows /\ files' = files
      /\ calibrated' = calibrated /\ gapped' = gapped
      /\ DOMAIN tape' = 1 .. n + 1 /\ Len(tape') = n + 1
      /\ \A i \in 1 .. n : tape'[i] = tape[i]
      /\ tape'[n + 1].day = D /\ tape'[n + 1].minute = now.minute
      /\ new \in Ticks /\ new.minute = now.minute /\ offline[D] \in Aggs
      /\ offline'[D] = OnTick(offline[D], new)
      /\ \A d \in Days : d # D => offline'[d] = offline[d]
  BY TradeFacts DEF Rest, shadowVars
<1>2. /\ D \in Days /\ now.minute \in Nat /\ D \in Nat /\ n \in Nat /\ DOMAIN tape = 1 .. n
      /\ shadow.pos \in 0 .. n /\ LastIndex \in Nat /\ LastIndex < EndMinute
      /\ (rows[D] # None => rows[D] \in Nat)
  BY TapeFacts, ConstantFacts DEF FlowTypes
<1>3. \A p \in 0 .. n : PriorAt(p)' = PriorAt(p)
  BY TradePrior
<1>4. PriorAt(shadow.pos)' = PriorAt(shadow.pos)
  <2>1. PICK p \in 0 .. n : p = shadow.pos
    BY <1>2
  <2> QED BY <1>1, <1>3, <2>1 DEF PriorAt
<1>5. Saved(D)' = Saved(D)
  BY <1>1 DEF Saved, Preloaded
<1> HIDE DEF n, new
<1>6. ASSUME ~shadow.up, D \notin gapped, rows[D] # None, now.minute < EndMinute
      PROVE  \E p \in 0 .. n + 1 :
               /\ \A i \in 1 .. n + 1 : tape'[i].day = D /\ tape'[i].minute <= rows[D] => i <= p
               /\ \A i \in 1 .. n + 1 : i > p => tape'[i].day = D
               /\ Covers(Saved(D), PriorAt(p)'.minutes)
  <2>1. PICK p \in 0 .. n :
          /\ \A i \in DOMAIN tape : tape[i].day = D /\ tape[i].minute <= rows[D] => i <= p
          /\ \A i \in DOMAIN tape : i > p => tape[i].day = D
          /\ Covers(Saved(D), PriorAt(p).minutes)
    BY <1>6 DEF FilesInv, n
  <2>2. PICK w \in DOMAIN tape : tape[w].day = D /\ tape[w].minute > rows[D]
    BY <1>2, <1>6 DEF RowsInv
  <2>3. now.minute > rows[D]
    BY <1>2, <1>6, <2>2, BeforeNow
  <2>4. ASSUME NEW i \in 1 .. n + 1, tape'[i].day = D, tape'[i].minute <= rows[D]
        PROVE  i <= p
    <3>1. i # n + 1
      BY <1>1, <1>2, <1>6, <2>3, <2>4
    <3>2. i \in 1 .. n
      BY <1>2, <3>1
    <3> QED BY <1>1, <1>2, <2>1, <2>4, <3>2
  <2>5. ASSUME NEW i \in 1 .. n + 1, i > p
        PROVE  tape'[i].day = D
    <3>1. i = n + 1 \/ i \in 1 .. n
      BY <1>2
    <3> QED BY <1>1, <1>2, <2>1, <2>5, <3>1
  <2>6. p \in 0 .. n + 1 /\ Covers(Saved(D), PriorAt(p)'.minutes)
    BY <1>2, <1>3, <2>1
  <2> QED BY <2>4, <2>5, <2>6
<1>7. ASSUME NEW d \in Days \ gapped, files[d] # None, ~files[d].partial
      PROVE  Whole(d)'
  <2>1. Whole(d) /\ (d < D \/ (d = D /\ now.minute = EndMinute))
    BY <1>7 DEF FilesInv
  <2>2. offline'[d] = offline[d]
    <3>1. CASE d = D
      <4>1. new.minute \notin 1 .. LastIndex
        BY <1>1, <1>2, <2>1, <3>1
      <4>2. OnTick(offline[D], new) = offline[D]
        BY <1>1, <4>1, OnTickFacts
      <4> QED BY <1>1, <3>1, <4>2
    <3>2. CASE d # D
      BY <1>1, <3>2
    <3> QED BY <3>1, <3>2
  <2> QED BY <1>1, <2>1, <2>2 DEF Whole, Covers
<1>8. Saved(now.day)' = Saved(D)
  BY <1>1 DEF Saved, Preloaded
<1>9. ~shadow'.up /\ now'.day \notin gapped' /\ rows'[now'.day] # None /\ now'.minute < EndMinute =>
       \E p \in 0 .. Len(tape') :
         /\ \A i \in DOMAIN tape' : tape'[i].day = now'.day /\ tape'[i].minute <= rows'[now'.day] => i <= p
         /\ \A i \in DOMAIN tape' : i > p => tape'[i].day = now'.day
         /\ Covers(Saved(D), PriorAt(p)'.minutes)
  BY <1>1, <1>6
<1>10. shadow'.up /\ now'.day \notin gapped' => Covers(shadow'.flow.agg.minutes, PriorAt(shadow.pos)'.minutes)
  BY <1>1, <1>4 DEF FilesInv
<1>11. /\ \A d \in Days : files'[d] # None /\ ~files'[d].partial =>
            d < now'.day \/ (d = now'.day /\ now'.minute = EndMinute /\ ~shadow'.up)
       /\ \A d \in Days \ gapped' : files'[d] # None /\ ~files'[d].partial => Whole(d)'
       /\ \A d \in calibrated' : files'[d] # None /\ ~files'[d].partial
  BY <1>1, <1>7 DEF FilesInv
<1> QED BY <1>8, <1>9, <1>10, <1>11 DEF FilesInv, Covers

LEMMA FilesFeed ==
  ASSUME FlowTypes, TapeOrdered, AuditInv, RunInv, FilesInv, Feed
  PROVE  FilesInv'
<1>1. /\ shadow.up /\ shadow'.up /\ shadow'.pos = shadow.pos + 1 /\ Tick \in Ticks
      /\ now' = now /\ tape' = tape /\ priors' = priors /\ offline' = offline /\ files' = files
      /\ calibrated' = calibrated /\ gapped' = gapped
  BY FeedFacts DEF market
<1>2. /\ PriorAt(shadow.pos) = priors[shadow.pos + 1] /\ priors[shadow.pos + 1] \in Aggs
      /\ PriorAt(shadow.pos + 1) = OnTick(priors[shadow.pos + 1], Tick)
      /\ shadow.flow.agg \in Aggs /\ shadow'.flow.agg = OnTick(shadow.flow.agg, Tick)
  BY FeedAgg
<1>3. PriorAt(shadow.pos)' = PriorAt(shadow.pos + 1)
  BY <1>1 DEF PriorAt
<1>4. ASSUME now.day \notin gapped
      PROVE  Covers(shadow'.flow.agg.minutes, PriorAt(shadow.pos)'.minutes)
  <2>1. Covers(shadow.flow.agg.minutes, priors[shadow.pos + 1].minutes)
    BY <1>1, <1>2, <1>4 DEF FilesInv
  <2>2. Covers(Ticked(shadow.flow.agg, Tick), Ticked(priors[shadow.pos + 1], Tick))
    BY <1>1, <1>2, <2>1, OnTickCovers
  <2> QED BY <1>2, <1>3, <2>2 DEF Ticked
<1>5. \A d \in Days \ gapped : files[d] # None /\ ~files[d].partial => Whole(d)'
  BY <1>1 DEF FilesInv, Whole, Covers
<1> QED BY <1>1, <1>4, <1>5 DEF FilesInv, Covers

LEMMA FilesLaunch ==
  ASSUME FlowTypes, TapeOrdered, AuditInv, FilesInv, Launch
  PROVE  FilesInv'
<1> DEFINE D == now.day
<1>1. /\ shadow' = [up |-> TRUE, pos |-> From(D), flow |-> Preloaded(D)] /\ ~shadow.up
      /\ now.minute < EndMinute /\ now' = now /\ files' = files /\ calibrated' = calibrated
      /\ tape' = tape /\ priors' = priors /\ offline' = offline /\ gapped \subseteq gapped'
      /\ (D \notin gapped' => D \notin gapped /\ ~(rows[D] = None /\ \E i \in DOMAIN tape : tape[i].day = D))
  BY DEF Launch, market
<1>2. /\ Len(tape) \in Nat /\ DOMAIN tape = 1 .. Len(tape) /\ D \in Days /\ D \in Nat
      /\ now.minute \in Nat /\ EndMinute \in Nat
      /\ From(D) \in 0 .. Len(tape) /\ offline[D] \in Aggs
  BY TapeFacts, FromFacts DEF FlowTypes
<1>3. shadow'.up /\ shadow'.pos = From(D) /\ shadow'.flow.agg.minutes = Saved(D)
  BY <1>1 DEF Saved
<1>4. PriorAt(shadow.pos)' = PriorAt(From(D))
  BY <1>1, <1>3 DEF PriorAt
<1>5. ASSUME D \notin gapped'
      PROVE  Covers(Saved(D), PriorAt(From(D)).minutes)
  <2>1. CASE rows[D] = None
    <3>1. \A i \in DOMAIN tape : tape[i].day # D
      BY <1>1, <1>5, <2>1
    <3>2. From(D) = Len(tape) /\ offline[D] = FreshAgg
      BY <1>2, <2>1, <3>1, FromFacts DEF AuditInv
    <3>3. PriorAt(From(D)) = FreshAgg
      BY <1>2, <3>2 DEF PriorAt
    <3> QED BY <3>3, FreshFacts DEF Covers
  <2>2. CASE rows[D] # None
    <3>1. PICK p \in 0 .. Len(tape) :
            /\ \A i \in DOMAIN tape : tape[i].day = D /\ tape[i].minute <= rows[D] => i <= p
            /\ \A i \in DOMAIN tape : i > p => tape[i].day = D
            /\ Covers(Saved(D), PriorAt(p).minutes)
      BY <1>1, <1>5, <2>2 DEF FilesInv
    <3>2. Skipped(D) = 1 .. From(D)
      BY <1>2, <2>2, FromFacts
    <3>3. From(D) <= p
      <4>1. SUFFICES ASSUME From(D) > p
                     PROVE  FALSE
        BY <1>2, <3>1
      <4>2. From(D) \in Skipped(D) /\ From(D) \in DOMAIN tape
        BY <1>2, <3>1, <3>2, <4>1
      <4>3. tape[From(D)].day = D
        BY <3>1, <4>1, <4>2
      <4>4. tape[From(D)].day < D \/ tape[From(D)].minute <= rows[D]
        BY <4>2 DEF Skipped
      <4>5. From(D) <= p
        BY <1>2, <3>1, <4>2, <4>3, <4>4
      <4> QED BY <1>2, <3>1, <4>1, <4>5
    <3>4. ASSUME NEW i \in DOMAIN tape, i > From(D)
          PROVE  tape[i].day = D
      <4>1. i \notin 1 .. From(D)
        BY <1>2, <3>4
      <4>2. ~(tape[i].day < D)
        BY <3>2, <3>4, <4>1 DEF Skipped
      <4> QED BY <1>2, <4>2, BeforeNow
    <3>5. Covers(PriorAt(p).minutes, PriorAt(From(D)).minutes)
      BY <1>2, <3>1, <3>3, <3>4, PriorGrows
    <3>6. PriorAt(p) \in Aggs /\ PriorAt(From(D)) \in Aggs /\ Saved(D) \in Tables
      BY <1>2, <3>1, PriorTypes, PreloadedFacts
    <3> QED BY <3>1, <3>5, <3>6, CoversTrans
  <2> QED BY <2>1, <2>2
<1>6. \A d \in Days : files[d] # None /\ ~files[d].partial => d < D
  BY <1>1, <1>2 DEF FilesInv
<1>7. \A d \in Days \ gapped' : files[d] # None /\ ~files[d].partial => Whole(d)'
  BY <1>1 DEF FilesInv, Whole, Covers
<1> QED BY <1>1, <1>3, <1>4, <1>5, <1>6, <1>7 DEF FilesInv, Covers

LEMMA FilesMinute ==
  ASSUME FlowTypes, TapeOrdered, AuditInv, RunInv, RowsInv, FilesInv, Minute
  PROVE  FilesInv'
<1> DEFINE D == now.day
<1>1. /\ tape' = tape /\ priors' = priors /\ offline' = offline /\ shadow' = shadow /\ rows' = rows
      /\ files' = files /\ calibrated' = calibrated /\ gapped' = gapped /\ now' \in Times
      /\ (shadow.up => now'.day = D)
      /\ \/ now'.day = D /\ now'.minute = now.minute + 1 /\ now.minute < EndMinute
         \/ now'.day = D + 1 /\ now'.minute = 0 /\ now.minute = EndMinute
  BY MinuteMarket DEF Minute, market, shadowVars
<1>2. /\ Len(tape) \in Nat /\ DOMAIN tape = 1 .. Len(tape) /\ D \in Days /\ D \in Nat
      /\ now.minute \in Nat /\ EndMinute \in Nat /\ Days \subseteq Nat
  BY TapeFacts, ConstantFacts
<1>3. \A d \in Days \ gapped : files[d] # None /\ ~files[d].partial => Whole(d)'
  BY <1>1 DEF FilesInv, Whole, Covers
<1>4. CASE now'.day = D
  <2>1. \A p : PriorAt(p)' = PriorAt(p)
    BY <1>1, <1>4 DEF PriorAt
  <2>2. now.minute < EndMinute /\ D < D + 1 /\ now.minute # EndMinute
    BY <1>1, <1>2, <1>4
  <2>3. PriorAt(shadow.pos)' = PriorAt(shadow.pos) /\ Saved(now.day)' = Saved(now.day)
    BY <1>1, <1>4 DEF PriorAt, Saved, Preloaded
  <2>4. \A d \in Days : files[d] # None /\ ~files[d].partial => d < D
    BY <1>2, <2>2 DEF FilesInv
  <2>5. shadow'.up /\ now'.day \notin gapped' => Covers(shadow'.flow.agg.minutes, PriorAt(shadow.pos)'.minutes)
    BY <1>1, <1>4, <2>3 DEF FilesInv
  <2>6. ~shadow'.up /\ now'.day \notin gapped' /\ rows'[now'.day] # None /\ now'.minute < EndMinute =>
          \E p \in 0 .. Len(tape) :
            /\ \A i \in DOMAIN tape : tape[i].day = D /\ tape[i].minute <= rows[D] => i <= p
            /\ \A i \in DOMAIN tape : i > p => tape[i].day = D
            /\ Covers(Saved(now.day)', PriorAt(p)'.minutes)
    BY <1>1, <1>4, <2>1, <2>2, <2>3 DEF FilesInv
  <2> QED BY <1>1, <1>3, <1>4, <2>4, <2>5, <2>6 DEF FilesInv, Covers
<1>5. CASE now'.day # D
  <2>1. ~shadow.up /\ now'.day = D + 1 /\ now'.day \in Days /\ now'.day > D
    BY <1>1, <1>2, <1>5 DEF Times
  <2>2. rows[now'.day] = None
    BY <2>1 DEF RowsInv
  <2>3. ASSUME NEW d \in Days, files[d] # None, ~files[d].partial
        PROVE  d < now'.day
    <3>1. d < D \/ d = D
      BY <2>3 DEF FilesInv
    <3> QED BY <1>2, <2>1, <3>1
  <2> QED BY <1>1, <1>3, <2>1, <2>2, <2>3 DEF FilesInv, Covers
<1> QED BY <1>4, <1>5

LEMMA FilesFinish ==
  ASSUME FlowTypes, TapeOrdered, FilesInv, Finish
  PROVE  FilesInv'
<1> DEFINE D == now.day
<1>1. /\ shadow.up /\ shadow.pos = Len(tape) /\ shadow' = Down /\ now' = now /\ offline' = offline
      /\ gapped' = gapped /\ files' = Persisted(FALSE) /\ calibrated' = Usable(files')
      /\ now.minute >= EndMinute /\ Down.up = FALSE
  BY FreshFacts DEF Finish, market
<1>2. D \in Days /\ D \in Nat /\ Days \subseteq Nat /\ now.minute = EndMinute /\ Len(tape) \in Nat /\ EndMinute \in Nat
  BY <1>1, TapeFacts, ConstantFacts
<1>3. /\ \A d \in Days : d # D => files'[d] = files[d]
      /\ DOMAIN shadow.flow.agg.minutes = {} => files' = files
      /\ DOMAIN shadow.flow.agg.minutes # {} => files'[D].minutes = shadow.flow.agg.minutes
  BY <1>1, PersistedFacts
<1>4. \A d \in Days : files[d] # None /\ ~files[d].partial => d < D
  BY <1>1 DEF FilesInv
<1>5. \A d \in Days : files'[d] # None /\ ~files'[d].partial => d < D \/ d = D
  BY <1>3, <1>4
<1>6. ASSUME NEW d \in Days \ gapped, files'[d] # None, ~files'[d].partial
      PROVE  Whole(d)'
  <2>1. CASE d = D
    <3>1. DOMAIN shadow.flow.agg.minutes # {}
      BY <1>2, <1>3, <1>4, <1>6, <2>1
    <3>2. Covers(shadow.flow.agg.minutes, PriorAt(shadow.pos).minutes)
      BY <1>1, <1>6, <2>1 DEF FilesInv
    <3>3. PriorAt(shadow.pos) = offline[D]
      BY <1>1, <1>2 DEF PriorAt
    <3> QED BY <1>1, <1>3, <2>1, <3>1, <3>2, <3>3 DEF Whole, Covers
  <2>2. CASE d # D
    <3>1. Whole(d) /\ files'[d] = files[d]
      BY <1>3, <1>6, <2>2 DEF FilesInv
    <3> QED BY <1>1, <3>1 DEF Whole, Covers
  <2> QED BY <2>1, <2>2
<1>7. \A d \in calibrated' : files'[d] # None /\ ~files'[d].partial
  BY <1>1 DEF Usable
<1>8. ~shadow'.up /\ ~(now'.minute < EndMinute) /\ now'.minute = EndMinute /\ now'.day = D
  BY <1>1, <1>2
<1>9. \A d \in Days : files'[d] # None /\ ~files'[d].partial =>
        d < now'.day \/ (d = now'.day /\ now'.minute = EndMinute /\ ~shadow'.up)
  BY <1>5, <1>8
<1>10. \A d \in Days \ gapped' : files'[d] # None /\ ~files'[d].partial => Whole(d)'
  BY <1>1, <1>6
<1> QED BY <1>7, <1>8, <1>9, <1>10 DEF FilesInv

LEMMA FilesStop ==
  ASSUME FlowTypes, TapeOrdered, RunInv, RowsInv, FilesInv, Stop \/ Kill
  PROVE  FilesInv'
<1> DEFINE D == now.day
<1>1. /\ shadow.up /\ shadow' = Down /\ now' = now /\ tape' = tape /\ priors' = priors /\ offline' = offline
      /\ rows' = rows /\ calibrated' = calibrated /\ gapped \subseteq gapped' /\ Down.up = FALSE
      /\ (files' = files \/ files' = Persisted(TRUE))
      /\ (D \notin gapped' => D \notin gapped /\ files' = Persisted(TRUE))
  <2>1. CASE Stop
    BY <2>1, FreshFacts DEF Stop, market
  <2>2. CASE Kill
    BY <2>2, FreshFacts DEF Kill, market
  <2> QED BY <2>1, <2>2
<1>2. D \in Days /\ D \in Nat /\ Days \subseteq Nat /\ shadow.pos \in 0 .. Len(tape)
  BY TapeFacts, ConstantFacts DEF FlowTypes
<1>3. /\ \A d \in Days : d # D => files'[d] = files[d]
      /\ files'[D] = files[D] \/ files'[D].partial
  <2>1. /\ \A d \in Days : d # D => Persisted(TRUE)[d] = files[d]
        /\ Persisted(TRUE) = files \/ Persisted(TRUE)[D].partial
    BY PersistedFacts
  <2> QED BY <1>1, <2>1
<1>4. \A d \in Days : files[d] # None /\ ~files[d].partial => d < D
  BY <1>1 DEF FilesInv
<1>5. \A d \in Days : files'[d] # None /\ ~files'[d].partial => d < D /\ files'[d] = files[d]
  BY <1>2, <1>3, <1>4
<1>6. ASSUME NEW d \in Days \ gapped', files'[d] # None, ~files'[d].partial
      PROVE  Whole(d)'
  <2>1. files'[d] = files[d] /\ Whole(d)
    BY <1>1, <1>5, <1>6 DEF FilesInv
  <2> QED BY <1>1, <2>1 DEF Whole, Covers
<1>7. ASSUME NEW d \in calibrated
      PROVE  files'[d] # None /\ ~files'[d].partial
  <2>1. d \in Days /\ files[d] # None /\ ~files[d].partial
    BY <1>7 DEF FilesInv, FlowTypes
  <2>2. d # D
    BY <1>2, <1>4, <2>1
  <2> QED BY <1>3, <2>1, <2>2
<1>8. ASSUME D \notin gapped', rows[D] # None
      PROVE  Covers(Saved(now.day)', PriorAt(shadow.pos).minutes)
  <2>1. Covers(shadow.flow.agg.minutes, PriorAt(shadow.pos).minutes) /\ files' = Persisted(TRUE)
    BY <1>1, <1>8 DEF FilesInv
  <2>2. CASE DOMAIN shadow.flow.agg.minutes = {}
    BY <2>1, <2>2 DEF Covers
  <2>3. CASE DOMAIN shadow.flow.agg.minutes # {}
    <3>1. files'[D] # None /\ files'[D].minutes = shadow.flow.agg.minutes
      BY <2>1, <2>3, PersistedFacts
    <3>2. Saved(now.day)' = files'[D].minutes
      BY <1>1, <3>1 DEF Saved, Preloaded, FreshAgg
    <3> QED BY <2>1, <3>1, <3>2
  <2> QED BY <2>2, <2>3
<1>9. ASSUME D \notin gapped', rows[D] # None
      PROVE  \E p \in 0 .. Len(tape) :
               /\ \A i \in DOMAIN tape : tape[i].day = D /\ tape[i].minute <= rows[D] => i <= p
               /\ \A i \in DOMAIN tape : i > p => tape[i].day = D
               /\ Covers(Saved(now.day)', PriorAt(p)'.minutes)
  <2>1. PICK p \in 0 .. Len(tape) : p = shadow.pos
    BY <1>2
  <2>2. PriorAt(p)' = PriorAt(shadow.pos)
    BY <1>1, <2>1 DEF PriorAt
  <2>3. /\ \A i \in DOMAIN tape : tape[i].day = D /\ tape[i].minute <= rows[D] => i <= p
        /\ \A i \in DOMAIN tape : i > p => tape[i].day = D
    BY <1>1, <1>9, <2>1 DEF RowsInv, RunInv
  <2> QED BY <1>8, <1>9, <2>2, <2>3
<1> QED BY <1>1, <1>5, <1>6, <1>7, <1>9 DEF FilesInv, Covers

LEMMA FilesStep ==
  ASSUME FlowTypes, TapeOrdered, AuditInv, RunInv, RowsInv, FilesInv, [Next]_vars
  PROVE  FilesInv'
<1>1. CASE UNCHANGED <<now, market, shadowVars>>
  <2>1. /\ tape' = tape /\ priors' = priors /\ offline' = offline /\ now' = now /\ shadow' = shadow
        /\ rows' = rows /\ files' = files /\ calibrated' = calibrated /\ gapped' = gapped
    BY <1>1 DEF market, shadowVars
  <2>2. /\ \A p : PriorAt(p)' = PriorAt(p)
        /\ PriorAt(shadow.pos)' = PriorAt(shadow.pos) /\ Saved(now.day)' = Saved(now.day)
    BY <2>1 DEF PriorAt, Saved, Preloaded
  <2>3. \A d \in Days : Whole(d)' = Whole(d)
    BY <2>1 DEF Whole, Covers
  <2> QED BY <2>1, <2>2, <2>3 DEF FilesInv, Covers
<1>2. (StateStart \/ StateTick \/ StateDies \/ UNCHANGED vars) => UNCHANGED <<now, market, shadowVars>>
  BY DEF StateStart, StateTick, StateDies, vars
<1> QED BY <1>1, <1>2, FilesTrade, FilesFeed, FilesLaunch, FilesMinute, FilesFinish, FilesStop DEF Next

-----------------------------------------------------------------------------
(* Together.                                                               *)
LEMMA TypesStep ==
  ASSUME FlowInv, [Next]_vars
  PROVE  FlowTypes'
<1> USE DEF FlowInv
<1>1. ASSUME NEW price \in Prices, NEW side \in Sides, Trade(price, side)
      PROVE  FlowTypes'
  <2>1. /\ tape' \in Seq(Ticks) /\ priors' \in Seq(Aggs) /\ Len(tape') = Len(tape) + 1
        /\ Len(priors') = Len(tape) + 1 /\ offline' \in [Days -> Aggs]
    BY <1>1, TradeFacts
  <2>2. /\ bound' = bound /\ now' = now /\ shadow' = shadow /\ book' = book /\ rows' = rows /\ files' = files
        /\ calibrated' = calibrated /\ rough' = rough /\ gapped' = gapped /\ state' = state
    BY <1>1, TradeFacts DEF Rest, shadowVars, deskVars
  <2>3. Len(tape) \in Nat /\ shadow.pos \in Nat /\ shadow.pos <= Len(tape) /\ state.pos \in 0 .. Len(tape)
    BY TapeFacts DEF FlowTypes
  <2>4. shadow'.pos <= Len(tape') /\ state'.pos \in 0 .. Len(tape')
    BY <2>1, <2>2, <2>3
  <2> QED BY <2>1, <2>2, <2>4 DEF FlowTypes
<1>2. CASE Minute
  <2>1. now' \in Times
    BY <1>2, MinuteMarket
  <2>2. UNCHANGED <<bound, tape, priors, offline, shadow, book, rows, files, calibrated, rough, gapped, state>>
    BY <1>2 DEF Minute, market, shadowVars, deskVars
  <2> QED BY <2>1, <2>2 DEF FlowTypes
<1>3. CASE UNCHANGED vars
  BY <1>3 DEF FlowTypes, vars, market, shadowVars, deskVars
<1> QED BY <1>1, <1>2, <1>3, LaunchTypes, FeedTypes, EndTypes, StateTypes DEF Next

LEMMA MarketStep ==
  ASSUME FlowInv, [Next]_vars
  PROVE  TapeOrdered' /\ AuditInv'
<1> USE DEF FlowInv
<1>1. ASSUME NEW price \in Prices, NEW side \in Sides, Trade(price, side)
      PROVE  TapeOrdered' /\ AuditInv'
  BY <1>1, TradeOrdered, TradeAudit
<1>2. CASE Minute
  BY <1>2, MinuteMarket
<1>3. (Launch \/ Feed \/ Finish \/ Stop \/ Kill \/ StateStart \/ StateTick \/ StateDies \/ UNCHANGED vars)
        => UNCHANGED <<now, market>>
  BY DEF Launch, Feed, Finish, Stop, Kill, StateStart, StateTick, StateDies, vars
<1> QED BY <1>1, <1>2, <1>3, MarketStays DEF Next

LEMMA FlowInit ==
  ASSUME Init
  PROVE  FlowInv
<1>1. /\ bound \in Scenarios /\ now = [day |-> 1, minute |-> 0] /\ tape = <<>> /\ priors = <<>>
      /\ offline = [d \in Days |-> FreshAgg] /\ shadow = Down /\ book = [d \in Days |-> <<>>]
      /\ rows = [d \in Days |-> None] /\ files = [d \in Days |-> None]
      /\ calibrated = {} /\ rough = {} /\ gapped = {} /\ state = FreshState
  BY DEF Init
<1>2. 1 \in Days /\ EndMinute \in Nat /\ now \in Times
  BY <1>1, ConstantFacts DEF Times
<1>3. Len(tape) = 0 /\ Len(priors) = 0 /\ DOMAIN tape = {} /\ tape \in Seq(Ticks) /\ priors \in Seq(Aggs)
      /\ DOMAIN <<>> = {}
  <2>1. \A S : <<>> \in Seq(S) /\ Len(<<>>) = 0
    OBVIOUS
  <2>2. <<>> \in Seq(Int) /\ Len(<<>>) = 0
    OBVIOUS
  <2>3. DOMAIN <<>> = {}
    BY <2>2
  <2> QED BY <1>1, <2>1, <2>3
<1>4. FlowTypes
  <2>1. DOMAIN state = StateFields /\ state.pos \in 0 .. Len(tape)
    BY <1>1, <1>3 DEF FreshState, StateFields
  <2>2. DOMAIN book = Days /\ \A d \in Days : DOMAIN book[d] \subseteq 1 .. LastIndex
    BY <1>1, <1>3
  <2>3. shadow \in [up : BOOLEAN, pos : Nat, flow : Flows] /\ shadow.pos <= Len(tape)
    BY <1>1, <1>3, FreshFacts
  <2>4. offline \in [Days -> Aggs]
    BY <1>1, FreshFacts
  <2> QED BY <1>1, <1>2, <1>3, <2>1, <2>2, <2>3, <2>4 DEF FlowTypes
<1>5. TapeOrdered /\ AuditInv
  BY <1>1, <1>3 DEF TapeOrdered, AuditInv
<1>6. RunInv
  BY <1>1, <1>3, FreshFacts DEF RunInv
<1>7. RowsInv
  BY <1>1, <1>3, FreshFacts DEF RowsInv
<1>8. LiveInv
  <2>1. 1 .. shadow.flow.emitted = {}
    BY <1>1, FreshFacts
  <2> QED BY <1>1, <1>2, <1>3, <2>1, FreshFacts DEF LiveInv
<1>9. FilesInv
  BY <1>1, <1>2, <1>3, FreshFacts DEF FilesInv
<1> QED BY <1>4, <1>5, <1>6, <1>7, <1>8, <1>9 DEF FlowInv

LEMMA FlowStep ==
  ASSUME FlowInv, [Next]_vars
  PROVE  FlowInv'
<1>1. FlowTypes' /\ TapeOrdered' /\ AuditInv'
  BY TypesStep, MarketStep
<1>2. RunInv' /\ RowsInv' /\ LiveInv' /\ FilesInv'
  BY RunStep, RowsStep, LiveStep, FilesStep DEF FlowInv
<1> QED BY <1>1, <1>2 DEF FlowInv

(* The inductive invariant of the tick flow.                               *)
THEOREM FlowInvariant == Spec => []FlowInv
<1> QED BY FlowInit, FlowStep, PTL DEF Spec

LEMMA FlowExact ==
  ASSUME FlowInv
  PROVE  RecordsExact
<1> USE DEF FlowInv
<1>1. /\ now.day \in Days /\ now.minute \in 0 .. EndMinute /\ now.minute \in Nat /\ Len(tape) \in Nat
      /\ LastIndex \in Nat /\ Days \subseteq Nat
  BY TapeFacts, ConstantFacts
<1>2. TypeOK
  <2>1. shadow.flow.emitted \in 0 .. LastIndex /\ shadow.flow.emitted \in Nat /\ shadow.flow.agg \in Aggs
    BY <1>1 DEF FlowTypes, Flows
  <2>2. shadow.flow.emitted <= now.minute
    BY <1>1, <2>1 DEF RunInv
  <2>3. DOMAIN shadow.flow.agg.minutes \subseteq 1 .. LastIndex
    BY <2>1, MinuteFacts
  <2>4. ASSUME NEW d \in Days, files[d] # None
        PROVE  DOMAIN files[d].minutes \subseteq 1 .. LastIndex
    <3>1. files[d].minutes \in Tables
      BY <2>4 DEF FlowTypes, Files
    <3> QED BY <3>1 DEF Tables
  <2>5. shadow.pos \in 0 .. Len(tape) /\ now \in [day : Days, minute : 0 .. EndMinute]
    BY <1>1 DEF FlowTypes, Times
  <2> QED BY <2>1, <2>2, <2>3, <2>4, <2>5 DEF TypeOK, FlowTypes
<1>3. RecordsFinal
  <2>1. ASSUME NEW d \in Days \ rough
        PROVE  Exact(d)
    <3>1. \A end \in DOMAIN book[d] : book[d][end] = Decision(offline[d], end)
      BY <2>1 DEF LiveInv
    <3>2. ASSUME shadow.flow.session = d, NEW end \in 1 .. shadow.flow.emitted,
                 end % Span = 0, HasBars(offline[d], end)
          PROVE  end \in DOMAIN book[d]
      <4>1. CASE d = now.day
        BY <2>1, <3>2, <4>1 DEF LiveInv
      <4>2. CASE d # now.day
        <5>1. shadow.flow.emitted = 0
          BY <3>2, <4>2, FreshFacts DEF RunInv
        <5> QED BY <3>2, <5>1
      <4> QED BY <4>1, <4>2
    <3> QED BY <3>1, <3>2 DEF Exact
  <2> QED BY <2>1 DEF RecordsFinal
<1>4. NothingMissing /\ CalibratedWhole
  BY DEF NothingMissing, CalibratedWhole, FilesInv, FlowTypes
<1> QED BY <1>2, <1>3, <1>4 DEF RecordsExact

(* What the live path decides is what the recomputation from all of the    *)
(* session's ticks decides; a file that is not partial holds every tick of *)
(* its session, and the calibration is computed from such files only       *)
(* (flow.py:8-12, run_shadow.py:54-62 and 111-123).                        *)
THEOREM RecordsAreExact == Spec => []RecordsExact
<1>1. FlowInv => RecordsExact
  BY FlowExact
<1> QED BY <1>1, FlowInvariant, PTL
=============================================================================
