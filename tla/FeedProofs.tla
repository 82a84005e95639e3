----------------------------- MODULE FeedProofs -----------------------------
(***************************************************************************)
(* The feeds, for any timeframes, any market and any number of reconnects, *)
(* deaths and starts: the tap counts each trade once and before its bar,   *)
(* bars hold every trade of their window, and the caller gets them in the  *)
(* order and as often as a DataFeed promises.                              *)
(***************************************************************************)
EXTENDS Feed, SequenceTheorems, WellFoundedInduction, TLAPS

-----------------------------------------------------------------------------
(* Timeframes and buckets.                                                 *)
Aligned(x, f) == \E k \in Nat : x = f * k

LEMMA FrameFacts ==
  ASSUME NEW f \in Frames
  PROVE  /\ f \in Nat \ {0} /\ Base \in Frames /\ Base \in Nat \ {0} /\ Base <= f
<1>1. Frames \subseteq Nat /\ Frames # {} /\ f \in Nat \ {0} /\ Frames \subseteq Nat \ {0}
  BY FrameAssumption
<1>2. \E x \in Frames : \A y \in Frames : ~(<<y, x>> \in OpToRel(<, Nat))
  BY <1>1, NatLessThanWellFounded, WFMin
<1>3. \E x \in Frames : \A y \in Frames : x <= y
  <2>1. PICK x \in Frames : \A y \in Frames : ~(<<y, x>> \in OpToRel(<, Nat))
    BY <1>2
  <2>2. \A y \in Frames : ~(y < x)
    BY <2>1, <1>1 DEF OpToRel
  <2>3. \A y \in Frames : x <= y
    BY <2>2, <1>1
  <2> QED BY <2>3
<1>4. Base \in Frames /\ \A g \in Frames : Base <= g
  BY <1>3 DEF Base
<1> QED BY <1>1, <1>4

(* A bucket opens at a multiple of its timeframe and holds its tick.       *)
LEMMA BucketFacts ==
  ASSUME NEW ts \in Times, NEW f \in Frames
  PROVE  /\ ts \in Nat /\ f \in Nat \ {0}
         /\ Bucket(ts, f) \in Times /\ Bucket(ts, f) \in Nat
         /\ Bucket(ts, f) <= ts /\ ts < Bucket(ts, f) + f
         /\ Aligned(Bucket(ts, f), f)
<1>1. f \in Nat \ {0} /\ ts \in Nat /\ MaxTime \in Nat /\ ts <= MaxTime
  BY FrameFacts, FeedAssumption DEF Times
<1> DEFINE q == ts \div f  r == ts % f
<1>2. q \in Nat /\ r \in 0 .. f - 1 /\ ts = f * q + r
  BY <1>1, SMT
<1>3. Bucket(ts, f) = ts - r
  BY DEF Bucket
<1> HIDE DEF q, r
<1>4. f * q \in Nat
  BY <1>1, <1>2
<1>5. Bucket(ts, f) = f * q
  BY <1>1, <1>2, <1>3, <1>4
<1>6. Bucket(ts, f) <= ts /\ ts < Bucket(ts, f) + f
  BY <1>1, <1>2, <1>4, <1>5
<1>7. Bucket(ts, f) \in Nat /\ Bucket(ts, f) \in Times
  BY <1>1, <1>4, <1>5, <1>6 DEF Times
<1>8. Aligned(Bucket(ts, f), f)
  BY <1>2, <1>5 DEF Aligned
<1> QED BY <1>1, <1>6, <1>7, <1>8

(* Of two multiples of a timeframe, the later is a timeframe later.        *)
LEMMA AlignedApart ==
  ASSUME NEW f \in Nat \ {0}, NEW x \in Nat, NEW y \in Nat,
         Aligned(x, f), Aligned(y, f), x < y
  PROVE  x + f <= y
<1>1. PICK j \in Nat : x = f * j
  BY DEF Aligned
<1>2. PICK k \in Nat : y = f * k
  BY DEF Aligned
<1>3. j + 1 <= k
  <2> SUFFICES ASSUME k <= j PROVE FALSE
    BY <1>1, <1>2
  <2>1. f * k <= f * j
    OBVIOUS
  <2> QED BY <1>1, <1>2, <2>1
<1>4. f * (j + 1) <= f * k
  BY <1>3
<1>5. f * (j + 1) = f * j + f
  OBVIOUS
<1> QED BY <1>1, <1>2, <1>4, <1>5

(* Multiples of a timeframe that lie no later than a tick lie no later     *)
(* than the tick's bucket.                                                 *)
LEMMA BucketIsLast ==
  ASSUME NEW f \in Frames, NEW ts \in Times, NEW x \in Nat, Aligned(x, f), x <= ts
  PROVE  x <= Bucket(ts, f)
<1>1. SUFFICES ASSUME Bucket(ts, f) < x PROVE FALSE
  BY BucketFacts
<1>2. Bucket(ts, f) + f <= x
  BY <1>1, BucketFacts, AlignedApart
<1> QED BY <1>2, BucketFacts

(* A multiple of a timeframe, and the end of its bucket, are multiples of  *)
(* the shortest.                                                           *)
LEMMA AlignedToBase ==
  ASSUME NEW f \in Frames, NEW x \in Nat, Aligned(x, f)
  PROVE  Aligned(x, Base) /\ Aligned(x + f, Base)
<1>1. f \in Nat \ {0} /\ Base \in Nat \ {0} /\ f % Base = 0
  BY FrameFacts, FrameAssumption
<1> DEFINE q == f \div Base
<1>2. q \in Nat /\ f = Base * q + (f % Base) /\ Base * q \in Nat
  BY <1>1, SMT
<1> HIDE DEF q
<1>3. f = Base * q
  BY <1>1, <1>2
<1>4. PICK k \in Nat : x = f * k
  BY DEF Aligned
<1>5. x = Base * (q * k) /\ q * k \in Nat
  BY <1>1, <1>2, <1>3, <1>4, SMT
<1>6. x + f = Base * (q * k + q) /\ q * k + q \in Nat
  BY <1>1, <1>2, <1>3, <1>5, SMT
<1> QED BY <1>5, <1>6 DEF Aligned

-----------------------------------------------------------------------------
(* The types, with the attempts a stream that is still trying has left.    *)
TypeInv == TypeOK /\ (pc \in {"waiting", "open"} => attempt < MaxAttempts)

LEMMA TypeInit == Init => TypeInv
<1> SUFFICES ASSUME Init PROVE TypeInv
  OBVIOUS
<1>1. market \in Seq(Times) /\ tapped \in Seq(Indices) /\ delivered \in Seq(Bars)
  BY DEF Init
<1>2. MaxAttempts \in Nat \ {0} /\ MaxDeaths \in Nat
  BY FeedAssumption
<1>3. asked \in Nat \cup {None}
  BY FeedAssumption DEF Init, Times
<1>4. stream \in [start : Nat \cup {None}, joined : Nat, next : Nat, cutoff : Times \cup {None}]
  BY DEF Init, NoStream
<1>5. presumed \subseteq Bars
  BY DEF Init
<1> QED BY <1>1, <1>2, <1>3, <1>4, <1>5 DEF Init, TypeInv, TypeOK

(* A connection that is left behind, whoever leaves it.                    *)
LEMMA HungUp ==
  ASSUME stream' = NoStream, builders' = [f \in Frames |-> None], lastTs' = None, closed' = {}
  PROVE  /\ stream' \in [start : Nat \cup {None}, joined : Nat, next : Nat, cutoff : Times \cup {None}]
         /\ builders' \in [Frames -> Builder \cup {None}]
         /\ lastTs' \in Times \cup {None}
         /\ closed' \subseteq [frame : Frames, open : Times, ticks : SUBSET Indices]
BY DEF NoStream

LEMMA TypeDisconnected ==
  ASSUME TypeInv, pc \in {"waiting", "open"}, Disconnected,
         UNCHANGED <<provider, market, position, caller>>,
         tapMark' \in Times \cup {None}, tapped' \in Seq(Indices)
  PROVE  TypeInv'
<1>1. stream' = NoStream /\ builders' = [f \in Frames |-> None] /\ lastTs' = None /\ closed' = {}
  BY DEF Disconnected
<1>2. /\ pc' \in {"waiting", "failed"} /\ attempt' \in 0 .. MaxAttempts
      /\ pc' = "waiting" => attempt' < MaxAttempts
  BY FeedAssumption DEF Disconnected, GivesUp, TypeInv, TypeOK
<1> QED BY <1>1, <1>2, HungUp DEF TypeInv, TypeOK, caller

LEMMA ClosedFacts ==
  ASSUME TypeInv, NEW b \in closed
  PROVE  /\ b.frame \in Frames /\ b.open \in Times /\ b.ticks \in SUBSET Indices
         /\ b.frame \in Nat \ {0} /\ b.open \in Nat /\ Close(b) \in Nat /\ b.open < Close(b)
         /\ Unbuilt(b) \in Bars /\ Close(Unbuilt(b)) = Close(b) /\ Unbuilt(b).frame = b.frame
<1>1. b.frame \in Frames /\ b.open \in Times /\ b.ticks \in SUBSET Indices
  BY DEF TypeInv, TypeOK
<1>2. b.frame \in Nat \ {0} /\ b.open \in Nat
  BY <1>1, FrameFacts, BucketFacts
<1> QED BY <1>1, <1>2 DEF Close, Unbuilt, Bars

LEMMA BarFacts ==
  ASSUME NEW b \in Bars
  PROVE  b.frame \in Nat \ {0} /\ b.open \in Nat /\ Close(b) \in Nat /\ b.open < Close(b)
<1>1. b.frame \in Frames /\ b.open \in Times
  BY DEF Bars
<1>2. b.frame \in Nat \ {0} /\ b.open \in Nat
  BY <1>1, FrameFacts, BucketFacts
<1> QED BY <1>2 DEF Close

LEMMA LastDelivered ==
  ASSUME TypeInv, delivered # <<>>
  PROVE  /\ Len(delivered) \in Nat \ {0}
         /\ delivered[Len(delivered)] \in Bars
         /\ Close(delivered[Len(delivered)]) \in Nat
<1>1. delivered \in Seq(Bars)
  BY DEF TypeInv, TypeOK
<1>2. Len(delivered) \in Nat \ {0}
  BY <1>1, EmptySeq
<1>3. delivered[Len(delivered)] \in Bars
  BY <1>1, <1>2, ElementOfSeq
<1> QED BY <1>2, <1>3, BarFacts

LEMMA SavedFacts ==
  ASSUME TypeInv
  PROVE  Saved \in Nat \cup {None}
BY LastDelivered DEF Saved, TypeInv, TypeOK

LEMMA MarketFacts ==
  ASSUME TypeInv, NEW i \in 1 .. Len(market)
  PROVE  /\ market[i] \in Times /\ market[i] \in Nat
<1>1. market[i] \in Times
  BY ElementOfSeq DEF TypeInv, TypeOK
<1> QED BY <1>1 DEF Times

(* The tick that comes next.                                               *)
LEMMA ArrivesFacts ==
  ASSUME TypeInv, NEW i \in Indices, Arrives(i)
  PROVE  /\ i \in 1 .. Len(market) /\ i >= stream.next /\ pc = "open" /\ closed = {}
         /\ market[i] \in Times /\ market[i] \in Nat /\ None \notin Int
<1>1. i \in stream.next .. Len(market) /\ pc = "open" /\ closed = {}
  BY DEF Arrives
<1>2. i \in Nat \ {0} /\ stream.next \in Nat /\ Len(market) \in Nat /\ None \notin Int
  BY FeedAssumption, LenProperties DEF Indices, TypeInv, TypeOK
<1>3. i \in 1 .. Len(market) /\ i >= stream.next
  BY <1>1, <1>2
<1> QED BY <1>1, <1>2, <1>3, MarketFacts

LEMMA TypeNext == TypeInv /\ [Next]_vars => TypeInv'
<1> SUFFICES ASSUME TypeInv, [Next]_vars PROVE TypeInv'
  OBVIOUS
<1> USE DEF TypeInv
<1>0. /\ market \in Seq(Times) /\ tapped \in Seq(Indices) /\ delivered \in Seq(Bars)
      /\ MaxAttempts \in Nat \ {0} /\ MaxDeaths \in Nat
  BY FeedAssumption DEF TypeOK
<1>1. CASE UNCHANGED vars
  BY <1>1 DEF TypeOK, vars, connection, tap, caller
<1>2. CASE \E ts \in Times : Trade(ts)
  <2>1. PICK ts \in Times : Trade(ts)
    BY <1>2
  <2>2. market' \in Seq(Times)
    BY <2>1, <1>0, AppendProperties DEF Trade
  <2> QED BY <2>1, <2>2 DEF TypeOK, Trade, connection, tap, caller
<1>3. CASE Connect
  <2>1. Len(market) \in Nat
    BY <1>0, LenProperties
  <2>2. stream' \in [start : Nat \cup {None}, joined : Nat, next : Nat, cutoff : Times \cup {None}]
    BY <1>3, <2>1 DEF TypeOK, Connect, NoStream, ResumeAt, TapCutoff
  <2>3. builders' \in [Frames -> Builder \cup {None}] /\ lastTs' \in Times \cup {None} /\ closed' = {}
    BY <1>3 DEF Connect
  <2>4. pc = "waiting" /\ pc' = "open" /\ attempt' = attempt
    BY <1>3 DEF Connect, AttemptOnConnect
  <2> QED BY <1>3, <2>2, <2>3, <2>4 DEF TypeOK, Connect, tap, caller
<1>4. CASE Drop
  BY <1>4, TypeDisconnected DEF TypeOK, Drop, tap
<1>5. CASE \E i \in Indices : Receive(i)
  <2>1. PICK i \in Indices : Receive(i)
    BY <1>5
  <2>2. Arrives(i) /\ Tapped(i) /\ UNCHANGED <<provider, market, position, caller>>
    BY <2>1 DEF Receive
  <2>3. /\ i \in 1 .. Len(market) /\ pc = "open" /\ market[i] \in Times
    BY <2>2, ArrivesFacts
  <2>4. tapMark' \in Times \cup {None} /\ tapped' \in Seq(Indices)
    <3>1. tapMark' \in Times \cup {None}
      BY <2>2, <2>3 DEF Tapped, MarkAfter, tap, TypeOK
    <3>2. tapped' = tapped \/ tapped' = Append(tapped, i)
      BY <2>2 DEF Tapped, tap
    <3>3. Append(tapped, i) \in Seq(Indices)
      BY <1>0, AppendProperties
    <3> QED BY <1>0, <3>1, <3>2, <3>3
  <2>5. CASE Disconnected
    BY <2>2, <2>3, <2>4, <2>5, TypeDisconnected
  <2>6. CASE AddTick(i) /\ stream' = [stream EXCEPT !.next = i + 1] /\ UNCHANGED <<pc, attempt>>
    <3>1. lastTs' \in Times
      BY <2>3, <2>6 DEF AddTick
    <3>2. stream' \in [start : Nat \cup {None}, joined : Nat, next : Nat, cutoff : Times \cup {None}]
      <4>1. i + 1 \in Nat
        BY FeedAssumption DEF Indices
      <4>2. stream \in [start : Nat \cup {None}, joined : Nat, next : Nat, cutoff : Times \cup {None}]
        BY DEF TypeOK
      <4>3. stream' = [stream EXCEPT !.next = i + 1]
        BY <2>6
      <4> QED BY <4>1, <4>2, <4>3
    <3>3. builders' \in [Frames -> Builder \cup {None}]
      <4>1. \A f \in Frames : [open |-> Bucket(market[i], f), ticks |-> {i}] \in Builder
        BY <2>3, BucketFacts DEF Builder
      <4>2. \A f \in Frames : builders[f] # None =>
              [builders[f] EXCEPT !.ticks = @ \cup {i}] \in Builder
        BY DEF TypeOK, Builder
      <4> QED BY <2>6, <4>1, <4>2 DEF AddTick
    <3>4. closed' \subseteq [frame : Frames, open : Times, ticks : SUBSET Indices]
      <4>1. \A f \in Frames : Rolls(f, market[i]) => builders[f] \in Builder
        BY DEF Rolls, TypeOK
      <4> QED BY <2>6, <4>1 DEF AddTick, ClosedBy, Builder
    <3> QED BY <2>2, <2>4, <2>6, <3>1, <3>2, <3>3, <3>4 DEF TypeOK, caller
  <2> QED BY <2>1, <2>5, <2>6 DEF Receive
<1>6. CASE \E i \in Indices : TapRaises(i)
  <2>1. PICK i \in Indices : TapRaises(i)
    BY <1>6
  <2>2. Disconnected /\ pc = "open" /\ UNCHANGED <<provider, market, position, tap, caller>>
    BY <2>1 DEF TapRaises, MarkAfterRaise, tap, Arrives
  <2> QED BY <2>2, TypeDisconnected DEF TypeOK, tap
<1>7. CASE YieldBar
  <2>1. PICK b \in closed : Yield(b)
    BY <1>7 DEF YieldBar
  <2>2. Close(b) \in Nat /\ Unbuilt(b) \in Bars
    BY <2>1, ClosedFacts
  <2>3. delivered' \in Seq(Bars)
    BY <1>0, <2>1, <2>2, AppendProperties DEF Yield
  <2>4. closed' \subseteq closed /\ position' \in Nat /\ attempt' = 0
    BY <2>1, <2>2 DEF Yield
  <2> QED BY <1>0, <2>1, <2>3, <2>4 DEF Yield, TypeOK, tap
<1>8. CASE Flush
  <2>1. closed' \subseteq [frame : Frames, open : Times, ticks : SUBSET Indices]
    <3>1. \A f \in Frames : builders[f] # None => builders[f] \in Builder
      BY DEF TypeOK
    <3> QED BY <1>8, <3>1 DEF Flush, Flushed, Builder
  <2> QED BY <1>8, <2>1 DEF Flush, TypeOK, tap, caller
<1>9. CASE End
  BY <1>9, HungUp DEF End, TypeOK, tap, caller
<1>10. CASE Dies
  <2>1. presumed' \subseteq Bars
    BY <1>10, ClosedFacts DEF Dies, TypeOK
  <2>2. /\ deaths' \in 0 .. MaxDeaths /\ attempt' = 0 /\ pc' = "waiting"
        /\ asked' \in Nat \cup {None} /\ position' \in Nat \cup {None}
        /\ tapMark' = None /\ tapped' = <<>>
    BY <1>0, <1>10, SavedFacts DEF Dies, TypeOK
  <2>3. tapped' \in Seq(Indices)
    BY <2>2
  <2>4. stream' = NoStream /\ builders' = [f \in Frames |-> None] /\ lastTs' = None /\ closed' = {}
    BY <1>10 DEF Dies
  <2> QED BY <1>0, <1>10, <2>1, <2>2, <2>3, <2>4, HungUp DEF Dies, TypeOK
<1> QED BY <1>1, <1>2, <1>3, <1>4, <1>5, <1>6, <1>7, <1>8, <1>9, <1>10 DEF Next

-----------------------------------------------------------------------------
(* The steps by what they do: a connection ends, a tick is taken, ...      *)
HangsUp ==
  /\ pc \in {"waiting", "open", "flushed"}
  /\ pc' \in {"waiting", "failed", "done"} /\ (provider = "fixture" => pc' # "waiting")
  /\ stream' = NoStream /\ builders' = [f \in Frames |-> None] /\ lastTs' = None /\ closed' = {}
  /\ UNCHANGED <<provider, market, position, asked, delivered>>

Takes(i) ==
  /\ lastTs # None => market[i] >= lastTs
  /\ AddTick(i) /\ stream' = [stream EXCEPT !.next = i + 1]
  /\ UNCHANGED <<pc, provider, market, position, asked, delivered>>

LEMMA DisconnectedHangsUp ==
  ASSUME pc \in {"waiting", "open"}, Disconnected, UNCHANGED <<provider, market, position, caller>>
  PROVE  HangsUp
<1>1. pc' \in {"waiting", "failed", "done"} /\ (provider = "fixture" => pc' # "waiting")
  BY DEF Disconnected
<1> QED BY <1>1 DEF Disconnected, HangsUp, caller

LEMMA Steps ==
  ASSUME TypeInv, [Next]_vars
  PROVE  \/ UNCHANGED vars
         \/ \E ts \in Times : Trade(ts)
         \/ Connect
         \/ HangsUp /\ UNCHANGED tap
         \/ \E i \in Indices : Arrives(i) /\ Tapped(i) /\ HangsUp
         \/ \E i \in Indices : Arrives(i) /\ Tapped(i) /\ Takes(i)
         \/ YieldBar \/ Flush \/ Dies
<1>1. Drop => HangsUp /\ UNCHANGED tap
  BY DisconnectedHangsUp DEF Drop
<1>2. End => HangsUp /\ UNCHANGED tap
  BY DEF End, HangsUp, caller
<1>3. ASSUME NEW i \in Indices, TapRaises(i) PROVE HangsUp /\ UNCHANGED tap
  BY <1>3, DisconnectedHangsUp DEF TapRaises, MarkAfterRaise, tap, Arrives
<1>4. ASSUME NEW i \in Indices, Receive(i)
      PROVE  Arrives(i) /\ Tapped(i) /\ (HangsUp \/ Takes(i))
  <2>1. Arrives(i) /\ Tapped(i) /\ UNCHANGED <<provider, market, position, caller>>
    BY <1>4 DEF Receive
  <2>2. CASE lastTs # None /\ market[i] < lastTs
    BY <1>4, <2>1, <2>2, DisconnectedHangsUp DEF Receive, Arrives
  <2>3. CASE ~(lastTs # None /\ market[i] < lastTs)
    <3>1. AddTick(i) /\ stream' = [stream EXCEPT !.next = i + 1] /\ UNCHANGED <<pc, attempt>>
      BY <1>4, <2>3 DEF Receive
    <3>2. lastTs # None => market[i] >= lastTs
      <4>1. lastTs \in Times \cup {None} /\ market[i] \in Nat
        BY <2>1, ArrivesFacts DEF TypeInv, TypeOK
      <4> QED BY <2>3, <4>1 DEF Times
    <3> QED BY <2>1, <3>1, <3>2 DEF Takes, caller
  <2> QED BY <2>1, <2>2, <2>3
<1> QED BY <1>1, <1>2, <1>3, <1>4 DEF Next

(* What a trade leaves of the market before it.                            *)
LEMMA TradeFacts ==
  ASSUME TypeInv, NEW ts \in Times, Trade(ts)
  PROVE  /\ Len(market) \in Nat /\ Len(market') = Len(market) + 1
         /\ \A k \in 1 .. Len(market) : market'[k] = market[k]
         /\ market'[Len(market) + 1] = ts
         /\ UNCHANGED <<provider, pc, position, connection, tap, asked, delivered>>
<1>1. market \in Seq(Times) /\ Len(market) \in Nat
  BY LenProperties DEF TypeInv, TypeOK
<1>2. market' = Append(market, ts)
  BY DEF Trade
<1>3. /\ Len(market') = Len(market) + 1
      /\ \A k \in 1 .. Len(market) : market'[k] = market[k]
      /\ market'[Len(market) + 1] = ts
  BY <1>1, <1>2, AppendProperties
<1> QED BY <1>1, <1>3 DEF Trade, caller

-----------------------------------------------------------------------------
(* The tap.  What it has counted lies at or before its mark, which is the  *)
(* time of a tick counted.  On a connection it has counted what has been   *)
(* replayed of the ticks past the cutoff, and no other, so that the next   *)
(* one past it is new; a fixture begins with nothing counted.              *)
MarkInv ==
  /\ \A k \in 1 .. Len(tapped) : /\ tapped[k] \in 1 .. Len(market)
                                 /\ tapMark # None /\ market[tapped[k]] <= tapMark
  /\ tapMark # None => \E k \in 1 .. Len(market) : Counted(k) /\ market[k] = tapMark

NewInv ==
  /\ provider = "fixture" /\ pc = "waiting" => tapped = <<>>
  /\ pc = "open" => \A k \in 1 .. Len(tapped) :
       \/ tapped[k] < stream.next
       \/ stream.cutoff # None /\ market[tapped[k]] <= stream.cutoff

CutoffInv ==
  stream.cutoff # None => \E k \in 1 .. Len(market) : Counted(k) /\ market[k] = stream.cutoff

(* Each tick of a bucket or of a closed bar is counted, or lies at or      *)
(* before the cutoff.                                                      *)
Heard(i) ==
  i \in 1 .. Len(market) /\ (Counted(i) \/ (stream.cutoff # None /\ market[i] <= stream.cutoff))

HeardInv ==
  /\ \A f \in Frames : builders[f] # None => \A i \in builders[f].ticks : Heard(i)
  /\ \A b \in closed : \A i \in b.ticks : Heard(i)

TapInv == MarkInv /\ NewInv /\ TapOnce /\ CutoffInv /\ HeardInv

LEMMA TappedFacts ==
  ASSUME TypeInv
  PROVE  /\ tapped \in Seq(Indices) /\ Len(tapped) \in Nat
         /\ \A k \in 1 .. Len(tapped) : tapped[k] \in Nat
         /\ tapMark \in Times \cup {None} /\ stream.cutoff \in Times \cup {None}
         /\ stream.next \in Nat /\ Times \subseteq Nat /\ None \notin Int
         /\ Len(market) \in Nat
<1>1. tapped \in Seq(Indices) /\ market \in Seq(Times)
  BY DEF TypeInv, TypeOK
<1>2. Len(tapped) \in Nat /\ Len(market) \in Nat
  BY <1>1, LenProperties
<1>3. \A k \in 1 .. Len(tapped) : tapped[k] \in Indices
  BY <1>1, ElementOfSeq
<1>4. stream.cutoff \in Times \cup {None} /\ stream.next \in Nat /\ tapMark \in Times \cup {None}
  BY DEF TypeInv, TypeOK
<1> QED BY <1>1, <1>2, <1>3, <1>4, FeedAssumption DEF Indices, Times

(* What counting a tick does.                                              *)
LEMMA TapCounts ==
  ASSUME TypeInv, NEW i \in Indices, Arrives(i), Tapped(i), Taps(i)
  PROVE  /\ Len(tapped') = Len(tapped) + 1 /\ tapped'[Len(tapped) + 1] = i
         /\ \A k \in 1 .. Len(tapped) : tapped'[k] = tapped[k]
         /\ tapMark' = MarkAfter(i)
         /\ \A j : Counted(j)' <=> Counted(j) \/ j = i
<1>1. tapped' = Append(tapped, i) /\ tapMark' = MarkAfter(i)
  BY DEF Tapped
<1>2. /\ Len(tapped') = Len(tapped) + 1 /\ tapped'[Len(tapped) + 1] = i
      /\ \A k \in 1 .. Len(tapped) : tapped'[k] = tapped[k]
  BY <1>1, TappedFacts, AppendProperties
<1>3. Len(tapped) \in Nat
  BY TappedFacts
<1>4. \A k \in 1 .. Len(tapped') : k \in 1 .. Len(tapped) \/ k = Len(tapped) + 1
  BY <1>2, <1>3
<1>5. \A k \in 1 .. Len(tapped) : k \in 1 .. Len(tapped')
  BY <1>2, <1>3
<1>6. Len(tapped) + 1 \in 1 .. Len(tapped')
  BY <1>2, <1>3
<1>7. ASSUME NEW j, Counted(j)' PROVE Counted(j) \/ j = i
  <2>1. PICK k \in 1 .. Len(tapped') : tapped'[k] = j
    BY <1>7 DEF Counted
  <2> QED BY <1>2, <1>4, <2>1 DEF Counted
<1>8. ASSUME NEW j, Counted(j) \/ j = i PROVE Counted(j)'
  BY <1>2, <1>5, <1>6, <1>8 DEF Counted
<1> QED BY <1>1, <1>2, <1>7, <1>8

LEMMA TapInit == Init => TapInv
<1> SUFFICES ASSUME Init PROVE TapInv
  OBVIOUS
<1>1. Len(tapped) = 0 /\ tapped = <<>> /\ tapMark = None /\ stream.cutoff = None
  BY DEF Init, NoStream
<1>2. (\A f \in Frames : builders[f] = None) /\ closed = {} /\ pc = "waiting"
  BY DEF Init
<1> QED BY <1>1, <1>2 DEF TapInv, MarkInv, NewInv, TapOnce, CutoffInv, HeardInv

(* The mark: a step that counts a tick.                                    *)
LEMMA MarkCounts ==
  ASSUME TypeInv, MarkInv, NEW i \in Indices, Arrives(i), Tapped(i), UNCHANGED market
  PROVE  MarkInv'
<1>1. CASE ~Taps(i)
  BY <1>1 DEF Tapped, tap, MarkInv, Counted
<1>2. CASE Taps(i)
  <2>1. /\ Len(tapped') = Len(tapped) + 1 /\ tapped'[Len(tapped) + 1] = i
        /\ \A k \in 1 .. Len(tapped) : tapped'[k] = tapped[k]
        /\ tapMark' = MarkAfter(i)
        /\ \A j : Counted(j)' <=> Counted(j) \/ j = i
    BY <1>2, TapCounts
  <2>2. /\ Len(tapped) \in Nat /\ i \in 1 .. Len(market) /\ market[i] \in Nat
        /\ tapMark \in Times \cup {None} /\ Times \subseteq Nat /\ None \notin Int
    BY TappedFacts, ArrivesFacts
  <2>3. /\ tapMark' # None /\ market[i] <= tapMark' /\ (tapMark' = market[i] \/ tapMark' = tapMark)
        /\ tapMark # None => tapMark <= tapMark'
    BY <2>1, <2>2 DEF MarkAfter
  <2>4. \A k \in 1 .. Len(tapped') : k \in 1 .. Len(tapped) \/ k = Len(tapped) + 1
    BY <2>1, <2>2
  <2>5. ASSUME NEW k \in 1 .. Len(tapped')
        PROVE  tapped'[k] \in 1 .. Len(market) /\ market[tapped'[k]] <= tapMark'
    <3>1. CASE k = Len(tapped) + 1
      BY <2>1, <2>2, <2>3, <3>1
    <3>2. CASE k \in 1 .. Len(tapped)
      <4>1. tapped'[k] = tapped[k] /\ tapped[k] \in 1 .. Len(market)
            /\ tapMark # None /\ market[tapped[k]] <= tapMark
        BY <2>1, <3>2 DEF MarkInv
      <4>2. market[tapped[k]] \in Nat /\ tapMark \in Nat /\ tapMark' \in Nat
        BY <2>2, <2>3, <4>1, MarketFacts
      <4> QED BY <2>3, <4>1, <4>2
    <3> QED BY <2>4, <3>1, <3>2
  <2>6. \E k \in 1 .. Len(market) : Counted(k)' /\ market[k] = tapMark'
    <3>1. CASE tapMark' = market[i]
      BY <2>1, <2>2, <3>1
    <3>2. CASE tapMark' = tapMark
      BY <2>1, <2>3, <3>2 DEF MarkInv
    <3> QED BY <2>3, <3>1, <3>2
  <2> QED BY <2>3, <2>5, <2>6 DEF MarkInv
<1> QED BY <1>1, <1>2

LEMMA MarkNext == ASSUME TypeInv, MarkInv, [Next]_vars PROVE MarkInv'
<1>1. CASE UNCHANGED <<tap, market>>
  BY <1>1 DEF MarkInv, Counted, tap
<1>2. CASE \E ts \in Times : Trade(ts)
  <2>1. PICK ts \in Times : Trade(ts)
    BY <1>2
  <2>2. /\ Len(market) \in Nat /\ Len(market') = Len(market) + 1
        /\ \A k \in 1 .. Len(market) : market'[k] = market[k]
        /\ tapped' = tapped /\ tapMark' = tapMark
    BY <2>1, TradeFacts DEF tap
  <2>3. \A k \in 1 .. Len(market) : k \in 1 .. Len(market')
    BY <2>2
  <2>4. \A j : Counted(j)' <=> Counted(j)
    BY <2>2 DEF Counted
  <2> QED BY <2>2, <2>3, <2>4 DEF MarkInv
<1>3. CASE Dies
  BY <1>3 DEF Dies, MarkInv
<1>4. ASSUME NEW i \in Indices, Arrives(i), Tapped(i), UNCHANGED market PROVE MarkInv'
  BY <1>4, MarkCounts
<1>5. /\ UNCHANGED vars \/ Connect \/ YieldBar \/ Flush \/ (HangsUp /\ UNCHANGED tap)
         => UNCHANGED <<tap, market>>
      /\ \A i \in Indices : HangsUp \/ Takes(i) => UNCHANGED market
  BY DEF vars, Connect, YieldBar, Yield, Flush, HangsUp, Takes
<1> QED BY Steps, <1>1, <1>2, <1>3, <1>4, <1>5

(* What is counted is behind the next tick or before the cutoff.           *)
LEMMA NewNext == ASSUME TypeInv, MarkInv, NewInv, [Next]_vars PROVE NewInv'
<1>1. CASE \E ts \in Times : Trade(ts)
  <2>1. PICK ts \in Times : Trade(ts)
    BY <1>1
  <2>2. /\ \A k \in 1 .. Len(market) : market'[k] = market[k]
        /\ tapped' = tapped /\ stream' = stream /\ pc' = pc /\ provider' = provider
    BY <2>1, TradeFacts DEF tap, connection
  <2> QED BY <2>2 DEF NewInv, MarkInv
<1>2. CASE Connect
  <2>1. tapped' = tapped /\ market' = market /\ pc = "waiting" /\ pc' = "open" /\ provider' = provider
    BY <1>2 DEF Connect, tap
  <2>2. CASE provider = "fixture"
    BY <2>1, <2>2 DEF NewInv
  <2>3. CASE provider # "fixture"
    <3>1. stream'.cutoff = tapMark
      BY <1>2, <2>3 DEF Connect, TapCutoff
    <3> QED BY <2>1, <2>3, <3>1 DEF NewInv, MarkInv
  <2> QED BY <2>2, <2>3
<1>3. CASE HangsUp
  <2>1. pc' # "open" /\ (provider' = "fixture" => pc' # "waiting")
    BY <1>3 DEF HangsUp
  <2> QED BY <2>1 DEF NewInv
<1>4. CASE \E i \in Indices : Arrives(i) /\ Tapped(i) /\ Takes(i)
  <2>1. PICK i \in Indices : Arrives(i) /\ Tapped(i) /\ Takes(i)
    BY <1>4
  <2>2. /\ i \in 1 .. Len(market) /\ i >= stream.next /\ pc = "open" /\ pc' = "open"
        /\ stream \in [start : Nat \cup {None}, joined : Nat, next : Nat, cutoff : Times \cup {None}]
        /\ market' = market
    BY <2>1, ArrivesFacts DEF Takes, TypeInv, TypeOK
  <2>3. stream'.next = i + 1 /\ stream'.cutoff = stream.cutoff
    BY <2>1, <2>2 DEF Takes
  <2>4. /\ Len(tapped) \in Nat /\ stream.next \in Nat /\ \A k \in 1 .. Len(tapped) : tapped[k] \in Nat
        /\ Len(market) \in Nat
    BY TappedFacts
  <2>5. ASSUME NEW k \in 1 .. Len(tapped)
        PROVE  \/ tapped[k] < i + 1
               \/ stream.cutoff # None /\ market[tapped[k]] <= stream.cutoff
    <3>1. tapped[k] < stream.next \/ (stream.cutoff # None /\ market[tapped[k]] <= stream.cutoff)
      BY <2>2 DEF NewInv
    <3> QED BY <3>1, <2>2, <2>4
  <2>6. CASE ~Taps(i)
    <3>1. tapped' = tapped
      BY <2>1, <2>6 DEF Tapped, tap
    <3> QED BY <2>2, <2>3, <2>5, <3>1 DEF NewInv
  <2>7. CASE Taps(i)
    <3>1. /\ Len(tapped') = Len(tapped) + 1 /\ tapped'[Len(tapped) + 1] = i
          /\ \A k \in 1 .. Len(tapped) : tapped'[k] = tapped[k]
      BY <2>1, <2>7, TapCounts
    <3>2. \A k \in 1 .. Len(tapped') : k \in 1 .. Len(tapped) \/ k = Len(tapped) + 1
      BY <2>4, <3>1
    <3>3. i < i + 1
      BY <2>2, <2>4
    <3>4. \A k \in 1 .. Len(tapped') :
            \/ tapped'[k] < i + 1
            \/ stream.cutoff # None /\ market[tapped'[k]] <= stream.cutoff
      BY <2>5, <3>1, <3>2, <3>3
    <3> QED BY <2>2, <2>3, <3>4 DEF NewInv
  <2> QED BY <2>6, <2>7
<1>5. CASE Dies
  <2>1. tapped' = <<>> /\ pc' = "waiting"
    BY <1>5 DEF Dies
  <2> QED BY <2>1 DEF NewInv
<1>6. CASE UNCHANGED <<tap, market, stream, provider>> /\ (pc' = pc \/ pc' = "flushed")
  BY <1>6 DEF NewInv, tap
<1>7. UNCHANGED vars \/ YieldBar \/ Flush
      => UNCHANGED <<tap, market, stream, provider>> /\ (pc' = pc \/ pc' = "flushed")
  BY DEF vars, connection, YieldBar, Yield, Flush
<1> QED BY Steps, <1>1, <1>2, <1>3, <1>4, <1>5, <1>6, <1>7

(* A tick that is counted has not been counted.                            *)
LEMMA TapOnceNext == ASSUME TypeInv, MarkInv, NewInv, TapOnce, [Next]_vars PROVE TapOnce'
<1>1. ASSUME NEW i \in Indices, Arrives(i), Tapped(i) PROVE TapOnce'
  <2>1. CASE ~Taps(i)
    BY <1>1, <2>1 DEF Tapped, tap, TapOnce
  <2>2. CASE Taps(i)
    <3>1. /\ Len(tapped') = Len(tapped) + 1 /\ tapped'[Len(tapped) + 1] = i
          /\ \A k \in 1 .. Len(tapped) : tapped'[k] = tapped[k]
      BY <1>1, <2>2, TapCounts
    <3>2. /\ i \in 1 .. Len(market) /\ i >= stream.next /\ pc = "open" /\ market[i] \in Nat
      BY <1>1, ArrivesFacts
    <3>3. /\ Len(tapped) \in Nat /\ stream.next \in Nat /\ \A k \in 1 .. Len(tapped) : tapped[k] \in Nat
          /\ stream.cutoff # None => stream.cutoff \in Nat
      BY TappedFacts
    <3>4. ASSUME NEW k \in 1 .. Len(tapped) PROVE tapped[k] # i
      <4>1. tapped[k] < stream.next \/ (stream.cutoff # None /\ market[tapped[k]] <= stream.cutoff)
        BY <3>2 DEF NewInv
      <4>2. stream.cutoff # None => market[i] > stream.cutoff
        BY <2>2 DEF Taps
      <4> QED BY <3>2, <3>3, <4>1, <4>2
    <3>5. \A k \in 1 .. Len(tapped') : k \in 1 .. Len(tapped) \/ k = Len(tapped) + 1
      BY <3>1, <3>3
    <3> QED BY <3>1, <3>4, <3>5 DEF TapOnce
  <2> QED BY <2>1, <2>2
<1>2. CASE tapped' = tapped
  BY <1>2 DEF TapOnce
<1>3. CASE Dies
  BY <1>3 DEF Dies, TapOnce
<1>4. \/ UNCHANGED vars \/ Connect \/ YieldBar \/ Flush \/ (HangsUp /\ UNCHANGED tap)
      \/ \E ts \in Times : Trade(ts)
      => tapped' = tapped
  BY DEF vars, tap, Connect, YieldBar, Yield, Flush, Trade
<1> QED BY Steps, <1>1, <1>2, <1>3, <1>4

(* A tick that has been counted stays counted while the process lives.     *)
LEMMA CountedStays ==
  ASSUME TypeInv, [Next]_vars, ~Dies
  PROVE  \A j \in 1 .. Len(market) :
           /\ Counted(j) => Counted(j)'
           /\ j \in 1 .. Len(market') /\ market'[j] = market[j]
<1>1. ASSUME NEW i \in Indices, Arrives(i), Tapped(i) PROVE \A j : Counted(j) => Counted(j)'
  BY <1>1, TapCounts DEF Tapped, tap, Counted
<1>2. tapped' = tapped => \A j : Counted(j) => Counted(j)'
  BY DEF Counted
<1>3. ASSUME NEW ts \in Times, Trade(ts)
      PROVE  /\ tapped' = tapped
             /\ \A j \in 1 .. Len(market) : j \in 1 .. Len(market') /\ market'[j] = market[j]
  <2>1. /\ Len(market) \in Nat /\ Len(market') = Len(market) + 1 /\ tapped' = tapped
        /\ \A k \in 1 .. Len(market) : market'[k] = market[k]
    BY <1>3, TradeFacts DEF tap
  <2> QED BY <2>1
<1>4. /\ UNCHANGED vars \/ Connect \/ YieldBar \/ Flush \/ (HangsUp /\ UNCHANGED tap)
         => tapped' = tapped /\ market' = market
      /\ \A i \in Indices : HangsUp \/ Takes(i) => market' = market
  BY DEF vars, tap, Connect, YieldBar, Yield, Flush, HangsUp, Takes
<1> QED BY Steps, <1>1, <1>2, <1>3, <1>4

LEMMA CutoffNext == ASSUME TypeInv, MarkInv, CutoffInv, [Next]_vars PROVE CutoffInv'
<1>1. CASE Dies \/ HangsUp
  <2>1. stream'.cutoff = None
    BY <1>1 DEF Dies, HangsUp, NoStream
  <2> QED BY <2>1 DEF CutoffInv
<1>2. CASE ~Dies /\ stream'.cutoff = stream.cutoff
  BY <1>2, CountedStays DEF CutoffInv
<1>3. CASE Connect
  <2>1. tapped' = tapped /\ market' = market /\ (stream'.cutoff = None \/ stream'.cutoff = tapMark)
    BY <1>3 DEF Connect, tap, NoStream, TapCutoff
  <2> QED BY <2>1 DEF CutoffInv, MarkInv, Counted
<1>4. ASSUME NEW i \in Indices, Takes(i) PROVE stream'.cutoff = stream.cutoff
  <2>1. stream \in [start : Nat \cup {None}, joined : Nat, next : Nat, cutoff : Times \cup {None}]
    BY DEF TypeInv, TypeOK
  <2> QED BY <1>4, <2>1 DEF Takes
<1>5. \/ UNCHANGED vars \/ YieldBar \/ Flush
      \/ \E ts \in Times : Trade(ts)
      => stream' = stream
  BY DEF vars, connection, YieldBar, Yield, Flush, Trade
<1> QED BY Steps, <1>1, <1>2, <1>3, <1>4, <1>5

(* A tick that comes is counted, or lies at or before the cutoff.          *)
LEMMA TickHeard ==
  ASSUME TypeInv, NEW i \in Indices, Arrives(i), Tapped(i), Takes(i)
  PROVE  Heard(i)'
<1>1. /\ i \in 1 .. Len(market) /\ market' = market /\ market[i] \in Nat
      /\ stream \in [start : Nat \cup {None}, joined : Nat, next : Nat, cutoff : Times \cup {None}]
  BY ArrivesFacts DEF Takes, TypeInv, TypeOK
<1>2. stream'.cutoff = stream.cutoff
  BY <1>1 DEF Takes
<1>3. CASE Taps(i)
  BY <1>1, <1>3, TapCounts DEF Heard
<1>4. CASE ~Taps(i)
  <2>1. stream.cutoff # None /\ stream.cutoff \in Nat
    BY <1>4, TappedFacts DEF Taps
  <2>2. market[i] <= stream.cutoff
    BY <1>1, <1>4, <2>1 DEF Taps
  <2> QED BY <1>1, <1>2, <2>1, <2>2 DEF Heard
<1> QED BY <1>3, <1>4

LEMMA HeardStays ==
  ASSUME TypeInv, [Next]_vars, ~Dies, stream'.cutoff = stream.cutoff
  PROVE  \A j : Heard(j) => Heard(j)'
BY CountedStays DEF Heard

LEMMA HeardNext == ASSUME TypeInv, HeardInv, [Next]_vars PROVE HeardInv'
<1>1. CASE Dies \/ HangsUp \/ Connect
  <2>1. (\A f \in Frames : builders'[f] = None) /\ closed' = {}
    BY <1>1 DEF Dies, HangsUp, Connect
  <2> QED BY <2>1 DEF HeardInv
<1>2. CASE ~Dies /\ stream' = stream /\ builders' = builders /\ closed' \subseteq closed
  BY <1>2, HeardStays DEF HeardInv
<1>3. CASE Flush /\ ~Dies
  <2>1. /\ \A f \in Frames : builders'[f] = None
        /\ closed' = Flushed /\ stream' = stream
    BY <1>3 DEF Flush
  <2>2. \A b \in Flushed : \E f \in Frames : builders[f] # None /\ b.ticks = builders[f].ticks
    BY DEF Flushed
  <2> QED BY <1>3, <2>1, <2>2, HeardStays DEF HeardInv
<1>4. ASSUME NEW i \in Indices, Arrives(i), Tapped(i), Takes(i), ~Dies PROVE HeardInv'
  <2>1. stream'.cutoff = stream.cutoff
    <3>1. stream \in [start : Nat \cup {None}, joined : Nat, next : Nat, cutoff : Times \cup {None}]
      BY DEF TypeInv, TypeOK
    <3> QED BY <1>4, <3>1 DEF Takes
  <2>2. Heard(i)' /\ \A j : Heard(j) => Heard(j)'
    BY <1>4, <2>1, TickHeard, HeardStays
  <2>3. AddTick(i)
    BY <1>4 DEF Takes
  <2>4. ASSUME NEW f \in Frames, NEW j \in builders'[f].ticks
        PROVE  j = i \/ (builders[f] # None /\ j \in builders[f].ticks)
    <3>1. CASE builders[f] = None \/ Rolls(f, market[i])
      BY <2>3, <2>4, <3>1 DEF AddTick
    <3>2. CASE ~(builders[f] = None \/ Rolls(f, market[i]))
      <4>1. builders[f] \in [open : Times, ticks : SUBSET Indices]
        BY <3>2 DEF TypeInv, TypeOK, Builder
      <4>2. builders'[f] = [builders[f] EXCEPT !.ticks = @ \cup {i}]
        BY <2>3, <3>2 DEF AddTick
      <4> QED BY <2>4, <3>2, <4>1, <4>2
    <3> QED BY <3>1, <3>2
  <2>5. \A b \in closed' : \E f \in Frames : builders[f] # None /\ b.ticks = builders[f].ticks
    BY <2>3 DEF AddTick, ClosedBy, Rolls
  <2>6. \A f \in Frames : builders'[f] # None => \A j \in builders'[f].ticks : Heard(j)'
    BY <2>2, <2>4 DEF HeardInv
  <2>7. \A b \in closed' : \A j \in b.ticks : Heard(j)'
    BY <2>2, <2>5 DEF HeardInv
  <2> QED BY <2>6, <2>7 DEF HeardInv
<1>5. UNCHANGED vars \/ YieldBar => stream' = stream /\ builders' = builders /\ closed' \subseteq closed
  BY DEF vars, connection, YieldBar, Yield
<1>6. ASSUME NEW ts \in Times, Trade(ts) PROVE stream' = stream /\ builders' = builders /\ closed' = closed
  BY <1>6 DEF Trade, connection
<1> QED BY Steps, <1>1, <1>2, <1>3, <1>4, <1>5, <1>6

LEMMA TapNext == TypeInv /\ TapInv /\ [Next]_vars => TapInv'
BY MarkNext, NewNext, TapOnceNext, CutoffNext, HeardNext DEF TapInv

LEMMA TapImplies == TypeInv /\ TapInv => TapExact
<1> SUFFICES ASSUME TypeInv, TapInv PROVE TapExact
  OBVIOUS
<1>1. ASSUME NEW b \in closed, NEW i \in b.ticks
      PROVE  \/ Counted(i)
             \/ /\ market[i] <= stream.cutoff
                /\ \E k \in Indices : Counted(k) /\ market[k] = stream.cutoff
  <2>1. Counted(i) \/ (stream.cutoff # None /\ market[i] <= stream.cutoff)
    BY DEF TapInv, HeardInv, Heard
  <2>2. ASSUME NEW k, Counted(k) PROVE k \in Indices
    <3>1. tapped \in Seq(Indices)
      BY DEF TypeInv, TypeOK
    <3> QED BY <2>2, <3>1, ElementOfSeq DEF Counted
  <2> QED BY <2>1, <2>2 DEF TapInv, CutoffInv
<1> QED BY <1>1 DEF TapExact, TapBeforeBar, TapInv, TypeInv

(* However often the provider replays, drops, repeats a time or goes back, *)
(* and however often the tap raises, each trade is counted at most once by *)
(* a process, and a bar is yielded when each of its trades is counted, or  *)
(* was taken for late on an earlier connection.                            *)
THEOREM TradesCountedOnce == Spec => []TapExact
<1>1. Init => TypeInv /\ TapInv
  BY TypeInit, TapInit
<1>2. (TypeInv /\ TapInv) /\ [Next]_vars => (TypeInv /\ TapInv)'
  BY TypeNext, TapNext
<1> QED BY <1>1, <1>2, TapImplies, PTL DEF Spec

-----------------------------------------------------------------------------
(* What a connection has received, and what of it lies in a window.        *)
Received == {i \in stream.joined .. stream.next - 1 : Sent(i)}

Within(open, f) == {i \in Received : market[i] >= open /\ market[i] < open + f}

(* The connection: where it began, and that its ticks never go back.       *)
StreamInv ==
  /\ stream.joined \in 1 .. stream.next /\ stream.next <= Len(market) + 1
  /\ stream.start # None => stream.joined = 1
  /\ \A i \in Received : lastTs # None /\ market[i] <= lastTs

(* Each bucket is the one of the last tick and holds what was received in  *)
(* it, since every timeframe is fed every tick from the first one on.      *)
BucketInv ==
  /\ \A f \in Frames : builders[f] # None =>
       /\ lastTs # None /\ builders[f].open = Bucket(lastTs, f)
       /\ builders[f].ticks = Within(builders[f].open, f) /\ builders[f].ticks # {}
  /\ pc = "open" /\ lastTs # None => \A f \in Frames : builders[f] # None

(* A closed bar holds what was received in its window, which is over.      *)
ClosedInv ==
  \A b \in closed : /\ Aligned(b.open, b.frame)
                    /\ b.ticks = Within(b.open, b.frame) /\ b.ticks # {}
                    /\ lastTs # None /\ Close(b) <= lastTs

(* Resume points are bar closes, so they split no bucket of the base.      *)
PointsInv ==
  /\ stream.start # None => Aligned(stream.start, Base)
  /\ position # None => Aligned(position, Base)
  /\ asked # None => Aligned(asked, Base)
  /\ delivered # <<>> => Aligned(Close(delivered[Len(delivered)]), Base)

LEMMA StreamFacts ==
  ASSUME TypeInv
  PROVE  /\ stream \in [start : Nat \cup {None}, joined : Nat, next : Nat, cutoff : Times \cup {None}]
         /\ stream.start \in Nat \cup {None} /\ stream.joined \in Nat /\ stream.next \in Nat
         /\ lastTs \in Times \cup {None} /\ (lastTs # None => lastTs \in Times /\ lastTs \in Nat)
         /\ Len(market) \in Nat /\ None \notin Int
BY LenProperties, FeedAssumption DEF TypeInv, TypeOK, Times

LEMMA ReceivedFacts ==
  ASSUME TypeInv, StreamInv, NEW i \in Received
  PROVE  /\ i \in 1 .. Len(market) /\ market[i] \in Times /\ market[i] \in Nat
         /\ lastTs \in Times /\ lastTs \in Nat /\ market[i] <= lastTs
<1>1. i \in 1 .. Len(market)
  BY StreamFacts DEF StreamInv, Received
<1> QED BY <1>1, MarketFacts, StreamFacts DEF StreamInv

LEMMA NothingReceived ==
  ASSUME stream.joined = stream.next, stream.joined \in Nat
  PROVE  Received = {}
BY DEF Received

LEMMA HungUpFacts ==
  ASSUME stream' = NoStream
  PROVE  /\ stream'.joined = 1 /\ stream'.next = 1 /\ stream'.start = None /\ Received' = {}
<1>1. stream'.joined = 1 /\ stream'.next = 1 /\ stream'.start = None
  BY DEF NoStream
<1>2. Received' = {}
  BY <1>1 DEF Received
<1> QED BY <1>1, <1>2

(* Two steps leave what was received alone: the market's, and those of the *)
(* bars already closed.                                                    *)
LEMMA ReceivedSame ==
  ASSUME TypeInv, StreamInv,
         stream' = stream,
         \A k \in 1 .. Len(market) : market'[k] = market[k]
  PROVE  /\ Received' = Received
         /\ \A open, f : Within(open, f)' = Within(open, f)
<1>1. \A i \in stream.joined .. stream.next - 1 : i \in 1 .. Len(market)
  BY StreamFacts DEF StreamInv
<1>2. \A i \in stream.joined .. stream.next - 1 : Sent(i)' <=> Sent(i)
  BY <1>1 DEF Sent
<1>3. Received' = Received
  BY <1>2 DEF Received
<1>4. \A i \in Received : market'[i] = market[i]
  BY <1>1 DEF Received
<1> QED BY <1>3, <1>4 DEF Within

LEMMA ReceivedTaken ==
  ASSUME TypeInv, StreamInv, NEW i \in Indices, Arrives(i), Takes(i)
  PROVE  Received' = Received \cup {i} /\ i \notin Received
<1>1. /\ i \in 1 .. Len(market) /\ i >= stream.next /\ Sent(i)
      /\ \A j \in stream.next .. i - 1 : ~Sent(j)
  BY ArrivesFacts DEF Arrives
<1>2. stream'.next = i + 1 /\ stream'.joined = stream.joined /\ stream'.start = stream.start
      /\ market' = market
  BY StreamFacts DEF Takes
<1>3. \A j : Sent(j)' <=> Sent(j)
  BY <1>2 DEF Sent
<1>4. stream.joined \in 1 .. stream.next /\ stream.joined \in Nat /\ stream.next \in Nat
      /\ Len(market) \in Nat
  BY StreamFacts DEF StreamInv
<1>5. ASSUME NEW j \in Received' PROVE j \in Received \cup {i}
  <2>1. j \in stream.joined .. i /\ Sent(j)
    BY <1>1, <1>2, <1>3, <1>4 DEF Received
  <2>2. j = i \/ j \in stream.joined .. stream.next - 1 \/ j \in stream.next .. i - 1
    BY <1>1, <1>4, <2>1
  <2> QED BY <1>1, <2>1, <2>2 DEF Received
<1>6. ASSUME NEW j \in Received \cup {i} PROVE j \in Received'
  <2>1. Sent(j)
    BY <1>1 DEF Received
  <2>2. j \in stream.joined .. i
    BY <1>1, <1>4 DEF Received
  <2> QED BY <1>1, <1>2, <1>3, <1>4, <2>1, <2>2 DEF Received
<1>7. i \notin Received
  BY <1>1, <1>4 DEF Received
<1> QED BY <1>5, <1>6, <1>7

LEMMA StreamInit == Init => StreamInv
<1> SUFFICES ASSUME Init PROVE StreamInv
  OBVIOUS
<1>1. stream.joined = 1 /\ stream.next = 1 /\ stream.start = None /\ Len(market) = 0
  BY DEF Init, NoStream
<1>2. Received = {}
  BY <1>1 DEF Received
<1> QED BY <1>1, <1>2 DEF StreamInv

LEMMA StreamNext == ASSUME TypeInv, StreamInv, [Next]_vars PROVE StreamInv'
<1>1. CASE HangsUp \/ Dies
  <2>1. stream' = NoStream /\ Len(market') \in Nat
    BY <1>1, StreamFacts DEF HangsUp, Dies
  <2>2. stream'.joined = 1 /\ stream'.next = 1 /\ stream'.start = None /\ Received' = {}
    BY <2>1, HungUpFacts
  <2> QED BY <2>1, <2>2 DEF StreamInv
<1>2. CASE Connect
  <2>1. Len(market) \in Nat /\ market' = market
    BY <1>2, StreamFacts DEF Connect
  <2>2. /\ stream'.joined = stream'.next /\ stream'.joined \in 1 .. Len(market) + 1
        /\ stream'.start # None => stream'.joined = 1
    <3>1. CASE provider = "fixture"
      BY <1>2, <2>1, <3>1 DEF Connect, NoStream
    <3>2. CASE provider # "fixture"
      BY <1>2, <2>1, <3>2 DEF Connect
    <3> QED BY <3>1, <3>2
  <2>3. Received' = {}
    BY <2>1, <2>2 DEF Received
  <2> QED BY <2>1, <2>2, <2>3 DEF StreamInv
<1>3. CASE \E ts \in Times : Trade(ts)
  <2>1. PICK ts \in Times : Trade(ts)
    BY <1>3
  <2>2. /\ Len(market) \in Nat /\ Len(market') = Len(market) + 1 /\ stream' = stream /\ lastTs' = lastTs
        /\ \A k \in 1 .. Len(market) : market'[k] = market[k]
    BY <2>1, TradeFacts DEF connection
  <2>3. Received' = Received
    BY <2>2, ReceivedSame
  <2>4. \A i \in Received : market'[i] = market[i]
    BY <2>2, ReceivedFacts
  <2> QED BY <2>2, <2>3, <2>4, StreamFacts DEF StreamInv
<1>4. ASSUME NEW i \in Indices, Arrives(i), Takes(i) PROVE StreamInv'
  <2>1. /\ i \in 1 .. Len(market) /\ i >= stream.next /\ market[i] \in Nat /\ None \notin Int
    BY <1>4, ArrivesFacts
  <2>2. /\ stream'.next = i + 1 /\ stream'.joined = stream.joined /\ stream'.start = stream.start
        /\ market' = market /\ lastTs' = market[i] /\ (lastTs # None => market[i] >= lastTs)
    BY <1>4, StreamFacts DEF Takes, AddTick
  <2>3. Received' = Received \cup {i}
    BY <1>4, ReceivedTaken
  <2>4. \A j \in Received' : lastTs' # None /\ market'[j] <= lastTs'
    BY <2>1, <2>2, <2>3, ReceivedFacts
  <2>5. stream'.joined \in 1 .. stream'.next /\ stream'.next <= Len(market) + 1
    BY <2>1, <2>2, StreamFacts DEF StreamInv
  <2> QED BY <2>2, <2>4, <2>5 DEF StreamInv
<1>5. CASE UNCHANGED <<stream, market, lastTs>>
  <2>1. Received' = Received
    BY <1>5 DEF Received, Sent
  <2> QED BY <1>5, <2>1 DEF StreamInv
<1>6. UNCHANGED vars \/ YieldBar \/ Flush => UNCHANGED <<stream, market, lastTs>>
  BY DEF vars, connection, YieldBar, Yield, Flush
<1> QED BY Steps, <1>1, <1>2, <1>3, <1>4, <1>5, <1>6

(* A tick past the bucket begins a later one; any other tick is in it.     *)
LEMMA RollFacts ==
  ASSUME TypeInv, StreamInv, BucketInv, NEW i \in Indices, Arrives(i), Takes(i),
         NEW f \in Frames, builders[f] # None
  PROVE  /\ builders[f].open \in Nat /\ builders[f].open \in Times /\ f \in Nat \ {0}
         /\ Aligned(builders[f].open, f)
         /\ Rolls(f, market[i]) => builders[f].open + f <= Bucket(market[i], f)
         /\ ~Rolls(f, market[i]) => Bucket(market[i], f) = builders[f].open
         /\ \A j \in Received : market[j] \in Nat /\ market[j] < builders[f].open + f
<1>1. /\ lastTs \in Times /\ lastTs \in Nat /\ builders[f].open = Bucket(lastTs, f)
      /\ market[i] \in Times /\ market[i] \in Nat /\ market[i] >= lastTs
  BY StreamFacts, ArrivesFacts DEF BucketInv, Takes
<1>2. /\ f \in Nat \ {0} /\ Bucket(lastTs, f) \in Nat /\ Bucket(lastTs, f) \in Times
      /\ Bucket(lastTs, f) <= lastTs /\ lastTs < Bucket(lastTs, f) + f
      /\ Aligned(Bucket(lastTs, f), f)
  BY <1>1, BucketFacts
<1>3. Bucket(market[i], f) \in Nat /\ Aligned(Bucket(market[i], f), f)
  BY <1>1, BucketFacts
<1>4. Bucket(lastTs, f) <= Bucket(market[i], f)
  <2>1. Bucket(lastTs, f) <= market[i]
    BY <1>1, <1>2
  <2> QED BY <1>1, <1>2, <2>1, BucketIsLast
<1>5. Rolls(f, market[i]) => Bucket(lastTs, f) + f <= Bucket(market[i], f)
  <2> SUFFICES ASSUME Rolls(f, market[i]) PROVE Bucket(lastTs, f) + f <= Bucket(market[i], f)
    OBVIOUS
  <2>1. Bucket(lastTs, f) < Bucket(market[i], f)
    BY <1>1, <1>2, <1>3 DEF Rolls
  <2> QED BY <1>2, <1>3, <2>1, AlignedApart
<1>6. ~Rolls(f, market[i]) => Bucket(market[i], f) = Bucket(lastTs, f)
  BY <1>1, <1>2, <1>3, <1>4 DEF Rolls
<1>7. ASSUME NEW j \in Received PROVE market[j] \in Nat /\ market[j] < Bucket(lastTs, f) + f
  <2>1. market[j] \in Nat /\ market[j] <= lastTs
    BY ReceivedFacts
  <2> QED BY <1>1, <1>2, <2>1
<1> QED BY <1>1, <1>2, <1>5, <1>6, <1>7

LEMMA NoBuilder ==
  ASSUME TypeInv, StreamInv, BucketInv, NEW i \in Indices, Arrives(i),
         NEW f \in Frames, builders[f] = None
  PROVE  Received = {}
BY ArrivesFacts DEF BucketInv, StreamInv

(* Every timeframe, after a tick.                                          *)
LEMMA BucketTakes ==
  ASSUME TypeInv, StreamInv, BucketInv, NEW i \in Indices, Arrives(i), Takes(i), NEW f \in Frames,
         NEW x, x = Bucket(market[i], f)
  PROVE  /\ builders'[f] # None /\ builders'[f].open = x
         /\ builders'[f].ticks = Within(x, f)' /\ builders'[f].ticks # {}
<1>1. /\ Received' = Received \cup {i} /\ i \notin Received /\ market' = market
      /\ market[i] \in Times /\ market[i] \in Nat
  BY ReceivedTaken, ArrivesFacts DEF Takes
<1>2. /\ x \in Nat /\ x \in Times /\ x <= market[i]
      /\ market[i] < x + f /\ f \in Nat \ {0} /\ None \notin Int
  BY <1>1, BucketFacts, StreamFacts
<1>3. AddTick(i)
  BY DEF Takes
<1>4. builders \in [Frames -> Builder \cup {None}]
  BY DEF TypeInv, TypeOK
<1>5. ASSUME NEW j \in Received PROVE j \in 1 .. Len(market) /\ market[j] \in Nat
  BY ReceivedFacts
<1>6. CASE builders[f] = None \/ Rolls(f, market[i])
  <2>1. builders'[f] = [open |-> x, ticks |-> {i}]
    BY <1>3, <1>6 DEF AddTick
  <2>2. ASSUME NEW j \in Received PROVE market[j] < x
    <3>1. builders[f] # None
      BY <2>2, NoBuilder
    <3>2. /\ builders[f].open + f <= x /\ market[j] < builders[f].open + f
          /\ builders[f].open \in Nat
      BY <1>6, <3>1, RollFacts
    <3> QED BY <1>2, <1>5, <3>2
  <2>3. Within(x, f)' = {i}
    <3>1. \A j \in Received : ~(market[j] >= x)
      BY <1>2, <1>5, <2>2
    <3> QED BY <1>1, <1>2, <3>1 DEF Within
  <2>4. builders'[f].open = x /\ builders'[f].ticks = {i} /\ builders'[f] # None
    <3>1. builders'[f] \in Builder
      BY <1>1, <1>2, <2>1, ArrivesFacts DEF Builder
    <3>2. builders'[f].open = x /\ builders'[f].ticks = {i}
      BY <2>1
    <3>3. builders'[f] # None
      BY <3>1, BuilderAssumption
    <3> QED BY <3>2, <3>3
  <2> QED BY <2>3, <2>4
<1>7. CASE ~(builders[f] = None \/ Rolls(f, market[i]))
  <2>1. builders[f] # None /\ builders'[f] = [builders[f] EXCEPT !.ticks = @ \cup {i}]
    BY <1>3, <1>7 DEF AddTick
  <2>2. builders[f] \in [open : Times, ticks : SUBSET Indices]
    BY <1>4, <2>1 DEF Builder
  <2>3. /\ builders'[f].open = builders[f].open
        /\ builders'[f].ticks = builders[f].ticks \cup {i}
    BY <2>1, <2>2
  <2>4. x = builders[f].open
    BY <1>7, RollFacts
  <2>5. builders[f].ticks = Within(x, f)
    BY <2>1, <2>4 DEF BucketInv
  <2>6. Within(x, f)' = Within(x, f) \cup {i}
    BY <1>1, <1>2 DEF Within
  <2>7. builders'[f] # None
    <3>1. builders'[f] \in Builder
      BY <1>1, <2>1, <2>2 DEF Builder, Indices
    <3> QED BY <3>1, BuilderAssumption
  <2> QED BY <2>3, <2>4, <2>5, <2>6, <2>7
<1> QED BY <1>6, <1>7

(* A bucket that a tick closes.                                            *)
LEMMA RolledIsClosed ==
  ASSUME TypeInv, StreamInv, BucketInv, NEW i \in Indices, Arrives(i), Takes(i),
         NEW f \in Frames, Rolls(f, market[i]), NEW x, x = builders[f].open
  PROVE  /\ Aligned(x, f) /\ x + f <= market[i]
         /\ builders[f].ticks = Within(x, f)' /\ builders[f].ticks # {}
<1>1. builders[f] # None
  BY DEF Rolls
<1>2. /\ x \in Nat /\ f \in Nat \ {0} /\ Aligned(x, f) /\ x + f <= Bucket(market[i], f)
  BY <1>1, RollFacts
<1>3. /\ Received' = Received \cup {i} /\ market' = market
      /\ market[i] \in Times /\ market[i] \in Nat
  BY ReceivedTaken, ArrivesFacts DEF Takes
<1>4. Bucket(market[i], f) \in Nat /\ Bucket(market[i], f) <= market[i]
  BY <1>3, BucketFacts
<1>5. x + f <= market[i]
  BY <1>2, <1>3, <1>4
<1>6. builders[f].ticks = Within(x, f) /\ builders[f].ticks # {}
  BY <1>1 DEF BucketInv
<1>7. Within(x, f)' = Within(x, f)
  <2>1. ~(market[i] < x + f)
    BY <1>2, <1>3, <1>5
  <2> QED BY <1>3, <2>1 DEF Within
<1> QED BY <1>2, <1>5, <1>6, <1>7

LEMMA BucketInit == Init => BucketInv /\ ClosedInv
<1> SUFFICES ASSUME Init PROVE BucketInv /\ ClosedInv
  OBVIOUS
<1>1. (\A f \in Frames : builders[f] = None) /\ closed = {} /\ pc = "waiting"
  BY DEF Init
<1> QED BY <1>1 DEF BucketInv, ClosedInv

(* Steps that keep the connection keep its buckets and closed bars.        *)
LEMMA BuiltSame ==
  ASSUME TypeInv, StreamInv, BucketInv, ClosedInv,
         stream' = stream, lastTs' = lastTs, builders' = builders,
         pc' = pc, closed' \subseteq closed,
         \A k \in 1 .. Len(market) : market'[k] = market[k]
  PROVE  BucketInv' /\ ClosedInv'
<1>1. Received' = Received /\ \A open, f : Within(open, f)' = Within(open, f)
  BY ReceivedSame
<1>2. \A i \in Received : market'[i] = market[i]
  BY ReceivedFacts
<1>3. BucketInv'
  BY <1>1, <1>2 DEF BucketInv, Within
<1>4. ClosedInv'
  BY <1>1, <1>2 DEF ClosedInv, Within
<1> QED BY <1>3, <1>4

LEMMA BuiltNext ==
  ASSUME TypeInv, StreamInv, BucketInv, ClosedInv, [Next]_vars
  PROVE  BucketInv' /\ ClosedInv'
<1>1. CASE HangsUp \/ Dies \/ Connect
  <2>1. (\A f \in Frames : builders'[f] = None) /\ closed' = {} /\ lastTs' = None
    BY <1>1 DEF HangsUp, Dies, Connect
  <2> QED BY <2>1 DEF BucketInv, ClosedInv
<1>2. ASSUME NEW ts \in Times, Trade(ts) PROVE BucketInv' /\ ClosedInv'
  <2>1. /\ \A k \in 1 .. Len(market) : market'[k] = market[k]
        /\ stream' = stream /\ lastTs' = lastTs /\ builders' = builders /\ closed' = closed /\ pc' = pc
    BY <1>2, TradeFacts DEF connection
  <2> QED BY <2>1, BuiltSame
<1>3. ASSUME NEW i \in Indices, Arrives(i), Takes(i) PROVE BucketInv' /\ ClosedInv'
  <2>1. lastTs' = market[i] /\ lastTs' # None /\ closed' = ClosedBy(market[i])
    BY <1>3, ArrivesFacts DEF Takes, AddTick
  <2>2. BucketInv'
    <3>1. ASSUME NEW f \in Frames
          PROVE  /\ builders'[f] # None /\ builders'[f].open = Bucket(market[i], f)
                 /\ builders'[f].ticks # {}
      BY <1>3, BucketTakes
    <3>2. ASSUME NEW f \in Frames
          PROVE  builders'[f].ticks
                 = {j \in Received' : market'[j] >= builders'[f].open /\ market'[j] < builders'[f].open + f}
      <4>1. PICK x : x = Bucket(market[i], f)
        OBVIOUS
      <4>2. builders'[f].open = x /\ builders'[f].ticks = Within(x, f)'
        BY <1>3, <4>1, BucketTakes
      <4> QED BY <4>2 DEF Within
    <3>3. \A f \in Frames : Bucket(lastTs', f) = Bucket(market[i], f)
      BY <2>1 DEF Bucket
    <3> QED BY <2>1, <3>1, <3>2, <3>3 DEF BucketInv, Within, Bucket
  <2>3. ClosedInv'
    <3>1. ASSUME NEW b \in closed'
          PROVE  /\ Aligned(b.open, b.frame) /\ b.ticks # {} /\ b.open + b.frame <= market[i]
                 /\ b.ticks = {j \in Received' : market'[j] >= b.open /\ market'[j] < b.open + b.frame}
      <4>1. PICK f \in Frames : /\ Rolls(f, market[i])
                                /\ b = [frame |-> f, open |-> builders[f].open, ticks |-> builders[f].ticks]
        BY <2>1 DEF ClosedBy
      <4>2. b.frame = f /\ b.open = builders[f].open /\ b.ticks = builders[f].ticks
        BY <4>1
      <4>3. PICK x : x = builders[f].open
        OBVIOUS
      <4>4. /\ Aligned(x, f) /\ x + f <= market[i]
            /\ builders[f].ticks = Within(x, f)' /\ builders[f].ticks # {}
        BY <1>3, <4>1, <4>3, RolledIsClosed
      <4> QED BY <4>2, <4>3, <4>4 DEF Within
    <3> QED BY <2>1, <3>1 DEF ClosedInv, Within, Close
  <2> QED BY <2>2, <2>3
<1>4. CASE Flush
  <2>1. /\ closed' = Flushed /\ \A f \in Frames : builders'[f] = None
        /\ stream' = stream /\ market' = market /\ lastTs' = lastTs /\ pc' = "flushed"
    BY <1>4 DEF Flush
  <2>2. Received' = Received /\ \A open, f : Within(open, f)' = Within(open, f)
    BY <2>1, ReceivedSame
  <2>3. BucketInv'
    BY <2>1 DEF BucketInv
  <2>4. ASSUME NEW b \in Flushed
        PROVE  /\ Aligned(b.open, b.frame) /\ b.ticks # {} /\ lastTs # None
               /\ b.open + b.frame <= lastTs /\ b.ticks = Within(b.open, b.frame)
    <3>1. PICK f \in Frames : /\ builders[f] # None /\ builders[f].open + f <= lastTs
                              /\ b = [frame |-> f, open |-> builders[f].open, ticks |-> builders[f].ticks]
      BY DEF Flushed
    <3>2. b.frame = f /\ b.open = builders[f].open /\ b.ticks = builders[f].ticks
      BY <3>1
    <3>3. /\ lastTs # None /\ builders[f].open = Bucket(lastTs, f)
          /\ builders[f].ticks = Within(builders[f].open, f) /\ builders[f].ticks # {}
      BY <3>1 DEF BucketInv
    <3>4. lastTs \in Times
      BY <3>3, StreamFacts
    <3>5. Aligned(builders[f].open, f)
      BY <3>3, <3>4, BucketFacts
    <3> QED BY <3>1, <3>2, <3>3, <3>5
  <2> QED BY <2>1, <2>2, <2>3, <2>4 DEF ClosedInv, Within, Close
<1>5. CASE UNCHANGED vars \/ YieldBar
  <2>1. /\ stream' = stream /\ lastTs' = lastTs /\ builders' = builders /\ pc' = pc
        /\ closed' \subseteq closed /\ market' = market
    BY <1>5 DEF vars, connection, YieldBar, Yield
  <2> QED BY <2>1, BuiltSame
<1> QED BY Steps, <1>1, <1>2, <1>3, <1>4, <1>5

LEMMA AppendedDelivered ==
  ASSUME TypeInv, NEW b \in Bars, delivered' = Append(delivered, b)
  PROVE  /\ delivered' # <<>> /\ delivered'[Len(delivered')] = b
         /\ Len(delivered') = Len(delivered) + 1 /\ Len(delivered) \in Nat
<1>1. delivered \in Seq(Bars) /\ Len(delivered) \in Nat
  BY LenProperties DEF TypeInv, TypeOK
<1>2. Len(delivered') = Len(delivered) + 1 /\ delivered'[Len(delivered) + 1] = b
  BY <1>1, AppendProperties
<1>3. delivered' # <<>>
  BY <1>1, <1>2
<1> QED BY <1>1, <1>2, <1>3

(* What yielding a bar does to the caller.                                 *)
LEMMA YieldFacts ==
  ASSUME TypeInv, NEW b \in closed, Yield(b)
  PROVE  /\ position' = Close(b) /\ UNCHANGED <<provider, market, pc, stream, lastTs, asked>>
         /\ \A c \in closed' : c \in closed /\ c # b /\ Before(b, c)
         /\ \/ Skipped(b) /\ delivered' = delivered
            \/ /\ ~Skipped(b) /\ delivered' # <<>>
               /\ delivered' = Append(delivered, Unbuilt(b))
               /\ delivered'[Len(delivered')] = Unbuilt(b)
<1>1. Unbuilt(b) \in Bars
  BY ClosedFacts
<1>2. CASE Skipped(b)
  BY <1>2 DEF Yield
<1>3. CASE ~Skipped(b)
  <2>1. delivered' = Append(delivered, Unbuilt(b))
    BY <1>3 DEF Yield
  <2> QED BY <1>1, <1>3, <2>1, AppendedDelivered DEF Yield
<1> QED BY <1>2, <1>3 DEF Yield

LEMMA PointsInit == Init => PointsInv
<1> SUFFICES ASSUME Init PROVE PointsInv
  OBVIOUS
<1>1. stream.start = None /\ position = asked /\ delivered = <<>>
  BY DEF Init, NoStream
<1>2. asked # None => Aligned(asked, Base)
  <2> SUFFICES ASSUME asked # None PROVE Aligned(asked, Base)
    OBVIOUS
  <2>1. asked \in Nat /\ asked % Base = 0
    BY FeedAssumption DEF Init, Times
  <2>2. Base \in Nat \ {0}
    BY FrameFacts, FrameAssumption
  <2> DEFINE q == asked \div Base
  <2>3. q \in Nat /\ asked = Base * q + (asked % Base)
    BY <2>1, <2>2, SMT
  <2> HIDE DEF q
  <2>4. Base * q \in Nat
    BY <2>2, <2>3
  <2>5. asked = Base * q
    BY <2>1, <2>3, <2>4
  <2> QED BY <2>3, <2>5 DEF Aligned
<1> QED BY <1>1, <1>2 DEF PointsInv

LEMMA PointsNext == ASSUME TypeInv, ClosedInv, PointsInv, [Next]_vars PROVE PointsInv'
<1>1. CASE YieldBar
  <2>1. PICK b \in closed : Yield(b)
    BY <1>1 DEF YieldBar
  <2>2. position' = Close(b) /\ stream' = stream /\ asked' = asked /\ Close(Unbuilt(b)) = Close(b)
    BY <2>1, YieldFacts, ClosedFacts
  <2>3. Aligned(Close(b), Base)
    <3>1. b.frame \in Frames /\ b.open \in Nat /\ Aligned(b.open, b.frame)
      BY <2>1, ClosedFacts DEF ClosedInv
    <3> QED BY <3>1, AlignedToBase DEF Close
  <2>4. delivered' = delivered \/ delivered'[Len(delivered')] = Unbuilt(b)
    BY <2>1, YieldFacts
  <2>5. delivered' # <<>> => Aligned(Close(delivered'[Len(delivered')]), Base)
    BY <2>2, <2>3, <2>4 DEF PointsInv
  <2> QED BY <2>2, <2>3, <2>5 DEF PointsInv, Close, Aligned
<1>2. CASE Dies
  <2>1. Saved # None => Aligned(Saved, Base)
    BY DEF Saved, PointsInv
  <2>2. asked' = Saved /\ position' = Saved /\ delivered' = delivered /\ stream'.start = None
    BY <1>2 DEF Dies, NoStream
  <2> QED BY <2>1, <2>2 DEF PointsInv, Close
<1>3. CASE UNCHANGED <<position, asked, delivered>> /\ stream'.start \in {None, stream.start, position}
  BY <1>3 DEF PointsInv, Close
<1>4. ASSUME NEW i \in Indices, Takes(i) PROVE stream'.start = stream.start
  BY <1>4, StreamFacts DEF Takes
<1>5. Connect => stream'.start \in {None, position}
  BY DEF Connect, NoStream, ResumeAt
<1>6. HangsUp => stream'.start = None
  BY DEF HangsUp, NoStream
<1>7. UNCHANGED vars \/ Flush => UNCHANGED <<position, asked, delivered, stream>>
  BY DEF vars, connection, caller, Flush
<1>8. ASSUME NEW ts \in Times, Trade(ts) PROVE UNCHANGED <<position, asked, delivered, stream>>
  BY <1>8 DEF Trade, connection, caller
<1>9. /\ Connect \/ HangsUp => UNCHANGED <<position, asked, delivered>>
      /\ \A i \in Indices : Takes(i) => UNCHANGED <<position, asked, delivered>>
  BY DEF Connect, HangsUp, Takes, caller
<1> QED BY Steps, <1>1, <1>2, <1>3, <1>4, <1>5, <1>6, <1>7, <1>8, <1>9

-----------------------------------------------------------------------------
BuiltInv == StreamInv /\ BucketInv /\ ClosedInv /\ PointsInv

LEMMA BuiltImplies == TypeInv /\ BuiltInv => WholeBars
<1> SUFFICES ASSUME TypeInv, BuiltInv, NEW b \in closed, ~JoinedInside(b)
             PROVE  b.ticks = TradesIn(b)
  BY DEF WholeBars
<1> USE DEF BuiltInv
<1>1. /\ b.frame \in Frames /\ b.open \in Nat /\ b.frame \in Nat \ {0}
      /\ b.ticks \in SUBSET Indices
      /\ Aligned(b.open, b.frame) /\ b.ticks = Within(b.open, b.frame) /\ b.ticks # {}
  BY ClosedFacts DEF ClosedInv
<1>2. /\ stream.joined \in Nat \ {0} /\ stream.next \in Nat /\ Len(market) \in Nat
      /\ stream.next <= Len(market) + 1 /\ None \notin Int
      /\ stream.start \in Nat \cup {None}
  BY StreamFacts DEF StreamInv
<1>3. ASSUME NEW i \in b.ticks PROVE i \in TradesIn(b)
  <2>1. i \in Received /\ market[i] >= b.open /\ market[i] < b.open + b.frame
    BY <1>1 DEF Within
  <2>2. i \in stream.joined .. stream.next - 1 /\ market[i] \in Nat
    BY <2>1, ReceivedFacts DEF Received
  <2>3. i \in 1 .. stream.next - 1
    BY <1>2, <2>2
  <2>4. market[i] \in b.open .. (b.open + b.frame) - 1
    BY <1>1, <2>1, <2>2
  <2> QED BY <2>3, <2>4 DEF TradesIn, Close
<1>4. ASSUME NEW i \in TradesIn(b) PROVE i \in b.ticks
  <2>1. i \in 1 .. stream.next - 1 /\ market[i] \in b.open .. (b.open + b.frame) - 1
    BY DEF TradesIn, Close
  <2>2. market[i] >= b.open /\ market[i] < b.open + b.frame /\ market[i] \in Nat
    BY <1>1, <2>1
  <2>3. i >= stream.joined
    <3>1. CASE stream.start = None
      BY <1>2, <2>1, <3>1 DEF JoinedInside
    <3>2. CASE stream.start # None
      BY <1>2, <2>1, <3>2 DEF StreamInv
    <3> QED BY <3>1, <3>2
  <2>4. Sent(i)
    <3> SUFFICES ASSUME stream.start # None, market[i] < stream.start PROVE FALSE
      BY <1>2, <2>2 DEF Sent
    <3>1. stream.start \in Nat /\ b.open < stream.start
      BY <1>1, <1>2, <2>2
    <3>2. b.frame = Base
      BY <3>1 DEF JoinedInside
    <3>3. Aligned(stream.start, Base)
      BY DEF PointsInv
    <3>4. b.open + b.frame <= stream.start
      BY <1>1, <3>1, <3>2, <3>3, AlignedApart
    <3>5. PICK j \in b.ticks : TRUE
      BY <1>1
    <3>6. j \in Received /\ market[j] < b.open + b.frame
      BY <1>1, <3>5 DEF Within
    <3>7. market[j] >= stream.start /\ market[j] \in Nat
      BY <3>6, ReceivedFacts DEF Received, Sent
    <3> QED BY <1>1, <3>1, <3>4, <3>6, <3>7
  <2>5. i \in Received
    BY <1>2, <2>1, <2>3, <2>4 DEF Received
  <2> QED BY <1>1, <2>2, <2>5 DEF Within
<1> QED BY <1>3, <1>4

(* The data invariants together.                                           *)
FeedInv == TypeInv /\ TapInv /\ BuiltInv

LEMMA FeedInit == Init => FeedInv
BY TypeInit, TapInit, StreamInit, BucketInit, PointsInit DEF FeedInv, BuiltInv

LEMMA FeedNext == FeedInv /\ [Next]_vars => FeedInv'
BY TypeNext, TapNext, StreamNext, BuiltNext, PointsNext DEF FeedInv, BuiltInv

(* A bar that is about to be yielded is made of every trade of its window, *)
(* through reconnects and replays, unless the connection was joined inside *)
(* the window.                                                             *)
THEOREM BarsAreWhole == Spec => []WholeBars
<1>1. FeedInv => WholeBars
  BY BuiltImplies DEF FeedInv
<1> QED BY <1>1, FeedInit, FeedNext, PTL DEF Spec

-----------------------------------------------------------------------------
(* The order in which bars come, deaths and replays included: the bar that *)
(* was applied last closed no later than the last tick, than where the     *)
(* connection resumed or than the caller's resume point, and what is       *)
(* closed now comes after it, or will be skipped.  A live provider resumes *)
(* past the resume point and has nothing to skip.                          *)
LastBar == delivered[Len(delivered)]

LiveInv ==
  provider = "live" =>
    /\ asked # None => position # None /\ position >= asked
    /\ delivered # <<>> => position # None /\ position >= Close(LastBar)
    /\ asked # None /\ pc = "open" => stream.start # None /\ stream.start >= asked
    /\ \A b \in closed : ~Skipped(b)

BehindInv ==
  /\ provider = "fixture" /\ pc = "waiting" /\ delivered # <<>>
       => asked # None /\ Close(LastBar) <= asked
  /\ lastTs # None /\ stream.start # None => lastTs >= stream.start
  /\ pc \in {"open", "flushed"} /\ delivered # <<>> =>
       \/ lastTs # None /\ Close(LastBar) <= lastTs
       \/ stream.start # None /\ Close(LastBar) <= stream.start
       \/ asked # None /\ Close(LastBar) <= asked

ComingInv == delivered # <<>> => \A b \in closed : Skipped(b) \/ Before(LastBar, b)

OrderInv == LiveInv /\ BehindInv /\ ComingInv

LEMMA OrderFacts ==
  ASSUME TypeInv
  PROVE  /\ asked \in Nat \cup {None} /\ position \in Nat \cup {None}
         /\ stream.start \in Nat \cup {None} /\ lastTs \in Nat \cup {None}
         /\ delivered # <<>> => LastBar \in Bars /\ Close(LastBar) \in Nat /\ LastBar.frame \in Nat
         /\ None \notin Int
<1>1. lastTs \in Nat \cup {None}
  BY StreamFacts
<1>2. delivered # <<>> => LastBar \in Bars /\ Close(LastBar) \in Nat /\ LastBar.frame \in Nat
  BY LastDelivered, BarFacts DEF LastBar
<1> QED BY <1>1, <1>2, StreamFacts DEF TypeInv, TypeOK

LEMMA OrderInit == Init => OrderInv
<1> SUFFICES ASSUME Init PROVE OrderInv
  OBVIOUS
<1>1. delivered = <<>> /\ closed = {} /\ pc = "waiting" /\ lastTs = None /\ position = asked
  BY DEF Init
<1>2. asked # None => position >= asked
  <2> SUFFICES ASSUME asked # None PROVE position >= asked
    OBVIOUS
  <2>1. asked \in Nat
    BY FeedAssumption DEF Init, Times
  <2> QED BY <1>1, <2>1
<1> QED BY <1>1, <1>2 DEF OrderInv, LiveInv, BehindInv, ComingInv

(* A bar made from a bucket of the last tick comes after the one applied   *)
(* last; on a live connection it is not to be skipped.                     *)
LEMMA BucketComes ==
  ASSUME TypeInv, StreamInv, BucketInv, OrderInv, pc = "open", NEW f \in Frames, builders[f] # None,
         NEW b, b = [frame |-> f, open |-> builders[f].open, ticks |-> builders[f].ticks]
  PROVE  /\ provider = "live" => ~Skipped(b)
         /\ delivered # <<>> => Skipped(b) \/ Before(LastBar, b)
<1>1. b.frame = f /\ b.open = builders[f].open /\ b.ticks = builders[f].ticks
      /\ Close(b) = builders[f].open + f
  BY DEF Close
<1>2. /\ lastTs \in Times /\ lastTs \in Nat /\ lastTs # None /\ builders[f].open = Bucket(lastTs, f)
      /\ b.ticks = Within(builders[f].open, f) /\ b.ticks # {}
  BY <1>1, StreamFacts DEF BucketInv
<1>3. Close(b) \in Nat /\ lastTs < Close(b)
  BY <1>1, <1>2, BucketFacts
<1>4. /\ asked \in Nat \cup {None} /\ stream.start \in Nat \cup {None} /\ None \notin Int
      /\ delivered # <<>> => Close(LastBar) \in Nat
  BY OrderFacts
<1>5. provider = "live" => ~Skipped(b)
  <2> SUFFICES ASSUME provider = "live", asked # None, Close(b) <= asked PROVE FALSE
    BY DEF Skipped
  <2>1. stream.start # None /\ stream.start >= asked
    BY DEF OrderInv, LiveInv
  <2>2. PICK j \in Received : market[j] < builders[f].open + f
    BY <1>2 DEF Within
  <2>3. market[j] >= stream.start /\ market[j] \in Nat
    BY <2>1, ReceivedFacts DEF Received, Sent
  <2> QED BY <1>1, <1>3, <1>4, <2>1, <2>2, <2>3
<1>6. delivered # <<>> => Skipped(b) \/ Before(LastBar, b)
  <2> SUFFICES ASSUME delivered # <<>>, ~Skipped(b) PROVE Close(LastBar) < Close(b)
    BY DEF Before
  <2>1. \/ Close(LastBar) <= lastTs
        \/ stream.start # None /\ Close(LastBar) <= stream.start
        \/ asked # None /\ Close(LastBar) <= asked
    BY DEF OrderInv, BehindInv
  <2>2. stream.start # None => lastTs >= stream.start
    BY <1>2 DEF OrderInv, BehindInv
  <2>3. asked # None => asked < Close(b)
    BY <1>3, <1>4 DEF Skipped
  <2>4. Close(LastBar) \in Nat
    BY <1>4
  <2>5. CASE Close(LastBar) <= lastTs
    BY <1>2, <1>3, <2>4, <2>5
  <2>6. CASE stream.start # None /\ Close(LastBar) <= stream.start
    BY <1>2, <1>3, <1>4, <2>2, <2>4, <2>6
  <2>7. CASE asked # None /\ Close(LastBar) <= asked
    BY <1>3, <1>4, <2>3, <2>4, <2>7
  <2> QED BY <2>1, <2>5, <2>6, <2>7
<1> QED BY <1>5, <1>6

LEMMA OrderTakes ==
  ASSUME FeedInv, OrderInv, NEW i \in Indices, Arrives(i), Takes(i)
  PROVE  OrderInv'
<1>1. TypeInv /\ StreamInv /\ BucketInv
  BY DEF FeedInv, BuiltInv
<1>2. /\ pc = "open" /\ pc' = "open" /\ market[i] \in Nat /\ None \notin Int /\ Sent(i)
      /\ UNCHANGED <<provider, position, asked, delivered>>
      /\ lastTs' = market[i] /\ (lastTs # None => market[i] >= lastTs)
      /\ closed' = ClosedBy(market[i]) /\ stream'.start = stream.start
  BY <1>1, ArrivesFacts, StreamFacts DEF Takes, AddTick, Arrives
<1>3. /\ asked \in Nat \cup {None} /\ stream.start \in Nat \cup {None} /\ lastTs \in Nat \cup {None}
      /\ delivered # <<>> => Close(LastBar) \in Nat
  BY <1>1, OrderFacts
<1>4. ASSUME NEW b \in closed'
      PROVE  /\ provider = "live" => ~Skipped(b)
             /\ delivered # <<>> => Skipped(b) \/ Before(LastBar, b)
  <2>1. PICK f \in Frames : /\ Rolls(f, market[i])
                            /\ b = [frame |-> f, open |-> builders[f].open, ticks |-> builders[f].ticks]
    BY <1>2 DEF ClosedBy
  <2>2. builders[f] # None
    BY <2>1 DEF Rolls
  <2> QED BY <1>1, <1>2, <2>1, <2>2, BucketComes
<1>5. LastBar' = LastBar /\ \A b : Skipped(b)' <=> Skipped(b)
  BY <1>2 DEF LastBar, Skipped
<1>6. LiveInv'
  BY <1>2, <1>4, <1>5 DEF OrderInv, LiveInv, LastBar, Close
<1>7. ComingInv'
  BY <1>2, <1>4, <1>5 DEF ComingInv, LastBar, Before, Close
<1>8. stream.start # None => market[i] >= stream.start
  BY <1>2 DEF Sent
<1>9. delivered # <<>> =>
        \/ Close(LastBar) <= market[i]
        \/ stream.start # None /\ Close(LastBar) <= stream.start
        \/ asked # None /\ Close(LastBar) <= asked
  <2> SUFFICES ASSUME delivered # <<>>, lastTs # None, Close(LastBar) <= lastTs
               PROVE  Close(LastBar) <= market[i]
    BY <1>2 DEF OrderInv, BehindInv
  <2> QED BY <1>2, <1>3
<1>10. BehindInv'
  <2>1. lastTs' # None /\ pc' # "waiting"
    BY <1>2
  <2> QED BY <1>2, <1>8, <1>9, <2>1 DEF BehindInv, LastBar, Close
<1> QED BY <1>6, <1>7, <1>10 DEF OrderInv

LEMMA OrderYield ==
  ASSUME FeedInv, OrderInv, NEW b \in closed, Yield(b)
  PROVE  OrderInv'
<1>1. TypeInv /\ ClosedInv
  BY DEF FeedInv, BuiltInv
<1>2. /\ position' = Close(b) /\ UNCHANGED <<provider, market, pc, stream, lastTs, asked>>
      /\ \A c \in closed' : c \in closed /\ c # b /\ Before(b, c)
      /\ pc \in {"open", "flushed"}
  BY <1>1, YieldFacts DEF Yield
<1>3. /\ asked \in Nat \cup {None} /\ position \in Nat \cup {None} /\ None \notin Int
      /\ stream.start \in Nat \cup {None} /\ lastTs \in Nat \cup {None}
      /\ delivered # <<>> => Close(LastBar) \in Nat /\ LastBar.frame \in Nat
      /\ Close(b) \in Nat /\ Close(Unbuilt(b)) = Close(b) /\ Unbuilt(b).frame = b.frame
  BY <1>1, OrderFacts, ClosedFacts
<1>4. lastTs # None /\ Close(b) <= lastTs
  BY <1>1 DEF ClosedInv
<1>5. \A c : Skipped(c)' <=> Skipped(c)
  BY <1>2 DEF Skipped
<1>6. ASSUME asked # None, provider = "live" PROVE Close(b) > asked
  BY <1>3, <1>6 DEF OrderInv, LiveInv, Skipped
<1>7. CASE Skipped(b)
  <2>1. delivered' = delivered /\ provider # "live"
    BY <1>1, <1>7, YieldFacts DEF OrderInv, LiveInv
  <2>2. LiveInv'
    BY <1>2, <2>1 DEF LiveInv
  <2>3. BehindInv'
    BY <1>2, <2>1 DEF OrderInv, BehindInv, LastBar, Close
  <2>4. ComingInv'
    BY <1>2, <1>5, <2>1 DEF OrderInv, ComingInv, LastBar, Before, Close
  <2> QED BY <2>2, <2>3, <2>4 DEF OrderInv
<1>8. CASE ~Skipped(b)
  <2>1. delivered' # <<>> /\ LastBar' = Unbuilt(b)
    BY <1>1, <1>8, YieldFacts DEF LastBar
  <2>2. LiveInv'
    <3> SUFFICES ASSUME provider' = "live" PROVE LiveInv'
      BY DEF LiveInv
    <3>1. provider = "live" /\ position' # None
      BY <1>2, <1>3
    <3>2. asked # None => Close(b) > asked
      BY <1>6, <3>1
    <3>3. asked' # None => position' >= asked'
      BY <1>2, <1>3, <3>2
    <3>4. Close(LastBar') = Close(b)
      BY <1>3, <2>1
    <3>5. position' >= Close(LastBar')
      BY <1>2, <1>3, <3>4
    <3>6. asked' # None /\ pc' = "open" => stream'.start # None /\ stream'.start >= asked'
      BY <1>2, <3>1 DEF OrderInv, LiveInv
    <3>7. \A c \in closed' : ~Skipped(c)'
      BY <1>2, <1>5, <3>1 DEF OrderInv, LiveInv
    <3> QED BY <3>1, <3>3, <3>5, <3>6, <3>7 DEF LiveInv, Close, LastBar
  <2>3. BehindInv'
    <3>1. lastTs' # None /\ Close(LastBar') <= lastTs'
      BY <1>2, <1>3, <1>4, <2>1
    <3>2. lastTs' # None /\ stream'.start # None => lastTs' >= stream'.start
      BY <1>2 DEF OrderInv, BehindInv
    <3>3. pc' # "waiting"
      BY <1>2
    <3> QED BY <3>1, <3>2, <3>3 DEF BehindInv, Close, LastBar
  <2>4. ComingInv'
    <3>1. \A c \in closed' : Before(LastBar', c)
      BY <1>2, <1>3, <2>1 DEF Before
    <3> QED BY <2>1, <3>1 DEF ComingInv, Before, Close, LastBar
  <2> QED BY <2>2, <2>3, <2>4 DEF OrderInv
<1> QED BY <1>7, <1>8

LEMMA OrderConnect ==
  ASSUME FeedInv, OrderInv, Connect
  PROVE  OrderInv'
<1>1. /\ pc = "waiting" /\ pc' = "open" /\ closed' = {} /\ lastTs' = None
      /\ UNCHANGED <<provider, position, asked, delivered>>
  BY DEF Connect, caller
<1>2. /\ provider \in Providers /\ asked \in Nat \cup {None} /\ position \in Nat \cup {None}
      /\ delivered # <<>> => Close(LastBar) \in Nat
  BY OrderFacts DEF FeedInv, TypeInv, TypeOK
<1>3. provider # "fixture" => provider = "live" /\ stream'.start = position
  BY <1>2, FeedAssumption DEF Connect, ResumeAt
<1>4. LiveInv'
  BY <1>1, <1>3 DEF OrderInv, LiveInv, LastBar, Close
<1>5. delivered # <<>> =>
        \/ stream'.start # None /\ Close(LastBar) <= stream'.start
        \/ asked # None /\ Close(LastBar) <= asked
  <2> SUFFICES ASSUME delivered # <<>>
               PROVE  \/ stream'.start # None /\ Close(LastBar) <= stream'.start
                      \/ asked # None /\ Close(LastBar) <= asked
    OBVIOUS
  <2>1. CASE provider = "fixture"
    BY <1>1, <2>1 DEF OrderInv, BehindInv
  <2>2. CASE provider # "fixture"
    <3>1. position # None /\ position >= Close(LastBar) /\ stream'.start = position
      BY <1>3, <2>2 DEF OrderInv, LiveInv
    <3> QED BY <1>2, <3>1, OrderFacts DEF FeedInv
  <2> QED BY <2>1, <2>2
<1>6. BehindInv'
  <2>1. pc' # "waiting" /\ lastTs' = None
    BY <1>1
  <2> QED BY <1>1, <1>5, <2>1 DEF BehindInv, LastBar, Close
<1>7. ComingInv'
  BY <1>1 DEF ComingInv
<1> QED BY <1>4, <1>6, <1>7 DEF OrderInv

LEMMA OrderDies ==
  ASSUME FeedInv, OrderInv, Dies
  PROVE  OrderInv'
<1>1. /\ asked' = Saved /\ position' = Saved /\ delivered' = delivered /\ provider' = provider
      /\ closed' = {} /\ lastTs' = None /\ pc' = "waiting"
  BY DEF Dies
<1>2. delivered # <<>> => Saved = Close(LastBar) /\ Close(LastBar) \in Nat
  BY OrderFacts DEF Saved, LastBar, FeedInv
<1>3. Saved \in Nat \cup {None} /\ None \notin Int
  BY SavedFacts, OrderFacts DEF FeedInv
<1>4. Saved # None => Saved >= Saved
  BY <1>3
<1>5. delivered # <<>> => Saved # None /\ Saved >= Close(LastBar) /\ Close(LastBar) <= Saved
  BY <1>2, <1>3
<1>6. LiveInv'
  BY <1>1, <1>4, <1>5 DEF LiveInv, LastBar, Close
<1>7. BehindInv'
  BY <1>1, <1>5 DEF BehindInv, LastBar, Close
<1>8. ComingInv'
  BY <1>1 DEF ComingInv
<1> QED BY <1>6, <1>7, <1>8 DEF OrderInv

LEMMA OrderNext ==
  ASSUME FeedInv, OrderInv, [Next]_vars
  PROVE  OrderInv'
<1>1. CASE HangsUp
  <2>1. /\ closed' = {} /\ lastTs' = None /\ pc' \notin {"open", "flushed"}
        /\ (provider' = "fixture" => pc' # "waiting")
        /\ UNCHANGED <<provider, position, asked, delivered>>
    BY <1>1 DEF HangsUp
  <2>2. LiveInv'
    BY <2>1 DEF OrderInv, LiveInv, LastBar, Close
  <2>3. BehindInv'
    BY <2>1 DEF BehindInv
  <2>4. ComingInv'
    BY <2>1 DEF ComingInv
  <2> QED BY <2>2, <2>3, <2>4 DEF OrderInv
<1>2. CASE Flush
  <2>1. /\ closed' = Flushed /\ pc = "open" /\ pc' = "flushed" /\ provider = "fixture"
        /\ UNCHANGED <<provider, stream, lastTs, position, asked, delivered>>
    BY <1>2 DEF Flush, caller
  <2>2. ASSUME NEW b \in Flushed
        PROVE  delivered # <<>> => Skipped(b) \/ Before(LastBar, b)
    <3>1. PICK f \in Frames : /\ builders[f] # None
                              /\ b = [frame |-> f, open |-> builders[f].open, ticks |-> builders[f].ticks]
      BY DEF Flushed
    <3> QED BY <2>1, <3>1, BucketComes DEF FeedInv, BuiltInv
  <2>3. LiveInv'
    BY <2>1 DEF LiveInv
  <2>4. BehindInv'
    BY <2>1 DEF OrderInv, BehindInv, LastBar, Close
  <2>5. ComingInv'
    BY <2>1, <2>2 DEF ComingInv, LastBar, Before, Close, Skipped
  <2> QED BY <2>3, <2>4, <2>5 DEF OrderInv
<1>3. CASE UNCHANGED <<provider, pc, stream, lastTs, closed, position, asked, delivered>>
  BY <1>3 DEF OrderInv, LiveInv, BehindInv, ComingInv, LastBar, Before, Close, Skipped
<1>4. UNCHANGED vars \/ (\E ts \in Times : Trade(ts))
      => UNCHANGED <<provider, pc, stream, lastTs, closed, position, asked, delivered>>
  BY DEF vars, connection, caller, Trade
<1> QED BY Steps, <1>1, <1>2, <1>3, <1>4, OrderTakes, OrderYield, OrderConnect, OrderDies
        DEF FeedInv, YieldBar

-----------------------------------------------------------------------------
(* The promise of a DataFeed, step by step.                                *)
LEMMA PromisedInit == Init => Promised!Init
<1> SUFFICES ASSUME Init PROVE Promised!Init
  OBVIOUS
<1>1. delivered = <<>> /\ pc = "waiting"
  BY DEF Init
<1>2. Over = FALSE
  BY <1>1 DEF Over
<1> QED BY <1>1, <1>2 DEF Promised!Init

LEMMA PromisedYield ==
  ASSUME FeedInv, OrderInv, NEW b \in closed, Yield(b)
  PROVE  [Promised!Next]_<<delivered, Over>>
<1>1. Over' = Over /\ Over = FALSE
  BY DEF Yield, Over
<1>2. CASE Skipped(b)
  BY <1>1, <1>2, YieldFacts DEF FeedInv
<1>3. CASE ~Skipped(b)
  <2>1. delivered' = Append(delivered, Unbuilt(b))
    BY <1>3, YieldFacts DEF FeedInv
  <2>2. /\ Unbuilt(b) \in Bars /\ Close(Unbuilt(b)) = Close(b) /\ Unbuilt(b).frame = b.frame
    BY ClosedFacts DEF FeedInv
  <2>3. delivered # <<>> => Before(delivered[Len(delivered)], b)
    BY <1>3 DEF OrderInv, ComingInv, LastBar
  <2>4. delivered # <<>> => Promised!Before(delivered[Len(delivered)], Unbuilt(b))
    BY <2>2, <2>3 DEF Before, Promised!Before, Close, Promised!Close
  <2>5. Unbuilt(b) \in Promised!Bars
    BY <2>2 DEF Bars, Promised!Bars
  <2>6. Promised!Deliver(Unbuilt(b))
    BY <1>1, <2>1, <2>4 DEF Promised!Deliver
  <2> QED BY <2>5, <2>6 DEF Promised!Next
<1> QED BY <1>2, <1>3

LEMMA PromisedNext ==
  ASSUME FeedInv, OrderInv, [Next]_vars
  PROVE  [Promised!Next]_<<delivered, Over>>
<1>1. CASE delivered' = delivered /\ pc' = pc
  BY <1>1 DEF Over
<1>2. CASE HangsUp
  <2>1. Over = FALSE /\ delivered' = delivered /\ (Over' = FALSE \/ Over' = TRUE)
    BY <1>2 DEF HangsUp, Over
  <2> QED BY <2>1 DEF Promised!Next, Promised!End
<1>3. CASE Connect \/ Flush \/ Dies
  <2>1. Over = FALSE /\ Over' = FALSE /\ delivered' = delivered
    BY <1>3 DEF Connect, Flush, Dies, Over, caller
  <2> QED BY <2>1
<1>4. /\ UNCHANGED vars \/ (\E ts \in Times : Trade(ts)) => delivered' = delivered /\ pc' = pc
      /\ \A i \in Indices : Takes(i) => delivered' = delivered /\ pc' = pc
  BY DEF vars, caller, Trade, Takes
<1> QED BY Steps, <1>1, <1>2, <1>3, <1>4, PromisedYield DEF YieldBar, FeedInv

(* However often the connection drops and replays and the process dies and *)
(* resumes, the caller applies bars in close time order, the shorter       *)
(* timeframe first, each at most once, and none after the stream is over:  *)
(* the feed implements the promise of DataFeed.stream.                     *)
THEOREM FeedKeepsPromise == Spec => InOrderAndOnce
<1>1. Init => FeedInv /\ OrderInv
  BY FeedInit, OrderInit
<1>2. (FeedInv /\ OrderInv) /\ [Next]_vars => (FeedInv /\ OrderInv)'
  BY FeedNext, OrderNext
<1>3. (FeedInv /\ OrderInv) /\ [Next]_vars => [Promised!Next]_<<delivered, Over>>
  BY PromisedNext
<1> QED BY <1>1, <1>2, <1>3, PromisedInit, PTL DEF Spec, InOrderAndOnce, Promised!Spec
=====
