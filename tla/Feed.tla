-------------------------------- MODULE Feed --------------------------------
(***************************************************************************)
(* The market data feeds (feed/): ticks made into bars of several          *)
(* timeframes (BarAggregator), a live provider that can drop the           *)
(* connection and replays from a given time (DatabentoFeed), the wrapper   *)
(* that reconnects to it (ReconnectingFeed), the playback of a recorded    *)
(* fixture (ReplayFeed), and of their caller that it dies, resumes from    *)
(* what it saved and skips what its state reflects (main.py).              *)
(*                                                                         *)
(* A tick is its index in the market's sequence of timestamps; a bar is    *)
(* the set of ticks it was built from, of which open, high, low, close and *)
(* volume are functions.  Timeframes are lengths in units of time.         *)
(***************************************************************************)
EXTENDS Integers, Sequences, FiniteSets

CONSTANTS
  None,
  Frames,        \* timeframes asked for, as lengths
  MaxTime,       \* bound: the last timestamp
  MaxTicks,      \* bound: how many trades the market makes
  Skew,          \* bound: how far behind the last one a timestamp may lie
  MaxAttempts,   \* feed.max_reconnect_attempts
  MaxDeaths,     \* bound: how often the process dies and is started again
  Providers,     \* subset of {"live", "fixture"}
  ResumePoints   \* the resume_from a caller may pass

Times == 0 .. MaxTime
Indices == 1 .. MaxTicks

(* BarAggregator.__init__ and TIMEFRAME_SECONDS: distinct timeframes, each *)
(* a multiple of the shorter ones; a resume point is a bar's close.        *)
Base == CHOOSE f \in Frames : \A g \in Frames : f <= g

ASSUME FrameAssumption ==
  /\ Frames \subseteq Nat \ {0} /\ Frames # {} /\ IsFiniteSet(Frames)
  /\ \A f, g \in Frames : f <= g => g % f = 0

ASSUME FeedAssumption ==
  /\ MaxTime \in Nat /\ MaxTicks \in Nat /\ Skew \in Nat
  /\ MaxAttempts \in Nat \ {0} /\ MaxDeaths \in Nat
  /\ Providers \subseteq {"live", "fixture"}
  /\ None \notin Int
  /\ \A p \in ResumePoints \ {None} : p \in Times /\ p % Base = 0

(* BarBuilder: an open bucket.  None is none.                              *)
Builder == [open : Times, ticks : SUBSET Indices]

ASSUME BuilderAssumption == None \notin Builder

VARIABLES
  provider,   \* which feed is wired (live_binding, replay_binding)
  market,     \* timestamps of the trades so far, in order of arrival
  pc,         \* "waiting" to connect, "open", "flushed", "failed" or "done"
  asked,      \* resume_from, as the caller passed it
  deaths,
  position,   \* ReconnectingFeed.stream: where to restart from
  attempt,    \* consecutive failures without a bar
  stream,     \* this connection: start, joined, next, cutoff
  builders,   \* BarAggregator._builders
  lastTs,     \* BarAggregator._last_ts
  closed,     \* bars closed by the last tick and not yet yielded
  tapMark,    \* DatabentoFeed._tap_high_water
  tapped,     \* history: ticks the tap has counted, in order
  delivered,  \* history: bars the caller has applied and saved, in order
  presumed    \* history: bars that count as applied though they were not

connection == <<stream, builders, lastTs, closed>>
caller == <<asked, deaths, delivered, presumed>>
tap == <<tapMark, tapped>>
vars == <<provider, market, pc, position, attempt, connection, tap, caller>>

Bars == [frame : Frames, open : Times]
Close(b) == b.open + b.frame

NoStream == [start |-> None, joined |-> 1, next |-> 1, cutoff |-> None]

Init ==
  /\ provider \in Providers
  /\ market = <<>> /\ pc = "waiting"
  /\ asked \in ResumePoints /\ position = asked
  /\ attempt = 0
  /\ stream = NoStream /\ builders = [f \in Frames |-> None] /\ lastTs = None
  /\ closed = {}
  /\ tapMark = None /\ tapped = <<>> /\ delivered = <<>>
  /\ deaths = 0 /\ presumed = {b \in Bars : asked # None /\ Close(b) <= asked}

-----------------------------------------------------------------------------
(* The market: trades go on whether or not anyone is connected; a fixture  *)
(* is complete before it is opened.                                        *)
Trade(ts) ==
  /\ Len(market) < MaxTicks
  /\ market # <<>> => ts >= market[Len(market)] - Skew
  /\ provider = "live" \/ (pc = "waiting" /\ deaths = 0)
  /\ market' = Append(market, ts)
  /\ UNCHANGED <<provider, pc, position, attempt, connection, tap, caller>>

-----------------------------------------------------------------------------
(* DatabentoFeed.stream and ReplayFeed.stream up to the first record.  The *)
(* provider replays every trade from start on, or without one only what    *)
(* comes from now on; a fixture always plays from the top.                 *)
(* Mutant: reconnect from the last tick seen.                              *)
ResumeAtTick == IF market = <<>> THEN position ELSE market[Len(market)]

ResumeAt == position

(* Mutant: everything is tapped again.                                     *)
TapCutoffNone == None

TapCutoff == tapMark

(* Mutant: a successful connect counts as recovery.                        *)
AttemptOnConnectZero == 0

AttemptOnConnect == attempt

Connect ==
  /\ pc = "waiting"
  /\ stream' = IF provider = "fixture" THEN NoStream
               ELSE [start |-> ResumeAt,
                     joined |-> IF ResumeAt = None THEN Len(market) + 1 ELSE 1,
                     next |-> IF ResumeAt = None THEN Len(market) + 1 ELSE 1,
                     cutoff |-> TapCutoff]
  /\ builders' = [f \in Frames |-> None] /\ lastTs' = None /\ closed' = {}
  /\ attempt' = AttemptOnConnect
  /\ pc' = "open"
  /\ UNCHANGED <<provider, market, position, tap, caller>>

(* ReconnectingFeed.stream, on any exception of the inner stream: count,   *)
(* give up or wait and reconnect.  A fixture is not wrapped.               *)
GivesUp == attempt + 1 >= MaxAttempts

Disconnected ==
  /\ IF provider = "fixture"
     THEN pc' = "failed" /\ UNCHANGED attempt
     ELSE attempt' = attempt + 1 /\ pc' = IF GivesUp THEN "failed" ELSE "waiting"
  /\ stream' = NoStream /\ builders' = [f \in Frames |-> None] /\ lastTs' = None
  /\ closed' = {}

(* The provider refuses the connection, drops it or sends an ErrorMsg.     *)
Drop ==
  /\ provider = "live"
  /\ pc = "waiting" \/ (pc = "open" /\ closed = {})
  /\ Disconnected
  /\ UNCHANGED <<provider, market, position, tap, caller>>

-----------------------------------------------------------------------------
(* The next record of this connection.                                     *)
Sent(i) == stream.start # None => market[i] >= stream.start

Arrives(i) ==
  /\ pc = "open" /\ closed = {}
  /\ i \in stream.next .. Len(market) /\ Sent(i)
  /\ \A j \in stream.next .. i - 1 : ~Sent(j)

Taps(i) == stream.cutoff # None => market[i] > stream.cutoff

MarkAfter(i) == IF tapMark = None \/ market[i] > tapMark THEN market[i] ELSE tapMark

Tapped(i) ==
  IF Taps(i) THEN tapped' = Append(tapped, i) /\ tapMark' = MarkAfter(i)
             ELSE UNCHANGED tap

(* BarAggregator.add_tick.  A bucket closes when a tick falls past it;     *)
(* every timeframe is built from the ticks themselves.                     *)
Bucket(ts, f) == ts - (ts % f)

Rolls(f, ts) == builders[f] # None /\ Bucket(ts, f) > builders[f].open

ClosedBy(ts) ==
  { [frame |-> f, open |-> builders[f].open, ticks |-> builders[f].ticks] :
      f \in {g \in Frames : Rolls(g, ts)} }

AddTick(i) ==
  /\ lastTs' = market[i]
  /\ builders' = [f \in Frames |->
       IF builders[f] = None \/ Rolls(f, market[i])
       THEN [open |-> Bucket(market[i], f), ticks |-> {i}]
       ELSE [builders[f] EXCEPT !.ticks = @ \cup {i}]]
  /\ closed' = ClosedBy(market[i])

Receive(i) ==
  /\ Arrives(i) /\ Tapped(i)
  /\ IF lastTs # None /\ market[i] < lastTs
     THEN Disconnected
     ELSE /\ AddTick(i) /\ stream' = [stream EXCEPT !.next = i + 1]
          /\ UNCHANGED <<pc, attempt>>
  /\ UNCHANGED <<provider, market, position, caller>>

(* The tap raises on a tick it has not counted: taken for a disconnect,    *)
(* and the mark stays, so the replay brings the tick again.                *)
MarkAfterRaise(i) == tapMark

TapRaises(i) ==
  /\ Arrives(i) /\ Taps(i)
  /\ Disconnected
  /\ tapMark' = MarkAfterRaise(i)
  /\ UNCHANGED <<provider, market, position, tapped, caller>>

-----------------------------------------------------------------------------
(* BarAggregator._ordered: by close time, the shorter timeframe first.     *)
Before(b, c) == Close(b) < Close(c) \/ (Close(b) = Close(c) /\ b.frame < c.frame)

(* A bar reaches the caller: it is what a reconnect will resume after, and *)
(* what proves the connection good.  The caller applies and saves it       *)
(* before it asks for the next, unless its state reflects the bar already  *)
(* (Engine._bar_loop).                                                     *)
(* Mutant: it applies everything it is given.                              *)
SkippedNot(b) == FALSE

Skipped(b) == asked # None /\ Close(b) <= asked

Unbuilt(b) == [frame |-> b.frame, open |-> b.open]

Yield(b) ==
  /\ pc \in {"open", "flushed"} /\ b \in closed
  /\ \A c \in closed \ {b} : Before(b, c)
  /\ delivered' = IF Skipped(b) THEN delivered ELSE Append(delivered, Unbuilt(b))
  /\ closed' = closed \ {b}
  /\ position' = Close(b) /\ attempt' = 0
  /\ UNCHANGED <<provider, market, pc, stream, builders, lastTs, tap, asked, deaths, presumed>>

(* A fixture ends: flush() closes every bucket, and stream() drops those   *)
(* whose close time the last tick has not reached.                         *)
Flushed ==
  { [frame |-> f, open |-> builders[f].open, ticks |-> builders[f].ticks] :
      f \in {g \in Frames : builders[g] # None /\ builders[g].open + g <= lastTs} }

Flush ==
  /\ provider = "fixture" /\ pc = "open" /\ closed = {}
  /\ stream.next > Len(market)
  /\ pc' = "flushed" /\ closed' = Flushed
  /\ builders' = [f \in Frames |-> None]
  /\ UNCHANGED <<provider, market, position, attempt, stream, lastTs, tap, caller>>

(* The stream is over: the fixture is played, the provider ends a session, *)
(* or the caller is cancelled, which is not retried.  A live stream does   *)
(* not flush.                                                              *)
End ==
  /\ pc \in {"waiting", "open"} \/ (pc = "flushed" /\ closed = {})
  /\ pc' = "done"
  /\ stream' = NoStream /\ builders' = [f \in Frames |-> None] /\ lastTs' = None
  /\ closed' = {}
  /\ UNCHANGED <<provider, market, position, attempt, tap, caller>>

(* The process dies, wherever it is, and is started again: a new feed and  *)
(* a new tap, resumed from the close of the bar that was saved last.       *)
Saved == IF delivered = <<>> THEN asked ELSE Close(delivered[Len(delivered)])

Lost(b) ==
  Saved # None /\ (Close(b) <= Saved \/ (provider = "live" /\ \A i \in b.ticks : market[i] < Saved))

Dies ==
  /\ deaths < MaxDeaths /\ pc \in {"waiting", "open", "flushed"}
  /\ deaths' = deaths + 1
  /\ asked' = Saved /\ position' = Saved
  /\ presumed' = presumed \cup {Unbuilt(b) : b \in {c \in closed : Lost(c)}}
  /\ pc' = "waiting" /\ attempt' = 0
  /\ stream' = NoStream /\ builders' = [f \in Frames |-> None] /\ lastTs' = None /\ closed' = {}
  /\ tapMark' = None /\ tapped' = <<>>
  /\ UNCHANGED <<provider, market, delivered>>

-----------------------------------------------------------------------------
YieldBar == \E b \in closed : Yield(b)

Next ==
  \/ \E ts \in Times : Trade(ts)
  \/ Connect \/ Drop
  \/ \E i \in Indices : Receive(i) \/ TapRaises(i)
  \/ YieldBar \/ Flush \/ End \/ Dies

Spec == Init /\ [][Next]_vars

(* The reader runs: it connects after its backoff, takes the next record   *)
(* and yields.  Nothing is assumed of the market or of the connection.     *)
ReaderStep == Connect \/ (\E i \in Indices : Receive(i)) \/ YieldBar \/ Flush

FairSpec == Spec /\ WF_vars(ReaderStep)

-----------------------------------------------------------------------------
Over == pc \in {"failed", "done"}

(* Every variable holds a value the feed could hold; the failures counted  *)
(* never pass the budget (ReconnectingFeed.max_attempts).                  *)
TypeOK ==
  /\ provider \in Providers /\ market \in Seq(Times)
  /\ pc \in {"waiting", "open", "flushed", "failed", "done"}
  /\ asked \in Nat \cup {None} /\ deaths \in 0 .. MaxDeaths /\ position \in Nat \cup {None}
  /\ attempt \in 0 .. MaxAttempts
  /\ stream \in [start : Nat \cup {None}, joined : Nat, next : Nat, cutoff : Times \cup {None}]
  /\ builders \in [Frames -> Builder \cup {None}]
  /\ lastTs \in Times \cup {None}
  /\ closed \subseteq [frame : Frames, open : Times, ticks : SUBSET Indices]
  /\ tapMark \in Times \cup {None} /\ tapped \in Seq(Indices)
  /\ delivered \in Seq(Bars) /\ presumed \subseteq Bars

(* Through drops, replays, deaths and give-ups the caller applies bars in  *)
(* close time order, the shorter timeframe first, each at most once, and   *)
(* none after the stream is over (DataFeed.stream, Engine._bar_loop).      *)
Promised == INSTANCE BarStream WITH Opens <- Times, over <- Over
InOrderAndOnce == Promised!Spec

(* A bar about to be yielded holds every trade of its window so far, but   *)
(* for a window the connection was joined in the middle of: a cold start,  *)
(* or a timeframe longer than the base after a reconnect ("Implementations *)
(* never emit a partial bar", DataFeed).                                   *)
TradesIn(b) == {i \in 1 .. stream.next - 1 : market[i] \in b.open .. Close(b) - 1}

JoinedInside(b) ==
  IF stream.start = None
  THEN \E i \in TradesIn(b) : i < stream.joined
  ELSE b.frame # Base /\ b.open < stream.start

WholeBars == \A b \in closed : b.ticks = TradesIn(b) \/ JoinedInside(b)

(* No tick is fed to the tap twice, however often the provider replays it  *)
(* (DatabentoFeed._tap_high_water).                                        *)
TapOnce == \A i, j \in 1 .. Len(tapped) : tapped[i] = tapped[j] => i = j

(* When a bar is yielded the tap has counted each of its ticks, or had on  *)
(* an earlier connection counted one as late (DatabentoFeed.__init__: the  *)
(* tap has finished by the time the bar reaches the strategy).             *)
Counted(i) == \E j \in 1 .. Len(tapped) : tapped[j] = i

TapBeforeBar ==
  \A b \in closed : \A i \in b.ticks :
    \/ Counted(i)
    \/ /\ market[i] <= stream.cutoff
       /\ \E k \in Indices : Counted(k) /\ market[k] = stream.cutoff

(* Once a resume point exists, a bucket that trades have moved past is     *)
(* applied, however often the connection drops or the process dies, or the *)
(* feed is over ("giving up raises rather than ending the stream quietly").*)
(* But a bar that was closed by the same tick as one already saved is lost *)
(* with the process when its ticks all lie before the resume point.        *)
Passed(f, open) ==
  /\ pc = "open" /\ builders[f] # None /\ builders[f].open = open
  /\ provider = "fixture" \/ position # None
  /\ \E i \in stream.next .. Len(market) : market[i] >= open + f

EveryBarComes ==
  \A b \in {b \in Bars : b.open % b.frame = 0 /\ Close(b) <= MaxTime} :
    Passed(b.frame, b.open) ~> \/ Over \/ b \in presumed
                               \/ \E k \in 1 .. Len(delivered) : delivered[k] = b

(* The tap has counted each trade of a delivered bar, and no trade twice,  *)
(* through reconnects that replay (DatabentoFeed.__init__, _mark).         *)
TapExact == TypeOK /\ TapOnce /\ TapBeforeBar
=============================================================================
