-------------------------------- MODULE Tape --------------------------------
(***************************************************************************)
(* What the research scripts share (scripts/*_studies.py, *_study.py,      *)
(* run_vpc.py): a session's one-minute bars, the five-minute bars built    *)
(* from them and the bracket a simulated position is walked through.       *)
(*                                                                         *)
(* Time is counted in minutes from the open: bars[k] is the minute that    *)
(* ends at k, None where the session file has no four prints for it.  The  *)
(* code labels a minute with its start, so its m is k - 1 here, and a      *)
(* five-minute close at M is the end of minute M.  Block minutes make a    *)
(* five-minute bar; prices are whole numbers of ticks from a reference, so *)
(* the bracket's fractions of the entry price are distances.               *)
(***************************************************************************)
EXTENDS Integers, FiniteSetsExt, SequencesExt

CONSTANTS
  None,        \* absent value
  Block,       \* minutes of a five-minute bar
  Strong,      \* q70 of the day's |F1|: initiative flow
  StopTicks,   \* distance of the stop (STP_F, CAT_F)
  TargetTicks, \* distance of the target (TGT_F, TGT30_F)
  FlattenAt,   \* the minute whose close is the 15:55 flatten (FLATTEN_MIN)
  FomcCutoff   \* no entry after this close on an FOMC day

ASSUME TapeAssumption == {Block, Strong, StopTicks, TargetTicks, FlattenAt, FomcCutoff} \subseteq Nat \ {0}

Size(x) == IF x < 0 THEN -x ELSE x
Side(x) == IF x > 0 THEN 1 ELSE IF x < 0 THEN -1 ELSE 0

Present(bars) == {k \in DOMAIN bars : bars[k] # None}
FirstOf(S) == IF S = {} THEN None ELSE Min(S)

(* A set in order: SetToSortSeq, without its enumeration of all sequences. *)
Ordered(S, Less(_, _)) ==
  [i \in 1 .. Cardinality(S) |-> CHOOSE x \in S : Cardinality({y \in S : Less(y, x)}) = i - 1]
Ascending(S) == Ordered(S, <)

(* Twice the median of a sequence: an even one has two middle values.      *)
TwiceMedian(s) ==
  LET up == Ordered(DOMAIN s, LAMBDA i, j : s[i] < s[j] \/ (s[i] = s[j] /\ i < j))
  IN  s[up[(Len(s) + 1) \div 2]] + s[up[Len(s) \div 2 + 1]]

(* What a deque of that length keeps.                                      *)
Recent(s, n) == SubSeq(s, Max({1, Len(s) - n + 1}), Len(s))

Cuttable(group) == Len(group) = Block

(***************************************************************************)
(* Five-minute bars, by the minute they close at.  The group a bar is cut  *)
(* from is emptied only by a minute that ends a block, so after a block    *)
(* whose last minute is missing the next one starts with what was left.    *)
(***************************************************************************)
FiveMinutes(bars) ==
  LET Add(acc, k) ==
        LET group == acc.group \o <<k>>
            first == bars[group[1]]
            cut   == [o |-> first.o, c |-> bars[k].c, of |-> group,
                      h |-> Max({bars[g].h : g \in ToSet(group)}),
                      l |-> Min({bars[g].l : g \in ToSet(group)})]
        IN  IF bars[k] = None THEN acc
            ELSE IF k % Block # 0 THEN [acc EXCEPT !.group = group]
            ELSE [group |-> <<>>,
                  cut   |-> IF Cuttable(group) THEN acc.cut @@ (k :> cut) ELSE acc.cut]
  IN  FoldLeftDomain(Add, [group |-> <<>>, cut |-> <<>>], bars).cut

(***************************************************************************)
(* A position in direction d from the open of a minute: the stop before    *)
(* the target inside every bar, a gap through the stop filled at the open, *)
(* the flatten, and the session's last close when nothing ended it.        *)
(***************************************************************************)
Reaches(bar, d, px) == IF d = 1 THEN bar.h >= px ELSE bar.l <= px
FallsTo(bar, d, px) == Reaches(bar, -d, px)
Gapped(bar, d, stop) == d * (bar.o - stop) < 0

StopFill(bar, d, stop) == IF Gapped(bar, d, stop) THEN bar.o ELSE stop - d

TargetFirst(bar, k, d, stop, target) ==
  IF target # None /\ Reaches(bar, d, target) THEN [px |-> target, why |-> "target", at |-> k]
  ELSE IF FallsTo(bar, d, stop) THEN [px |-> StopFill(bar, d, stop), why |-> "stop", at |-> k]
  ELSE IF k >= FlattenAt THEN [px |-> bar.c, why |-> "time", at |-> k]
  ELSE None

BarExit(bar, k, d, stop, target) ==
  IF FallsTo(bar, d, stop) THEN [px |-> StopFill(bar, d, stop), why |-> "stop", at |-> k]
  ELSE IF target # None /\ Reaches(bar, d, target) THEN [px |-> target, why |-> "target", at |-> k]
  ELSE IF k >= FlattenAt THEN [px |-> bar.c, why |-> "time", at |-> k]
  ELSE None

LastClose(bars) == LET k == Max(Present(bars)) IN [px |-> bars[k].c, why |-> "end", at |-> k]

BracketWalk(bars, start, entry, d) ==
  LET Exit(k) == BarExit(bars[k], k, d, entry - d * StopTicks, entry + d * TargetTicks)
      over    == FirstOf({k \in Present(bars) : k >= start /\ Exit(k) # None})
  IN  IF over = None THEN LastClose(bars) ELSE Exit(over)

(* At the open of the minute after close M, a tick adverse.                *)
MarketEntry(bars, close, d) ==
  LET k == close + 1 IN
  IF k \notin Present(bars) THEN None
  ELSE LET entry == bars[k].o + d
       IN  [entry |-> entry, from |-> k, dir |-> d, exit |-> BracketWalk(bars, k, entry, d)]
=============================================================================
