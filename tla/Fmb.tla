-------------------------------- MODULE Fmb ---------------------------------
(***************************************************************************)
(* The window studies (scripts/fmb1_studies.py): one trade a session, in a *)
(* direction that earlier sessions decide, through one bracket.            *)
(*                                                                         *)
(* file[d] is the session of date d, None where the market was closed; its *)
(* fields are what the study reads of it.  A trade is made where the       *)
(* session has the entry's minute.                                         *)
(***************************************************************************)
EXTENDS Tape

CONSTANTS
  Quarter,    \* dates between two expiries
  Offsets,    \* sessions before an expiry that are looked at (8)
  Rolls,      \* earlier expiries needed (12)
  Moves,      \* minutes of a session in which a shock is looked for
  Scheduled,  \* those an FOMC day leaves out
  TrailDays,  \* earlier values a deviation or a quantile is taken over (60)
  TrailNeed   \* and how many it needs (30)

(* first_passage: from the open of a minute, a tick adverse; out at the    *)
(* open of the first minute past the deadline, else stop before target.    *)
FirstPassage(bars, from, d, deadline) ==
  LET entry  == bars[from].o + d
      stop   == entry - d * StopTicks
      target == entry + d * TargetTicks
      Exit(k) == IF k >= deadline THEN [px |-> bars[k].o, why |-> "time", at |-> k]
                 ELSE IF FallsTo(bars[k], d, stop) THEN [px |-> stop - d, why |-> "stop", at |-> k]
                 ELSE IF Reaches(bars[k], d, target) THEN [px |-> target, why |-> "target", at |-> k]
                 ELSE None
      over   == FirstOf({k \in Present(bars) : k >= from /\ Exit(k) # None})
  IN  IF from \notin Present(bars) THEN None
      ELSE [entry |-> entry, from |-> from, dir |-> d,
            exit |-> IF over = None THEN LastClose(bars) ELSE Exit(over)]

(***************************************************************************)
(* RCP: the k-th session before an expiry goes the way most of its         *)
(* predecessors went, if seven in ten agree.                               *)
(***************************************************************************)
Expiries(file) ==
  {e \in DOMAIN file : /\ e % Quarter = 0 /\ Present(file) # {}
                       /\ Min(Present(file)) <= e /\ e <= Max(Present(file))}

(* The k-th session before an expiry, if there is one.                     *)
RollDays(file, e, k) ==
  {d \in Present(file) : d < e /\ Cardinality({x \in Present(file) : d <= x /\ x < e}) = k}

Returns(file, k) ==
  LET Heard(e) == \E d \in RollDays(file, e, k) : file[d].ret # None
      heard == Ascending({e \in Expiries(file) : Heard(e)})
      Day(e) == CHOOSE d \in RollDays(file, e, k) : TRUE
  IN  [i \in DOMAIN heard |-> [on |-> Day(heard[i]), ret |-> file[Day(heard[i])].ret]]

StudyRcp(file) ==
  LET Trades(k) ==
        LET series == Returns(file, k)
            Ups(i) == Cardinality({j \in 1 .. i - 1 : series[j].ret > 0})
            Most(i) == Max({Ups(i), i - 1 - Ups(i)})
            taken == {i \in DOMAIN series : /\ i - 1 >= Rolls /\ Most(i) * 10 >= 7 * (i - 1)
                                            /\ file[series[i].on].entry}
        IN  {[on |-> series[i].on, k |-> k, dir |-> IF 2 * Ups(i) >= i - 1 THEN 1 ELSE -1] : i \in taken}
  IN  UNION {Trades(k) : k \in 1 .. Offsets}

(***************************************************************************)
(* ODC: the overnight drift, with the directions of Asia and Europe.  The  *)
(* last close carries over sessions without one.                           *)
(***************************************************************************)
StudyOdc(file) ==
  LET Step(s, d) ==
        LET r == file[d]
            usable == r.full /\ r.midnight # None /\ r.three # None /\ s.close # None
            align  == (IF r.midnight > s.close THEN 1 ELSE 0) + (IF r.three > r.midnight THEN 1 ELSE 0)
        IN  IF r = None THEN s
            ELSE [close |-> IF r.close = None THEN s.close ELSE r.close,
                  out |-> IF usable THEN s.out \cup {[on |-> d, align |-> align]} ELSE s.out]
  IN  FoldLeftDomain(Step, [close |-> None, out |-> {}], file).out

(***************************************************************************)
(* PAID: after an imbalance into the close beyond the fourth quintile of   *)
(* the sixty before it, the next session goes against it.                  *)
(***************************************************************************)
(* Five times the last cut point of statistics.quantiles(prior, n=5).      *)
FiveQ80(samples) ==
  LET up    == SortSeq(samples, <)
      ld    == Len(up)
      j     == Max({1, Min({ld - 1, (4 * (ld + 1)) \div 5})})
      delta == 4 * (ld + 1) - 5 * j
  IN  up[j] * (5 - delta) + up[j + 1] * delta

StudyPaid(file) ==
  LET days == Ascending({d \in Present(file) : file[d].imb # None})
      Prior(i) == Recent([j \in 1 .. i - 1 |-> Size(file[days[j]].imb)], TrailDays)
      Next(i) == FirstOf({d \in Present(file) : d > days[i]})
      taken == {i \in DOMAIN days : /\ i - 1 >= TrailNeed /\ Next(i) # None
                                    /\ 5 * Size(file[days[i]].imb) >= FiveQ80(Prior(i))
                                    /\ file[Next(i)].entry}
  IN  {[on |-> Next(i), for |-> days[i], dir |-> IF file[days[i]].imb > 0 THEN -1 ELSE 1] : i \in taken}

(***************************************************************************)
(* CST: the first five-minute move of notes in a session that is two and a *)
(* half deviations of the same minute's moves on the days before.          *)
(***************************************************************************)
(* abs(move) >= 2.5 * stdev(trail), with stdev > 0, in whole numbers.      *)
Shock(move, trail) ==
  LET n      == Len(trail)
      spread == n * FoldLeft(LAMBDA a, x : a + x * x, 0, trail) - FoldLeft(LAMBDA a, x : a + x, 0, trail) ^ 2
  IN  n >= TrailNeed /\ spread > 0 /\ 4 * n * (n - 1) * move * move >= 25 * spread

StudyCst(file) ==
  LET Step(s, d) ==
        LET r == file[d]
            shock == FirstOf({m \in Moves : /\ r.moves[m] # None /\ Shock(r.moves[m], s.history[m])
                                            /\ ~(r.fomc /\ m \in Scheduled)})
            trade == [on |-> d, minute |-> shock, dir |-> Side(r.moves[shock])]
        IN  IF r = None THEN s
            ELSE [out |-> IF shock # None /\ r.entry THEN s.out \cup {trade} ELSE s.out,
                  history |-> [m \in Moves |-> IF r.moves[m] = None THEN s.history[m]
                                               ELSE Recent(Append(s.history[m], r.moves[m]), TrailDays)]]
  IN  FoldLeftDomain(Step, [out |-> {}, history |-> [m \in Moves |-> <<>>]], file).out
=============================================================================
