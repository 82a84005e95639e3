------------------------------ MODULE Regimes -------------------------------
(***************************************************************************)
(* The decision files the flow strategies trade on, computed session by    *)
(* session from what came before (scripts/fit_regimes.py), their stand-in  *)
(* without ticks (build_proxy_decisions in scripts/pfr_study.py) and the   *)
(* pool an entry is ranked in (main in scripts/mae_study.py).              *)
(*                                                                         *)
(* file[d] is the session of date d, None where the market was closed:     *)
(* whether its ticks passed QA, the 95th percentile of its trade sizes and *)
(* the flow of its five-minute records.  The one feature stands for the    *)
(* six that are scored alike; a score is the pair it divides, and what the *)
(* mixture model knows is the data it was fit on.  A session that passed   *)
(* QA has records.                                                         *)
(***************************************************************************)
EXTENDS Tape

CONSTANTS
  Period,     \* dates in a refit period
  PoolDays,   \* Z_WINDOW, TRAIL_SESS, POOL_SESS: sessions of a trailing pool
  PoolMin,    \* samples a table or a score needs
  SizeDays,   \* SIZE_WINDOW
  FitDays,    \* GMM_WINDOW
  FitMin,     \* GMM_MIN, MIN_TRAIL_SESS, POOL_MIN_SESS: sessions needed
  LabelBars,  \* TRANS_BARS
  LabelMin,   \* labels a transition needs
  Pct         \* the percentile of the table

Percentile(samples, pct) ==
  LET rank == Max({1, (Len(samples) * pct + 99) \div 100})
  IN  SortSeq(samples, <)[rank]

Sizes(bars) == [i \in DOMAIN bars |-> Size(bars[i])]

Table(pool) ==
  LET flat == FlattenSeq([i \in DOMAIN pool |-> Sizes(pool[i])])
  IN  IF Len(flat) < PoolMin THEN None ELSE Percentile(flat, Pct)

(* Rolling.z: nothing while the sessions before are too few, or all alike. *)
Score(pool, value) ==
  LET flat == FlattenSeq(pool)
  IN  IF Len(flat) < PoolMin \/ Cardinality(ToSet(flat)) <= 1 THEN [of |-> 0, over |-> <<>>]
      ELSE [of |-> value, over |-> flat]

(* The mixture model's stand-in: the active component reaches as far as    *)
(* the largest flow it was fit on.                                         *)
Active(model, value) == \A x \in ToSet(FlattenSeq(model.data)) : Size(value) >= Size(x)

(* _transition_to_af: how often what is now has been followed by activity. *)
Transition(labels) ==
  LET from == {i \in 1 .. Len(labels) - 1 : labels[i] = Last(labels)}
  IN  IF Len(labels) < LabelMin \/ from = {} THEN None
      ELSE [to |-> Cardinality({i \in from : labels[i + 1]}), of |-> Cardinality(from)]

(* At the first session of a period, on the sessions before it.            *)
Refit(s, d) ==
  IF d \div Period = s.key \/ Len(s.days) < FitMin THEN s.model
  ELSE [at |-> d, data |-> Recent(s.days, FitDays)]

(* A record sees the labels up to its own.                                 *)
Label(acc, value, model) ==
  IF model = None THEN [acc EXCEPT !.out = Append(@, [regime |-> None, then |-> None])]
  ELSE LET labels == Recent(Append(acc.labels, Active(model, value)), LabelBars)
       IN  [labels |-> labels,
            out |-> Append(acc.out, [regime |-> Last(labels), then |-> Transition(labels)])]

SizeCut(sizes) == IF sizes = <<>> THEN None ELSE SortSeq(sizes, <)[Len(sizes) \div 2 + 1]

(* One session, told from the state before it; then the state takes it in. *)
Decide(s, r, d) ==
  LET model == Refit(s, d)
      pool  == Recent(s.days, PoolDays)
      told  == FoldLeft(LAMBDA acc, v : Label(acc, v, model), [labels |-> s.labels, out |-> <<>>], r.bars)
      bars  == [i \in DOMAIN r.bars |->
                  [f1 |-> r.bars[i], score |-> Score(pool, r.bars[i])] @@ told.out[i]]
  IN  [out |-> s.out \cup {[on |-> d, cut |-> SizeCut(s.sizes), table |-> Table(pool), bars |-> bars,
                            model |-> IF model = None THEN None ELSE model.at]},
       days |-> Append(s.days, r.bars), sizes |-> Recent(Append(s.sizes, r.p95), SizeDays),
       labels |-> told.labels, key |-> d \div Period, model |-> model]

Decisions(file) ==
  FoldLeftDomain(LAMBDA s, d : IF file[d] = None THEN s
                               ELSE IF ~file[d].qa THEN s ELSE Decide(s, file[d], d),
    [out |-> {}, days |-> <<>>, sizes |-> <<>>, labels |-> <<>>, key |-> None, model |-> None], file).out

(* build_proxy_decisions: every session with bars is fed to the pool, a    *)
(* file is made for those that are asked for.                              *)
ProxyDecisions(file, wanted) ==
  LET Step(s, d) ==
        LET bars == file[d].bars
            due  == d \in wanted /\ Len(s.pool) >= FitMin /\ Table(s.pool) # None
            made == [on |-> d, table |-> Table(s.pool),
                     bars |-> [i \in DOMAIN bars |-> [f1 |-> bars[i], score |-> Score(s.pool, bars[i])]]]
        IN  IF file[d] = None THEN s
            ELSE [out |-> IF due THEN s.out \cup {made} ELSE s.out,
                  pool |-> Recent(Append(s.pool, bars), PoolDays)]
  IN  FoldLeftDomain(Step, [out |-> {}, pool |-> <<>>], file).out

(* mae_study: the place of an entry's flow among those of the sessions     *)
(* before, walked back from it.                                            *)
Ranked(file) ==
  LET full == {d \in Present(file) : file[d].bars # <<>>}
      Before(d) == {e \in full : e < d /\ Cardinality({f \in full : e < f /\ f < d}) < PoolDays}
      Pool(d) == LET days == Ascending(Before(d))
                 IN  FlattenSeq([i \in DOMAIN days |-> Sizes(file[days[i]].bars)])
      Below(d) == {i \in DOMAIN Pool(d) : Pool(d)[i] < Size(file[d].bars[1])}
  IN  {[on |-> d, below |-> Cardinality(Below(d)), of |-> Len(Pool(d))] :
         d \in {d \in full : Cardinality(Before(d)) >= FitMin}}
=============================================================================
