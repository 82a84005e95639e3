-------------------------------- MODULE Sdd ---------------------------------
(***************************************************************************)
(* The SMT divergence study (scripts/sdd_study.py): a new extreme of NQ    *)
(* that ES does not confirm, and a displacement against it.  scan_session  *)
(* looks for the displacement in a window of bars after the extreme (v1.0),*)
(* scan_session_state while a flag is up (v1.1).                           *)
(*                                                                         *)
(* slots[t] is the t-th five minutes of the session: the bars nq and es    *)
(* (None where the file lacks one) and the flow f1 of the NQ bar.  day     *)
(* says whether ES has a file at all, and the highs and lows before the    *)
(* session that an extreme has to beat (None at N = 1).  The labels that   *)
(* no step reads (thin, delta_fail, large-share quartile, forward returns) *)
(* are left out; Room stands for the longest forward horizon.              *)
(***************************************************************************)
EXTENDS Tape

CONSTANTS
  Window,     \* W
  TrailBars,  \* DISP_TRAIL
  TrailMin,   \* MIN_TRAIL
  ExtFirst,   \* EXT_FIRST, in slots
  ExtLast,    \* EXT_LAST, in slots
  Room        \* max(HORIZONS)

Sides == {"high", "low"}
Opposite(side) == IF side = "high" THEN -1 ELSE 1
Edge(bar, side) == IF side = "high" THEN bar.h ELSE bar.l
Past(side, x, y) == IF side = "high" THEN x > y ELSE x < y
Best(side, S) == IF S = {} THEN None ELSE IF side = "high" THEN Max(S) ELSE Min(S)
Bound(ref) == IF ref = None THEN {} ELSE {ref}

(* m5: the slots NQ has a bar for; the scans count in its indices.         *)
Heard(slots) == Ascending({t \in DOMAIN slots : slots[t].nq # None})
HeardEs(slots) == Ascending({t \in DOMAIN slots : slots[t].es # None})

(* Bars beyond the prior reference and every bar before them.              *)
ExtremeBars(bars, side, ref) ==
  {j \in DOMAIN bars :
     LET run == Best(side, {Edge(bars[i], side) : i \in 1 .. (j - 1)} \cup Bound(ref))
     IN  run # None /\ Past(side, Edge(bars[j], side), run)}

(* A displacement: a wide bar with strong flow in its own direction.       *)
Range5(bar) == bar.h - bar.l
WholeTrail(nq, j) == [i \in DOMAIN nq |-> Range5(nq[i])]
Trail(nq, j) == LET from == Max({1, j - TrailBars})
                IN  [i \in 1 .. (j - from) |-> Range5(nq[from + i - 1])]

Displacement(nq, f1, j) ==
  LET d == Side(nq[j].c - nq[j].o) IN
  IF /\ d # 0 /\ Len(Trail(nq, j)) >= TrailMin
     /\ 4 * Range5(nq[j]) >= 3 * TwiceMedian(Trail(nq, j))
     /\ f1 # None /\ f1 * d > 0 /\ Size(f1) >= Strong
  THEN d ELSE 0

(* What the scans look up: the bars of both, the extremes of NQ, those of  *)
(* ES at a bar of NQ, the displacements.                                   *)
Session(slots, day) ==
  LET m5  == Heard(slots)
      m5e == HeardEs(slots)
      nq  == [j \in DOMAIN m5 |-> slots[m5[j]].nq]
      es  == [k \in DOMAIN m5e |-> slots[m5e[k]].es]
      Own(side) == {m5e[k] : k \in ExtremeBars(es, side, day.esRef[side])}
  IN  [m5 |-> m5, nq |-> nq, day |-> day,
       es |-> [j \in DOMAIN m5 |-> slots[m5[j]].es],
       disp |-> [j \in DOMAIN m5 |-> Displacement(nq, slots[m5[j]].f1, j)],
       prints |-> [side \in Sides |-> ExtremeBars(nq, side, day.ref[side])],
       confirms |-> [side \in Sides |->
                      IF day.es THEN {j \in DOMAIN m5 : m5[j] \in Own(side)} ELSE {}]]

(* The ES extreme a print of NQ has to be confirmed against ends two bars  *)
(* before it; the bar before, the bar itself and the next may confirm it.  *)
Divergence(x, side, j) ==
  LET Es(js) == {Edge(x.es[k], side) : k \in {k \in js \cap DOMAIN x.m5 : x.es[k] # None}}
      near == Es((j - 1) .. (j + 1))
      ref  == Best(side, Es(1 .. (j - 2)) \cup Bound(x.day.esRef[side]))
  IN  IF ~x.day.es \/ ref = None \/ near = {} THEN None
      ELSE IF Past(side, Best(side, near), ref) THEN "conf" ELSE "smt"

HasRoom(x, j) == j + Room <= Len(x.m5)
InTheWindow(x, j) == ExtFirst <= x.m5[j] /\ x.m5[j] <= ExtLast

(***************************************************************************)
(* v1.0: one event per extreme, with the first displacement of its window  *)
(* unless a newer extreme comes first.                                     *)
(***************************************************************************)
NeverSuperseded(newer, d) == FALSE
Superseded(newer, d) == newer # None /\ d >= newer

WindowEvent(x, side, exts, last, j) ==
  LET newer == FirstOf({k \in exts : k > j})
      first == FirstOf({d \in (j + 1) .. Min({j + Window, last}) :
                 Superseded(newer, d) \/ x.disp[d] = Opposite(side)})
      taken == first # None /\ Superseded(newer, first)
  IN  [side |-> side, ext |-> j, smt |-> Divergence(x, side, j), superseded |-> taken,
       disp |-> IF first = None \/ taken THEN None
                ELSE IF HasRoom(x, first) THEN first ELSE None]

ScanSession(slots, day) ==
  LET x    == Session(slots, day)
      last == Max({0} \cup {k \in DOMAIN x.m5 : x.m5[k] <= ExtLast})
      Exts(side) == {j \in x.prints[side] : j <= last}
  IN  {WindowEvent(x, side, Exts(side), last, j) :
         <<side, j>> \in {<<side, j>> \in Sides \X DOMAIN x.m5 : j \in Exts(side) /\ InTheWindow(x, j)}}

(***************************************************************************)
(* v1.1: a flag per side, raised by an extreme in the window, killed by    *)
(* the next extreme, by ES confirming it or by the end of the session.     *)
(***************************************************************************)
SmtOfPrint(x, side, j) ==
  IF j + 1 > Len(x.m5) \/ ~InTheWindow(x, j) THEN None ELSE Divergence(x, side, j)

Kill(s, side, cause, j) ==
  [s EXCEPT !.flag[side] = None,
            !.killed = Append(@, [flag |-> s.flag[side], cause |-> cause, at |-> j])]

Confirmed(x, s, side, j) ==
  IF s.flag[side] = None \/ j \notin x.confirms[side] THEN s
  ELSE IF s.flag[side].kind = "smt" /\ j > s.flag[side].ext + 1 THEN Kill(s, side, "es_confirm", j)
  ELSE s

Printed(x, s, side, j) ==
  LET kind == SmtOfPrint(x, side, j)
      down == IF s.flag[side] = None THEN s
              ELSE Kill(s, side, IF kind # None THEN "replaced" ELSE "reclaim", j)
  IN  IF j \notin x.prints[side] THEN s
      ELSE IF kind = None THEN down
      ELSE [down EXCEPT !.flag[side] =
             [side |-> side, kind |-> kind, ext |-> j, disps |-> 0, level |-> Edge(x.nq[j], side)]]

SideStep(x, s, side, j) == Printed(x, Confirmed(x, s, side, j), side, j)

DisplaceStep(x, s, j) ==
  LET side == IF x.disp[j] = -1 THEN "high" ELSE "low"
      up   == s.flag[side]
  IN  IF x.disp[j] = 0 \/ ~InTheWindow(x, j) \/ ~HasRoom(x, j) \/ up = None THEN s
      ELSE IF j <= up.ext THEN s
      ELSE [s EXCEPT !.flag[side].disps = @ + 1,
              !.events = Append(@, [kind |-> up.kind, side |-> side, ext |-> up.ext,
                                    disp |-> j, rank |-> up.disps + 1])]

ScanSessionState(slots, day) ==
  LET x == Session(slots, day)
      Step(s, j) == DisplaceStep(x, SideStep(x, SideStep(x, s, "high", j), "low", j), j)
      End(s, side) == IF s.flag[side] = None THEN s ELSE Kill(s, side, "session_end", Len(x.m5))
      walked == FoldLeftDomain(Step, [flag |-> [side \in Sides |-> None], killed |-> <<>>,
                                      events |-> <<>>], x.m5)
  IN  End(End(walked, "high"), "low")
=============================================================================
