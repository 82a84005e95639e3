----------------------------- MODULE BarStream -----------------------------
(***************************************************************************)
(* What DataFeed.stream promises its caller (feed/base.py): closed bars    *)
(* across all timeframes, ordered by close time, the shorter one first on  *)
(* a tie, each once, until the stream is over.                             *)
(***************************************************************************)
EXTENDS Integers, Sequences

CONSTANTS Frames, Opens   \* timeframes as lengths, and open times

VARIABLES delivered, over

Bars == [frame : Frames, open : Opens]

Close(b) == b.open + b.frame

Before(b, c) == \/ Close(b) < Close(c)
                \/ Close(b) = Close(c) /\ b.frame < c.frame

Init == delivered = <<>> /\ over = FALSE

Deliver(b) ==
  /\ ~over
  /\ delivered # <<>> => Before(delivered[Len(delivered)], b)
  /\ delivered' = Append(delivered, b)
  /\ UNCHANGED over

End == ~over /\ over' = TRUE /\ UNCHANGED delivered

Next == End \/ \E b \in Bars : Deliver(b)

Spec == Init /\ [][Next]_<<delivered, over>>
=============================================================================
