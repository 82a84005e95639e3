------------------------------ MODULE MCRouter ------------------------------
(* A human, an account behind the webhook and one on a dry run: two signals*)
(* under an edited accounts file, two signals whose records a death may    *)
(* cut, and one signal beside the watcher of its journal.                  *)
EXTENDS TradePing

MCScenarios ==
  {[signals |-> 2, edits |-> 1, deaths |-> 1, hangs |-> 0, watched |-> FALSE, halves |-> FALSE],
   [signals |-> 2, edits |-> 0, deaths |-> 1, hangs |-> 0, watched |-> FALSE, halves |-> TRUE],
   [signals |-> 1, edits |-> 0, deaths |-> 1, hangs |-> 1, watched |-> TRUE, halves |-> TRUE]}
=============================================================================
