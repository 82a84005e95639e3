------------------------------ MODULE MCLedger ------------------------------
(* The ledger, with: fills that cross zero and their fees; fills of one    *)
(* moment in every order of their ids; a connection and calls that fail;   *)
(* an import beside the pump, of one group's fills or of two.              *)
EXTENDS Ledger

CONSTANTS g1, g2

Crossing == [groups |-> {g1}, fills |-> 3, qty |-> 2, ranks |-> 1, fees |-> 1, drops |-> 0,
             fails |-> 0, imports |-> 0, tags |-> 0]
Tied == [groups |-> {g1}, fills |-> 3, qty |-> 1, ranks |-> 3, fees |-> 0, drops |-> 0,
         fails |-> 0, imports |-> 0, tags |-> 1]
Rough == [groups |-> {g1}, fills |-> 2, qty |-> 1, ranks |-> 1, fees |-> 1, drops |-> 1,
          fails |-> 1, imports |-> 0, tags |-> 1]
Imported == [groups |-> {g1}, fills |-> 3, qty |-> 1, ranks |-> 1, fees |-> 0, drops |-> 0,
             fails |-> 0, imports |-> 1, tags |-> 1]
Shared == [groups |-> {g1, g2}, fills |-> 2, qty |-> 1, ranks |-> 1, fees |-> 1, drops |-> 0,
           fails |-> 0, imports |-> 1, tags |-> 1]

MCScenarios == {Crossing, Tied, Rough, Imported, Shared}
=============================================================================
