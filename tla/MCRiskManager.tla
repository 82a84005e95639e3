--------------------------- MODULE MCRiskManager ---------------------------
(***************************************************************************)
(* Instances of RiskManager for TLC: two session dates and three prices,   *)
(* one below, one at and one above the first entry.                        *)
(***************************************************************************)
EXTENDS RiskManager

MCPrices == -1 .. 1
MCQuantities == {1, -1}
=============================================================================
