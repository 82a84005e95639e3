------------------------------ MODULE MCEngine ------------------------------
(***************************************************************************)
(* Instances of Engine for TLC.  Two session dates of four bar closes: one *)
(* before the open, two in the session, one at the cutoff.                 *)
(***************************************************************************)
EXTENDS Engine
=============================================================================
