------------------------------- MODULE MCFeed -------------------------------
(* A base timeframe of two units of time and one twice as long.            *)
EXTENDS Feed

MCFrames == {2, 4}
MCResumePoints == {None, 2}
=============================================================================
