----------------------------- MODULE MCBarsGap -----------------------------
(* ClosedBars.tla with the counts of the code. *)
EXTENDS ClosedBars
=============================================================================
