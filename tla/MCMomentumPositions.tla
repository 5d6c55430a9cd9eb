------------------------ MODULE MCMomentumPositions ------------------------
(* Model checking instance of MomentumPositions. *)
EXTENDS MomentumPositions
=============================================================================
