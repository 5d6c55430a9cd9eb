------------------------ MODULE MCPositionAuthority ------------------------
(* PositionAuthority on a small wallet. *)
EXTENDS PositionAuthority
CONSTANTS m1
=============================================================================
