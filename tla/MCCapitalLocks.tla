--------------------------- MODULE MCCapitalLocks ---------------------------
(* Instance of CapitalLocks for TLC: a BUY and a SELL of one mint.           *)
EXTENDS CapitalLocks, TLC

CONSTANTS buy, sell, mint

MCSol == (buy :> 1) @@ (sell :> 0)
MCTokens == (buy :> (mint :> 0)) @@ (sell :> (mint :> 1))
=============================================================================
