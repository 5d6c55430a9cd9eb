----------------------------- MODULE MCPoolCache -----------------------------
(* Instance of PoolCache for TLC: one balance is known from the first slot,  *)
(* the other changes in the second, which is a swap.                         *)
EXTENDS PoolCache

\* After slot s both vaults hold s.
Swaps == [s \in 1..MaxSlot |-> [l \in Legs |-> s]]

\* The pool appears in the first slot; in the swap that follows, the balance
\* it already had is not reported again.
Split == [s \in 1..MaxSlot |-> IF s = 1 THEN {"quote", "pool"} ELSE {"base", "trade"}]
=============================================================================
