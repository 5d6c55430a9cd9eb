--------------------------- MODULE MCResourceLocks ---------------------------
(* Instance of ResourceLocks for TLC: two arbitrage intents that preempt a   *)
(* momentum intent on two pools, over two fairness windows.                  *)
EXTENDS ResourceLocks, TLC

CONSTANTS arb1, arb2, mom, p1, p2

MCTier == (arb1 :> 0) @@ (arb2 :> 0) @@ (mom :> 1)
MCSourceOf == (arb1 :> "arb") @@ (arb2 :> "arb") @@ (mom :> "momentum")

\* The arbitrage intents have one tier and one source; pools differ in nothing.
Alike == Permutations({arb1, arb2}) \cup Permutations({p1, p2})
=============================================================================
