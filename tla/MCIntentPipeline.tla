-------------------------- MODULE MCIntentPipeline --------------------------
(* Instances of IntentPipeline for TLC: a BUY and a SELL of one mint, and    *)
(* one BUY delivered twice.                                                  *)
EXTENDS IntentPipeline, TLC

CONSTANTS buy, sell, mint, t1, t2

BuySell == {buy, sell}
BuySellSol == (buy :> 1) @@ (sell :> 0)
BuySellTokens == (buy :> (mint :> 0)) @@ (sell :> (mint :> 1))
BuySellFill == (buy :> (mint :> 2)) @@ (sell :> (mint :> 0))
BuySellProceeds == (buy :> 0) @@ (sell :> 1)
Holding == mint :> 1

\* A BUY and a SELL with nothing but the network failing.
Distinct == [IntentOf |-> (t1 :> buy) @@ (t2 :> sell),
             TtlCovers |-> TRUE, PublishFails |-> FALSE]

\* One BUY delivered twice, locks that expire early and records that fail.
Redelivered == [IntentOf |-> (t1 :> buy) @@ (t2 :> buy),
                TtlCovers |-> FALSE, PublishFails |-> TRUE]

\* One BUY delivered twice and nothing else wrong.
DeliveredTwice == [IntentOf |-> (t1 :> buy) @@ (t2 :> buy),
                   TtlCovers |-> TRUE, PublishFails |-> FALSE]

BothWorlds == {Distinct, Redelivered}
TwiceWorld == {DeliveredTwice}
=============================================================================
