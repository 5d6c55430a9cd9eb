-------------------------- MODULE MCTrackAdmission --------------------------
EXTENDS TrackAdmission

W == Wallet
Pp == <<"Position", "p">>
Mp == <<"Momentum", "p">>
Mq == <<"Momentum", "q">>
Ap == <<"Arb", "p">>
Aq == <<"Arb", "q">>
Ar == <<"Arb", "r">>
Tr == <<"Tracker", "r">>

MCOrder == <<W, Pp, Mp, Mq, Ap, Aq, Ar, Tr>>

\* Pools p and q trade the same mint m; a group is the pool account alone or with
\* the accounts it needs (v is one that q and r share); the wallet has its own
\* account w and may pin m.  Pool r is tracked for Arb and by the Tracker.
MCPlanned ==
  [o \in {MCOrder[i] : i \in DOMAIN MCOrder} |->
     CASE o = W -> {{"w"}, {"w", "m"}}
       [] o[2] = "p" -> {{"p"}, {"p", "m"}}
       [] o[2] = "q" -> {{"q"}, {"q", "v", "m"}}
       [] o[2] = "r" -> {{"r", "v"}}]

Demand(pairs) ==
  [o \in {MCOrder[i] : i \in DOMAIN MCOrder} |-> UNION {r[2] : r \in {r \in pairs : r[1] = o}}]

\* Each account has one row, so the groups of a demand are disjoint.
MCDemands == { Demand({<<W, {"w"}>>, <<Mp, {"p", "m"}>>, <<Aq, {"q", "v"}>>}),
               Demand({<<W, {"w"}>>, <<Pp, {"p"}>>, <<Tr, {"r", "v"}>>}),
               Demand({<<W, {"w"}>>, <<Ap, {"p", "m"}>>, <<Mq, {"q"}>>}),
               Demand({<<Ap, {"p"}>>, <<Aq, {"q"}>>, <<Ar, {"r"}>>}) }
=============================================================================
