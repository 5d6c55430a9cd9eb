----------------------- MODULE PositionAuthorityProofs -----------------------
(***************************************************************************)
(* Proofs about PositionAuthority: the reducer's balances stay within what *)
(* the wallet's trades and the redelivered results account for, and the    *)
(* KV bucket mirrors the reducer in the host that enqueues under the lock. *)
(***************************************************************************)
EXTENDS PositionAuthority, FiniteSetTheorems, TLAPS

Amounts == 0 .. MaxBal
ResultType == [id : Nat, mint : Mints, old : Amounts, new : Amounts]
EventType == [mint : Mints, bal : Amounts]
KvType == [bal : Nat, status : Statuses]
ChangeType == [mint : Mints, val : {None} \cup KvType]

Types ==
    /\ host \in Hosts
    /\ chain \in [Mints -> Amounts]
    /\ trades \in 0 .. MaxTrades /\ faults \in 0 .. MaxFaults
    /\ results \subseteq ResultType /\ IsFiniteSet(results)
    /\ last \in [Mints -> {None} \cup Amounts]
    /\ stream \in Seq(EventType)
    /\ complete = None \/ complete \subseteq Mints
    /\ by_mint \in [Mints -> {None} \cup PositionState]
    /\ held \in [Tasks -> SUBSET ChangeType]
    /\ queue \in Seq(SUBSET ChangeType)
    /\ unsynced \subseteq Mints

\* A result still to be applied was counted as a trade and not yet added; a
\* result applied without acknowledgement was paid for by a fault; the one
\* more MaxBal is the snapshot the reducer started from.
Applied == trades + faults - Cardinality(results)
Counted ==
    /\ Cardinality(results) <= trades
    /\ \A m \in Mints :
           by_mint[m] # None => by_mint[m].bal <= (Applied + 1) * MaxBal

\* No batch of the queue after position i says anything about m.
Silent(m, i) == \A j \in i + 1 .. Len(queue) : \A c \in queue[j] : c.mint # m

\* The engine holds nothing outside the queue; the last batch that mentions a
\* mint carries the reducer's present state of it; a mint that no batch
\* mentions is in the bucket as the reducer has it, or its last write failed.
Mirror ==
    host = "engine" =>
      /\ \A t \in Tasks : held[t] = {}
      /\ \A m \in Mints :
           /\ \A i \in 1 .. Len(queue) :
                Silent(m, i) =>
                  \A c \in queue[i] : c.mint = m => c.val = to_snapshot(by_mint[m])
           /\ Silent(m, 0) => m \in unsynced \/ kv[m] = to_snapshot(by_mint[m])

IInv == Types /\ Counted /\ Mirror

-----------------------------------------------------------------------------
(***************************************************************************)
(* What the operators of the reducer return.                               *)
(***************************************************************************)
\* The periodic scan reports the mints as a sequence.
LEMMA ScanTyped == SetToSeq(Mints) \in Seq(Mints)
<1>1. PICK n \in Nat : ExistsBijection(1 .. n, Mints)
  BY AuthorityConstants, FS_NatBijection
<1>2. Cardinality(Mints) = n
  BY <1>1, FS_CountingElements
<1>3. PICK f \in Bijection(1 .. n, Mints) : TRUE
  BY <1>1 DEF ExistsBijection
<1>4. f \in [1 .. n -> Mints] /\ IsInjective(f)
  BY <1>3 DEF Bijection, Injection, Surjection, IsInjective
<1>5. \E g \in [1 .. Cardinality(Mints) -> Mints] : IsInjective(g)
  BY <1>2, <1>4
<1>6. SetToSeq(Mints) \in [1 .. Cardinality(Mints) -> Mints]
  BY <1>5 DEF SetToSeq
<1> QED  BY <1>6, <1>2

\* A scan of the wallet is a sequence of events.
LEMMA ScanEvents ==
    ASSUME NEW ms \in Seq(Mints), chain \in [Mints -> Amounts]
    PROVE  [i \in DOMAIN ms |-> [mint |-> ms[i], bal |-> chain[ms[i]]]] \in Seq(EventType)
<1>1. \A i \in 1 .. Len(ms) : ms[i] \in Mints /\ chain[ms[i]] \in Amounts
  OBVIOUS
<1>2. DOMAIN ms = 1 .. Len(ms) /\ Len(ms) \in Nat
  OBVIOUS
<1>3. [i \in 1 .. Len(ms) |-> [mint |-> ms[i], bal |-> chain[ms[i]]]]
         \in [1 .. Len(ms) -> EventType]
  BY <1>1 DEF EventType
<1> QED  BY <1>2, <1>3

\* The reducer's handlers return a position with a natural balance; a buy
\* adds at most MaxBal, a sale adds nothing, a snapshot starts afresh.
LEMMA ReducerTyped ==
    ASSUME NEW p \in {None} \cup PositionState, NEW a \in Amounts
    PROVE  /\ BalOf(p) \in Nat
           /\ apply_buy(p, a) \in PositionState /\ apply_buy(p, a).bal = BalOf(p) + a
           /\ apply_sell(p, a) \in PositionState /\ apply_sell(p, a).bal <= BalOf(p)
           /\ apply_wallet_snapshot(p, a) \in {None} \cup PositionState
           /\ apply_wallet_snapshot(p, a) # None => apply_wallet_snapshot(p, a).bal = a
<1>0. MaxBal \in Nat /\ a \in Nat /\ None \notin PositionState
  BY AuthorityConstants DEF Amounts
<1>1. BalOf(p) \in Nat
  BY <1>0 DEF BalOf, PositionState
<1>2. \A b : Status(b) \in Statuses
  BY DEF Status, Statuses
<1>3. apply_buy(p, a) \in PositionState /\ apply_buy(p, a).bal = BalOf(p) + a
  BY <1>0, <1>1, <1>2 DEF apply_buy, PositionState
<1>4. apply_sell(p, a) \in PositionState /\ apply_sell(p, a).bal <= BalOf(p)
  <2>1. "ReconcileNeeded" \in Statuses
    BY DEF Statuses
  <2>2. CASE a > BalOf(p)
    BY <1>0, <1>1, <2>1, <2>2 DEF apply_sell, PositionState
  <2>3. CASE ~(a > BalOf(p))
    <3>1. BalOf(p) - a \in Nat /\ BalOf(p) - a <= BalOf(p)
      BY <1>0, <1>1, <2>3
    <3> QED  BY <1>2, <2>3, <3>1 DEF apply_sell, PositionState
  <2> QED  BY <2>2, <2>3
<1>5. /\ apply_wallet_snapshot(p, a) \in {None} \cup PositionState
      /\ apply_wallet_snapshot(p, a) # None => apply_wallet_snapshot(p, a).bal = a
  <2>1. CASE a = 0
    BY <2>1 DEF apply_wallet_snapshot
  <2>2. CASE a # 0
    <3> DEFINE st == IF p # None /\ p.bal = a THEN "Open" ELSE "ReconcileNeeded"
               re == p # None /\ p.recent
    <3>1. st \in Statuses
      BY DEF Statuses
    <3>2. re \in BOOLEAN
      BY DEF PositionState
    <3>3. apply_wallet_snapshot(p, a) = [bal |-> a, status |-> st, recent |-> re]
      BY <2>2 DEF apply_wallet_snapshot
    <3> HIDE DEF st, re
    <3> QED  BY <1>0, <3>1, <3>2, <3>3 DEF PositionState
  <2> QED  BY <2>1, <2>2
<1> QED  BY <1>1, <1>3, <1>4, <1>5

\* A change is a change of the bucket.
LEMMA ChangeTyped ==
    ASSUME NEW p \in {None} \cup PositionState, NEW m \in Mints
    PROVE  Change(m, p) \in ChangeType
<1>1. to_snapshot(p) \in {None} \cup KvType
  BY AuthorityConstants DEF to_snapshot, KvType, PositionState
<1> QED  BY <1>1 DEF Change, ChangeType

\* Enqueueing in either host keeps the queue and the held changes typed.
LEMMA EmitTyped ==
    ASSUME Types, NEW t \in Tasks, NEW ch \in SUBSET ChangeType, Emit(t, ch)
    PROVE  held' \in [Tasks -> SUBSET ChangeType] /\ queue' \in Seq(SUBSET ChangeType)
<1>1. held \in [Tasks -> SUBSET ChangeType] /\ queue \in Seq(SUBSET ChangeType)
  BY DEF Types
<1>2. Append(queue, ch) \in Seq(SUBSET ChangeType)
  BY <1>1
<1>3. [held EXCEPT ![t] = ch] \in [Tasks -> SUBSET ChangeType]
  BY <1>1
<1> QED  BY <1>1, <1>2, <1>3 DEF Emit

-----------------------------------------------------------------------------
(***************************************************************************)
(* Types.                                                                  *)
(***************************************************************************)
\* What the reducer stores for a result: an addition of at most MaxBal, or a
\* position no larger than before.
ResultOf(r) == IF r.new > r.old THEN apply_buy(by_mint[r.mint], r.new - r.old)
               ELSE apply_sell(by_mint[r.mint], r.old - r.new)

\* Applying a result gives a well-typed reducer.
LEMMA ResultTyped ==
    ASSUME Types, NEW r \in results
    PROVE  /\ r.mint \in Mints
           /\ ResultOf(r) \in PositionState
           /\ ResultOf(r).bal <= BalOf(by_mint[r.mint]) + MaxBal
<1>1. /\ r.mint \in Mints /\ r.new \in Amounts /\ r.old \in Amounts
      /\ by_mint[r.mint] \in {None} \cup PositionState
  BY DEF Types, ResultType
<1>2. MaxBal \in Nat
  BY AuthorityConstants
<1> DEFINE p == by_mint[r.mint]
<1>2a. p \in {None} \cup PositionState
  BY <1>1
<1>3. BalOf(p) \in Nat
  <2>1. 0 \in Amounts
    BY <1>2 DEF Amounts
  <2> QED  BY <1>2a, <2>1, ReducerTyped
<1>4. CASE r.new > r.old
  <2>1. r.new - r.old \in Amounts
    BY <1>1, <1>2, <1>4 DEF Amounts
  <2>2. apply_buy(p, r.new - r.old) \in PositionState
        /\ apply_buy(p, r.new - r.old).bal = BalOf(p) + (r.new - r.old)
    BY <1>2a, <2>1, ReducerTyped
  <2>3. BalOf(p) + (r.new - r.old) <= BalOf(p) + MaxBal
    BY <1>2, <1>3, <2>1 DEF Amounts
  <2>4. ResultOf(r) = apply_buy(p, r.new - r.old)
    BY <1>4 DEF ResultOf
  <2> QED  BY <1>1, <2>2, <2>3, <2>4
<1>5. CASE ~(r.new > r.old)
  <2>1. r.old - r.new \in Amounts
    BY <1>1, <1>2, <1>5 DEF Amounts
  <2>2. apply_sell(p, r.old - r.new) \in PositionState
        /\ apply_sell(p, r.old - r.new).bal <= BalOf(p)
    BY <1>2a, <2>1, ReducerTyped
  <2>3. ResultOf(r) = apply_sell(p, r.old - r.new)
    BY <1>5 DEF ResultOf
  <2>4. apply_sell(p, r.old - r.new).bal \in Nat
    BY <2>2 DEF PositionState
  <2>5. apply_sell(p, r.old - r.new).bal <= BalOf(p) + MaxBal
    BY <1>2, <1>3, <2>2, <2>4
  <2> QED  BY <1>1, <2>2, <2>3, <2>5
<1> QED  BY <1>4, <1>5

\* Initially the types hold.
LEMMA InitTypes == Init => Types
<1> SUFFICES ASSUME Init PROVE Types
  OBVIOUS
<1>1. MaxBal \in Nat /\ MaxTrades \in Nat /\ MaxFaults \in Nat
  BY AuthorityConstants
<1> QED  BY <1>1, FS_EmptySet DEF Init, Types, Amounts

\* A trade keeps the types.
LEMMA WalletChangeTypes ==
    ASSUME Types, NEW m \in Mints, NEW b \in 0 .. MaxBal, NEW ours \in BOOLEAN,
           NEW reported \in BOOLEAN, WalletChange(m, b, ours, reported)
    PROVE  Types'
<1>0. MaxBal \in Nat /\ MaxTrades \in Nat /\ MaxFaults \in Nat
  BY AuthorityConstants
<1>1. chain' \in [Mints -> Amounts] /\ trades' \in 0 .. MaxTrades
  BY <1>0 DEF WalletChange, Types, Amounts
<1>2. results' \subseteq ResultType /\ IsFiniteSet(results')
  <2> DEFINE r == [id |-> trades, mint |-> m, old |-> chain[m], new |-> b]
  <2>1. r \in ResultType
    BY <1>0 DEF Types, ResultType, Amounts
  <2>2. results' = results \/ results' = results \cup {r}
    BY DEF WalletChange
  <2>3. IsFiniteSet(results \cup {r})
    BY FS_AddElement DEF Types
  <2> HIDE DEF r
  <2> QED  BY <2>1, <2>2, <2>3 DEF Types
<1>3. last' \in [Mints -> {None} \cup Amounts] /\ stream' \in Seq(EventType)
  <2>1. [mint |-> m, bal |-> b] \in EventType
    BY DEF EventType, Amounts
  <2>2. stream' = stream \/ stream' = Append(stream, [mint |-> m, bal |-> b])
    BY DEF WalletChange
  <2>2a. stream \in Seq(EventType)
    BY DEF Types
  <2>3. stream' \in Seq(EventType)
    BY <2>1, <2>2, <2>2a
  <2>4. last' = last \/ last' = [last EXCEPT ![m] = b]
    BY DEF WalletChange
  <2>5. last' \in [Mints -> {None} \cup Amounts]
    BY <2>4 DEF Types, Amounts
  <2> QED  BY <2>3, <2>5
<1> QED  BY <1>1, <1>2, <1>3 DEF WalletChange, Types, book

\* Snapshots and scans keep the types.
LEMMA FeedTypes ==
    ASSUME Types, PeriodicScan \/ LoseComplete \/ SkipSuperseded
    PROVE  Types'
<1>0. MaxBal \in Nat /\ MaxTrades \in Nat /\ MaxFaults \in Nat
  BY AuthorityConstants
<1>1. CASE PeriodicScan
  <2> DEFINE ms == SetToSeq(Mints)
             ev == [i \in DOMAIN ms |-> [mint |-> ms[i], bal |-> chain[ms[i]]]]
  <2>1. ev \in Seq(EventType)
    BY ScanTyped, ScanEvents DEF Types
  <2>2. stream' = stream \o ev
    BY <1>1 DEF PeriodicScan
  <2> HIDE DEF ev
  <2>2a. stream \in Seq(EventType)
    BY DEF Types
  <2>3. stream' \in Seq(EventType)
    BY <2>1, <2>2, <2>2a
  <2>4. last' \in [Mints -> {None} \cup Amounts] /\ complete' \subseteq Mints
    BY <1>1 DEF PeriodicScan, Types
  <2> QED  BY <1>1, <2>3, <2>4 DEF PeriodicScan, Types, wallet, book
<1>2. CASE LoseComplete
  BY <1>0, <1>2 DEF LoseComplete, Fault, Types, wallet, book
<1>3. CASE SkipSuperseded
  BY <1>3 DEF SkipSuperseded, Types, wallet, book
<1> QED  BY <1>1, <1>2, <1>3

\* What the reducer applies keeps the types.
LEMMA ReducerTypes ==
    ASSUME Types,
           \/ \E r \in results, acked \in BOOLEAN : ApplyResult(r, acked)
           \/ ApplySnapshot
           \/ ApplyComplete
           \/ \E m \in Mints : GraceExpires(m)
    PROVE  Types'
<1>0. /\ MaxBal \in Nat /\ MaxTrades \in Nat /\ MaxFaults \in Nat
      /\ None \notin PositionState /\ "main" \in Tasks /\ "wallet" \in Tasks
  BY AuthorityConstants DEF Tasks
<1>1. ASSUME NEW r \in results, NEW acked \in BOOLEAN, ApplyResult(r, acked) PROVE Types'
  <2>1. r.mint \in Mints /\ ResultOf(r) \in PositionState
    BY ResultTyped
  <2>2. /\ by_mint' = [by_mint EXCEPT ![r.mint] = ResultOf(r)]
        /\ Emit("main", {Change(r.mint, ResultOf(r))})
    BY <1>1 DEF ApplyResult, ResultOf
  <2>3. {Change(r.mint, ResultOf(r))} \in SUBSET ChangeType
    BY <2>1, ChangeTyped
  <2>4. held' \in [Tasks -> SUBSET ChangeType] /\ queue' \in Seq(SUBSET ChangeType)
    BY <1>0, <2>2, <2>3, EmitTyped
  <2>5. by_mint' \in [Mints -> {None} \cup PositionState]
    BY <2>1, <2>2 DEF Types
  <2>6. results' \subseteq ResultType /\ IsFiniteSet(results') /\ faults' \in 0 .. MaxFaults
    <3>1. IsFiniteSet(results \ {r})
      BY FS_RemoveElement DEF Types
    <3>2. \/ results' = results \ {r} /\ faults' = faults
          \/ results' = results /\ Fault
      BY <1>1 DEF ApplyResult
    <3>3. /\ results \subseteq ResultType /\ IsFiniteSet(results)
          /\ faults \in 0 .. MaxFaults
      BY DEF Types
    <3>4. faults' \in 0 .. MaxFaults
      BY <1>0, <3>2, <3>3 DEF Fault
    <3> QED  BY <3>1, <3>2, <3>3, <3>4, Zenon
  <2> QED  BY <1>1, <2>4, <2>5, <2>6 DEF ApplyResult, Types, wallet, feed
<1>2. CASE ApplySnapshot
  <2> DEFINE m == Head(stream).mint
             p == apply_wallet_snapshot(by_mint[m], Head(stream).bal)
  <2>1. Head(stream) \in EventType /\ Tail(stream) \in Seq(EventType)
    BY <1>2 DEF ApplySnapshot, Types
  <2>2. m \in Mints /\ Head(stream).bal \in Amounts
    BY <2>1 DEF EventType
  <2>3. p \in {None} \cup PositionState
    BY <2>2, ReducerTyped DEF Types
  <2>4. by_mint' = [by_mint EXCEPT ![m] = p] /\ Emit("wallet", {Change(m, p)})
    BY <1>2 DEF ApplySnapshot
  <2>5. {Change(m, p)} \in SUBSET ChangeType
    BY <2>2, <2>3, ChangeTyped
  <2> HIDE DEF m, p
  <2>6. held' \in [Tasks -> SUBSET ChangeType] /\ queue' \in Seq(SUBSET ChangeType)
    BY <1>0, <2>4, <2>5, EmitTyped
  <2>7. by_mint' \in [Mints -> {None} \cup PositionState]
    BY <2>2, <2>3, <2>4 DEF Types
  <2> QED  BY <1>2, <2>1, <2>6, <2>7 DEF ApplySnapshot, Types, wallet
<1>3. CASE ApplyComplete
  <2> DEFINE ch == {Change(m, None) : m \in Ghosts(complete)}
  <2>1. Ghosts(complete) \subseteq Mints
    BY DEF Ghosts
  <2>2. ch \in SUBSET ChangeType
    BY <2>1, ChangeTyped
  <2>3. Emit("main", ch)
    BY <1>3 DEF ApplyComplete
  <2>4. by_mint' \in [Mints -> {None} \cup PositionState]
    BY <1>3 DEF ApplyComplete, Types
  <2> HIDE DEF ch
  <2>5. held' \in [Tasks -> SUBSET ChangeType] /\ queue' \in Seq(SUBSET ChangeType)
    BY <1>0, <2>2, <2>3, EmitTyped
  <2> QED  BY <1>3, <2>4, <2>5 DEF ApplyComplete, Types, wallet
<1>4. ASSUME NEW m \in Mints, GraceExpires(m) PROVE Types'
  <2>1. by_mint[m] \in PositionState
    BY <1>4 DEF GraceExpires, Types
  <2>2. [by_mint[m] EXCEPT !.recent = FALSE] \in PositionState
    BY <2>1 DEF PositionState
  <2>3. by_mint' = [by_mint EXCEPT ![m] = [by_mint[m] EXCEPT !.recent = FALSE]]
    BY <1>4 DEF GraceExpires, Types
  <2>4. by_mint' \in [Mints -> {None} \cup PositionState]
    BY <2>2, <2>3 DEF Types
  <2> QED  BY <1>4, <2>4 DEF GraceExpires, Types, wallet, feed
<1> QED  BY <1>1, <1>2, <1>3, <1>4

\* What the reducer holds after a restart: the last snapshot of every mint.
Recovered == [m \in Mints |-> IF m \in InStream THEN apply_wallet_snapshot(None, last[m])
                              ELSE None]

\* What a restart rebuilds from the stream is well-typed.
LEMMA RecoveredTyped ==
    ASSUME Types
    PROVE  /\ Recovered \in [Mints -> {None} \cup PositionState]
           /\ \A m \in Mints : Recovered[m] # None => Recovered[m].bal <= MaxBal
<1> SUFFICES ASSUME NEW m \in Mints
             PROVE  /\ Recovered[m] \in {None} \cup PositionState
                    /\ Recovered[m] # None => Recovered[m].bal <= MaxBal
  BY DEF Recovered
<1>1. CASE m \in InStream
  <2>1. last[m] \in Amounts
    BY <1>1 DEF InStream, Types
  <2>2. /\ apply_wallet_snapshot(None, last[m]) \in {None} \cup PositionState
        /\ apply_wallet_snapshot(None, last[m]) # None
             => apply_wallet_snapshot(None, last[m]).bal = last[m]
    BY <2>1, ReducerTyped
  <2>3. Recovered[m] = apply_wallet_snapshot(None, last[m])
    BY <1>1 DEF Recovered
  <2> QED  BY <2>1, <2>2, <2>3 DEF Amounts
<1>2. CASE m \notin InStream
  BY <1>2 DEF Recovered
<1> QED  BY <1>1, <1>2

\* The KV worker and a restart keep the types.
LEMMA PublisherTypes ==
    ASSUME Types,
           \/ \E t \in Tasks : enqueue(t)
           \/ \E D : Publish(D)
           \/ \E D \in SUBSET Mints : Restart(D)
    PROVE  Types'
<1>0. MaxBal \in Nat /\ MaxTrades \in Nat /\ MaxFaults \in Nat
  BY AuthorityConstants
<1>1. ASSUME NEW t \in Tasks, enqueue(t) PROVE Types'
  <2>1. held[t] \in SUBSET ChangeType
    BY DEF Types
  <2>2. queue' \in Seq(SUBSET ChangeType)
    BY <1>1, <2>1 DEF enqueue, Types
  <2>3. held' \in [Tasks -> SUBSET ChangeType]
    BY <1>1 DEF enqueue, Types
  <2> QED  BY <1>1, <2>2, <2>3 DEF enqueue, Types, wallet, feed
<1>2. ASSUME NEW D, Publish(D) PROVE Types'
  <2>1. queue' \in Seq(SUBSET ChangeType)
    BY <1>2 DEF Publish, Types
  <2>2. unsynced' \subseteq Mints
    BY <1>2 DEF Publish
  <2>3. faults' \in 0 .. MaxFaults
    BY <1>0, <1>2 DEF Publish, Fault, Types
  <2> QED  BY <1>2, <2>1, <2>2, <2>3 DEF Publish, Types, wallet, feed
<1>3. ASSUME NEW D \in SUBSET Mints, Restart(D) PROVE Types'
  <2>1. by_mint' = Recovered
    BY <1>3 DEF Restart, Recovered
  <2>2. by_mint' \in [Mints -> {None} \cup PositionState]
    BY <2>1, RecoveredTyped
  <2>3. results' \subseteq ResultType /\ IsFiniteSet(results')
    BY <1>3, FS_EmptySet DEF Restart, Types
  <2>4. faults' \in 0 .. MaxFaults
    BY <1>0, <1>3 DEF Restart, Fault, Types
  <2>5. held' \in [Tasks -> SUBSET ChangeType] /\ queue' \in Seq(SUBSET ChangeType)
    BY <1>3 DEF Restart
  <2>6. unsynced' \subseteq Mints
    BY <1>3 DEF Restart
  <2> QED  BY <1>3, <2>2, <2>3, <2>4, <2>5, <2>6 DEF Restart, Types, wallet
<1> QED  BY <1>1, <1>2, <1>3

-----------------------------------------------------------------------------
(***************************************************************************)
(* The balances: no more than the applied trades and faults account for.   *)
(***************************************************************************)
\* A position within the budget stays so when more was applied.
LEMMA BudgetGrows ==
    ASSUME NEW x \in Int, NEW y \in Int, NEW k \in Nat, x <= y
    PROVE  (x + 1) * k <= (y + 1) * k
OBVIOUS

\* One more fill is one more share of the budget.
LEMMA BudgetStep ==
    ASSUME NEW x \in Int, NEW k \in Nat
    PROVE  (x + 1) * k + k = ((x + 1) + 1) * k
OBVIOUS

\* One MaxBal is always within the budget.
LEMMA BudgetFirst ==
    ASSUME NEW x \in Nat, NEW k \in Nat
    PROVE  k <= (x + 1) * k
OBVIOUS

\* How a step that leaves the positions alone, or forgets some, counts.
LEMMA CountedKept ==
    ASSUME Types, Types', Counted, Cardinality(results)' <= trades', Applied <= Applied',
           \A m \in Mints : by_mint'[m] # None =>
              \/ by_mint[m] # None /\ by_mint'[m].bal = by_mint[m].bal
              \/ by_mint'[m].bal <= MaxBal
    PROVE  Counted'
<1>0. MaxBal \in Nat
  BY AuthorityConstants
<1>1. /\ Cardinality(results) \in Nat /\ Cardinality(results') \in Nat
      /\ trades \in Nat /\ faults \in Nat /\ trades' \in Nat /\ faults' \in Nat
  BY FS_CardinalityType DEF Types
<1>2. Applied \in Int /\ Applied' \in Nat
  BY <1>1 DEF Applied
<1>3. (Applied + 1) * MaxBal <= (Applied' + 1) * MaxBal
  BY <1>0, <1>2, BudgetGrows
<1>4. MaxBal <= (Applied' + 1) * MaxBal
  BY <1>0, <1>2, BudgetFirst
<1>5. ASSUME NEW m \in Mints, by_mint'[m] # None
      PROVE  by_mint'[m].bal <= (Applied' + 1) * MaxBal
  <2>1. by_mint'[m].bal \in Nat
    BY <1>5 DEF Types, PositionState
  <2>2. (Applied' + 1) * MaxBal \in Int /\ (Applied + 1) * MaxBal \in Int
    BY <1>0, <1>2
  <2>3. CASE by_mint[m] # None /\ by_mint'[m].bal = by_mint[m].bal
    <3>1. by_mint[m].bal <= (Applied + 1) * MaxBal
      BY <2>3 DEF Counted
    <3> HIDE DEF Applied
    <3> QED  BY <1>3, <2>1, <2>2, <2>3, <3>1
  <2>4. CASE by_mint'[m].bal <= MaxBal
    BY <1>0, <1>4, <2>1, <2>2, <2>4
  <2> QED  BY <1>5, <2>3, <2>4
<1> QED  BY <1>5 DEF Counted

\* Every step keeps the balances within what was traded.
LEMMA NextCounted == Types /\ Counted /\ Types' /\ [Next]_vars => Counted'
<1> SUFFICES ASSUME Types, Counted, Types', [Next]_vars PROVE Counted'
  OBVIOUS
<1>0. MaxBal \in Nat /\ None \notin PositionState
  BY AuthorityConstants
<1>a. /\ Cardinality(results) \in Nat /\ Cardinality(results') \in Nat
      /\ trades \in Nat /\ faults \in Nat /\ trades' \in Nat /\ faults' \in Nat
      /\ IsFiniteSet(results) /\ Cardinality(results) <= trades
  BY FS_CardinalityType DEF Types, Counted
<1>1. ASSUME NEW m \in Mints, NEW b \in 0 .. MaxBal, NEW ours \in BOOLEAN,
             NEW reported \in BOOLEAN, WalletChange(m, b, ours, reported)
      PROVE  Counted'
  <2> DEFINE r == [id |-> trades, mint |-> m, old |-> chain[m], new |-> b]
  <2>1. results' = results \/ results' = results \cup {r}
    BY <1>1 DEF WalletChange
  <2>2. Cardinality(results \cup {r}) <= Cardinality(results) + 1
    BY <1>a, FS_AddElement
  <2> HIDE DEF r
  <2>3. Cardinality(results') <= Cardinality(results) + 1
    BY <1>a, <2>1, <2>2
  <2>4. trades' = trades + 1 /\ faults' = faults /\ by_mint' = by_mint
    BY <1>1 DEF WalletChange, book
  <2>5. Cardinality(results)' <= trades' /\ Applied <= Applied'
    BY <1>a, <2>3, <2>4 DEF Applied
  <2> QED  BY <2>4, <2>5, CountedKept
<1>2. CASE \/ PeriodicScan \/ SkipSuperseded \/ UNCHANGED vars \/ LoseComplete
           \/ \E D : Publish(D) 
           \/ \E t \in Tasks : enqueue(t)
  <2>1. results' = results /\ trades' = trades /\ by_mint' = by_mint
    BY <1>2 DEF PeriodicScan, SkipSuperseded, LoseComplete, Publish, enqueue, vars, wallet, book
  <2>2. faults' = faults \/ faults' = faults + 1
    BY <1>2 DEF PeriodicScan, SkipSuperseded, LoseComplete, Publish, enqueue, vars, Fault
  <2>3. Cardinality(results)' <= trades' /\ Applied <= Applied'
    BY <1>a, <2>1, <2>2 DEF Applied
  <2> QED  BY <2>1, <2>3, CountedKept
<1>3. ASSUME NEW r \in results, NEW acked \in BOOLEAN, ApplyResult(r, acked) PROVE Counted'
  <2>1. /\ r.mint \in Mints /\ ResultOf(r) \in PositionState
        /\ ResultOf(r).bal <= BalOf(by_mint[r.mint]) + MaxBal
    BY ResultTyped
  <2>2. by_mint' = [by_mint EXCEPT ![r.mint] = ResultOf(r)] /\ trades' = trades
    BY <1>3 DEF ApplyResult, ResultOf, wallet
  <2>3. /\ Cardinality(results') <= Cardinality(results)
        /\ Applied' = Applied + 1
    <3>1. Cardinality(results \ {r}) = Cardinality(results) - 1
      BY <1>a, FS_RemoveElement
    <3>2. \/ results' = results \ {r} /\ faults' = faults
          \/ results' = results /\ Fault
      BY <1>3 DEF ApplyResult
    <3>3. CASE results' = results \ {r} /\ faults' = faults
      BY <1>a, <2>2, <3>1, <3>3 DEF Applied
    <3>4. CASE results' = results /\ Fault
      BY <1>a, <2>2, <3>4 DEF Applied, Fault
    <3> QED  BY <3>2, <3>3, <3>4
  <2>4. Cardinality(results') <= trades' /\ Applied \in Nat
    BY <1>a, <2>2, <2>3 DEF Applied
  <2>5. ASSUME NEW m \in Mints, by_mint'[m] # None
        PROVE  by_mint'[m].bal <= (Applied' + 1) * MaxBal
    <3> HIDE DEF Applied
    <3>1. (Applied + 1) * MaxBal + MaxBal = (Applied' + 1) * MaxBal
      BY <1>0, <2>3, <2>4, BudgetStep
    <3>2. /\ (Applied + 1) * MaxBal \in Int /\ (Applied' + 1) * MaxBal \in Int
          /\ 0 <= (Applied + 1) * MaxBal
      BY <1>0, <2>3, <2>4, BudgetFirst
    <3>3. CASE m = r.mint
      <4>1. BalOf(by_mint[m]) \in Nat /\ BalOf(by_mint[m]) <= (Applied + 1) * MaxBal
        <5>1. CASE by_mint[m] = None
          BY <3>2, <5>1 DEF BalOf
        <5>2. CASE by_mint[m] # None
          BY <5>2 DEF BalOf, Counted, Types, PositionState
        <5> QED  BY <5>1, <5>2
      <4>2. ResultOf(r).bal \in Nat
        BY <2>1 DEF PositionState
      <4>3. by_mint'[m] = ResultOf(r)
        BY <2>1, <2>2, <3>3 DEF Types
      <4> QED  BY <1>0, <2>1, <3>1, <3>2, <3>3, <4>1, <4>2, <4>3
    <3>4. CASE m # r.mint
      <4>1. by_mint'[m] = by_mint[m]
        BY <2>1, <2>2, <3>4 DEF Types
      <4>2. by_mint[m].bal \in Nat /\ by_mint[m].bal <= (Applied + 1) * MaxBal
        BY <2>5, <4>1 DEF Counted, Types, PositionState
      <4> QED  BY <1>0, <3>1, <3>2, <4>1, <4>2
    <3> QED  BY <3>3, <3>4
  <2> QED  BY <2>4, <2>5 DEF Counted
<1>4. CASE ApplySnapshot
  <2> DEFINE m == Head(stream).mint
             p == apply_wallet_snapshot(by_mint[m], Head(stream).bal)
  <2>1. Head(stream) \in EventType
    BY <1>4 DEF ApplySnapshot, Types
  <2>2. m \in Mints /\ Head(stream).bal \in Amounts
    BY <2>1 DEF EventType
  <2>3. p # None => p.bal <= MaxBal
    <3>1. p # None => p.bal = Head(stream).bal
      BY <2>2, ReducerTyped DEF Types
    <3> QED  BY <2>2, <3>1 DEF Amounts
  <2>4. by_mint' = [by_mint EXCEPT ![m] = p]
    BY <1>4 DEF ApplySnapshot
  <2> HIDE DEF m, p
  <2>5. \A n \in Mints : by_mint'[n] = IF n = m THEN p ELSE by_mint[n]
    BY <2>2, <2>4 DEF Types
  <2>6. results' = results /\ trades' = trades /\ faults' = faults
    BY <1>4 DEF ApplySnapshot, wallet
  <2>7. Cardinality(results)' <= trades' /\ Applied <= Applied'
    BY <1>a, <2>6 DEF Applied
  <2> QED  BY <2>3, <2>5, <2>7, CountedKept
<1>5. CASE ApplyComplete
  <2>1. \A m \in Mints : by_mint'[m] # None => by_mint'[m] = by_mint[m]
    BY <1>5 DEF ApplyComplete
  <2>2. results' = results /\ trades' = trades /\ faults' = faults
    BY <1>5 DEF ApplyComplete, wallet
  <2>3. Cardinality(results)' <= trades' /\ Applied <= Applied'
    BY <1>a, <2>2 DEF Applied
  <2> QED  BY <2>1, <2>3, CountedKept
<1>6. ASSUME NEW n \in Mints, GraceExpires(n) PROVE Counted'
  <2>1. by_mint' = [by_mint EXCEPT ![n] = [by_mint[n] EXCEPT !.recent = FALSE]]
    BY <1>6 DEF GraceExpires, Types
  <2>2. [by_mint[n] EXCEPT !.recent = FALSE].bal = by_mint[n].bal /\ by_mint[n] # None
    BY <1>6 DEF GraceExpires, Types, PositionState
  <2>3. \A m \in Mints : by_mint'[m] # None =>
                           by_mint[m] # None /\ by_mint'[m].bal = by_mint[m].bal
    BY <2>1, <2>2 DEF Types
  <2>4. results' = results /\ trades' = trades /\ faults' = faults
    BY <1>6 DEF GraceExpires, wallet
  <2>5. Cardinality(results)' <= trades' /\ Applied <= Applied'
    BY <1>a, <2>4 DEF Applied
  <2> QED  BY <2>3, <2>5, CountedKept
<1>7. ASSUME NEW D \in SUBSET Mints, Restart(D) PROVE Counted'
  <2>1. by_mint' = Recovered
    BY <1>7 DEF Restart, Recovered
  <2>2. \A m \in Mints : by_mint'[m] # None => by_mint'[m].bal <= MaxBal
    BY <2>1, RecoveredTyped
  <2>3. trades' = trades /\ faults' = faults + 1 /\ (results' = {} \/ results' = results)
    BY <1>7 DEF Restart, Fault, wallet
  <2>4. Cardinality(results') <= Cardinality(results)
    BY <1>a, <2>3, FS_EmptySet
  <2>5. Cardinality(results)' <= trades' /\ Applied <= Applied'
    BY <1>a, <2>3, <2>4 DEF Applied
  <2> QED  BY <2>2, <2>5, CountedKept
<1> QED
  BY <1>1, <1>2, <1>3, <1>4, <1>5, <1>6, <1>7
  DEF Next, WalletTask, MainTask, DrainResults, Tasks

-----------------------------------------------------------------------------
(***************************************************************************)
(* The bucket mirrors the reducer of the engine.                           *)
(***************************************************************************)
\* One critical section of the engine: whatever changes in the reducer is
\* said by the batch appended in the same step, and the batch says what the
\* reducer now holds.
LEMMA EmitMirrors ==
    ASSUME Types, Mirror, host = "engine", host' = host, kv' = kv, unsynced' = unsynced,
           NEW t \in Tasks, NEW ch \in SUBSET ChangeType, Emit(t, ch),
           \A m \in Mints :
              /\ \A c \in ch : c.mint = m => c.val = to_snapshot(by_mint'[m])
              /\ (\A c \in ch : c.mint # m) => to_snapshot(by_mint'[m]) = to_snapshot(by_mint[m])
    PROVE  Mirror'
<1>0. queue \in Seq(SUBSET ChangeType) /\ Len(queue) \in Nat
  BY DEF Types
<1>1. held' = held /\ queue' = IF ch = {} THEN queue ELSE Append(queue, ch)
  BY DEF Emit
<1>2. \A u \in Tasks : held'[u] = {}
  BY <1>1 DEF Mirror
<1>3. ASSUME NEW m \in Mints
      PROVE  /\ \A i \in 1 .. Len(queue') :
                  Silent(m, i)' =>
                    \A c \in queue'[i] : c.mint = m => c.val = to_snapshot(by_mint'[m])
             /\ Silent(m, 0)' => m \in unsynced \/ kv[m] = to_snapshot(by_mint'[m])
  <2>1. /\ \A i \in 1 .. Len(queue) :
             Silent(m, i) => \A c \in queue[i] : c.mint = m => c.val = to_snapshot(by_mint[m])
        /\ Silent(m, 0) => m \in unsynced \/ kv[m] = to_snapshot(by_mint[m])
    BY DEF Mirror
  <2>2. CASE ch = {}
    <3>1. queue' = queue /\ to_snapshot(by_mint'[m]) = to_snapshot(by_mint[m])
      BY <1>1, <2>2
    <3>2. \A i : Silent(m, i)' <=> Silent(m, i)
      BY <3>1 DEF Silent
    <3> QED  BY <2>1, <3>1, <3>2
  <2>3. CASE ch # {}
    <3> DEFINE n == Len(queue)
    <3>1. /\ queue' = Append(queue, ch) /\ Len(queue') = n + 1 /\ queue'[n + 1] = ch
          /\ \A j \in 1 .. n : queue'[j] = queue[j]
      BY <1>0, <1>1, <2>3
    <3>2. ASSUME NEW i \in 0 .. n, Silent(m, i)'
          PROVE  Silent(m, i) /\ \A c \in ch : c.mint # m
      <4>1. n + 1 \in i + 1 .. Len(queue')
        BY <1>0, <3>1
      <4>2. \A c \in ch : c.mint # m
        BY <3>1, <3>2, <4>1 DEF Silent
      <4>3. \A j \in i + 1 .. n : j \in 1 .. n /\ j \in i + 1 .. Len(queue')
        BY <1>0, <3>1
      <4>4. Silent(m, i)
        BY <3>1, <3>2, <4>3 DEF Silent
      <4> QED  BY <4>2, <4>4
    <3>3. ASSUME NEW i \in 1 .. Len(queue'), Silent(m, i)', NEW c \in queue'[i], c.mint = m
          PROVE  c.val = to_snapshot(by_mint'[m])
      <4>1. CASE i = n + 1
        BY <3>1, <3>3, <4>1
      <4>2. CASE i # n + 1
        <5>1. i \in 1 .. n /\ i \in 0 .. n
          BY <1>0, <3>1, <4>2
        <5>2. Silent(m, i) /\ to_snapshot(by_mint'[m]) = to_snapshot(by_mint[m])
          BY <3>2, <3>3, <5>1
        <5> QED  BY <2>1, <3>1, <3>3, <5>1, <5>2
      <4> QED  BY <4>1, <4>2
    <3>4. ASSUME Silent(m, 0)' PROVE m \in unsynced \/ kv[m] = to_snapshot(by_mint'[m])
      <4>1. 0 \in 0 .. n
        BY <1>0
      <4>2. Silent(m, 0) /\ to_snapshot(by_mint'[m]) = to_snapshot(by_mint[m])
        BY <3>2, <3>4, <4>1
      <4> QED  BY <2>1, <4>2
    <3> QED  BY <3>3, <3>4
  <2> QED  BY <2>2, <2>3
<1> QED  BY <1>2, <1>3 DEF Mirror

\* The worker takes the first batch: what it writes is the reducer's state
\* unless a later batch speaks of the same mint.
LEMMA PublishMirrors ==
    ASSUME Types, Mirror, host = "engine", NEW D, Publish(D)
    PROVE  Mirror'
<1>0. queue \in Seq(SUBSET ChangeType) /\ Len(queue) \in Nat /\ queue # <<>>
  BY DEF Types, Publish
<1>1. /\ queue' = Tail(queue) /\ Len(queue') = Len(queue) - 1 /\ Len(queue) >= 1
      /\ Head(queue) = queue[1]
      /\ \A j \in 1 .. Len(queue') : queue'[j] = queue[j + 1]
  BY <1>0 DEF Publish
<1>2. /\ D \subseteq queue[1] /\ host' = host /\ by_mint' = by_mint /\ held' = held
  BY <1>1 DEF Publish
<1> DEFINE done == queue[1] \ D
<1>3. ASSUME NEW m \in Mints, NEW i \in 0 .. Len(queue')
      PROVE  Silent(m, i)' <=> Silent(m, i + 1)
  <2>1. ASSUME Silent(m, i)', NEW j \in i + 2 .. Len(queue) PROVE \A c \in queue[j] : c.mint # m
    <3>1. j - 1 \in i + 1 .. Len(queue') /\ j - 1 \in 1 .. Len(queue') /\ (j - 1) + 1 = j
      BY <1>0, <1>1
    <3>2. queue'[j - 1] = queue[j]
      BY <1>1, <3>1
    <3> QED  BY <2>1, <3>1, <3>2 DEF Silent
  <2>2. ASSUME Silent(m, i + 1), NEW j \in i + 1 .. Len(queue')
        PROVE  \A c \in queue'[j] : c.mint # m
    <3>1. j + 1 \in (i + 1) + 1 .. Len(queue) /\ j \in 1 .. Len(queue')
      BY <1>0, <1>1
    <3>2. queue'[j] = queue[j + 1]
      BY <1>1, <3>1
    <3> QED  BY <2>2, <3>1, <3>2 DEF Silent
  <2>3. (i + 1) + 1 = i + 2
    OBVIOUS
  <2> QED  BY <2>1, <2>2, <2>3 DEF Silent
<1>4. ASSUME NEW m \in Mints, NEW i \in 1 .. Len(queue'), Silent(m, i)',
             NEW c \in queue'[i], c.mint = m
      PROVE  c.val = to_snapshot(by_mint'[m])
  <2>1. i + 1 \in 1 .. Len(queue) /\ i \in 0 .. Len(queue') /\ queue'[i] = queue[i + 1]
    BY <1>0, <1>1
  <2>2. Silent(m, i + 1)
    BY <1>3, <1>4, <2>1
  <2> QED  BY <1>2, <1>4, <2>1, <2>2 DEF Mirror
<1>5. ASSUME NEW m \in Mints, Silent(m, 0)'
      PROVE  m \in unsynced' \/ kv'[m] = to_snapshot(by_mint'[m])
  <2> DEFINE Of(C) == \E c \in C : c.mint = m
             Val(C) == (CHOOSE c \in C : c.mint = m).val
  <2>1. /\ kv'[m] = IF Of(done) THEN Val(done) ELSE kv[m]
        /\ m \in unsynced' <=> (Of(D) \/ (m \in unsynced /\ ~Of(done)))
    BY <1>1 DEF Publish
  <2>2. 0 \in 0 .. Len(queue') /\ 1 \in 1 .. Len(queue) /\ 0 + 1 = 1
    BY <1>0, <1>1
  <2>3. Silent(m, 1)
    <3>1. Silent(m, 0 + 1)
      BY <1>3, <1>5, <2>2
    <3> QED  BY <2>2, <3>1
  <2>4. \A c \in queue[1] : c.mint = m => c.val = to_snapshot(by_mint[m])
    BY <2>2, <2>3 DEF Mirror
  <2>5. CASE Of(done)
    <3>1. Val(done) = to_snapshot(by_mint[m])
      <4>1. PICK c \in done : c = (CHOOSE d \in done : d.mint = m) /\ c.mint = m
        BY <2>5
      <4> QED  BY <2>4, <4>1
    <3> QED  BY <1>2, <2>1, <2>5, <3>1
  <2>6. CASE ~Of(done) /\ Of(D)
    BY <2>1, <2>6
  <2>7. CASE ~Of(done) /\ ~Of(D)
    <3>1. \A c \in queue[1] : c.mint # m
      BY <2>7
    <3>2. Silent(m, 0)
      <4> SUFFICES ASSUME NEW j \in 0 + 1 .. Len(queue) PROVE \A c \in queue[j] : c.mint # m
        BY DEF Silent
      <4>1. j = 1 \/ j \in 1 + 1 .. Len(queue)
        BY <1>0
      <4> QED  BY <2>3, <3>1, <4>1 DEF Silent
    <3>3. m \in unsynced \/ kv[m] = to_snapshot(by_mint[m])
      BY <3>2 DEF Mirror
    <3> QED  BY <1>2, <2>1, <2>7, <3>3
  <2> QED  BY <2>5, <2>6, <2>7
<1>6. \A t \in Tasks : held'[t] = {}
  BY <1>2 DEF Mirror
<1> QED  BY <1>4, <1>5, <1>6 DEF Mirror

\* Every step keeps the bucket and its queue in line with the reducer.
LEMMA NextMirror == Types /\ Mirror /\ [Next]_vars => Mirror'
<1> SUFFICES ASSUME Types, Mirror, [Next]_vars PROVE Mirror'
  OBVIOUS
<1>h. host' = host
  BY DEF Next, WalletTask, MainTask, DrainResults, WalletChange, PeriodicScan, LoseComplete,
         SkipSuperseded, ApplyResult, ApplySnapshot, ApplyComplete, GraceExpires, enqueue,
         Publish, Restart, vars
<1> SUFFICES ASSUME host = "engine" PROVE Mirror'
  BY <1>h DEF Mirror
<1>0. None \notin PositionState /\ "main" \in Tasks /\ "wallet" \in Tasks
  BY AuthorityConstants DEF Tasks
<1>t. by_mint \in [Mints -> {None} \cup PositionState]
  BY DEF Types
<1>1. ASSUME UNCHANGED book PROVE Mirror'
  BY <1>1, <1>h DEF Mirror, Silent, book
<1>2. ASSUME NEW r \in results, NEW acked \in BOOLEAN, ApplyResult(r, acked) PROVE Mirror'
  <2> DEFINE p == ResultOf(r)
  <2>1. r.mint \in Mints /\ p \in PositionState
    BY ResultTyped
  <2>2. /\ by_mint' = [by_mint EXCEPT ![r.mint] = p] /\ Emit("main", {Change(r.mint, p)})
        /\ kv' = kv /\ unsynced' = unsynced
    BY <1>2 DEF ApplyResult, ResultOf
  <2>3. {Change(r.mint, p)} \in SUBSET ChangeType
    BY <2>1, ChangeTyped
  <2> HIDE DEF p
  <2>4. \A m \in Mints : by_mint'[m] = IF m = r.mint THEN p ELSE by_mint[m]
    BY <1>t, <2>1, <2>2
  <2>5. Change(r.mint, p).mint = r.mint /\ Change(r.mint, p).val = to_snapshot(p)
    BY DEF Change
  <2>6. \A m \in Mints :
          /\ \A c \in {Change(r.mint, p)} : c.mint = m => c.val = to_snapshot(by_mint'[m])
          /\ (\A c \in {Change(r.mint, p)} : c.mint # m)
               => to_snapshot(by_mint'[m]) = to_snapshot(by_mint[m])
    BY <2>4, <2>5
  <2> QED  BY <1>0, <1>h, <2>2, <2>3, <2>6, EmitMirrors
<1>3. CASE ApplySnapshot
  <2> DEFINE n == Head(stream).mint
             p == apply_wallet_snapshot(by_mint[n], Head(stream).bal)
  <2>1. Head(stream) \in EventType
    BY <1>3 DEF ApplySnapshot, Types
  <2>2. n \in Mints /\ Head(stream).bal \in Amounts
    BY <2>1 DEF EventType
  <2>3. p \in {None} \cup PositionState
    BY <1>t, <2>2, ReducerTyped
  <2>4. /\ by_mint' = [by_mint EXCEPT ![n] = p] /\ Emit("wallet", {Change(n, p)})
        /\ kv' = kv /\ unsynced' = unsynced
    BY <1>3 DEF ApplySnapshot
  <2>5. {Change(n, p)} \in SUBSET ChangeType
    BY <2>2, <2>3, ChangeTyped
  <2> HIDE DEF n, p
  <2>6. \A m \in Mints : by_mint'[m] = IF m = n THEN p ELSE by_mint[m]
    BY <1>t, <2>2, <2>4
  <2>7. Change(n, p).mint = n /\ Change(n, p).val = to_snapshot(p)
    BY DEF Change
  <2>8. \A m \in Mints :
          /\ \A c \in {Change(n, p)} : c.mint = m => c.val = to_snapshot(by_mint'[m])
          /\ (\A c \in {Change(n, p)} : c.mint # m)
               => to_snapshot(by_mint'[m]) = to_snapshot(by_mint[m])
    BY <2>6, <2>7
  <2> QED  BY <1>0, <1>h, <2>4, <2>5, <2>8, EmitMirrors
<1>4. CASE ApplyComplete
  <2> DEFINE G == Ghosts(complete)
             ch == {Change(m, None) : m \in G}
  <2>1. G \subseteq Mints
    BY DEF Ghosts
  <2>2. ch \in SUBSET ChangeType
    BY <2>1, ChangeTyped
  <2>3. /\ Emit("main", ch) /\ kv' = kv /\ unsynced' = unsynced
        /\ \A m \in Mints : by_mint'[m] = IF m \in G THEN None ELSE by_mint[m]
    BY <1>4 DEF ApplyComplete
  <2> HIDE DEF G
  <2>4. \A m \in Mints : Change(m, None).mint = m /\ Change(m, None).val = to_snapshot(None)
    BY DEF Change
  <2>5. \A m \in Mints :
          /\ \A c \in ch : c.mint = m => c.val = to_snapshot(by_mint'[m])
          /\ (\A c \in ch : c.mint # m) => to_snapshot(by_mint'[m]) = to_snapshot(by_mint[m])
    BY <2>1, <2>3, <2>4
  <2> HIDE DEF ch
  <2> QED  BY <1>0, <1>h, <2>2, <2>3, <2>5, EmitMirrors
<1>5. ASSUME NEW n \in Mints, GraceExpires(n) PROVE Mirror'
  <2> DEFINE q == [by_mint[n] EXCEPT !.recent = FALSE]
  <2>1. by_mint' = [by_mint EXCEPT ![n] = q] /\ by_mint[n] \in PositionState
    BY <1>5, <1>t DEF GraceExpires
  <2>2. to_snapshot(q) = to_snapshot(by_mint[n])
    <3>1. q \in PositionState /\ q.bal = by_mint[n].bal /\ q.status = by_mint[n].status
      BY <2>1 DEF PositionState
    <3> HIDE DEF q
    <3> QED  BY <1>0, <2>1, <3>1 DEF to_snapshot
  <2> HIDE DEF q
  <2>3. \A m \in Mints : to_snapshot(by_mint'[m]) = to_snapshot(by_mint[m])
    BY <1>t, <2>1, <2>2
  <2>4. UNCHANGED <<held, queue, kv, unsynced>>
    BY <1>5 DEF GraceExpires
  <2> QED  BY <1>h, <2>3, <2>4 DEF Mirror, Silent
<1>6. ASSUME NEW t \in Tasks, enqueue(t) PROVE Mirror'
  BY <1>6 DEF enqueue, Mirror
<1>7. ASSUME NEW D, Publish(D) PROVE Mirror'
  BY <1>7, PublishMirrors
<1>8. ASSUME NEW D \in SUBSET Mints, Restart(D) PROVE Mirror'
  <2>1. /\ \A t \in Tasks : held'[t] = {}
        /\ queue' = <<>> /\ unsynced' = (Mints \ InStream) \cup D
        /\ \A m \in InStream \ D : kv'[m] = to_snapshot(by_mint'[m])
    BY <1>8 DEF Restart, InStream
  <2>2. Len(queue') = 0
    BY <2>1
  <2>3. \A m \in Mints : m \in unsynced' \/ kv'[m] = to_snapshot(by_mint'[m])
    BY <2>1
  <2> QED  BY <2>1, <2>2, <2>3 DEF Mirror
<1>9. CASE \/ \E m \in Mints, b \in 0 .. MaxBal, ours, reported \in BOOLEAN :
                WalletChange(m, b, ours, reported)
           \/ PeriodicScan \/ LoseComplete \/ SkipSuperseded \/ UNCHANGED vars
  <2>1. UNCHANGED book
    BY <1>9 DEF WalletChange, PeriodicScan, LoseComplete, SkipSuperseded, vars
  <2> QED  BY <1>1, <2>1
<1> QED
  BY <1>2, <1>3, <1>4, <1>5, <1>6, <1>7, <1>8, <1>9
  DEF Next, WalletTask, MainTask, DrainResults, Tasks

-----------------------------------------------------------------------------
\* Initially the invariant holds.
LEMMA InitIInv == Init => IInv
<1> SUFFICES ASSUME Init PROVE IInv
  OBVIOUS
<1>1. Types
  BY InitTypes
<1>2. Counted
  BY FS_EmptySet DEF Init, Counted
<1>3. Mirror
  <2>1. queue = <<>> /\ Len(queue) = 0
    BY DEF Init
  <2> QED  BY <2>1 DEF Init, Mirror, to_snapshot
<1> QED  BY <1>1, <1>2, <1>3 DEF IInv

\* Every step keeps the invariant.
LEMMA NextIInv == IInv /\ [Next]_vars => IInv'
<1> SUFFICES ASSUME IInv, [Next]_vars PROVE IInv'
  OBVIOUS
<1>0. Types /\ Counted /\ Mirror
  BY DEF IInv
<1>1. Types'
  <2>1. CASE UNCHANGED vars
    BY <1>0, <2>1 DEF vars, wallet, feed, book, Types
  <2>2. CASE Next
    BY <1>0, <2>2, WalletChangeTypes, FeedTypes, ReducerTypes, PublisherTypes
    DEF Next, WalletTask, MainTask, DrainResults, Tasks
  <2> QED  BY <2>1, <2>2
<1> QED  BY <1>0, <1>1, NextCounted, NextMirror DEF IInv

\* For any wallet, and however often results are redelivered, lost with the
\* process or overtaken by snapshots: the reducer's state is typed, no sale
\* takes a balance below zero (apply_sell) and no balance exceeds what the
\* trades and the redeliveries account for.
THEOREM ReducerTypeCorrect == Spec => []TypeOK
<1>1. IInv => TypeOK
  <2> SUFFICES ASSUME IInv PROVE TypeOK
    OBVIOUS
  <2>0. MaxBal \in Nat /\ MaxTrades \in Nat /\ MaxFaults \in Nat
    BY AuthorityConstants
  <2>1. Types /\ Counted
    BY DEF IInv
  <2>2. ASSUME NEW m \in Mints, by_mint[m] # None
        PROVE  by_mint[m].bal \in 0 .. (MaxTrades + MaxFaults + 1) * MaxBal
    <3>1. by_mint[m].bal \in Nat /\ by_mint[m].bal <= (Applied + 1) * MaxBal
      BY <2>1, <2>2 DEF Types, Counted, PositionState
    <3>2. Cardinality(results) \in Nat
      BY <2>1, FS_CardinalityType DEF Types
    <3>3. Applied \in Int /\ Applied <= MaxTrades + MaxFaults
      BY <2>0, <2>1, <3>2 DEF Types, Applied
    <3>4. (Applied + 1) * MaxBal <= ((MaxTrades + MaxFaults) + 1) * MaxBal
      BY <2>0, <3>3, BudgetGrows
    <3> HIDE DEF Applied
    <3>5. (Applied + 1) * MaxBal \in Int /\ (MaxTrades + MaxFaults + 1) * MaxBal \in Int
      BY <2>0, <3>3
    <3> QED  BY <2>0, <3>1, <3>4, <3>5
  <2>3. \A m \in Mints : by_mint[m] # None =>
            by_mint[m].status \in Statuses /\ by_mint[m].recent \in BOOLEAN
    BY <2>1 DEF Types, PositionState
  <2> QED  BY <2>1, <2>2, <2>3 DEF TypeOK, Types, Amounts
<1> QED  BY <1>1, InitIInv, NextIInv, PTL DEF Spec

\* For every set of mints and every length of the queue: with the enqueue
\* inside the critical section (execution-engine), a drained queue leaves the
\* bucket equal to the reducer, except where the last write failed.
THEOREM KvMirrorsReducer == Spec => []KvFollows
<1>1. IInv => KvFollows
  <2> SUFFICES ASSUME IInv, host = "engine", queue = <<>>, NEW m \in Mints \ unsynced
               PROVE  kv[m] = to_snapshot(by_mint[m])
    BY DEF KvFollows
  <2>1. Silent(m, 0)
    BY DEF Silent
  <2> QED  BY <2>1 DEF IInv, Mirror
<1> QED  BY <1>1, InitIInv, NextIInv, PTL DEF Spec
=============================================================================
