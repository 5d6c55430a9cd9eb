------------------------- MODULE CapitalLocksProofs -------------------------
(* Theorems about CapitalLocks, for every set of intents and every demand.   *)
EXTENDS CapitalLocks, FiniteSetTheorems, TLAPS

(***************************************************************************)
(* Lemmas on Sum.                                                          *)
(***************************************************************************)

\* The units of a lamport assignment form a finite set, so Sum is a natural.
LEMMA UnitsFinite ==
    ASSUME NEW f \in [Intents -> Nat]
    PROVE  IsFiniteSet(Units(f)) /\ Sum(f) \in Nat
<1> DEFINE F == [i \in Intents |-> {i} \X (1 .. f[i])]
           T == {{i} \X (1 .. f[i]) : i \in Intents}
<1>1. F \in Surjection(Intents, T)
  BY DEF Surjection
<1>2. IsFiniteSet(T)
  BY <1>1, IntentsFinite, FS_Surjection
<1>3. \A U \in T : IsFiniteSet(U)
  <2> SUFFICES ASSUME NEW i \in Intents
               PROVE  IsFiniteSet({i} \X (1 .. f[i]))
    OBVIOUS
  <2>1. IsFiniteSet({i})
    BY FS_Singleton
  <2>2. f[i] \in Int /\ 1 \in Int
    OBVIOUS
  <2>3. IsFiniteSet(1 .. f[i])
    BY <2>2, FS_Interval
  <2> QED  BY <2>1, <2>3, FS_Product
<1>4. IsFiniteSet(UNION T)
  BY <1>2, <1>3, FS_UNION
<1> QED  BY <1>4, FS_CardinalityType DEF Units, Sum

\* Membership in Units, element by element.
LEMMA UnitsMember ==
    ASSUME NEW f \in [Intents -> Nat], NEW u
    PROVE  u \in Units(f) <=> \E i \in Intents : \E k \in 1 .. f[i] : u = <<i, k>>
<1>1. u \in Units(f) <=> \E i \in Intents : u \in {i} \X (1 .. f[i])
  BY Zenon DEF Units
<1>2. \A i \in Intents : u \in {i} \X (1 .. f[i]) <=> \E k \in 1 .. f[i] : u = <<i, k>>
  OBVIOUS
<1> QED  BY <1>1, <1>2, Zenon

\* A sum is the sum over S plus the sum over the rest.
LEMMA SumSplit ==
    ASSUME NEW f \in [Intents -> Nat], NEW S \in SUBSET Intents
    PROVE  Sum(f) = Sum(Only(f, S)) + Sum(Only(f, Intents \ S))
<1> DEFINE A == Units(Only(f, S))
           B == Units(Only(f, Intents \ S))
<1>0. Only(f, S) \in [Intents -> Nat]
  BY DEF Only
<1>1. Only(f, Intents \ S) \in [Intents -> Nat]
  BY DEF Only
<1>2. IsFiniteSet(A) /\ IsFiniteSet(B)
  BY <1>0, <1>1, UnitsFinite
<1>3. \A i \in Intents : 1 .. Only(f, S)[i] = IF i \in S THEN 1 .. f[i] ELSE {}
  BY DEF Only
<1>4. \A i \in Intents : 1 .. Only(f, Intents \ S)[i] = IF i \in S THEN {} ELSE 1 .. f[i]
  BY DEF Only
<1>5a. \A u : u \in A <=> \E i \in Intents : i \in S /\ \E k \in 1 .. f[i] : u = <<i, k>>
  <2> TAKE u
  <2>1. u \in A <=> \E i \in Intents : \E k \in 1 .. Only(f, S)[i] : u = <<i, k>>
    BY <1>0, UnitsMember, ZenonT(60)
  <2> QED  BY <2>1, <1>3, ZenonT(30)
<1>5b. \A u : u \in B <=> \E i \in Intents : i \notin S /\ \E k \in 1 .. f[i] : u = <<i, k>>
  <2> TAKE u
  <2>1. u \in B <=> \E i \in Intents : \E k \in 1 .. Only(f, Intents \ S)[i] : u = <<i, k>>
    BY <1>1, UnitsMember, ZenonT(60)
  <2> QED  BY <2>1, <1>4, ZenonT(30)
<1>5c. \A u : u \in Units(f) <=> \E i \in Intents : \E k \in 1 .. f[i] : u = <<i, k>>
  BY UnitsMember
<1>5. Units(f) = A \cup B
  BY <1>5a, <1>5b, <1>5c, Zenon
<1>6. A \cap B = {}
  <2> SUFFICES ASSUME NEW u \in A, u \in B PROVE FALSE
    BY Zenon
  <2>1. PICK i \in Intents : i \in S /\ \E k \in 1 .. f[i] : u = <<i, k>>
    BY <1>5a, Zenon
  <2>2. PICK j \in Intents : j \notin S /\ \E k \in 1 .. f[j] : u = <<j, k>>
    BY <1>5b, Zenon
  <2> QED  BY <2>1, <2>2
<1>7. Cardinality(A \cup B) = Cardinality(A) + Cardinality(B) - Cardinality({})
  BY <1>2, <1>6, FS_Union
<1>8. Cardinality(A) \in Nat /\ Cardinality(B) \in Nat
  BY <1>2, FS_CardinalityType
<1> QED  BY <1>5, <1>7, <1>8, FS_EmptySet DEF Sum

\* The sum over one intent is that intent's amount.
LEMMA SumSingle ==
    ASSUME NEW f \in [Intents -> Nat], NEW i \in Intents
    PROVE  Sum(Only(f, {i})) = f[i]
<1>1. \A j \in Intents : 1 .. Only(f, {i})[j] = IF j = i THEN 1 .. f[i] ELSE {}
  BY DEF Only
<1>1a. Only(f, {i}) \in [Intents -> Nat]
  BY DEF Only
<1>2. Units(Only(f, {i})) = {i} \X (1 .. f[i])
  <2> SUFFICES ASSUME NEW u
               PROVE  u \in Units(Only(f, {i})) <=> u \in {i} \X (1 .. f[i])
    BY Zenon
  <2>1. u \in Units(Only(f, {i})) <=>
          \E j \in Intents : \E k \in 1 .. Only(f, {i})[j] : u = <<j, k>>
    BY <1>1a, UnitsMember, ZenonT(60)
  <2>2. u \in {i} \X (1 .. f[i]) <=> \E k \in 1 .. f[i] : u = <<i, k>>
    BY SMTT(30)
  <2>3. (\E j \in Intents : \E k \in 1 .. Only(f, {i})[j] : u = <<j, k>>)
          <=> \E k \in 1 .. f[i] : u = <<i, k>>
    BY <1>1
  <2> QED  BY <2>1, <2>2, <2>3, Zenon
<1>3. IsFiniteSet({i}) /\ Cardinality({i}) = 1
  BY FS_Singleton
<1>4. IsFiniteSet(1 .. f[i]) /\ Cardinality(1 .. f[i]) = f[i]
  BY FS_Interval
<1>5. Cardinality({i} \X (1 .. f[i])) = Cardinality({i}) * Cardinality(1 .. f[i])
  BY <1>3, <1>4, FS_Product, Zenon
<1>6. Cardinality({i}) * Cardinality(1 .. f[i]) = f[i]
  BY <1>3, <1>4
<1> QED  BY <1>2, <1>5, <1>6, Zenon DEF Sum

\* Zeroing the intents of S takes exactly their amounts out of a sum.
LEMMA SumRelease ==
    ASSUME NEW f \in [Intents -> Nat], NEW g \in [Intents -> Nat],
           NEW S \in SUBSET Intents,
           \A i \in Intents : g[i] = IF i \in S THEN 0 ELSE f[i]
    PROVE  Sum(f) = Sum(g) + Sum(Only(f, S))
<1>1. g = Only(f, Intents \ S)
  BY DEF Only
<1>2. Only(f, S) \in [Intents -> Nat]
  BY DEF Only
<1> QED  BY <1>1, <1>2, SumSplit, UnitsFinite

\* Giving amount a to an intent that has none adds a to a sum.
LEMMA SumAcquire ==
    ASSUME NEW f \in [Intents -> Nat], NEW g \in [Intents -> Nat],
           NEW i \in Intents, NEW a \in Nat,
           f[i] = 0, \A j \in Intents : g[j] = IF j = i THEN a ELSE f[j]
    PROVE  Sum(g) = Sum(f) + a
<1>1. \A j \in Intents : f[j] = IF j \in {i} THEN 0 ELSE g[j]
  OBVIOUS
<1>2. {i} \in SUBSET Intents
  OBVIOUS
<1>3. Sum(g) = Sum(f) + Sum(Only(g, {i}))
  BY <1>1, <1>2, SumRelease, Zenon
<1> QED  BY <1>3, SumSingle

(***************************************************************************)
(* How the locked sums react to the three ways capital_locks changes.      *)
(***************************************************************************)

\* The amounts held by typed locks are naturals, and so are their sums.
LEMMA AmountsTyped ==
    ASSUME NEW locks \in [Intents -> CapitalLock]
    PROVE  /\ NativeOf(locks) \in [Intents -> Nat] /\ Sum(NativeOf(locks)) \in Nat
           /\ WsolOf(locks) \in [Intents -> Nat] /\ Sum(WsolOf(locks)) \in Nat
           /\ \A m \in Mints : /\ TokensOf(locks, m) \in [Intents -> Nat]
                              /\ Sum(TokensOf(locks, m)) \in Nat
<1>1. \A i \in Intents : /\ locks[i].sol_lamports \in Nat
                         /\ locks[i].tokens \in [Mints -> Nat]
  BY DEF CapitalLock
<1>2. NativeOf(locks) \in [Intents -> Nat]
  BY <1>1 DEF NativeOf
<1>3. WsolOf(locks) \in [Intents -> Nat]
  BY <1>1 DEF WsolOf
<1>4. \A m \in Mints : TokensOf(locks, m) \in [Intents -> Nat]
  BY <1>1 DEF TokensOf
<1> QED  BY <1>2, <1>3, <1>4, UnitsFinite

\* ReleaseSet takes the released amounts out of each locked sum.
LEMMA ReleaseSums ==
    ASSUME NEW locks \in [Intents -> CapitalLock], NEW S \in SUBSET Intents,
           NEW after, after = [i \in Intents |-> IF i \in S THEN NoLock ELSE locks[i]]
    PROVE  /\ after \in [Intents -> CapitalLock]
           /\ Sum(NativeOf(locks)) = Sum(NativeOf(after)) + Sum(Only(NativeOf(locks), S))
           /\ Sum(WsolOf(locks)) = Sum(WsolOf(after)) + Sum(Only(WsolOf(locks), S))
           /\ \A m \in Mints : Sum(TokensOf(locks, m))
                = Sum(TokensOf(after, m)) + Sum(Only(TokensOf(locks, m), S))
           /\ Sum(Only(NativeOf(locks), S)) \in Nat
           /\ Sum(Only(WsolOf(locks), S)) \in Nat
           /\ \A m \in Mints : Sum(Only(TokensOf(locks, m), S)) \in Nat
<1>1. after \in [Intents -> CapitalLock]
  BY DEF CapitalLock, NoLock, Phases
<1>2. /\ NativeOf(locks) \in [Intents -> Nat] /\ NativeOf(after) \in [Intents -> Nat]
      /\ WsolOf(locks) \in [Intents -> Nat] /\ WsolOf(after) \in [Intents -> Nat]
      /\ \A m \in Mints : /\ TokensOf(locks, m) \in [Intents -> Nat]
                         /\ TokensOf(after, m) \in [Intents -> Nat]
  BY <1>1, AmountsTyped
<1>3. \A i \in Intents : NativeOf(after)[i] = IF i \in S THEN 0 ELSE NativeOf(locks)[i]
  BY DEF NativeOf, NoLock
<1>4. \A i \in Intents : WsolOf(after)[i] = IF i \in S THEN 0 ELSE WsolOf(locks)[i]
  BY DEF WsolOf, NoLock
<1>5. \A m \in Mints : \A i \in Intents :
        TokensOf(after, m)[i] = IF i \in S THEN 0 ELSE TokensOf(locks, m)[i]
  BY DEF TokensOf, NoLock
<1>6. \A f \in [Intents -> Nat] : Sum(Only(f, S)) \in Nat
  <2> TAKE f \in [Intents -> Nat]
  <2>1. Only(f, S) \in [Intents -> Nat]
    BY DEF Only
  <2> QED  BY <2>1, UnitsFinite
<1>7. Sum(NativeOf(locks)) = Sum(NativeOf(after)) + Sum(Only(NativeOf(locks), S))
  BY <1>2, <1>3, SumRelease
<1>8. Sum(WsolOf(locks)) = Sum(WsolOf(after)) + Sum(Only(WsolOf(locks), S))
  BY <1>2, <1>4, SumRelease
<1>9. \A m \in Mints : Sum(TokensOf(locks, m))
        = Sum(TokensOf(after, m)) + Sum(Only(TokensOf(locks, m), S))
  BY <1>2, <1>5, SumRelease
<1> QED  BY <1>1, <1>2, <1>6, <1>7, <1>8, <1>9

\* A new lock adds its amounts to the sum of its own bucket only.
LEMMA AcquireSums ==
    ASSUME NEW locks \in [Intents -> CapitalLock], NEW i \in Intents,
           locks[i] = NoLock, NEW l \in CapitalLock,
           NEW after \in [Intents -> CapitalLock],
           after[i] = l, \A j \in Intents : j # i => after[j] = locks[j]
    PROVE  /\ Sum(NativeOf(after)) = Sum(NativeOf(locks)) +
                (IF l.reserves_trading_wsol THEN 0 ELSE l.sol_lamports)
           /\ Sum(WsolOf(after)) = Sum(WsolOf(locks)) +
                (IF l.reserves_trading_wsol THEN l.sol_lamports ELSE 0)
           /\ \A m \in Mints :
                Sum(TokensOf(after, m)) = Sum(TokensOf(locks, m)) + l.tokens[m]
<1>2. /\ NativeOf(locks) \in [Intents -> Nat] /\ NativeOf(after) \in [Intents -> Nat]
      /\ WsolOf(locks) \in [Intents -> Nat] /\ WsolOf(after) \in [Intents -> Nat]
      /\ \A m \in Mints : /\ TokensOf(locks, m) \in [Intents -> Nat]
                         /\ TokensOf(after, m) \in [Intents -> Nat]
  BY AmountsTyped
<1>3. l.sol_lamports \in Nat /\ l.reserves_trading_wsol \in BOOLEAN
      /\ l.tokens \in [Mints -> Nat]
  BY DEF CapitalLock
<1>4. PICK n \in Nat, w \in Nat :
        /\ n = IF l.reserves_trading_wsol THEN 0 ELSE l.sol_lamports
        /\ w = IF l.reserves_trading_wsol THEN l.sol_lamports ELSE 0
  BY <1>3
<1>5. /\ NativeOf(locks)[i] = 0 /\ WsolOf(locks)[i] = 0
      /\ \A m \in Mints : TokensOf(locks, m)[i] = 0
  BY DEF NativeOf, WsolOf, TokensOf, NoLock
<1>6. \A j \in Intents : NativeOf(after)[j] = IF j = i THEN n ELSE NativeOf(locks)[j]
  BY <1>4 DEF NativeOf
<1>7. \A j \in Intents : WsolOf(after)[j] = IF j = i THEN w ELSE WsolOf(locks)[j]
  BY <1>4 DEF WsolOf
<1>8. \A m \in Mints : \A j \in Intents :
        TokensOf(after, m)[j] = IF j = i THEN l.tokens[m] ELSE TokensOf(locks, m)[j]
  BY DEF TokensOf
<1>9. Sum(NativeOf(after)) = Sum(NativeOf(locks)) + n
  <2>1. NativeOf(locks) \in [Intents -> Nat]
    BY <1>2
  <2>2. NativeOf(after) \in [Intents -> Nat]
    BY <1>2
  <2>3. NativeOf(locks)[i] = 0
    BY <1>5
  <2>4. \A a \in Nat : (\A j \in Intents : NativeOf(after)[j] = IF j = i THEN a ELSE NativeOf(locks)[j])
           => Sum(NativeOf(after)) = Sum(NativeOf(locks)) + a
    BY <2>1, <2>2, <2>3, SumAcquire, SMTT(30)
  <2> QED  BY <2>4, <1>6
<1>10. Sum(WsolOf(after)) = Sum(WsolOf(locks)) + w
  <2>1. WsolOf(locks) \in [Intents -> Nat]
    BY <1>2
  <2>2. WsolOf(after) \in [Intents -> Nat]
    BY <1>2
  <2>3. WsolOf(locks)[i] = 0
    BY <1>5
  <2>4. \A a \in Nat : (\A j \in Intents : WsolOf(after)[j] = IF j = i THEN a ELSE WsolOf(locks)[j])
           => Sum(WsolOf(after)) = Sum(WsolOf(locks)) + a
    BY <2>1, <2>2, <2>3, SumAcquire, SMTT(30)
  <2> QED  BY <2>4, <1>7
<1>11. \A m \in Mints : Sum(TokensOf(after, m)) = Sum(TokensOf(locks, m)) + l.tokens[m]
  <2> TAKE m \in Mints
  <2>1. l.tokens[m] \in Nat
    BY <1>3
  <2> QED  BY <2>1, <1>2, <1>5, <1>8, SumAcquire, Zenon
<1> QED  BY <1>4, <1>9, <1>10, <1>11

\* Renewal, promotion and the passing of time leave every amount alone.
LEMMA MarkSums ==
    ASSUME NEW locks \in [Intents -> CapitalLock],
           NEW after \in [Intents -> CapitalLock],
           \A j \in Intents :
              /\ after[j].sol_lamports = locks[j].sol_lamports
              /\ after[j].reserves_trading_wsol = locks[j].reserves_trading_wsol
              /\ after[j].tokens = locks[j].tokens
    PROVE  /\ Sum(NativeOf(after)) = Sum(NativeOf(locks))
           /\ Sum(WsolOf(after)) = Sum(WsolOf(locks))
           /\ \A m \in Mints : Sum(TokensOf(after, m)) = Sum(TokensOf(locks, m))
<1>1. NativeOf(after) = NativeOf(locks)
  BY DEF NativeOf
<1>2. WsolOf(after) = WsolOf(locks)
  BY DEF WsolOf
<1>3. \A m \in Mints : TokensOf(after, m) = TokensOf(locks, m)
  BY DEF TokensOf
<1> QED  BY <1>1, <1>2, <1>3

(***************************************************************************)
(* Preservation of IInv, by kind of step.                                  *)
(***************************************************************************)

\* With the locks and the other bucket untouched the laws carry over.
LEMMA SumsTyped ==
    ASSUME TypeOK
    PROVE  /\ sum_locked_native_sol \in Nat
           /\ sum_locked_wsol_trading \in Nat
           /\ \A m \in Mints : sum_locked_tokens(m) \in Nat
BY AmountsTyped DEF TypeOK, sum_locked_native_sol, sum_locked_wsol_trading, sum_locked_tokens

\* A native report re-bases the native law: saturating_sub gives either the
\* reported balance or the reserved sum back.
LEMMA ReportSolStep ==
    ASSUME TypeOK, NEW v \in Nat, ReportSol(v), UNCHANGED capital_locks
    PROVE  NativeBooks' /\ available_sol' \in Nat /\ chain_sol' \in Nat /\ base_sol' \in Nat
<1>1. sum_locked_native_sol \in Nat
  BY SumsTyped
<1>2. sum_locked_native_sol' = sum_locked_native_sol
  BY DEF sum_locked_native_sol
<1> QED  BY <1>1, <1>2 DEF ReportSol, saturating_sub, NativeBooks, total_native_sol, Larger

\* A WSOL report re-bases the WSOL law.
LEMMA ReportWsolStep ==
    ASSUME TypeOK, NEW v \in Nat, ReportWsol(v), UNCHANGED capital_locks
    PROVE  WsolBooks' /\ available_wsol' \in Nat /\ chain_wsol' \in Nat /\ base_wsol' \in Nat
<1>1. sum_locked_wsol_trading \in Nat
  BY SumsTyped
<1>2. sum_locked_wsol_trading' = sum_locked_wsol_trading
  BY DEF sum_locked_wsol_trading
<1> QED  BY <1>1, <1>2 DEF ReportWsol, saturating_sub, WsolBooks, total_wsol_lamports, Larger

\* Releasing any set of locks (release_locks, the confirmed-SELL release and
\* cleanup_expired) keeps both lamport totals, and the token totals when
\* tokens are restored.
LEMMA ReleaseSetStep ==
    ASSUME TypeOK, NEW S \in SUBSET Intents, NEW r \in BOOLEAN, ReleaseSet(S, r)
    PROVE  /\ capital_locks' \in [Intents -> CapitalLock]
           /\ available_sol' \in Nat /\ available_wsol' \in Nat
           /\ available_tokens' \in [Mints -> Nat]
           /\ total_native_sol' = total_native_sol
           /\ total_wsol_lamports' = total_wsol_lamports
           /\ r => \A m \in Mints : total_tokens(m)' = total_tokens(m)
<1> DEFINE L == capital_locks
           M == capital_locks'
<1>1. L \in [Intents -> CapitalLock] /\ available_sol \in Nat /\ available_wsol \in Nat
      /\ available_tokens \in [Mints -> Nat]
  BY DEF TypeOK
<1>2. M = [i \in Intents |-> IF i \in S THEN NoLock ELSE L[i]]
  BY DEF ReleaseSet
<1>3. /\ available_sol' = available_sol + Sum(Only(NativeOf(L), S))
      /\ available_wsol' = available_wsol + Sum(Only(WsolOf(L), S))
      /\ available_tokens' = [m \in Mints |-> available_tokens[m] +
           (IF r THEN Sum(Only(TokensOf(L, m), S)) ELSE 0)]
  BY DEF ReleaseSet
<1> HIDE DEF L, M
<1>4. /\ M \in [Intents -> CapitalLock]
      /\ Sum(NativeOf(L)) = Sum(NativeOf(M)) + Sum(Only(NativeOf(L), S))
      /\ Sum(WsolOf(L)) = Sum(WsolOf(M)) + Sum(Only(WsolOf(L), S))
      /\ \A m \in Mints : Sum(TokensOf(L, m))
           = Sum(TokensOf(M, m)) + Sum(Only(TokensOf(L, m), S))
      /\ Sum(Only(NativeOf(L), S)) \in Nat
      /\ Sum(Only(WsolOf(L), S)) \in Nat
      /\ \A m \in Mints : Sum(Only(TokensOf(L, m), S)) \in Nat
  BY <1>1, <1>2, ReleaseSums
<1>5. /\ Sum(NativeOf(M)) \in Nat /\ Sum(WsolOf(M)) \in Nat
      /\ \A m \in Mints : Sum(TokensOf(M, m)) \in Nat
  BY <1>4, AmountsTyped
<1>6. available_sol' \in Nat /\ available_wsol' \in Nat /\ available_tokens' \in [Mints -> Nat]
  BY <1>1, <1>3, <1>4
<1>7. available_sol' + Sum(NativeOf(M)) = available_sol + Sum(NativeOf(L))
  BY <1>1, <1>3, <1>4, <1>5
<1>8. available_wsol' + Sum(WsolOf(M)) = available_wsol + Sum(WsolOf(L))
  BY <1>1, <1>3, <1>4, <1>5
<1>9. r => \A m \in Mints : available_tokens'[m] + Sum(TokensOf(M, m))
                              = available_tokens[m] + Sum(TokensOf(L, m))
  <2> SUFFICES ASSUME r, NEW m \in Mints
               PROVE  available_tokens'[m] + Sum(TokensOf(M, m))
                        = available_tokens[m] + Sum(TokensOf(L, m))
    OBVIOUS
  <2>1. available_tokens'[m] = available_tokens[m] + Sum(Only(TokensOf(L, m), S))
    BY <1>3
  <2>2. Sum(TokensOf(L, m)) = Sum(TokensOf(M, m)) + Sum(Only(TokensOf(L, m), S))
    BY <1>4
  <2>3. /\ available_tokens[m] \in Nat /\ Sum(TokensOf(M, m)) \in Nat
        /\ Sum(Only(TokensOf(L, m), S)) \in Nat
    BY <1>1, <1>4, <1>5
  <2> QED  BY <2>1, <2>2, <2>3
<1> QED
  BY <1>4, <1>6, <1>7, <1>8, <1>9
  DEF L, M, total_native_sol, total_wsol_lamports, total_tokens, sum_locked_native_sol,
      sum_locked_wsol_trading, sum_locked_tokens

\* What Acquired guarantees: the chosen bucket and every mint cover the demand.
LEMMA AcquiredMeansSufficient ==
    ASSUME TypeOK, NEW i \in Intents, try_lock_capital_acquire(i)
    PROVE  Sufficient(i) /\ capital_locks[i].phase = "None" /\ trying[i] \in {"sol", "wsol"}
<1>1. LockResult(i) = "Acquired" /\ trying[i] # "idle"
  BY DEF try_lock_capital_acquire
<1>2. trying[i] \in {"sol", "wsol"}
  BY <1>1 DEF TypeOK
<1>3. CASE contains_key(i)
  BY <1>1, <1>3 DEF LockResult
<1>4. CASE ~contains_key(i) /\ ~Sufficient(i)
  BY <1>1, <1>4 DEF LockResult
<1> QED  BY <1>2, <1>3, <1>4 DEF contains_key

\* Acquiring moves the demand from free to locked in one bucket.
LEMMA AcquireStep ==
    ASSUME IInv, NEW i \in Intents, try_lock_capital_acquire(i)
    PROVE  /\ capital_locks' \in [Intents -> CapitalLock]
           /\ available_sol' \in Nat /\ available_wsol' \in Nat
           /\ available_tokens' \in [Mints -> Nat]
           /\ total_native_sol' = total_native_sol
           /\ total_wsol_lamports' = total_wsol_lamports
           /\ \A m \in Mints : total_tokens(m)' = total_tokens(m)
<1> DEFINE L == capital_locks
           M == capital_locks'
           l == [phase |-> "PreSend", sol_lamports |-> Sol[i],
                 reserves_trading_wsol |-> (trying[i] = "wsol"), tokens |-> Tokens[i],
                 token_position_total_at_lock |->
                   [m \in Mints |-> IF Tokens[i][m] > 0 THEN available_tokens[m] ELSE 0],
                 overdue |-> FALSE]
<1>1. L \in [Intents -> CapitalLock] /\ available_sol \in Nat /\ available_wsol \in Nat
      /\ available_tokens \in [Mints -> Nat]
  BY DEF IInv, TypeOK
<1>2. Sufficient(i) /\ L[i].phase = "None" /\ trying[i] \in {"sol", "wsol"}
  BY AcquiredMeansSufficient DEF IInv
<1>3. L[i] = NoLock
  BY <1>2 DEF IInv, AbsentIsNoLock
<1>4. Sol[i] \in Nat /\ Tokens[i] \in [Mints -> Nat]
  BY SolType, TokensType
<1>5. l \in CapitalLock
  BY <1>1, <1>4 DEF CapitalLock, Phases
<1>6. M = [L EXCEPT ![i] = l]
  BY DEF try_lock_capital_acquire
<1>6a. /\ M \in [Intents -> CapitalLock] /\ M[i] = l
       /\ \A j \in Intents : j # i => M[j] = L[j]
  <2> HIDE DEF L, M, l
  <2> QED  BY <1>1, <1>5, <1>6
<1>7. /\ l.reserves_trading_wsol <=> trying[i] = "wsol"
      /\ l.sol_lamports = Sol[i] /\ l.tokens = Tokens[i]
  OBVIOUS
<1>8. /\ available_wsol' = available_wsol - (IF trying[i] = "wsol" THEN Sol[i] ELSE 0)
      /\ available_sol' = available_sol - (IF trying[i] = "sol" THEN Sol[i] ELSE 0)
      /\ available_tokens' = [m \in Mints |-> available_tokens[m] - Tokens[i][m]]
  BY DEF try_lock_capital_acquire
<1> HIDE DEF L, M, l
<1>9. /\ Sum(NativeOf(M)) = Sum(NativeOf(L)) +
           (IF l.reserves_trading_wsol THEN 0 ELSE l.sol_lamports)
      /\ Sum(WsolOf(M)) = Sum(WsolOf(L)) +
           (IF l.reserves_trading_wsol THEN l.sol_lamports ELSE 0)
      /\ \A m \in Mints : Sum(TokensOf(M, m)) = Sum(TokensOf(L, m)) + l.tokens[m]
  BY <1>1, <1>3, <1>5, <1>6a, AcquireSums
<1>10. /\ Sum(NativeOf(L)) \in Nat /\ Sum(WsolOf(L)) \in Nat
       /\ \A m \in Mints : Sum(TokensOf(L, m)) \in Nat
  BY <1>1, AmountsTyped
<1>11. available_sol' \in Nat /\ available_wsol' \in Nat
  BY <1>1, <1>2, <1>4, <1>8 DEF Sufficient
<1>12. available_tokens' \in [Mints -> Nat]
  BY <1>1, <1>2, <1>4, <1>8 DEF Sufficient
<1>13. available_sol' + Sum(NativeOf(M)) = available_sol + Sum(NativeOf(L))
  <2>1. CASE trying[i] = "sol"
    <3>1. Sum(NativeOf(M)) = Sum(NativeOf(L)) + Sol[i]
      BY <2>1, <1>7, <1>9
    <3>2. available_sol' = available_sol - Sol[i]
      BY <2>1, <1>8
    <3> QED  BY <3>1, <3>2, <1>1, <1>4, <1>10
  <2>2. CASE trying[i] = "wsol"
    <3>1. Sum(NativeOf(M)) = Sum(NativeOf(L)) + 0
      BY <2>2, <1>7, <1>9
    <3>2. available_sol' = available_sol - 0
      BY <2>2, <1>8
    <3> QED  BY <3>1, <3>2, <1>1, <1>10
  <2> QED  BY <2>1, <2>2, <1>2
<1>14. available_wsol' + Sum(WsolOf(M)) = available_wsol + Sum(WsolOf(L))
  <2>1. CASE trying[i] = "wsol"
    <3>1. Sum(WsolOf(M)) = Sum(WsolOf(L)) + Sol[i]
      BY <2>1, <1>7, <1>9
    <3>2. available_wsol' = available_wsol - Sol[i]
      BY <2>1, <1>8
    <3> QED  BY <3>1, <3>2, <1>1, <1>4, <1>10
  <2>2. CASE trying[i] = "sol"
    <3>1. Sum(WsolOf(M)) = Sum(WsolOf(L)) + 0
      BY <2>2, <1>7, <1>9
    <3>2. available_wsol' = available_wsol - 0
      BY <2>2, <1>8
    <3> QED  BY <3>1, <3>2, <1>1, <1>10
  <2> QED  BY <2>1, <2>2, <1>2
<1>15. \A m \in Mints : available_tokens'[m] + Sum(TokensOf(M, m))
                         = available_tokens[m] + Sum(TokensOf(L, m))
  <2> TAKE m \in Mints
  <2>1. available_tokens'[m] = available_tokens[m] - Tokens[i][m]
    BY <1>8
  <2>2. Sum(TokensOf(M, m)) = Sum(TokensOf(L, m)) + Tokens[i][m]
    BY <1>7, <1>9
  <2>3. available_tokens[m] \in Nat /\ Tokens[i][m] \in Nat /\ Sum(TokensOf(L, m)) \in Nat
    BY <1>1, <1>4, <1>10
  <2> QED  BY <2>1, <2>2, <2>3
<1> QED
  BY <1>6a, <1>11, <1>12, <1>13, <1>14, <1>15
  DEF L, M, total_native_sol, total_wsol_lamports, total_tokens, sum_locked_native_sol,
      sum_locked_wsol_trading, sum_locked_tokens

\* A step that only marks a lock (TTL, phase) keeps every total.
LEMMA MarkStep ==
    ASSUME TypeOK, NEW i \in Intents,
           renew_capital_lock_ttl(i) \/ promote_capital_lock_to_in_flight(i) \/ TtlElapses(i)
    PROVE  /\ capital_locks' \in [Intents -> CapitalLock]
           /\ total_native_sol' = total_native_sol
           /\ total_wsol_lamports' = total_wsol_lamports
           /\ \A m \in Mints : total_tokens(m)' = total_tokens(m)
<1> DEFINE L == capital_locks
           M == capital_locks'
<1>1. L \in [Intents -> CapitalLock]
  BY DEF TypeOK
<1>2. \/ M = [L EXCEPT ![i].overdue = FALSE]
      \/ M = [L EXCEPT ![i].phase = "InFlight"]
      \/ M = [L EXCEPT ![i].overdue = TRUE]
  BY DEF renew_capital_lock_ttl, promote_capital_lock_to_in_flight, TtlElapses
<1>3. UNCHANGED <<available_sol, available_wsol, available_tokens>>
  BY DEF renew_capital_lock_ttl, promote_capital_lock_to_in_flight, TtlElapses, balances
<1> HIDE DEF L, M
<1>4. M \in [Intents -> CapitalLock]
  <2>1. CASE M = [L EXCEPT ![i].overdue = FALSE]
    BY <2>1, <1>1 DEF CapitalLock, Phases
  <2>2. CASE M = [L EXCEPT ![i].phase = "InFlight"]
    BY <2>2, <1>1 DEF CapitalLock, Phases
  <2>3. CASE M = [L EXCEPT ![i].overdue = TRUE]
    BY <2>3, <1>1 DEF CapitalLock, Phases
  <2> QED  BY <2>1, <2>2, <2>3, <1>2
<1>5. \A j \in Intents : /\ M[j].sol_lamports = L[j].sol_lamports
                         /\ M[j].reserves_trading_wsol = L[j].reserves_trading_wsol
                         /\ M[j].tokens = L[j].tokens
  <2>1. CASE M = [L EXCEPT ![i].overdue = FALSE]
    BY <2>1, <1>1 DEF CapitalLock
  <2>2. CASE M = [L EXCEPT ![i].phase = "InFlight"]
    BY <2>2, <1>1 DEF CapitalLock
  <2>3. CASE M = [L EXCEPT ![i].overdue = TRUE]
    BY <2>3, <1>1 DEF CapitalLock
  <2> QED  BY <2>1, <2>2, <2>3, <1>2
<1>6. /\ Sum(NativeOf(M)) = Sum(NativeOf(L)) /\ Sum(WsolOf(M)) = Sum(WsolOf(L))
      /\ \A m \in Mints : Sum(TokensOf(M, m)) = Sum(TokensOf(L, m))
  BY <1>1, <1>4, <1>5, MarkSums
<1> QED
  BY <1>3, <1>4, <1>6
  DEF L, M, total_native_sol, total_wsol_lamports, total_tokens, sum_locked_native_sol,
      sum_locked_wsol_trading, sum_locked_tokens

\* Equal totals and equal reports carry both laws to the next state.
LEMMA BooksCarry ==
    ASSUME IInv, UNCHANGED reports,
           total_native_sol' = total_native_sol, total_wsol_lamports' = total_wsol_lamports
    PROVE  NativeBooks' /\ WsolBooks'
BY DEF IInv, NativeBooks, WsolBooks, Larger, reports

\* The initial state: nothing is reserved and the books show InitialSol.
LEMMA InitIInv == Init => IInv
<1> SUFFICES ASSUME Init PROVE IInv
  OBVIOUS
<1>1. TypeOK
  BY BoundsType DEF Init, TypeOK, CapitalLock, NoLock, Phases
<1>2. AbsentIsNoLock
  BY DEF Init, AbsentIsNoLock
<1> DEFINE zero == [i \in Intents |-> 0]
<1>3. NativeOf(capital_locks) = zero /\ WsolOf(capital_locks) = zero
  BY DEF Init, NativeOf, WsolOf, NoLock
<1>4. Sum(zero) = 0
  <2>1. zero \in [Intents -> Nat] /\ {} \in SUBSET Intents
    OBVIOUS
  <2>2. Only(zero, {}) = zero /\ Only(zero, Intents \ {}) = zero
    BY DEF Only
  <2> HIDE DEF zero
  <2>3. Sum(zero) = Sum(zero) + Sum(zero) /\ Sum(zero) \in Nat
    BY <2>1, <2>2, SumSplit, UnitsFinite
  <2>4. \A x \in Nat : x = x + x => x = 0
    OBVIOUS
  <2> QED  BY <2>3, <2>4, Zenon
<1>5. NativeBooks /\ WsolBooks
  BY <1>3, <1>4, BoundsType DEF Init, NativeBooks, WsolBooks, total_native_sol,
     total_wsol_lamports, sum_locked_native_sol, sum_locked_wsol_trading, Larger
<1> QED  BY <1>1, <1>2, <1>5 DEF IInv

\* Every step keeps the inductive invariant.
LEMMA NextIInv == IInv /\ [Next]_vars => IInv'
<1> SUFFICES ASSUME IInv, [Next]_vars PROVE IInv'
  OBVIOUS
<1>0. TypeOK /\ AbsentIsNoLock /\ NativeBooks /\ WsolBooks
  BY DEF IInv
<1> USE BoundsType
<1>1. ASSUME NEW v \in 0 .. MaxLamports, update_native_sol_only(v) PROVE IInv'
  <2>1. NativeBooks' /\ available_sol' \in Nat /\ chain_sol' \in Nat /\ base_sol' \in Nat
    BY <1>0, <1>1, ReportSolStep DEF update_native_sol_only
  <2>2. TypeOK'
    BY <1>0, <1>1, <2>1 DEF update_native_sol_only, TypeOK
  <2>3. WsolBooks'
    BY <1>0, <1>1 DEF update_native_sol_only, WsolBooks, total_wsol_lamports,
       sum_locked_wsol_trading, Larger
  <2>4. AbsentIsNoLock'
    BY <1>0, <1>1 DEF update_native_sol_only, AbsentIsNoLock
  <2> QED  BY <2>1, <2>2, <2>3, <2>4 DEF IInv
<1>2. ASSUME NEW v \in 0 .. MaxLamports, update_wsol_only(v) PROVE IInv'
  <2>1. WsolBooks' /\ available_wsol' \in Nat /\ chain_wsol' \in Nat /\ base_wsol' \in Nat
    BY <1>0, <1>2, ReportWsolStep DEF update_wsol_only
  <2>2. TypeOK'
    BY <1>0, <1>2, <2>1 DEF update_wsol_only, ReportWsol, TypeOK
  <2>3. NativeBooks'
    BY <1>0, <1>2 DEF update_wsol_only, NativeBooks, total_native_sol,
       sum_locked_native_sol, Larger
  <2>4. AbsentIsNoLock'
    BY <1>0, <1>2 DEF update_wsol_only, AbsentIsNoLock
  <2> QED  BY <2>1, <2>2, <2>3, <2>4 DEF IInv
<1>3. ASSUME NEW v \in 0 .. MaxLamports, NEW w \in 0 .. MaxLamports,
             update_wallet_balances(v, w)
      PROVE  IInv'
  <2>1. NativeBooks' /\ available_sol' \in Nat /\ chain_sol' \in Nat /\ base_sol' \in Nat
    BY <1>0, <1>3, ReportSolStep DEF update_wallet_balances
  <2>2. WsolBooks' /\ available_wsol' \in Nat /\ chain_wsol' \in Nat /\ base_wsol' \in Nat
    BY <1>0, <1>3, ReportWsolStep DEF update_wallet_balances
  <2>3. TypeOK'
    BY <1>0, <1>3, <2>1, <2>2 DEF update_wallet_balances, ReportWsol, TypeOK
  <2>4. AbsentIsNoLock'
    BY <1>0, <1>3 DEF update_wallet_balances, AbsentIsNoLock
  <2> QED  BY <2>1, <2>2, <2>3, <2>4 DEF IInv
<1>4. ASSUME UNCHANGED <<available_sol, available_wsol, wsol_initialized, capital_locks, reports>>,
             TypeOK'
      PROVE  IInv'
  <2>1. NativeBooks' /\ WsolBooks'
    BY <1>0, <1>4 DEF NativeBooks, WsolBooks, total_native_sol, total_wsol_lamports,
       sum_locked_native_sol, sum_locked_wsol_trading, Larger, reports
  <2>2. AbsentIsNoLock'
    BY <1>0, <1>4 DEF AbsentIsNoLock
  <2> QED  BY <1>4, <2>1, <2>2 DEF IInv
<1>5. ASSUME NEW m \in Mints, NEW v \in 0 .. MaxUnits, set_available_token_balance(m, v)
      PROVE  IInv'
  <2>1. saturating_sub(v, sum_locked_tokens(m)) \in Nat
    BY <1>0, SumsTyped DEF saturating_sub
  <2>2. TypeOK'
    BY <1>0, <1>5, <2>1 DEF set_available_token_balance, TypeOK, reports
  <2> QED  BY <1>4, <1>5, <2>2 DEF set_available_token_balance
<1>6. ASSUME NEW m \in Mints, remove_available_tokens(m) PROVE IInv'
  <2>1. TypeOK'
    BY <1>0, <1>6 DEF remove_available_tokens, TypeOK, reports
  <2> QED  BY <1>4, <1>6, <2>1 DEF remove_available_tokens
<1>7. ASSUME NEW i \in Intents, NEW m \in Mints, NEW fill \in 1 .. MaxFill,
             add_available_token_balance_read(i, m, fill)
      PROVE  IInv'
  <2>1. TypeOK'
    BY <1>0, <1>7 DEF add_available_token_balance_read, TypeOK, reports, balances
  <2> QED  BY <1>4, <1>7, <2>1 DEF add_available_token_balance_read, balances
<1>8. ASSUME NEW i \in Intents, add_available_token_balance_write(i) PROVE IInv'
  <2>1. adding[i].new_total \in Nat
    BY <1>0, <1>8 DEF add_available_token_balance_write, TypeOK
  <2>2. available_tokens' \in [Mints -> Nat]
    BY <1>0, <1>8, <2>1 DEF add_available_token_balance_write, TypeOK
  <2>3. TypeOK'
    BY <1>0, <1>8, <2>2 DEF add_available_token_balance_write, TypeOK, reports
  <2> QED  BY <1>4, <1>8, <2>3 DEF add_available_token_balance_write
<1>9. ASSUME NEW S \in SUBSET Intents, NEW r \in BOOLEAN, ReleaseSet(S, r),
             UNCHANGED <<wsol_initialized, adding, reports>>,
             trying' \in [Intents -> {"idle", "sol", "wsol"}]
      PROVE  IInv'
  <2>1. /\ capital_locks' \in [Intents -> CapitalLock]
        /\ available_sol' \in Nat /\ available_wsol' \in Nat
        /\ available_tokens' \in [Mints -> Nat]
        /\ total_native_sol' = total_native_sol
        /\ total_wsol_lamports' = total_wsol_lamports
    BY <1>0, <1>9, ReleaseSetStep
  <2>2. TypeOK'
    BY <1>0, <1>9, <2>1 DEF TypeOK, reports
  <2>3. AbsentIsNoLock'
    BY <1>0, <1>9 DEF AbsentIsNoLock, ReleaseSet
  <2> QED  BY <1>9, <2>1, <2>2, <2>3, BooksCarry DEF IInv
<1>10. ASSUME NEW i \in Intents, NEW r \in BOOLEAN, release_capital_lock(i, r) PROVE IInv'
  BY <1>0, <1>9, <1>10 DEF release_capital_lock, TypeOK
<1>11. ASSUME cleanup_expired PROVE IInv'
  BY <1>0, <1>9, <1>11 DEF cleanup_expired, Expired, TypeOK
<1>12. ASSUME NEW i \in Intents, try_lock_capital_begin(i) PROVE IInv'
  <2>1. trying' \in [Intents -> {"idle", "sol", "wsol"}]
    BY <1>0, <1>12 DEF try_lock_capital_begin, TypeOK
  <2>2. Expired \in SUBSET Intents /\ ReleaseSet(Expired, TRUE)
        /\ UNCHANGED <<wsol_initialized, adding, reports>>
    BY <1>12 DEF try_lock_capital_begin, Expired
  <2> QED  BY <1>9, <2>1, <2>2
<1>13. ASSUME NEW i \in Intents, try_lock_capital_acquire(i) PROVE IInv'
  <2>1. /\ capital_locks' \in [Intents -> CapitalLock]
        /\ available_sol' \in Nat /\ available_wsol' \in Nat
        /\ available_tokens' \in [Mints -> Nat]
        /\ total_native_sol' = total_native_sol
        /\ total_wsol_lamports' = total_wsol_lamports
    BY <1>13, AcquireStep
  <2>2. TypeOK'
    BY <1>0, <1>13, <2>1 DEF try_lock_capital_acquire, TypeOK, reports
  <2>3. AbsentIsNoLock'
    BY <1>0, <1>13 DEF try_lock_capital_acquire, AbsentIsNoLock, TypeOK
  <2>4. UNCHANGED reports
    BY <1>13 DEF try_lock_capital_acquire
  <2> QED  BY <2>1, <2>2, <2>3, <2>4, BooksCarry DEF IInv
<1>14. ASSUME NEW i \in Intents, try_lock_capital_fail(i) PROVE IInv'
  <2>1. TypeOK'
    BY <1>0, <1>14 DEF try_lock_capital_fail, TypeOK, reports, balances
  <2> QED  BY <1>4, <1>14, <2>1 DEF try_lock_capital_fail, balances
<1>15. ASSUME NEW i \in Intents,
              renew_capital_lock_ttl(i) \/ promote_capital_lock_to_in_flight(i) \/ TtlElapses(i)
       PROVE  IInv'
  <2>1. /\ capital_locks' \in [Intents -> CapitalLock]
        /\ total_native_sol' = total_native_sol
        /\ total_wsol_lamports' = total_wsol_lamports
    BY <1>0, <1>15, MarkStep
  <2>2. UNCHANGED <<balances, wsol_initialized, trying, adding, reports>>
    BY <1>15 DEF renew_capital_lock_ttl, promote_capital_lock_to_in_flight, TtlElapses
  <2>3. TypeOK'
    BY <1>0, <2>1, <2>2 DEF TypeOK, reports, balances
  <2>4. contains_key(i) /\ \A j \in Intents : /\ j # i => capital_locks'[j] = capital_locks[j]
                                             /\ capital_locks'[i].phase # "None"
    BY <1>0, <1>15 DEF renew_capital_lock_ttl, promote_capital_lock_to_in_flight, TtlElapses,
       contains_key, TypeOK, CapitalLock
  <2>5. AbsentIsNoLock'
    BY <1>0, <2>4 DEF AbsentIsNoLock
  <2> QED  BY <2>1, <2>2, <2>3, <2>5, BooksCarry DEF IInv
<1>16. CASE UNCHANGED vars
  <2>1. TypeOK'
    BY <1>0, <1>16 DEF vars, balances, reports, TypeOK
  <2> QED  BY <1>4, <1>16, <2>1 DEF vars, balances
<1>17. ASSUME NEW i \in Intents, Caller(i) PROVE IInv'
  BY <1>7, <1>8, <1>10, <1>12, <1>13, <1>14, <1>15, <1>17
  DEF Caller, release_locks, release_locks_after_confirmed_sell
<1>18. ASSUME WalletFeed PROVE IInv'
  BY <1>1, <1>2, <1>3, <1>5, <1>18 DEF WalletFeed
<1> QED
  BY <1>6, <1>11, <1>16, <1>17, <1>18 DEF Next

\* For every set of intents and every demand: the LockManager's balances stay
\* naturals (no u64 subtraction of try_lock_capital wraps).
THEOREM TypeCorrect == Spec => []TypeOK
<1>1. IInv => TypeOK
  BY DEF IInv
<1> QED  BY <1>1, InitIInv, NextIInv, PTL DEF Spec

\* For every set of intents and every demand: free plus reserved native
\* lamports are what the wallet feed reported (or what was reserved then).
THEOREM NativeConservation == Spec => []NativeBooks
<1>1. IInv => NativeBooks
  BY DEF IInv
<1> QED  BY <1>1, InitIInv, NextIInv, PTL DEF Spec

\* The same law for the WSOL bucket that BUYs trade from.
THEOREM WsolConservation == Spec => []WsolBooks
<1>1. IInv => WsolBooks
  BY DEF IInv
<1> QED  BY <1>1, InitIInv, NextIInv, PTL DEF Spec

\* For every instance: no clean-up, TTL or wallet report ends an in-flight
\* reservation; only a release by its own intent does.
THEOREM InFlightProtected == Spec => InFlightImmune
<1> DEFINE Step == \A i \in Intents :
         capital_locks[i].phase = "InFlight" /\ capital_locks'[i] # capital_locks[i]
           => \/ capital_locks'[i] = [capital_locks[i] EXCEPT !.overdue = TRUE]
              \/ release_locks(i)
              \/ release_locks_after_confirmed_sell(i)
<1>1. IInv /\ [Next]_vars => [Step]_vars
  <2> SUFFICES ASSUME IInv, Next, NEW i \in Intents,
                      capital_locks[i].phase = "InFlight", capital_locks'[i] # capital_locks[i]
               PROVE  \/ capital_locks'[i] = [capital_locks[i] EXCEPT !.overdue = TRUE]
                      \/ release_locks(i)
                      \/ release_locks_after_confirmed_sell(i)
    BY DEF Step
  <2>0. capital_locks \in [Intents -> CapitalLock]
    BY DEF IInv, TypeOK
  <2>1. CASE WalletFeed \/ \E m \in Mints : remove_available_tokens(m)
    BY <2>1 DEF WalletFeed, update_native_sol_only, update_wsol_only, update_wallet_balances,
       set_available_token_balance, remove_available_tokens
  <2>2. CASE cleanup_expired
    BY <2>2 DEF cleanup_expired, ReleaseSet, Expired
  <2>3. ASSUME NEW j \in Intents, Caller(j)
        PROVE  \/ capital_locks'[i] = [capital_locks[i] EXCEPT !.overdue = TRUE]
               \/ release_locks(i)
               \/ release_locks_after_confirmed_sell(i)
    <3>1. CASE release_locks(j) \/ release_locks_after_confirmed_sell(j)
      <4>1. CASE j = i
        BY <3>1, <4>1
      <4>2. CASE j # i
        BY <3>1, <4>2 DEF release_locks, release_locks_after_confirmed_sell,
           release_capital_lock, ReleaseSet
      <4> QED  BY <4>1, <4>2
    <3>2. CASE try_lock_capital_begin(j)
      BY <3>2 DEF try_lock_capital_begin, ReleaseSet, Expired
    <3>3. CASE try_lock_capital_acquire(j)
      <4>1. capital_locks[j].phase = "None"
        BY <3>3, AcquiredMeansSufficient DEF IInv
      <4> QED  BY <2>0, <3>3, <4>1 DEF try_lock_capital_acquire
    <3>4. CASE renew_capital_lock_ttl(j)
      BY <2>0, <3>4 DEF renew_capital_lock_ttl
    <3>5. CASE promote_capital_lock_to_in_flight(j)
      <4>1. CASE j = i
        BY <2>0, <3>5, <4>1 DEF promote_capital_lock_to_in_flight, CapitalLock
      <4>2. CASE j # i
        BY <2>0, <3>5, <4>2 DEF promote_capital_lock_to_in_flight
      <4> QED  BY <4>1, <4>2
    <3>6. CASE TtlElapses(j)
      <4>1. CASE j = i
        BY <2>0, <3>6, <4>1 DEF TtlElapses
      <4>2. CASE j # i
        BY <2>0, <3>6, <4>2 DEF TtlElapses
      <4> QED  BY <4>1, <4>2
    <3>7. CASE \/ try_lock_capital_fail(j)
               \/ add_available_token_balance_write(j)
               \/ \E m \in Mints, fill \in 1 .. MaxFill :
                     add_available_token_balance_read(j, m, fill)
      BY <3>7 DEF try_lock_capital_fail, add_available_token_balance_write,
         add_available_token_balance_read
    <3> QED
      BY <2>3, <3>1, <3>2, <3>3, <3>4, <3>5, <3>6, <3>7 DEF Caller
  <2> QED  BY <2>1, <2>2, <2>3 DEF Next
<1>2. [][Step]_vars <=> InFlightImmune
  BY DEF InFlightImmune
<1> HIDE DEF Step
<1> QED  BY <1>1, <1>2, InitIInv, NextIInv, PTL DEF Spec

\* For every instance: reserving, expiring, renewing, promoting and releasing
\* only move tokens between free and locked; a total changes by a wallet
\* report, a fill, the removal of a closed account or a confirmed SELL.
THEOREM TokensConserved == Spec => TokensLeaveOnlyWhenSold
<1> DEFINE Excused(m) ==
             \/ \E v \in 0 .. MaxUnits : set_available_token_balance(m, v)
             \/ remove_available_tokens(m)
             \/ \E i \in Intents : add_available_token_balance_write(i)
             \/ \E i \in Intents : release_locks_after_confirmed_sell(i)
           Step == \A m \in Mints : total_tokens(m)' # total_tokens(m) => Excused(m)
<1>1. IInv /\ [Next]_vars => [Step]_vars
  <2> SUFFICES ASSUME IInv, Next, NEW m \in Mints, total_tokens(m)' # total_tokens(m)
               PROVE  Excused(m)
    BY DEF Step
  <2>0. TypeOK
    BY DEF IInv
  <2>1. ~ UNCHANGED <<capital_locks, available_tokens>>
    BY DEF total_tokens, sum_locked_tokens
  <2>2. CASE WalletFeed
    <3>1. PICK n \in Mints, v \in 0 .. MaxUnits : set_available_token_balance(n, v)
      BY <2>1, <2>2 DEF WalletFeed, update_native_sol_only, update_wsol_only,
         update_wallet_balances
    <3>2. n = m
      BY <2>0, <3>1 DEF set_available_token_balance, total_tokens, sum_locked_tokens, TypeOK
    <3> QED  BY <3>1, <3>2
  <2>3. ASSUME NEW n \in Mints, remove_available_tokens(n) PROVE Excused(m)
    <3>1. n = m
      BY <2>0, <2>3 DEF remove_available_tokens, total_tokens, sum_locked_tokens, TypeOK
    <3> QED  BY <2>3, <3>1
  <2>4. CASE cleanup_expired
    <3>1. Expired \in SUBSET Intents /\ ReleaseSet(Expired, TRUE)
      BY <2>4 DEF cleanup_expired, Expired
    <3> QED  BY <2>0, <3>1, ReleaseSetStep
  <2>5. ASSUME NEW i \in Intents, Caller(i) PROVE Excused(m)
    <3>1. CASE try_lock_capital_begin(i)
      <4>1. Expired \in SUBSET Intents /\ ReleaseSet(Expired, TRUE)
        BY <3>1 DEF try_lock_capital_begin, Expired
      <4> QED  BY <2>0, <4>1, ReleaseSetStep
    <3>2. CASE try_lock_capital_acquire(i)
      BY <3>2, AcquireStep
    <3>3. CASE \/ renew_capital_lock_ttl(i)
               \/ promote_capital_lock_to_in_flight(i)
               \/ TtlElapses(i)
      BY <2>0, <3>3, MarkStep
    <3>4. CASE release_locks(i)
      <4>1. {i} \in SUBSET Intents /\ ReleaseSet({i}, TRUE)
        BY <3>4 DEF release_locks, release_capital_lock
      <4> QED  BY <2>0, <4>1, ReleaseSetStep
    <3>5. CASE release_locks_after_confirmed_sell(i) \/ add_available_token_balance_write(i)
      BY <3>5
    <3>6. CASE \/ try_lock_capital_fail(i)
               \/ \E n \in Mints, fill \in 1 .. MaxFill :
                     add_available_token_balance_read(i, n, fill)
      BY <2>1, <3>6 DEF try_lock_capital_fail, add_available_token_balance_read, balances
    <3> QED
      BY <2>5, <3>1, <3>2, <3>3, <3>4, <3>5, <3>6 DEF Caller
  <2> QED  BY <2>2, <2>3, <2>4, <2>5 DEF Next
<1>2. [][Step]_vars <=> TokensLeaveOnlyWhenSold
  BY DEF TokensLeaveOnlyWhenSold
<1> HIDE DEF Step
<1> QED  BY <1>1, <1>2, InitIInv, NextIInv, PTL DEF Spec
=============================================================================
