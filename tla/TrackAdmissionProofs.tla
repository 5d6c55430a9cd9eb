------------------------- MODULE TrackAdmissionProofs -------------------------
(* Theorems about TrackAdmission, for every list of owners, every finite set  *)
(* of accounts, all planned groups, demands and caps.                         *)
EXTENDS TrackAdmission, FiniteSetTheorems, TLAPS

-----------------------------------------------------------------------------
(* Natural numbers and loops.  Induction is done over sets of numbers.        *)

\* A non-empty set of naturals has a least element.
LEMMA Least ==
    ASSUME NEW T \in SUBSET Nat, T # {}
    PROVE  \E m \in T : \A n \in T : m <= n
<1> DEFINE R == OpToRel(<, Nat)
<1>1. IsWellFoundedOn(R, Nat)
  BY NatLessThanWellFounded
<1>2. PICK m \in T : \A n \in T : ~ (<<n, m>> \in R)
  <2> HIDE DEF R
  <2> QED  BY <1>1, WFMin
<1>3. \A n \in T : ~ (n < m)
  BY <1>2 DEF OpToRel
<1> QED  BY <1>3

\* Induction up to N over the set of numbers that are good.
LEMMA UpTo ==
    ASSUME NEW N \in Nat, NEW Good, 0 \in Good,
           \A n \in 1 .. N : n - 1 \in Good => n \in Good
    PROVE  \A n \in 0 .. N : n \in Good
<1> SUFFICES ASSUME NEW b \in 0 .. N, b \notin Good PROVE FALSE
  OBVIOUS
<1> DEFINE Bad == {n \in Nat : n \in 0 .. N /\ n \notin Good}
<1>0. Bad \in SUBSET Nat /\ Bad # {}
  OBVIOUS
<1>1. PICK m \in Bad : \A n \in Bad : m <= n
  <2> HIDE DEF Bad
  <2> QED  BY <1>0, Least
<1>2. m \in 1 .. N /\ m - 1 \in 0 .. N /\ ~ (m <= m - 1)
  BY <1>1
<1>3. m - 1 \in Good
  BY <1>1, <1>2
<1> QED  BY <1>1, <1>2, <1>3

\* f is what a loop of N turns goes through: F is the body, s0 the start.
IsRun(f, S, s0, N, F) ==
    f \in [0 .. N -> S] /\ f[0] = s0 /\ \A n \in 1 .. N : f[n] = F[<<f[n - 1], n>>]

\* A loop whose body is a function has a run.
LEMMA LoopRuns ==
    ASSUME NEW S, NEW s0 \in S, NEW N \in Nat, NEW F \in [S \X (1 .. N) -> S]
    PROVE  \E f : IsRun(f, S, s0, N, F)
<1> DEFINE Run(f, n) == f \in [0 .. n -> S] /\ f[0] = s0 /\ \A i \in 1 .. n : f[i] = F[<<f[i - 1], i>>]
           Good == {n \in 0 .. N : \E f : Run(f, n)}
<1>1. 0 \in Good
  <2> DEFINE g == [i \in 0 .. 0 |-> s0]
  <2>1. Run(g, 0)
    OBVIOUS
  <2>2. 0 \in 0 .. N
    OBVIOUS
  <2> HIDE DEF Run, g
  <2> QED  BY <2>1, <2>2
<1>2. ASSUME NEW n \in 1 .. N, n - 1 \in Good PROVE n \in Good
  <2>1. PICK f : Run(f, n - 1)
    BY <1>2
  <2> DEFINE g == [i \in 0 .. n |-> IF i = n THEN F[<<f[n - 1], n>>] ELSE f[i]]
  <2>2. n - 1 \in 0 .. n - 1 /\ f[n - 1] \in S
    BY <2>1
  <2>3. F[<<f[n - 1], n>>] \in S
    BY <2>2
  <2>4. g \in [0 .. n -> S]
    BY <2>1, <2>3
  <2>5. g[0] = s0
    BY <2>1
  <2>6. ASSUME NEW i \in 1 .. n PROVE g[i] = F[<<g[i - 1], i>>]
    <3>1. CASE i = n
      <4>1. n \in 0 .. n /\ n - 1 \in 0 .. n /\ n - 1 # n
        OBVIOUS
      <4> QED  BY <4>1, <3>1
    <3>2. CASE i # n
      <4>1. i \in 0 .. n /\ i - 1 \in 0 .. n /\ i - 1 # n /\ i \in 1 .. n - 1
        BY <3>2
      <4>2. f[i] = F[<<f[i - 1], i>>]
        BY <2>1, <4>1
      <4> QED  BY <4>1, <4>2, <3>2
    <3> QED  BY <3>1, <3>2
  <2>7. Run(g, n)
    BY <2>4, <2>5, <2>6
  <2> HIDE DEF Run
  <2> QED  BY <2>7
<1>3. N \in Good
  <2> HIDE DEF Good
  <2> QED  BY <1>1, <1>2, UpTo
<1>4. PICK f : Run(f, N)
  BY <1>3
<1>5. IsRun(f, S, s0, N, F)
  BY <1>4 DEF IsRun
<1> QED  BY <1>5

\* A run stays where its body stays.
LEMMA StaysIn ==
    ASSUME NEW S, NEW N \in Nat, NEW h, h = [n \in 0 .. N |-> h[n]], h[0] \in S,
           \A n \in 1 .. N : h[n - 1] \in S => h[n] \in S
    PROVE  h \in [0 .. N -> S]
<1> DEFINE Good == {n \in 0 .. N : h[n] \in S}
<1>1. 0 \in Good
  OBVIOUS
<1>2. \A n \in 1 .. N : n - 1 \in Good => n \in Good
  OBVIOUS
<1>3. \A n \in 0 .. N : n \in Good
  <2> HIDE DEF Good
  <2> QED  BY <1>1, <1>2, UpTo
<1>4. \A n \in 0 .. N : h[n] \in S
  BY <1>3
<1> QED  BY <1>4

\* The loops of the model are such runs: admitting one owner after the other,
Admitting(f, S, a, d) ==
    /\ f \in [0 .. Len(Order) -> S] /\ f[0] = [adm |-> a, result |-> "Inserted"]
    /\ \A n \in 1 .. Len(Order) : f[n] = AdmitNext(f[n - 1], Order[n], d[Order[n]])
    /\ AdmitAll(a, d) = f[Len(Order)]

\* The loop of converge_admission_from_groups over the owners exists as a
\* function of the number of owners handled, if every step stays in S.
LEMMA AdmitAllRuns ==
    ASSUME NEW S, NEW a, NEW d, [adm |-> a, result |-> "Inserted"] \in S,
           \A s \in S, n \in 1 .. Len(Order) : AdmitNext(s, Order[n], d[Order[n]]) \in S
    PROVE  \E f : Admitting(f, S, a, d)
<1> DEFINE N == Len(Order)
           s0 == [adm |-> a, result |-> "Inserted"]
           Body(f) == [n \in 0 .. N |-> IF n = 0 THEN s0 ELSE AdmitNext(f[n - 1], Order[n], d[Order[n]])]
           F == [r \in S \X (1 .. N) |-> AdmitNext(r[1], Order[r[2]], d[Order[r[2]]])]
           h == CHOOSE f : f = Body(f)
<1>0. N \in Nat /\ s0 \in S
  BY OrderOK
<1>1. F \in [S \X (1 .. N) -> S]
  OBVIOUS
<1>2. PICK g : IsRun(g, S, s0, N, F)
  <2> HIDE DEF F, s0, N, Body, h
  <2> QED  BY <1>0, <1>1, LoopRuns
<1>3. g \in [0 .. N -> S] /\ g[0] = s0 /\ \A n \in 1 .. N : g[n] = F[<<g[n - 1], n>>]
  BY <1>2 DEF IsRun
<1>4. g = Body(g)
  <2> SUFFICES ASSUME NEW n \in 0 .. N PROVE g[n] = Body(g)[n]
    BY <1>3
  <2>1. CASE n = 0
    BY <2>1, <1>3
  <2>2. CASE n # 0
    <3>1. n \in 1 .. N /\ n - 1 \in 0 .. N
      BY <1>0, <2>2
    <3>2. g[n - 1] \in S
      BY <3>1, <1>3
    <3>3. F[<<g[n - 1], n>>] = AdmitNext(g[n - 1], Order[n], d[Order[n]])
      BY <3>1, <3>2
    <3> QED  BY <1>3, <2>2, <3>1, <3>3
  <2> QED  BY <2>1, <2>2
<1>5. h = Body(h)
  <2> HIDE DEF Body
  <2> QED  BY <1>4
<1>6. AdmitAll(a, d) = h[N]
  BY DEF AdmitAll
<1>7. h[0] = s0 /\ \A n \in 1 .. N : h[n] = AdmitNext(h[n - 1], Order[n], d[Order[n]])
  <2>1. \A n \in 0 .. N : h[n] = Body(h)[n]
    <3> HIDE DEF Body, h
    <3> QED  BY <1>5
  <2> HIDE DEF h
  <2>2. ASSUME NEW n \in 1 .. N PROVE n \in 0 .. N /\ n # 0
    BY <1>0
  <2>3. 0 \in 0 .. N
    BY <1>0
  <2> QED  BY <2>1, <2>2, <2>3
<1>8. h \in [0 .. N -> S]
  <2>1. h = [n \in 0 .. N |-> h[n]]
    <3> HIDE DEF h
    <3> QED  BY <1>5
  <2>2. \A n \in 1 .. N : h[n - 1] \in S => h[n] \in S
    <3> HIDE DEF h
    <3> QED  BY <1>7
  <2> HIDE DEF h, Body, F, N, s0
  <2> QED  BY <1>0, <1>7, <2>1, <2>2, StaysIn
<1>9. Admitting(h, S, a, d)
  <2> HIDE DEF h
  <2> QED  BY <1>6, <1>7, <1>8 DEF Admitting
<1> HIDE DEF h
<1> QED  BY <1>9

\* removing one owner after the other,
Removing(f, S, a, os) ==
    /\ f \in [0 .. Len(Order) -> S] /\ f[0] = a
    /\ \A n \in 1 .. Len(Order) : f[n] = (IF Order[n] \in os THEN remove_group(f[n - 1], Order[n]) ELSE f[n - 1])
    /\ RemoveAll(a, os) = f[Len(Order)]

\* So does the loop that removes the groups of a set of owners,
LEMMA RemoveAllRuns ==
    ASSUME NEW S, NEW a \in S, NEW os,
           \A s \in S, n \in 1 .. Len(Order) : remove_group(s, Order[n]) \in S
    PROVE  \E f : Removing(f, S, a, os)
<1> DEFINE N == Len(Order)
           s0 == a
           Body(f) == [n \in 0 .. N |-> IF n = 0 THEN s0 ELSE (IF Order[n] \in os THEN remove_group(f[n - 1], Order[n]) ELSE f[n - 1])]
           F == [r \in S \X (1 .. N) |-> IF Order[r[2]] \in os THEN remove_group(r[1], Order[r[2]]) ELSE r[1]]
           h == CHOOSE f : f = Body(f)
<1>0. N \in Nat /\ s0 \in S
  BY OrderOK
<1>1. F \in [S \X (1 .. N) -> S]
  OBVIOUS
<1>2. PICK g : IsRun(g, S, s0, N, F)
  <2> HIDE DEF F, s0, N, Body, h
  <2> QED  BY <1>0, <1>1, LoopRuns
<1>3. g \in [0 .. N -> S] /\ g[0] = s0 /\ \A n \in 1 .. N : g[n] = F[<<g[n - 1], n>>]
  BY <1>2 DEF IsRun
<1>4. g = Body(g)
  <2> SUFFICES ASSUME NEW n \in 0 .. N PROVE g[n] = Body(g)[n]
    BY <1>3
  <2>1. CASE n = 0
    BY <2>1, <1>3
  <2>2. CASE n # 0
    <3>1. n \in 1 .. N /\ n - 1 \in 0 .. N
      BY <1>0, <2>2
    <3>2. g[n - 1] \in S
      BY <3>1, <1>3
    <3>3. F[<<g[n - 1], n>>] = (IF Order[n] \in os THEN remove_group(g[n - 1], Order[n]) ELSE g[n - 1])
      BY <3>1, <3>2
    <3> QED  BY <1>3, <2>2, <3>1, <3>3
  <2> QED  BY <2>1, <2>2
<1>5. h = Body(h)
  <2> HIDE DEF Body
  <2> QED  BY <1>4
<1>6. RemoveAll(a, os) = h[N]
  BY DEF RemoveAll
<1>7. h[0] = s0 /\ \A n \in 1 .. N : h[n] = (IF Order[n] \in os THEN remove_group(h[n - 1], Order[n]) ELSE h[n - 1])
  <2>1. \A n \in 0 .. N : h[n] = Body(h)[n]
    <3> HIDE DEF Body, h
    <3> QED  BY <1>5
  <2> HIDE DEF h
  <2>2. ASSUME NEW n \in 1 .. N PROVE n \in 0 .. N /\ n # 0
    BY <1>0
  <2>3. 0 \in 0 .. N
    BY <1>0
  <2> QED  BY <2>1, <2>2, <2>3
<1>8. h \in [0 .. N -> S]
  <2>1. h = [n \in 0 .. N |-> h[n]]
    <3> HIDE DEF h
    <3> QED  BY <1>5
  <2>2. \A n \in 1 .. N : h[n - 1] \in S => h[n] \in S
    <3> HIDE DEF h
    <3> QED  BY <1>7
  <2> HIDE DEF h, Body, F, N, s0
  <2> QED  BY <1>0, <1>7, <2>1, <2>2, StaysIn
<1>9. Removing(h, S, a, os)
  <2> HIDE DEF h
  <2> QED  BY <1>6, <1>7, <1>8 DEF Removing
<1> HIDE DEF h
<1> QED  BY <1>9

\* and selecting victims.
Selection(f, S, a, in, need, allowed) ==
    /\ f \in [0 .. Cardinality(allowed) -> S] /\ f[0] = {}
    /\ \A n \in 1 .. Cardinality(allowed) : f[n] = SelectMore(a, in, need, allowed, f[n - 1])
    /\ Victims(a, in, need, allowed) = f[Cardinality(allowed)]

\* and the loop of execute_victim_selection.
LEMMA VictimsRun ==
    ASSUME NEW S, NEW a, NEW in, NEW need, NEW allowed, IsFiniteSet(allowed), {} \in S,
           \A s \in S : SelectMore(a, in, need, allowed, s) \in S
    PROVE  \E f : Selection(f, S, a, in, need, allowed)
<1> DEFINE N == Cardinality(allowed)
           s0 == {}
           Body(f) == [n \in 0 .. N |-> IF n = 0 THEN s0 ELSE SelectMore(a, in, need, allowed, f[n - 1])]
           F == [r \in S \X (1 .. N) |-> SelectMore(a, in, need, allowed, r[1])]
           h == CHOOSE f : f = Body(f)
<1>0. N \in Nat /\ s0 \in S
  BY FS_CardinalityType
<1>1. F \in [S \X (1 .. N) -> S]
  OBVIOUS
<1>2. PICK g : IsRun(g, S, s0, N, F)
  <2> HIDE DEF F, s0, N, Body, h
  <2> QED  BY <1>0, <1>1, LoopRuns
<1>3. g \in [0 .. N -> S] /\ g[0] = s0 /\ \A n \in 1 .. N : g[n] = F[<<g[n - 1], n>>]
  BY <1>2 DEF IsRun
<1>4. g = Body(g)
  <2> SUFFICES ASSUME NEW n \in 0 .. N PROVE g[n] = Body(g)[n]
    BY <1>3
  <2>1. CASE n = 0
    BY <2>1, <1>3
  <2>2. CASE n # 0
    <3>1. n \in 1 .. N /\ n - 1 \in 0 .. N
      BY <1>0, <2>2
    <3>2. g[n - 1] \in S
      BY <3>1, <1>3
    <3>3. F[<<g[n - 1], n>>] = SelectMore(a, in, need, allowed, g[n - 1])
      BY <3>1, <3>2
    <3> QED  BY <1>3, <2>2, <3>1, <3>3
  <2> QED  BY <2>1, <2>2
<1>5. h = Body(h)
  <2> HIDE DEF Body
  <2> QED  BY <1>4
<1>6. Victims(a, in, need, allowed) = h[N]
  BY DEF Victims
<1>7. h[0] = s0 /\ \A n \in 1 .. N : h[n] = SelectMore(a, in, need, allowed, h[n - 1])
  <2>1. \A n \in 0 .. N : h[n] = Body(h)[n]
    <3> HIDE DEF Body, h
    <3> QED  BY <1>5
  <2> HIDE DEF h
  <2>2. ASSUME NEW n \in 1 .. N PROVE n \in 0 .. N /\ n # 0
    BY <1>0
  <2>3. 0 \in 0 .. N
    BY <1>0
  <2> QED  BY <2>1, <2>2, <2>3
<1>8. h \in [0 .. N -> S]
  <2>1. h = [n \in 0 .. N |-> h[n]]
    <3> HIDE DEF h
    <3> QED  BY <1>5
  <2>2. \A n \in 1 .. N : h[n - 1] \in S => h[n] \in S
    <3> HIDE DEF h
    <3> QED  BY <1>7
  <2> HIDE DEF h, Body, F, N, s0
  <2> QED  BY <1>0, <1>7, <2>1, <2>2, StaysIn
<1>9. Selection(h, S, a, in, need, allowed)
  <2> HIDE DEF h
  <2> QED  BY <1>6, <1>7, <1>8 DEF Selection
<1> HIDE DEF h
<1> QED  BY <1>9

-----------------------------------------------------------------------------
(* Admissions.                                                                *)

Admissions ==
    [groups : [Owners -> SUBSET Keys], older : SUBSET (Owners \X Owners), len : Nat, cap : Nat]

\* The admissions whose books are right.
Sound == {a \in Admissions : BooksOf(a)}

\* There are finitely many owners.
LEMMA OwnersFinite == IsFiniteSet(Owners)
<1>1. Order \in [1 .. Len(Order) -> Owners] /\ Len(Order) \in Nat
  BY OrderOK
<1>2. Owners = {Order[i] : i \in 1 .. Len(Order)}
  BY <1>1 DEF Owners, Range
<1>3. Order \in Surjection(1 .. Len(Order), Owners)
  BY <1>1, <1>2 DEF Surjection
<1>4. IsFiniteSet(1 .. Len(Order))
  BY <1>1, FS_Interval
<1> QED  BY <1>3, <1>4, FS_Surjection

\* Cardinalities of finite sets: a part is no larger, parts add up.
LEMMA Parts ==
    ASSUME NEW S, IsFiniteSet(S), NEW T, T \subseteq S
    PROVE  /\ IsFiniteSet(T) /\ IsFiniteSet(S \ T)
           /\ Cardinality(T) \in Nat /\ Cardinality(S) \in Nat
           /\ Cardinality(T) <= Cardinality(S)
           /\ Cardinality(S \ T) = Cardinality(S) - Cardinality(T)
<1>1. IsFiniteSet(T) /\ Cardinality(T) <= Cardinality(S)
  BY FS_Subset
<1>2. IsFiniteSet(S \ T)
  BY FS_Subset
<1>3. T \cup (S \ T) = S /\ T \cap (S \ T) = {}
  OBVIOUS
<1>4. Cardinality(S) = Cardinality(T) + Cardinality(S \ T) - Cardinality({})
  BY <1>1, <1>2, <1>3, FS_Union
<1>5. Cardinality(T) \in Nat /\ Cardinality(S) \in Nat /\ Cardinality(S \ T) \in Nat
  BY <1>1, <1>2, FS_CardinalityType
<1> QED  BY <1>1, <1>2, <1>4, <1>5, FS_EmptySet

\* A proper part is smaller.
LEMMA Smaller ==
    ASSUME NEW S, IsFiniteSet(S), NEW T, T \subseteq S, T # S
    PROVE  Cardinality(T) < Cardinality(S)
<1>1. Cardinality(T) \in Nat /\ Cardinality(S) \in Nat /\ Cardinality(T) <= Cardinality(S)
  BY Parts
<1>2. Cardinality(T) # Cardinality(S)
  BY FS_Subset
<1> QED  BY <1>1, <1>2

\* The accounts of an admission, those that an owner holds alone, and those
\* that a group adds, are finite sets of accounts.
LEMMA Finite ==
    ASSUME NEW a \in Admissions
    PROVE  /\ Physical(a) \subseteq Keys /\ IsFiniteSet(Physical(a))
           /\ Cardinality(Physical(a)) \in Nat
<1>1. Physical(a) \subseteq Keys
  BY DEF Admissions, Physical
<1> QED  BY <1>1, KeysFinite, FS_Subset, FS_CardinalityType

\* A group is a finite set of accounts.
LEMMA GroupFinite ==
    ASSUME NEW ks \in SUBSET Keys
    PROVE  IsFiniteSet(ks) /\ Cardinality(ks) \in Nat
  BY KeysFinite, FS_Subset, FS_CardinalityType

-----------------------------------------------------------------------------
(* The touch order.                                                           *)

\* Giving o the group ks and stamping it keeps the order.
LEMMA TouchPut ==
    ASSUME NEW a \in Admissions, TouchOrder(a), NEW o \in Owners,
           NEW ks \in SUBSET Keys, ks # {},
           NEW b, b.groups = [a.groups EXCEPT ![o] = ks], b.older = Stamp(a, o)
    PROVE  Stamp(a, o) \in SUBSET (Owners \X Owners) /\ TouchOrder(b)
<1>1. a.groups \in [Owners -> SUBSET Keys] /\ a.older \in SUBSET (Owners \X Owners)
  BY DEF Admissions
<1>2. Present(b) = Present(a) \cup {o}
  BY <1>1 DEF Present
<1>3. b.older = {r \in a.older : r[1] # o /\ r[2] # o} \cup (Rivals(a, o) \X {o})
  BY DEF Stamp, Forget
<1>4. Stamp(a, o) \in SUBSET (Owners \X Owners)
  BY <1>1 DEF Stamp, Forget, Rivals, Present
<1>5. \A p \in Owners : Rivals(b, p) = IF p # o /\ p[1] = o[1] THEN Rivals(a, p) \cup {o} ELSE Rivals(a, p)
  BY <1>2 DEF Rivals
<1>6. ASSUME NEW r \in b.older PROVE r[1] \in Present(b) /\ r[2] \in Rivals(b, r[1])
  BY <1>1, <1>2, <1>3, <1>6 DEF TouchOrder, Rivals
<1>7. ASSUME NEW p \in Present(b), NEW q \in Rivals(b, p)
      PROVE  <<p, q>> \in b.older <=> <<q, p>> \notin b.older
  <2>1. p # q /\ p[1] = q[1] /\ q \in Present(b)
    BY DEF Rivals
  <2>2. CASE p = o
    BY <1>1, <1>2, <1>3, <2>1, <2>2 DEF Rivals
  <2>3. CASE q = o
    BY <1>1, <1>2, <1>3, <2>1, <2>3 DEF Rivals
  <2>4. CASE p # o /\ q # o
    <3>1. p \in Present(a) /\ q \in Rivals(a, p)
      BY <1>2, <2>1, <2>4 DEF Rivals
    <3>2. <<p, q>> \in a.older <=> <<q, p>> \notin a.older
      BY <3>1 DEF TouchOrder
    <3>3. <<p, q>> \in b.older <=> <<p, q>> \in a.older
      BY <1>3, <2>4
    <3>4. <<q, p>> \in b.older <=> <<q, p>> \in a.older
      BY <1>3, <2>4
    <3> QED  BY <3>2, <3>3, <3>4
  <2> QED  BY <2>2, <2>3, <2>4
<1>8. ASSUME NEW r \in b.older, NEW s \in b.older, r[2] = s[1]
      PROVE  <<r[1], s[2]>> \in b.older
  <2>1. CASE r[2] = o
    BY <1>3, <1>8, <2>1 DEF Rivals
  <2>2. CASE r[2] # o
    <3>1. r \in a.older /\ r[1] # o /\ r = <<r[1], r[2]>>
      BY <1>1, <1>3, <2>2
    <3>2. r[1] \in Present(a) /\ r[2] \in Rivals(a, r[1])
      BY <3>1 DEF TouchOrder
    <3>3. CASE s[2] = o
      <4>1. s[1] \in Rivals(a, o)
        BY <1>3, <3>3
      <4>2. r[1] \in Rivals(a, o)
        BY <1>8, <3>1, <3>2, <4>1 DEF Rivals
      <4> QED  BY <1>3, <3>3, <4>2
    <3>4. CASE s[2] # o
      <4>1. s \in a.older
        BY <1>3, <3>4
      <4>2. <<r[1], s[2]>> \in a.older
        BY <1>8, <3>1, <4>1 DEF TouchOrder
      <4> QED  BY <1>3, <3>1, <3>4, <4>2
    <3> QED  BY <3>3, <3>4
  <2> QED  BY <2>1, <2>2
<1> QED  BY <1>4, <1>6, <1>7, <1>8 DEF TouchOrder

\* So does taking the owners vs out.
LEMMA TouchDrop ==
    ASSUME NEW a \in Admissions, TouchOrder(a), NEW vs, NEW b,
           b.groups = [o \in Owners |-> IF o \in vs THEN {} ELSE a.groups[o]],
           b.older = Forget(a.older, vs)
    PROVE  TouchOrder(b)
<1>1. a.groups \in [Owners -> SUBSET Keys] /\ a.older \in SUBSET (Owners \X Owners)
  BY DEF Admissions
<1>2. Present(b) = Present(a) \ vs
  BY <1>1 DEF Present
<1>3. b.older = {r \in a.older : r[1] \notin vs /\ r[2] \notin vs}
  BY DEF Forget
<1>4. \A p : Rivals(b, p) = Rivals(a, p) \ vs
  BY <1>2 DEF Rivals
<1>5. \A r \in b.older : r[1] \in Present(b) /\ r[2] \in Rivals(b, r[1])
  BY <1>2, <1>3, <1>4 DEF TouchOrder
<1>6. ASSUME NEW o \in Present(b), NEW p \in Rivals(b, o)
      PROVE  <<o, p>> \in b.older <=> <<p, o>> \notin b.older
  <2>1. o \in Present(a) /\ p \in Rivals(a, o) /\ o \notin vs /\ p \notin vs
    BY <1>2, <1>4
  <2>2. <<o, p>> \in a.older <=> <<p, o>> \notin a.older
    BY <2>1 DEF TouchOrder
  <2> QED  BY <1>3, <2>1, <2>2
<1>7. \A r, s \in b.older : r[2] = s[1] => <<r[1], s[2]>> \in b.older
  BY <1>1, <1>3 DEF TouchOrder
<1> QED  BY <1>5, <1>6, <1>7 DEF TouchOrder

-----------------------------------------------------------------------------
(* Single calls keep the books.                                               *)

\* What replacing the group of o does to the set of accounts and its size.
LEMMA PhysicalPut ==
    ASSUME NEW a \in Admissions, NEW o \in Owners, NEW ks \in SUBSET Keys,
           NEW b, b.groups = [a.groups EXCEPT ![o] = ks]
    PROVE  /\ Physical(b) = (Physical(a) \ FreedBy(a, o, ks)) \cup ks
           /\ Cardinality(Physical(b)) =
                Cardinality(Physical(a)) - Cardinality(FreedBy(a, o, ks)) + Cardinality(Added(a, ks))
<1> DEFINE P == Physical(a)
           D == FreedBy(a, o, ks)
           N == Added(a, ks)
<1>1. a.groups \in [Owners -> SUBSET Keys]
  BY DEF Admissions
<1>2. D \subseteq P /\ D \cap ks = {}
  BY <1>1 DEF FreedBy, Physical
<1>3. N = ks \ P
  BY DEF Added
<1>4. Physical(b) = (P \ D) \cup ks
  <2>1. \A p \in Owners : b.groups[p] = IF p = o THEN ks ELSE a.groups[p]
    BY <1>1
  <2>2. \A k : k \in Physical(b) <=> \E p \in Owners : k \in b.groups[p]
    BY DEF Physical
  <2>3. \A k : k \in P <=> \E p \in Owners : k \in a.groups[p]
    BY DEF Physical
  <2>4. ASSUME NEW k \in Physical(b) PROVE k \in (P \ D) \cup ks
    <3>1. PICK p \in Owners : k \in b.groups[p]
      BY <2>2
    <3>2. CASE p = o
      BY <2>1, <3>1, <3>2
    <3>3. CASE p # o
      <4>1. k \in a.groups[p] /\ k \in P
        BY <2>1, <2>3, <3>1, <3>3
      <4>2. p \in Refs(a, k)
        BY <4>1 DEF Refs
      <4>3. k \notin D
        BY <3>3, <4>2 DEF FreedBy
      <4> QED  BY <4>1, <4>3
    <3> QED  BY <3>2, <3>3
  <2>5. ASSUME NEW k \in (P \ D) \cup ks PROVE k \in Physical(b)
    <3>1. CASE k \in ks
      BY <2>1, <2>2, <3>1
    <3>2. CASE k \notin ks
      <4>1. k \in P /\ k \notin D
        BY <2>5, <3>2
      <4>2. PICK p \in Owners : k \in a.groups[p]
        BY <2>3, <4>1
      <4>3. \E q \in Owners : q # o /\ k \in a.groups[q]
        <5>1. CASE k \notin a.groups[o]
          BY <4>2, <5>1
        <5>2. CASE k \in a.groups[o]
          <6>1. Refs(a, k) # {o}
            BY <3>2, <4>1, <5>2 DEF FreedBy
          <6>2. o \in Refs(a, k)
            BY <5>2 DEF Refs
          <6> QED  BY <6>1, <6>2 DEF Refs
        <5> QED  BY <5>1, <5>2
      <4> QED  BY <2>1, <2>2, <4>3
    <3> QED  BY <3>1, <3>2
  <2> QED  BY <2>4, <2>5
<1>5. IsFiniteSet(P) /\ IsFiniteSet(ks)
  BY Finite, GroupFinite
<1>6. IsFiniteSet(P \ D) /\ Cardinality(P \ D) = Cardinality(P) - Cardinality(D)
      /\ Cardinality(P) \in Nat /\ Cardinality(D) \in Nat
  <2> HIDE DEF P, D
  <2> QED  BY <1>2, <1>5, Parts
<1>7. IsFiniteSet(N) /\ Cardinality(N) \in Nat
  <2>1. N \subseteq ks
    BY <1>3
  <2> HIDE DEF N
  <2> QED  BY <1>5, <2>1, Parts
<1>8. (P \ D) \cup ks = (P \ D) \cup N /\ (P \ D) \cap N = {}
  BY <1>2, <1>3
<1>9. Cardinality((P \ D) \cup N) = Cardinality(P \ D) + Cardinality(N) - Cardinality({})
  <2> HIDE DEF P, D, N
  <2> QED  BY <1>6, <1>7, <1>8, FS_Union
<1>10. Cardinality({}) = 0
  BY FS_EmptySet
<1>11. Cardinality(Physical(b)) = Cardinality(P) - Cardinality(D) + Cardinality(N)
  <2> HIDE DEF P, D, N
  <2>1. Physical(b) = (P \ D) \cup N
    BY <1>4, <1>8, Zenon
  <2>2. Cardinality(Physical(b)) = Cardinality(P \ D) + Cardinality(N) - Cardinality({})
    BY <2>1, <1>9, Zenon
  <2> QED  BY <2>2, <1>6, <1>7, <1>10
<1> QED  BY <1>4, <1>11

\* An admission in which a call changed three fields.
Put(a, o, ks, r, n) == [a EXCEPT !.groups[o] = ks, !.older = r, !.len = n]

\* The fields of such an admission.
LEMMA Fields ==
    ASSUME NEW a \in Admissions, NEW o \in Owners, NEW ks, NEW r, NEW n,
           NEW b, b = Put(a, o, ks, r, n)
    PROVE  /\ b.groups = [a.groups EXCEPT ![o] = ks] /\ b.older = r /\ b.len = n /\ b.cap = a.cap
           /\ b = [groups |-> b.groups, older |-> b.older, len |-> b.len, cap |-> b.cap]
<1>1. b.groups = [a.groups EXCEPT ![o] = ks] /\ b.older = r /\ b.len = n /\ b.cap = a.cap
  BY DEF Admissions, Put
<1>2. b = [groups |-> b.groups, older |-> b.older, len |-> b.len, cap |-> b.cap]
  BY DEF Admissions, Put
<1> QED  BY <1>1, <1>2

\* An admission with a group put in, stamped and counted is sound when it is
\* within its cap.
IsPut(a, o, ks, n, b) ==
    /\ b = Put(a, o, ks, Stamp(a, o), n)
    /\ n \in Nat /\ n <= a.cap /\ n = Cardinality(Physical(b))

\* A group that is put in, stamped and counted leaves a sound admission.
LEMMA PutSound ==
    ASSUME NEW a \in Admissions, TouchOrder(a), NEW o \in Owners,
           NEW ks \in SUBSET Keys, ks # {}, NEW n, NEW b, IsPut(a, o, ks, n, b)
    PROVE  b \in Sound /\ b.cap = a.cap
<1>0. /\ b = Put(a, o, ks, Stamp(a, o), n)
      /\ n \in Nat /\ n <= a.cap /\ n = Cardinality(Physical(b))
  BY DEF IsPut
<1>1. /\ b.groups = [a.groups EXCEPT ![o] = ks] /\ b.older = Stamp(a, o)
      /\ b.len = n /\ b.cap = a.cap
      /\ b = [groups |-> b.groups, older |-> b.older, len |-> b.len, cap |-> b.cap]
  BY <1>0, Fields
<1>2. Stamp(a, o) \in SUBSET (Owners \X Owners) /\ TouchOrder(b)
  BY <1>1, TouchPut
<1>3. b.groups \in [Owners -> SUBSET Keys]
  BY <1>1 DEF Admissions
<1>4. b \in Admissions
  BY <1>0, <1>1, <1>2, <1>3 DEF Admissions
<1> QED  BY <1>0, <1>1, <1>2, <1>4 DEF Sound, BooksOf

\* remove_group
LEMMA RemoveSound ==
    ASSUME NEW a \in Sound, NEW o \in Owners
    PROVE  /\ remove_group(a, o) \in Sound
           /\ remove_group(a, o).groups = [a.groups EXCEPT ![o] = {}]
           /\ remove_group(a, o).cap = a.cap
<1>0. a \in Admissions /\ BooksOf(a)
  BY DEF Sound
<1>1. a.groups \in [Owners -> SUBSET Keys] /\ a.older \in SUBSET (Owners \X Owners)
      /\ a.len \in Nat /\ a.cap \in Nat
  BY <1>0 DEF Admissions
<1>2. CASE a.groups[o] = {}
  <2>1. a.groups = [a.groups EXCEPT ![o] = {}]
    BY <1>1, <1>2
  <2> QED  BY <1>2, <2>1 DEF remove_group
<1>3. CASE a.groups[o] # {}
  <2> DEFINE D == {k \in a.groups[o] : Refs(a, k) = {o}}
             b == Put(a, o, {}, Forget(a.older, {o}), a.len - Cardinality(D))
  <2>1. remove_group(a, o) = b
    BY <1>3 DEF remove_group, Put
  <2>2. /\ b.groups = [a.groups EXCEPT ![o] = {}] /\ b.older = Forget(a.older, {o})
        /\ b.len = a.len - Cardinality(D) /\ b.cap = a.cap
        /\ b = [groups |-> b.groups, older |-> b.older, len |-> b.len, cap |-> b.cap]
    <3>1. b = Put(a, o, {}, Forget(a.older, {o}), a.len - Cardinality(D))
      OBVIOUS
    <3> HIDE DEF b, D
    <3> QED  BY <1>0, <3>1, Fields
  <2>3. D = FreedBy(a, o, {}) /\ Added(a, {}) = {}
    BY DEF FreedBy, Added
  <2>4. D \subseteq Physical(a)
    BY DEF Physical
  <2>5. Cardinality(D) \in Nat /\ Cardinality(D) <= Cardinality(Physical(a))
        /\ Cardinality(Physical(a)) \in Nat
    <3> HIDE DEF D
    <3> QED  BY <1>0, <2>4, Finite, Parts
  <2>6. Cardinality(Physical(b)) = Cardinality(Physical(a)) - Cardinality(D)
    <3>1. {} \in SUBSET Keys
      OBVIOUS
    <3>2. Cardinality({}) = 0
      BY FS_EmptySet
    <3> HIDE DEF D, b
    <3>3. b.groups = [a.groups EXCEPT ![o] = {}]
      BY <2>2
    <3>4. Cardinality(Physical(b)) =
            Cardinality(Physical(a)) - Cardinality(FreedBy(a, o, {})) + Cardinality(Added(a, {}))
      BY <1>0, <3>1, <3>3, PhysicalPut
    <3> QED  BY <2>3, <2>5, <3>2, <3>4
  <2>7. a.len = Cardinality(Physical(a)) /\ a.len <= a.cap /\ TouchOrder(a)
    BY <1>0 DEF BooksOf
  <2>8. TouchOrder(b)
    <3>1. b.groups = [p \in Owners |-> IF p \in {o} THEN {} ELSE a.groups[p]]
      BY <1>1, <2>2
    <3> HIDE DEF b
    <3> QED  BY <1>0, <2>2, <2>7, <3>1, TouchDrop
  <2>9. b.groups \in [Owners -> SUBSET Keys] /\ b.older \in SUBSET (Owners \X Owners)
    BY <1>1, <2>2 DEF Forget
  <2>10. b.len \in Nat /\ b.len <= b.cap /\ b.len = Cardinality(Physical(b))
    <3> HIDE DEF b, D
    <3> QED  BY <1>1, <2>2, <2>5, <2>6, <2>7
  <2> HIDE DEF b
  <2>11. b \in Admissions
    BY <1>1, <2>2, <2>9, <2>10 DEF Admissions
  <2> QED  BY <2>1, <2>2, <2>8, <2>10, <2>11 DEF Sound, BooksOf
<1> QED  BY <1>2, <1>3

\* What an admission of Sound is made of.
LEMMA SoundParts ==
    ASSUME NEW a \in Sound
    PROVE  /\ a \in Admissions /\ TouchOrder(a) /\ a.groups \in [Owners -> SUBSET Keys]
           /\ a.len \in Nat /\ a.cap \in Nat /\ a.len <= a.cap
           /\ a.len = Cardinality(Physical(a))
  BY DEF Sound, Admissions, BooksOf

\* What a call that puts the group ks of o into a answers, when it does.
PutIn(a, o, ks, r) ==
    /\ r.result = "Inserted" /\ r.adm \in Sound /\ r.adm.cap = a.cap
    /\ r.adm.groups = [a.groups EXCEPT ![o] = ks]

\* try_admit_new_group
LEMMA NewSound ==
    ASSUME NEW a \in Sound, NEW o \in Owners, a.groups[o] = {}, NEW ks \in SUBSET Keys, ks # {}
    PROVE  /\ Fits(a, ks) => PutIn(a, o, ks, try_admit_new_group(a, o, ks))
           /\ ~Fits(a, ks) => try_admit_new_group(a, o, ks) = [adm |-> a, result |-> "RejectedCap"]
<1>1. SUFFICES ASSUME Fits(a, ks) PROVE PutIn(a, o, ks, try_admit_new_group(a, o, ks))
  BY DEF try_admit_new_group
<1> DEFINE n == a.len + Cardinality(Added(a, ks))
           b == Put(a, o, ks, Stamp(a, o), n)
<1>2. try_admit_new_group(a, o, ks) = [adm |-> b, result |-> "Inserted"]
  BY <1>1 DEF try_admit_new_group, Put
<1>3. Added(a, ks) \in SUBSET Keys
  BY DEF Added
<1>4. n \in Nat /\ n <= a.cap
  <2>1. Cardinality(Added(a, ks)) \in Nat
    BY <1>3, GroupFinite
  <2> QED  BY <1>1, <2>1, SoundParts DEF Fits
<1>5. b.groups = [a.groups EXCEPT ![o] = ks]
  <2> HIDE DEF n
  <2> QED  BY SoundParts, Fields
<1>6. FreedBy(a, o, ks) = {}
  BY DEF FreedBy
<1>7. Cardinality(Physical(b)) = n
  <2> HIDE DEF b
  <2>1. Cardinality(Physical(b)) =
          Cardinality(Physical(a)) - Cardinality(FreedBy(a, o, ks)) + Cardinality(Added(a, ks))
    BY <1>5, SoundParts, PhysicalPut
  <2>2. Cardinality({}) = 0
    BY FS_EmptySet
  <2>3. Cardinality(Added(a, ks)) \in Nat
    BY <1>3, GroupFinite
  <2> QED  BY <1>6, <2>1, <2>2, <2>3, SoundParts
<1>8. b \in Sound /\ b.cap = a.cap
  <2>1. b = Put(a, o, ks, Stamp(a, o), n)
    OBVIOUS
  <2>2. a \in Admissions /\ TouchOrder(a)
    BY SoundParts
  <2> HIDE DEF b, n
  <2>3. IsPut(a, o, ks, n, b)
    BY <1>4, <1>7, <2>1 DEF IsPut
  <2>4. \A n1, b1 : IsPut(a, o, ks, n1, b1) => b1 \in Sound /\ b1.cap = a.cap
    BY <2>2, PutSound
  <2> QED  BY <2>3, <2>4, Zenon
<1> HIDE DEF b
<1> QED  BY <1>2, <1>5, <1>8 DEF PutIn

\* try_replace_group
LEMMA ReplaceSound ==
    ASSUME NEW a \in Sound, NEW o \in Owners, NEW ks \in SUBSET Keys, ks # {}
    PROVE  \/ PutIn(a, o, ks, try_replace_group(a, o, ks))
           \/ try_replace_group(a, o, ks) = [adm |-> a, result |-> "RejectedCap"]
<1> DEFINE n == a.len - Cardinality(FreedBy(a, o, ks)) + Cardinality(Added(a, ks))
           b == Put(a, o, ks, Stamp(a, o), n)
<1>1. CASE n > a.cap
  BY <1>1 DEF try_replace_group
<1>2. CASE ~(n > a.cap)
  <2>1. try_replace_group(a, o, ks) = [adm |-> b, result |-> "Inserted"]
    BY <1>2 DEF try_replace_group, Put
  <2>2. b.groups = [a.groups EXCEPT ![o] = ks]
    <3> HIDE DEF n
    <3> QED  BY SoundParts, Fields
  <2>3. Cardinality(Physical(b)) = n
    <3> HIDE DEF b
    <3> QED  BY <2>2, SoundParts, PhysicalPut
  <2>4. b.groups \in [Owners -> SUBSET Keys]
    BY <2>2, SoundParts
  <2>5. n \in Nat
    <3>1. Physical(b) \in SUBSET Keys
      BY <2>4 DEF Physical
    <3> HIDE DEF b
    <3> QED  BY <2>3, <3>1, GroupFinite
  <2>6. b \in Sound /\ b.cap = a.cap
    <3>1. b = Put(a, o, ks, Stamp(a, o), n)
      OBVIOUS
    <3>2. n <= a.cap
      <4> HIDE DEF n
      <4> QED  BY <1>2, <2>5, SoundParts
    <3>3. a \in Admissions /\ TouchOrder(a)
      BY SoundParts
    <3> HIDE DEF b, n
    <3>4. IsPut(a, o, ks, n, b)
      BY <2>3, <2>5, <3>1, <3>2 DEF IsPut
    <3>5. \A n1, b1 : IsPut(a, o, ks, n1, b1) => b1 \in Sound /\ b1.cap = a.cap
      BY <3>3, PutSound
    <3> QED  BY <3>4, <3>5, Zenon
  <2> HIDE DEF b
  <2> QED  BY <2>1, <2>2, <2>6 DEF PutIn
<1> QED  BY <1>1, <1>2

\* build_evicting_candidate: the admission without the owners vs.
LEMMA DropAdmission ==
    ASSUME NEW a \in Sound, NEW vs
    PROVE  /\ Dropped(a, vs) \in Admissions /\ TouchOrder(Dropped(a, vs))
           /\ Dropped(a, vs).groups = [o \in Owners |-> IF o \in vs THEN {} ELSE a.groups[o]]
           /\ Dropped(a, vs).cap = a.cap
<1> DEFINE G == [o \in Owners |-> IF o \in vs THEN {} ELSE a.groups[o]]
<1>0. a \in Admissions /\ TouchOrder(a) /\ a.older \in SUBSET (Owners \X Owners)
  BY SoundParts DEF Admissions
<1>1. G \in [Owners -> SUBSET Keys] /\ Forget(a.older, vs) \in SUBSET (Owners \X Owners)
  BY <1>0, SoundParts DEF Forget
<1> SUFFICES ASSUME NEW b, b = Dropped(a, vs)
             PROVE  b \in Admissions /\ TouchOrder(b) /\ b.groups = G /\ b.cap = a.cap
  BY Zenon
<1>2. /\ b.groups = G /\ b.older = Forget(a.older, vs) /\ b.len = a.len /\ b.cap = a.cap
      /\ b = [groups |-> b.groups, older |-> b.older, len |-> b.len, cap |-> b.cap]
  BY <1>0 DEF Dropped, Admissions
<1>3. b \in Admissions
  <2> HIDE DEF G
  <2> QED  BY <1>1, <1>2, SoundParts DEF Admissions
<1>4. TouchOrder(b)
  BY <1>0, <1>2, TouchDrop
<1> QED  BY <1>2, <1>3, <1>4

\* EvictAndAdmit, with vs the victims the planner chose.
WithVictims(a, o, ks, vs) ==
    [p \in Owners |-> IF p = o THEN ks ELSE IF p \in vs THEN {} ELSE a.groups[p]]

\* Without the victims, the groups are admitted exactly if they fit in the cap;
\* the result is sound either way.
LEMMA EvictSound ==
    ASSUME NEW a \in Sound, NEW o \in Owners, NEW ks \in SUBSET Keys, ks # {}, NEW vs, vs # {},
           NEW r, r = EvictAndAdmit(a, o, ks, vs),
           NEW all, all = UNION {WithVictims(a, o, ks, vs)[p] : p \in Owners}
    PROVE  /\ Cardinality(all) > a.cap => r = [adm |-> a, result |-> "InternalInvariantViolation"]
           /\ ~(Cardinality(all) > a.cap) =>
                /\ r.result = "Inserted" /\ r.adm \in Sound /\ r.adm.cap = a.cap
                /\ r.adm.groups = WithVictims(a, o, ks, vs)
<1> DEFINE D == Dropped(a, vs)
           cand == [D EXCEPT !.groups[o] = ks, !.older = Stamp(D, o)]
<1>1. r = Commit(a, cand)
  BY DEF EvictAndAdmit
<1>2. D \in Admissions /\ TouchOrder(D) /\ D.cap = a.cap
      /\ D.groups = [p \in Owners |-> IF p \in vs THEN {} ELSE a.groups[p]]
  BY DropAdmission
<1>3. cand.cap = a.cap /\ cand.groups = [D.groups EXCEPT ![o] = ks]
  <2> HIDE DEF D
  <2> QED  BY <1>2 DEF Admissions
<1>4. cand.groups = WithVictims(a, o, ks, vs)
  <2> HIDE DEF cand, D
  <2> QED  BY <1>2, <1>3 DEF WithVictims
<1>5. Physical(cand) = all
  <2> HIDE DEF cand
  <2> QED  BY <1>4 DEF Physical
<1>6. CASE Cardinality(all) > a.cap
  <2> HIDE DEF cand
  <2> QED  BY <1>1, <1>3, <1>5, <1>6 DEF Commit
<1>7. CASE ~(Cardinality(all) > a.cap)
  <2> DEFINE b == Put(D, o, ks, Stamp(D, o), Cardinality(all))
  <2>1. [cand EXCEPT !.len = Cardinality(all)] = b
    <3> HIDE DEF D
    <3> QED  BY <1>2 DEF Put, Admissions
  <2>2. r = [adm |-> b, result |-> "Inserted"]
    <3> HIDE DEF b, cand
    <3> QED  BY <1>1, <1>3, <1>5, <1>7, <2>1 DEF Commit
  <2>3. b.groups = [D.groups EXCEPT ![o] = ks]
    <3> HIDE DEF D
    <3> QED  BY <1>2, Fields
  <2>4. b.groups = WithVictims(a, o, ks, vs)
    <3> HIDE DEF cand, D, b
    <3> QED  BY <1>3, <1>4, <2>3
  <2>5. Physical(b) = all
    <3> HIDE DEF b
    <3> QED  BY <2>4 DEF Physical
  <2>6. all \in SUBSET Keys
    BY SoundParts DEF WithVictims
  <2>7. Cardinality(all) \in Nat /\ Cardinality(all) <= a.cap
    BY <1>7, <2>6, GroupFinite, SoundParts
  <2>8. b \in Sound /\ b.cap = a.cap
    <3>1. b = Put(D, o, ks, Stamp(D, o), Cardinality(all))
      OBVIOUS
    <3>2. Cardinality(all) <= D.cap
      BY <1>2, <2>7
    <3>3. Cardinality(all) = Cardinality(Physical(b))
      BY <2>5
    <3> HIDE DEF b, D
    <3>4. IsPut(D, o, ks, Cardinality(all), b)
      BY <2>7, <3>1, <3>2, <3>3 DEF IsPut
    <3>5. \A n1, b1 : IsPut(D, o, ks, n1, b1) => b1 \in Sound /\ b1.cap = D.cap
      BY <1>2, PutSound
    <3>6. b \in Sound /\ b.cap = D.cap
      BY <3>4, <3>5, Zenon
    <3> QED  BY <1>2, <3>6
  <2> HIDE DEF b
  <2> QED  BY <1>7, <2>2, <2>4, <2>8
<1> QED  BY <1>6, <1>7

-----------------------------------------------------------------------------
(* Every call of the worker keeps the books.                                  *)

\* What the calls on an admission of cap c answer.
Results == {"Inserted", "RejectedCap", "RejectedProtected", "InternalInvariantViolation"}
Answers(c) == [adm : {b \in Sound : b.cap = c}, result : Results]

\* An answer is a sound admission of the same cap and one of the results.
LEMMA Answer ==
    ASSUME NEW c, NEW b \in Sound, b.cap = c, NEW s \in Results
    PROVE  [adm |-> b, result |-> s] \in Answers(c)
  BY DEF Answers

\* The results, one by one.
LEMMA ResultsAre ==
    /\ "Inserted" \in Results /\ "RejectedCap" \in Results
    /\ "RejectedProtected" \in Results /\ "InternalInvariantViolation" \in Results
  BY DEF Results

\* EvictAndAdmit, whatever the planner chose.
LEMMA EvictAnswers ==
    ASSUME NEW a \in Sound, NEW o \in Owners, NEW ks \in SUBSET Keys, ks # {}, NEW vs
    PROVE  EvictAndAdmit(a, o, ks, vs) \in Answers(a.cap)
<1>1. CASE vs = {}
  <2>1. EvictAndAdmit(a, o, ks, vs) = [adm |-> a, result |-> "RejectedProtected"]
    BY <1>1 DEF EvictAndAdmit
  <2> QED  BY <2>1, Answer, ResultsAre
<1>2. CASE vs # {}
  <2> DEFINE r == EvictAndAdmit(a, o, ks, vs)
             all == UNION {WithVictims(a, o, ks, vs)[p] : p \in Owners}
  <2>1. /\ Cardinality(all) > a.cap => r = [adm |-> a, result |-> "InternalInvariantViolation"]
        /\ ~(Cardinality(all) > a.cap) =>
                /\ r.result = "Inserted" /\ r.adm \in Sound /\ r.adm.cap = a.cap
                /\ r.adm.groups = WithVictims(a, o, ks, vs)
    BY <1>2, EvictSound
  <2>2. \E b, s : r = [adm |-> b, result |-> s]
    BY <1>2 DEF EvictAndAdmit, Commit
  <2> HIDE DEF r, all
  <2>3. ASSUME Cardinality(all) > a.cap PROVE r \in Answers(a.cap)
    BY <2>1, <2>3, Answer, ResultsAre
  <2>4. ASSUME ~(Cardinality(all) > a.cap) PROVE r \in Answers(a.cap)
    <3>1. PICK b, s : r = [adm |-> b, result |-> s]
      BY <2>2
    <3>2. b \in Sound /\ b.cap = a.cap /\ s = "Inserted"
      BY <2>1, <2>4, <3>1
    <3> QED  BY <3>1, <3>2, Answer, ResultsAre
  <2>5. r \in Answers(a.cap)
    BY <2>3, <2>4
  <2> QED  BY <2>5 DEF r
<1> QED  BY <1>1, <1>2

\* An answer that put a group in.
LEMMA PutInAnswer ==
    ASSUME NEW a, NEW o, NEW ks, NEW r, PutIn(a, o, ks, r),
           r = [adm |-> r.adm, result |-> r.result]
    PROVE  r \in Answers(a.cap)
  BY Answer, ResultsAre DEF PutIn

\* try_admit_new_group
LEMMA NewAnswers ==
    ASSUME NEW a \in Sound, NEW o \in Owners, a.groups[o] = {}, NEW ks \in SUBSET Keys, ks # {}
    PROVE  try_admit_new_group(a, o, ks) \in Answers(a.cap)
<1> DEFINE r == try_admit_new_group(a, o, ks)
<1>1. r = [adm |-> r.adm, result |-> r.result]
  BY DEF try_admit_new_group
<1>2. /\ Fits(a, ks) => PutIn(a, o, ks, r)
      /\ ~Fits(a, ks) => r = [adm |-> a, result |-> "RejectedCap"]
  BY NewSound
<1> HIDE DEF r
<1>3. ASSUME Fits(a, ks) PROVE r \in Answers(a.cap)
  BY <1>1, <1>2, <1>3, PutInAnswer
<1>4. ASSUME ~Fits(a, ks) PROVE r \in Answers(a.cap)
  BY <1>2, <1>4, Answer, ResultsAre
<1>5. r \in Answers(a.cap)
  BY <1>3, <1>4
<1> QED  BY <1>5 DEF r

\* try_admit_with_eviction
LEMMA WithEvictionAnswers ==
    ASSUME NEW a \in Sound, NEW o \in Owners, a.groups[o] = {}, NEW ks \in SUBSET Keys, ks # {}
    PROVE  try_admit_with_eviction(a, o, ks) \in Answers(a.cap)
<1>1. CASE Fits(a, ks)
  BY <1>1, NewAnswers DEF try_admit_with_eviction
<1>2. CASE ~Fits(a, ks)
  BY <1>2, EvictAnswers DEF try_admit_with_eviction
<1> QED  BY <1>1, <1>2

\* Touching a group that is already there.
LEMMA TouchSound ==
    ASSUME NEW a \in Sound, NEW o \in Owners, a.groups[o] # {}
    PROVE  /\ [a EXCEPT !.older = Stamp(a, o)] \in Sound
           /\ [a EXCEPT !.older = Stamp(a, o)].groups = a.groups
           /\ [a EXCEPT !.older = Stamp(a, o)].cap = a.cap
<1> DEFINE b == Put(a, o, a.groups[o], Stamp(a, o), a.len)
<1>0. a \in Admissions /\ TouchOrder(a) /\ a.groups \in [Owners -> SUBSET Keys]
      /\ a.len \in Nat /\ a.len <= a.cap /\ a.len = Cardinality(Physical(a))
  BY SoundParts
<1>1. [a EXCEPT !.groups[o] = a.groups[o]] = a
  BY <1>0 DEF Admissions
<1>2. [a EXCEPT !.older = Stamp(a, o)] = b
  BY <1>0 DEF Admissions, Put
<1>3. b.groups = a.groups /\ b.cap = a.cap
  BY <1>0 DEF Admissions, Put
<1>4. Physical(b) = Physical(a)
  <2> HIDE DEF b
  <2> QED  BY <1>3 DEF Physical
<1>5. IsPut(a, o, a.groups[o], a.len, b)
  <2>1. b = Put(a, o, a.groups[o], Stamp(a, o), a.len)
    OBVIOUS
  <2> HIDE DEF b
  <2> QED  BY <1>0, <1>4, <2>1 DEF IsPut
<1>6. a.groups[o] \in SUBSET Keys
  BY <1>0
<1>7. \A ks \in SUBSET Keys : ks # {} => \A n1, b1 : IsPut(a, o, ks, n1, b1) => b1 \in Sound /\ b1.cap = a.cap
  BY <1>0, PutSound
<1>8. b \in Sound
  <2> HIDE DEF b
  <2> QED  BY <1>5, <1>6, <1>7, Zenon
<1> HIDE DEF b
<1> QED  BY <1>2, <1>3, <1>8

\* try_admit_owner_group
LEMMA OwnerGroupAnswers ==
    ASSUME NEW a \in Sound, NEW o \in Owners, NEW ks \in SUBSET Keys
    PROVE  try_admit_owner_group(a, o, ks) \in Answers(a.cap)
<1>1. CASE ks = {}
  <2>1. try_admit_owner_group(a, o, ks) = [adm |-> a, result |-> "Inserted"]
    BY <1>1 DEF try_admit_owner_group
  <2> QED  BY <2>1, Answer, ResultsAre
<1>2. CASE ks # {} /\ a.groups[o] = {}
  BY <1>2, NewAnswers, WithEvictionAnswers DEF try_admit_owner_group
<1>3. CASE ks # {} /\ a.groups[o] # {} /\ a.groups[o] = ks
  <2> DEFINE b == [a EXCEPT !.older = Stamp(a, o)]
  <2>1. b \in Sound /\ b.cap = a.cap
    BY <1>3, TouchSound
  <2>2. try_admit_owner_group(a, o, ks) = [adm |-> b, result |-> "Inserted"]
    BY <1>3 DEF try_admit_owner_group
  <2> HIDE DEF b
  <2> QED  BY <2>1, <2>2, Answer, ResultsAre
<1>4. CASE ks # {} /\ a.groups[o] # {} /\ a.groups[o] # ks
  <2> DEFINE r == try_replace_group(a, o, ks)
  <2>1. try_admit_owner_group(a, o, ks) =
          IF r.result = "RejectedCap" THEN try_admit_with_eviction(remove_group(a, o), o, ks) ELSE r
    BY <1>4 DEF try_admit_owner_group
  <2>2. CASE r.result = "RejectedCap"
    <3>1. remove_group(a, o) \in Sound /\ remove_group(a, o).cap = a.cap
          /\ remove_group(a, o).groups = [a.groups EXCEPT ![o] = {}]
      BY RemoveSound
    <3>2. remove_group(a, o).groups[o] = {}
      BY <3>1, SoundParts
    <3>3. try_admit_with_eviction(remove_group(a, o), o, ks) \in Answers(remove_group(a, o).cap)
      BY <1>4, <3>1, <3>2, WithEvictionAnswers
    <3> QED  BY <2>1, <2>2, <3>1, <3>3
  <2>3. CASE r.result # "RejectedCap"
    <3>1. r = [adm |-> r.adm, result |-> r.result]
      BY DEF try_replace_group
    <3>2. PutIn(a, o, ks, r)
      <4>1. PutIn(a, o, ks, r) \/ r = [adm |-> a, result |-> "RejectedCap"]
        BY <1>4, ReplaceSound
      <4> HIDE DEF r
      <4> QED  BY <2>3, <4>1
    <3>3. r \in Answers(a.cap)
      <4> HIDE DEF r
      <4> QED  BY <3>1, <3>2, PutInAnswer
    <3> QED  BY <2>1, <2>3, <3>3
  <2> QED  BY <2>2, <2>3
<1> QED  BY <1>1, <1>2, <1>3, <1>4

\* The owners in their order.
LEMMA InOrder ==
    /\ Len(Order) \in Nat
    /\ \A n \in 1 .. Len(Order) : Order[n] \in Owners
    /\ \A o \in Owners : \E n \in 1 .. Len(Order) : o = Order[n]
    /\ \A m, n \in 1 .. Len(Order) : m # n => Order[m] # Order[n]
<1>1. Order \in [1 .. Len(Order) -> Owners] /\ Len(Order) \in Nat
  BY OrderOK
<1>2. Owners = {Order[i] : i \in 1 .. Len(Order)}
  BY <1>1 DEF Owners, Range
<1>3. ASSUME NEW m \in 1 .. Len(Order), NEW n \in 1 .. Len(Order), m # n PROVE Order[m] # Order[n]
  <2>1. m < n \/ n < m
    BY <1>1, <1>3
  <2>2. DOMAIN Order = 1 .. Len(Order)
    BY <1>1
  <2> QED  BY <2>1, <2>2, OrderOK
<1> QED  BY <1>1, <1>2, <1>3

\* The loops: admitting one owner after the other, and removing them.
LEMMA AdmitAllAnswers ==
    ASSUME NEW a \in Sound, NEW d \in [Owners -> SUBSET Keys]
    PROVE  /\ \E f : Admitting(f, Answers(a.cap), a, d)
           /\ AdmitAll(a, d) \in Answers(a.cap)
<1> DEFINE S == Answers(a.cap)
<1>1. [adm |-> a, result |-> "Inserted"] \in S
  BY Answer, ResultsAre
<1>2. ASSUME NEW s \in S, NEW n \in 1 .. Len(Order) PROVE AdmitNext(s, Order[n], d[Order[n]]) \in S
  <2>1. s.adm \in Sound /\ s.adm.cap = a.cap
    BY DEF Answers
  <2>2. Order[n] \in Owners /\ d[Order[n]] \in SUBSET Keys
    BY InOrder
  <2>3. try_admit_owner_group(s.adm, Order[n], d[Order[n]]) \in S
    BY <2>1, <2>2, OwnerGroupAnswers
  <2> QED  BY <2>3 DEF AdmitNext
<1>3. PICK f : Admitting(f, S, a, d)
  <2> HIDE DEF S
  <2> QED  BY <1>1, <1>2, AdmitAllRuns
<1>4. Len(Order) \in 0 .. Len(Order)
  BY InOrder
<1>5. AdmitAll(a, d) \in S
  <2> HIDE DEF S
  <2> QED  BY <1>3, <1>4 DEF Admitting
<1> QED  BY <1>3, <1>5

\* Removing any set of groups keeps the admission sound and its cap.
LEMMA RemoveAllSound ==
    ASSUME NEW a \in Sound, NEW os
    PROVE  /\ \E f : Removing(f, {b \in Sound : b.cap = a.cap}, a, os)
           /\ RemoveAll(a, os) \in Sound /\ RemoveAll(a, os).cap = a.cap
<1> DEFINE S == {b \in Sound : b.cap = a.cap}
<1>1. a \in S
  OBVIOUS
<1>2. ASSUME NEW s \in S, NEW n \in 1 .. Len(Order) PROVE remove_group(s, Order[n]) \in S
  <2>1. s \in Sound /\ s.cap = a.cap /\ Order[n] \in Owners
    BY InOrder
  <2> QED  BY <2>1, RemoveSound
<1>3. PICK f : Removing(f, S, a, os)
  <2> HIDE DEF S
  <2> QED  BY <1>1, <1>2, RemoveAllRuns
<1>4. Len(Order) \in 0 .. Len(Order)
  BY InOrder
<1>5. RemoveAll(a, os) \in S
  <2> HIDE DEF S
  <2> QED  BY <1>3, <1>4 DEF Removing
<1> QED  BY <1>3, <1>5

\* The empty admission.
LEMMA NoAdmissionSound ==
    ASSUME NEW cap \in Nat
    PROVE  NoAdmission(cap) \in Sound /\ NoAdmission(cap).cap = cap /\ NoAdmission(cap).groups = NoGroups
<1> DEFINE b == NoAdmission(cap)
<1>1. b.groups = [o \in Owners |-> {}] /\ b.older = {} /\ b.len = 0 /\ b.cap = cap
      /\ b = [groups |-> b.groups, older |-> b.older, len |-> b.len, cap |-> b.cap]
  BY DEF NoAdmission, NoGroups
<1> HIDE DEF b
<1>2. Physical(b) = {} /\ Present(b) = {}
  BY <1>1 DEF Physical, Present
<1>3. Cardinality({}) = 0
  BY FS_EmptySet
<1>4. TouchOrder(b)
  BY <1>1, <1>2 DEF TouchOrder
<1>5. BooksOf(b)
  BY <1>1, <1>2, <1>3, <1>4 DEF BooksOf
<1>6. b.groups \in [Owners -> SUBSET Keys]
  BY <1>1
<1>7. b \in Admissions
  BY <1>1, <1>6 DEF Admissions
<1>8. b \in Sound /\ b.cap = cap /\ b.groups = NoGroups
  BY <1>1, <1>5, <1>7 DEF Sound, NoGroups
<1> QED  BY <1>8 DEF b

\* Settled changes the result only.
LEMMA SettledAdm ==
    ASSUME NEW c, NEW all \in Answers(c)
    PROVE  /\ Settled(all).adm = all.adm /\ all.adm \in Sound /\ all.adm.cap = c
           /\ WalletLen(all.adm) <= c /\ all.result = "Inserted" => Settled(all).result = "Converged"
<1>1. all.adm \in Sound /\ all.adm.cap = c /\ all.result \in Results
      /\ all = [adm |-> all.adm, result |-> all.result]
  BY DEF Answers
<1>2. Settled(all).adm = all.adm
  BY <1>1 DEF Settled
<1>3. Settled(all).result = IF WalletLen(all.adm) > all.adm.cap THEN "ProtectedOverflow"
                         ELSE IF all.result # "Inserted" \/ all.adm.len > all.adm.cap THEN "Unconverged"
                         ELSE "Converged"
  BY <1>1 DEF Settled
<1>4. all.adm.len <= all.adm.cap /\ all.adm.len \in Nat /\ all.adm.cap \in Nat
  BY <1>1, SoundParts
<1>5. WalletLen(all.adm) \in Nat
  <2>1. all.adm.groups[Wallet] \in SUBSET Keys
    BY <1>1, OrderOK, SoundParts
  <2> QED  BY <2>1, GroupFinite DEF WalletLen
<1>6. ~(all.adm.len > all.adm.cap)
  BY <1>4
<1>7. ASSUME WalletLen(all.adm) <= c PROVE ~(WalletLen(all.adm) > all.adm.cap)
  BY <1>1, <1>4, <1>5, <1>7
<1> QED  BY <1>1, <1>2, <1>3, <1>6, <1>7

\* converge_admission
LEMMA ConvergeSound ==
    ASSUME NEW a \in Sound, NEW d \in [Owners -> SUBSET Keys]
    PROVE  converge_admission(a, d).adm \in Sound /\ converge_admission(a, d).adm.cap = a.cap
<1>1. CASE WalletLen(a) > a.cap
  BY <1>1 DEF converge_admission
<1>2. CASE ~(WalletLen(a) > a.cap)
  <2> DEFINE e == WithTrackers(a, d)
             b == DropStale(a, e)
  <2>1. e \in [Owners -> SUBSET Keys]
    BY SoundParts DEF WithTrackers
  <2>2. b \in Sound /\ b.cap = a.cap
    <3> HIDE DEF e
    <3> QED  BY RemoveAllSound DEF DropStale
  <2>3. AdmitAll(b, e) \in Answers(a.cap)
    <3> HIDE DEF b, e
    <3> QED  BY <2>1, <2>2, AdmitAllAnswers
  <2>4. converge_admission(a, d) = Settled(AdmitAll(b, e))
    BY <1>2 DEF converge_admission, converge_to
  <2> HIDE DEF b, e
  <2> QED  BY <2>3, <2>4, SettledAdm
<1> QED  BY <1>1, <1>2

\* restore_admission
LEMMA RestoreSound ==
    ASSUME NEW cap \in Nat, NEW g \in [Owners -> SUBSET Keys]
    PROVE  restore_admission(cap, g).adm \in Sound /\ restore_admission(cap, g).adm.cap = cap
<1>0. NoAdmission(cap) \in Sound /\ NoAdmission(cap).cap = cap
  BY NoAdmissionSound
<1>1. CASE Cardinality(g[Wallet]) > cap
  BY <1>0, <1>1 DEF restore_admission
<1>2. CASE ~(Cardinality(g[Wallet]) > cap)
  <2>1. AdmitAll(NoAdmission(cap), g) \in Answers(cap)
    BY <1>0, AdmitAllAnswers
  <2>2. restore_admission(cap, g) = Settled(AdmitAll(NoAdmission(cap), g))
    BY <1>2 DEF restore_admission
  <2> QED  BY <2>1, <2>2, SettledAdm
<1> QED  BY <1>1, <1>2

\* An admission under a smaller cap that it fits in.
LEMMA Recapped ==
    ASSUME NEW a \in Admissions, TouchOrder(a), NEW cap \in Nat,
           NEW b, b.groups = a.groups, b.older = a.older, b.cap = cap,
           b = [groups |-> b.groups, older |-> b.older, len |-> b.len, cap |-> b.cap],
           b.len = Cardinality(Physical(a)), Cardinality(Physical(a)) <= cap
    PROVE  b \in Sound
<1>1. Physical(b) = Physical(a) /\ Present(b) = Present(a)
  BY DEF Physical, Present
<1>2. \A o : Rivals(b, o) = Rivals(a, o)
  BY <1>1 DEF Rivals
<1>3. TouchOrder(b)
  BY <1>1, <1>2 DEF TouchOrder
<1>4. Cardinality(Physical(a)) \in Nat
  BY Finite
<1>5. b.groups \in [Owners -> SUBSET Keys] /\ b.older \in SUBSET (Owners \X Owners)
  BY DEF Admissions
<1>6. b \in Admissions
  BY <1>4, <1>5 DEF Admissions
<1> QED  BY <1>1, <1>3, <1>6 DEF Sound, BooksOf

\* try_shrink_cap past its early returns, whatever the planner chose.
LEMMA ShrinkCommit ==
    ASSUME NEW a \in Sound, NEW cap \in Nat, NEW vs,
           NEW r, r = Commit(a, [Dropped(a, vs) EXCEPT !.cap = cap])
    PROVE  /\ r.adm \in Sound
           /\ Cardinality(Without(a, vs)) <= cap =>
                /\ r.adm.cap = cap
                /\ r.adm.groups = [o \in Owners |-> IF o \in vs THEN {} ELSE a.groups[o]]
<1> DEFINE D == Dropped(a, vs)
           cand == [D EXCEPT !.cap = cap]
           n == Cardinality(Physical(cand))
           b == [cand EXCEPT !.len = n]
<1>0. /\ D \in Admissions /\ TouchOrder(D)
      /\ D.groups = [o \in Owners |-> IF o \in vs THEN {} ELSE a.groups[o]]
  BY DropAdmission
<1>1. /\ cand.groups = D.groups /\ cand.cap = cap /\ cand.older = D.older
      /\ cand = [groups |-> cand.groups, older |-> cand.older, len |-> cand.len, cap |-> cand.cap]
  <2> HIDE DEF D
  <2> QED  BY <1>0 DEF Admissions
<1>2. Physical(cand) = Physical(D)
  <2> HIDE DEF D, cand
  <2> QED  BY <1>1 DEF Physical
<1>3. b.groups = D.groups /\ b.older = D.older /\ b.cap = cap /\ b.len = n
      /\ b = [groups |-> b.groups, older |-> b.older, len |-> b.len, cap |-> b.cap]
  <2> HIDE DEF D, n, cand
  <2> QED  BY <1>1
<1>4. Physical(D) = Without(a, vs)
  <2> HIDE DEF D
  <2> QED  BY <1>0 DEF Physical, Without
<1>5. Physical(D) \subseteq Keys /\ n \in Nat
  <2> HIDE DEF D, cand
  <2> QED  BY <1>0, <1>2, Finite
<1>6. CASE n > cap
  <2>1. r.adm = a
    <3>1. r = Commit(a, cand)
      OBVIOUS
    <3> HIDE DEF cand
    <3> QED  BY <1>1, <1>6, <3>1 DEF Commit
  <2>2. ~(Cardinality(Without(a, vs)) <= cap)
    <3> HIDE DEF D, cand
    <3>1. n = Cardinality(Without(a, vs))
      BY <1>2, <1>4
    <3> QED  BY <1>5, <1>6, <3>1
  <2> QED  BY <2>1, <2>2
<1>7. CASE ~(n > cap)
  <2>1. r.adm = b
    <3>1. r = Commit(a, cand)
      OBVIOUS
    <3> HIDE DEF cand
    <3> QED  BY <1>1, <1>7, <3>1 DEF Commit
  <2>2. n <= cap /\ n = Cardinality(Physical(D))
    <3> HIDE DEF cand, D
    <3> QED  BY <1>2, <1>5, <1>7
  <2>3. b \in Sound
    <3> HIDE DEF b, n, D, cand
    <3> QED  BY <1>0, <1>3, <2>2, Recapped
  <2> HIDE DEF b, D
  <2> QED  BY <1>0, <1>3, <2>1, <2>3
<1> QED  BY <1>6, <1>7

\* try_shrink_cap leaves a sound admission, shrunk or not.
LEMMA ShrinkSound ==
    ASSUME NEW a \in Sound, NEW cap \in Nat
    PROVE  try_shrink_cap(a, cap).adm \in Sound
<1>1. CASE cap > a.cap \/ WalletLen(a) > cap
  BY <1>1 DEF try_shrink_cap
<1>2. CASE ~(cap > a.cap) /\ ~(WalletLen(a) > cap) /\ a.len <= cap
  <2> DEFINE b == [a EXCEPT !.cap = cap]
  <2>1. a \in Admissions /\ TouchOrder(a) /\ a.len = Cardinality(Physical(a))
    BY SoundParts
  <2>2. b.groups = a.groups /\ b.older = a.older /\ b.cap = cap /\ b.len = a.len
        /\ b = [groups |-> b.groups, older |-> b.older, len |-> b.len, cap |-> b.cap]
    BY <2>1 DEF Admissions
  <2>3. b \in Sound
    <3> HIDE DEF b
    <3> QED  BY <1>2, <2>1, <2>2, Recapped
  <2>4. try_shrink_cap(a, cap).adm = b
    BY <1>2 DEF try_shrink_cap
  <2> QED  BY <2>3, <2>4
<1>3. CASE ~(cap > a.cap) /\ ~(WalletLen(a) > cap) /\ ~(a.len <= cap)
  BY <1>3, ShrinkCommit DEF try_shrink_cap
<1> QED  BY <1>1, <1>2, <1>3

-----------------------------------------------------------------------------
(* The invariant of the worker.                                               *)

IInv == adm \in Sound /\ config \in 1 .. MaxCap

\* Groups that are asked for, and demands, are sets of accounts.
LEMMA Inputs ==
    /\ \A o \in Owners : \A ks \in Planned[o] : ks \in SUBSET Keys /\ ks # {}
    /\ \A d \in Demands : d \in [Owners -> SUBSET Keys]
    /\ Wallet \in Owners /\ MaxCap \in Nat /\ MaxCap \in 1 .. MaxCap
<1>1. ASSUME NEW o \in Owners, NEW ks \in Planned[o] PROVE ks \in SUBSET Keys /\ ks # {}
  <2>1. ks \subseteq UNION Planned[o]
    OBVIOUS
  <2> QED  BY <2>1, OrderOK DEF Keys
<1> QED  BY <1>1, OrderOK, DemandsOK, MaxCapOK

\* An empty admission under the configured cap is sound.
LEMMA InitIInv == Init => IInv
  BY NoAdmissionSound, Inputs DEF Init, IInv

\* What one owner's call leaves.
LEMMA OwnerGroupSound ==
    ASSUME NEW a \in Sound, NEW o \in Owners, NEW ks \in SUBSET Keys
    PROVE  try_admit_owner_group(a, o, ks).adm \in Sound
  BY OwnerGroupAnswers DEF Answers

\* Every step of the worker, of the config handler and of a restart keeps the
\* admission sound.
LEMMA StepIInv == IInv /\ [Next]_vars => IInv'
<1> SUFFICES ASSUME IInv, [Next]_vars PROVE IInv'
  OBVIOUS
<1>0. adm \in Sound /\ config \in 1 .. MaxCap
  BY DEF IInv
<1>1. ASSUME NEW ks \in Planned[Wallet] \cup {{}}, AdmitWallet(ks) PROVE IInv'
  <2>1. ks \in SUBSET Keys /\ Wallet \in Owners
    BY Inputs
  <2>2. remove_group(adm, Wallet) \in Sound /\ try_admit_owner_group(adm, Wallet, ks).adm \in Sound
    BY <1>0, <2>1, RemoveSound, OwnerGroupSound
  <2> QED  BY <1>0, <1>1, <2>2 DEF AdmitWallet, IInv
<1>2. ASSUME NEW o \in Owners \ {Wallet}, NEW ks \in Planned[o], AdmitPool(o, ks) PROVE IInv'
  <2>1. PICK new \in {try_admit_owner_group(adm, o, ks)} :
          adm' = IF new.result = "Inserted" THEN RemoveAll(new.adm, Superseded(o)) ELSE new.adm
    BY <1>2 DEF AdmitPool
  <2>2. new.adm \in Sound
    BY <1>0, <2>1, Inputs, OwnerGroupSound
  <2>3. RemoveAll(new.adm, Superseded(o)) \in Sound
    BY <2>2, RemoveAllSound
  <2>4. adm' \in Sound
    BY <2>1, <2>2, <2>3
  <2> QED  BY <1>0, <1>2, <2>4 DEF AdmitPool, IInv
<1>3. ASSUME NEW o \in Owners, Bootstrap(o) PROVE IInv'
  <2>1. {o[2]} \in SUBSET Keys
    BY <1>3, Inputs DEF Bootstrap
  <2>2. try_admit_owner_group(adm, o, {o[2]}).adm \in Sound
    BY <1>0, <2>1, OwnerGroupSound
  <2> QED  BY <1>0, <1>3, <2>2 DEF Bootstrap, IInv
<1>4. ASSUME NEW o \in Owners, Release(o) PROVE IInv'
  BY <1>0, <1>4, RemoveSound DEF Release, IInv
<1>5. ASSUME NEW c, NEW n, NEW hot, Shed(c, n, hot) PROVE IInv'
  <2>1. \E row : adm' = RemoveAll(adm, row)
    BY <1>5 DEF Shed
  <2>2. config' = config
    BY <1>5 DEF Shed
  <2> QED  BY <1>0, <2>1, <2>2, RemoveAllSound DEF IInv
<1>6. ASSUME NEW cap \in 1 .. MaxCap, ConfigChange(cap) PROVE IInv'
  BY <1>0, <1>6 DEF ConfigChange, IInv
<1>7. ASSUME CapShrink PROVE IInv'
  <2>1. config \in Nat
    BY <1>0, Inputs
  <2>2. adm' = try_shrink_cap(adm, config).adm /\ config' = config
    BY <1>7 DEF CapShrink
  <2> QED  BY <1>0, <2>1, <2>2, ShrinkSound DEF IInv
<1>8. ASSUME NEW d \in Demands, Push(d) PROVE IInv'
  <2>1. d \in [Owners -> SUBSET Keys]
    BY Inputs
  <2>2. adm' = converge_admission(adm, d).adm /\ config' = config
    BY <1>8 DEF Push
  <2> QED  BY <1>0, <2>1, <2>2, ConvergeSound DEF IInv
<1>9. ASSUME Restart PROVE IInv'
  <2>1. config \in Nat
    BY <1>0, Inputs
  <2>2. Persisted(adm.groups) \in [Owners -> SUBSET Keys]
    BY <1>0, SoundParts DEF Persisted
  <2>3. adm' = restore_admission(config, Persisted(adm.groups)).adm /\ config' = config
    BY <1>9 DEF Restart
  <2> QED  BY <1>0, <2>1, <2>2, <2>3, RestoreSound DEF IInv
<1>10. CASE UNCHANGED vars
  BY <1>0, <1>10 DEF vars, IInv
<1> QED  BY <1>1, <1>2, <1>3, <1>4, <1>5, <1>6, <1>7, <1>8, <1>9, <1>10 DEF Next

\* The reachable admissions are sound.
LEMMA Invariant == Spec => []IInv
  BY InitIInv, StepIInv, PTL DEF Spec

\* The counter that the cap is enforced with never drifts from the accounts
\* the groups cover, whatever calls, evictions, sheds, shrinks and restarts
\* happen, and it stays within the cap.
THEOREM BooksHold == Spec => []Books
<1>1. IInv => Books
  BY DEF IInv, Sound, Books
<1> QED  BY <1>1, Invariant, PTL

\* The filter is declared ready only under the cap that is configured at that
\* moment.
THEOREM ReadyRespectsConfig == Spec => ReadyInConfig
<1>1. ASSUME [Next]_vars PROVE [ready' /\ ~ready => InConfig(adm)']_vars
  <2> SUFFICES ASSUME Next, ready', ~ready PROVE InConfig(adm)'
    BY <1>1
  <2>1. ASSUME ready' = ready PROVE FALSE
    BY <2>1
  <2>2. ASSUME CapShrink PROVE InConfig(adm)'
    <3>1. adm' = try_shrink_cap(adm, config).adm /\ config' = config
          /\ (ready' = IF try_shrink_cap(adm, config).result = "RejectedCapIncrease" THEN ready
                       ELSE try_shrink_cap(adm, config).result = "Inserted"
                            /\ InConfig(try_shrink_cap(adm, config).adm))
      BY <2>2 DEF CapShrink
    <3>2. InConfig(try_shrink_cap(adm, config).adm)
      BY <3>1
    <3> QED  BY <3>1, <3>2 DEF InConfig
  <2>3. ASSUME NEW d \in Demands, Push(d) PROVE InConfig(adm)'
    <3>1. adm' = converge_admission(adm, d).adm /\ config' = config
          /\ InConfig(converge_admission(adm, d).adm)
      BY <2>3 DEF Push
    <3> QED  BY <3>1 DEF InConfig
  <2>4. ASSUME Restart PROVE InConfig(adm)'
    <3>1. adm' = restore_admission(config, Persisted(adm.groups)).adm /\ config' = config
          /\ InConfig(restore_admission(config, Persisted(adm.groups)).adm)
      BY <2>4 DEF Restart
    <3> QED  BY <3>1 DEF InConfig
  <2>5. \/ CapShrink \/ Restart \/ \E d \in Demands : Push(d) \/ ready' = ready
    BY DEF Next, AdmitWallet, AdmitPool, Bootstrap, Release, Shed, ConfigChange
  <2> QED  BY <2>1, <2>2, <2>3, <2>4, <2>5
<1> QED  BY <1>1, PTL DEF Spec, ReadyInConfig

-----------------------------------------------------------------------------
(* The eviction planner.  Its choices (CHOOSE the oldest owner, the cheapest  *)
(* package) are of total orders over finite sets, so they exist.              *)

\* A relation that orders the elements of a finite set, of which there is one,
\* has a first one.
TotalOn(R, S) ==
    /\ \A x, y \in S : x # y => (<<x, y>> \in R <=> <<y, x>> \notin R)
    /\ \A x, y, z \in S : x # y /\ y # z /\ x # z /\ <<x, y>> \in R /\ <<y, z>> \in R => <<x, z>> \in R

\* Such a relation has a first element on every finite set that is not empty.
LEMMA FirstExists ==
    ASSUME NEW S, IsFiniteSet(S), S # {}, NEW R, TotalOn(R, S)
    PROVE  \E m \in S : \A x \in S \ {m} : <<m, x>> \in R
<1> DEFINE Below(x) == {y \in S : y # x /\ <<y, x>> \in R}
           T == {Cardinality(Below(x)) : x \in S}
<1>1. \A x \in S : IsFiniteSet(Below(x)) /\ Cardinality(Below(x)) \in Nat
  <2> SUFFICES ASSUME NEW x \in S PROVE IsFiniteSet(Below(x)) /\ Cardinality(Below(x)) \in Nat
    OBVIOUS
  <2>1. Below(x) \subseteq S
    OBVIOUS
  <2> HIDE DEF Below
  <2> QED  BY <2>1, FS_Subset, FS_CardinalityType
<1>2. T \in SUBSET Nat /\ T # {}
  <2> HIDE DEF Below
  <2> QED  BY <1>1
<1>3. PICK t \in T : \A n \in T : t <= n
  <2> HIDE DEF T
  <2> QED  BY <1>2, Least
<1>4. PICK m \in S : t = Cardinality(Below(m))
  <2> HIDE DEF Below
  <2> QED  BY <1>3
<1>5. \A x \in S : Cardinality(Below(m)) <= Cardinality(Below(x))
  <2> HIDE DEF Below
  <2> QED  BY <1>3, <1>4
<1>6. ASSUME NEW x \in S \ {m}, <<m, x>> \notin R PROVE FALSE
  <2>1. <<x, m>> \in R
    BY <1>6 DEF TotalOn
  <2>2. Below(x) \subseteq Below(m)
    BY <1>6, <2>1 DEF TotalOn
  <2>3. x \in Below(m) /\ x \notin Below(x)
    BY <2>1
  <2> HIDE DEF Below
  <2>4. Cardinality(Below(x)) < Cardinality(Below(m))
    <3>1. Below(x) # Below(m)
      BY <2>3
    <3> QED  BY <1>1, <2>2, <3>1, FS_Subset
  <2>5. Cardinality(Below(x)) \in Nat /\ Cardinality(Below(m)) \in Nat
    BY <1>1
  <2> QED  BY <1>5, <2>4, <2>5
<1> QED  BY <1>6

\* owner_sort_tuple
LEMMA Priorities ==
    /\ \A o \in Owners : Priority(o) \in 0 .. 4 /\ (Priority(o) > 3 => o = Wallet)
    /\ \A o, p \in Owners : Priority(o) = Priority(p) => o[1] = p[1]
    /\ Priority(Wallet) = 4
<1>1. \A o \in Owners : o[1] \in Consumers /\ (o[1] = "Wallet" => o = Wallet)
  BY OrderOK
<1>2. Wallet[1] = "Wallet"
  BY DEF Wallet
<1>3. \A o \in Owners : \/ o[1] = "Wallet" /\ Priority(o) = 4
                        \/ o[1] = "Position" /\ Priority(o) = 3
                        \/ o[1] = "Momentum" /\ Priority(o) = 2
                        \/ o[1] = "Arb" /\ Priority(o) = 1
                        \/ o[1] = "Tracker" /\ Priority(o) = 0
  BY <1>1 DEF Consumers, Priority
<1>4. Priority(Wallet) = 4
  BY <1>2 DEF Priority
<1>5. \A o \in Owners : Priority(o) \in 0 .. 4 /\ (Priority(o) > 3 => o = Wallet)
  BY <1>1, <1>3
<1>6. \A o, p \in Owners : Priority(o) = Priority(p) => o[1] = p[1]
  BY <1>3
<1> QED  BY <1>4, <1>5, <1>6

\* owner_sort_tuple orders the present owners strictly and totally: two owners
\* of one priority are rivals and told apart by the touch order.
LEMMA OlderOrders ==
    ASSUME NEW a \in Sound
    PROVE  /\ \A o \in Present(a) : ~Older(a, o, o)
           /\ \A o, p \in Present(a) : o # p => (Older(a, o, p) <=> ~Older(a, p, o))
           /\ \A o, p, q \in Present(a) : Older(a, o, p) /\ Older(a, p, q) => Older(a, o, q)
<1>0. TouchOrder(a) /\ Present(a) \subseteq Owners
  BY SoundParts DEF Present
<1>1. \A o \in Present(a) : Priority(o) \in Int
  BY <1>0, Priorities
<1>2. \A o, p \in Present(a) : o # p /\ Priority(o) = Priority(p) => p \in Rivals(a, o)
  <2> SUFFICES ASSUME NEW o \in Present(a), NEW p \in Present(a), o # p, Priority(o) = Priority(p)
               PROVE  p \in Rivals(a, o)
    OBVIOUS
  <2>1. o[1] = p[1]
    BY <1>0, Priorities
  <2> QED  BY <2>1 DEF Rivals
<1>3. \A o \in Present(a) : <<o, o>> \notin a.older
  BY <1>0 DEF TouchOrder, Rivals
<1>4. \A o, p \in Present(a) : o # p /\ Priority(o) = Priority(p) =>
        (<<o, p>> \in a.older <=> <<p, o>> \notin a.older)
  BY <1>0, <1>2 DEF TouchOrder
<1>5. \A o, p, q : <<o, p>> \in a.older /\ <<p, q>> \in a.older => <<o, q>> \in a.older
  <2> SUFFICES ASSUME NEW o, NEW p, NEW q, <<o, p>> \in a.older, <<p, q>> \in a.older
               PROVE  <<o, q>> \in a.older
    OBVIOUS
  <2>1. \A r, s \in a.older : r[2] = s[1] => <<r[1], s[2]>> \in a.older
    BY <1>0 DEF TouchOrder
  <2>2. <<o, p>>[2] = <<p, q>>[1] => <<<<o, p>>[1], <<p, q>>[2]>> \in a.older
    BY <2>1
  <2> QED  BY <2>2
<1>6. ASSUME NEW o \in Present(a) PROVE ~Older(a, o, o)
  <2>1. ~(Priority(o) < Priority(o))
    BY <1>1
  <2>2. <<o, o>> \notin a.older
    BY <1>3
  <2> QED  BY <2>1, <2>2, Zenon DEF Older
<1>7. \A o, p \in Present(a) : o # p => (Older(a, o, p) <=> ~Older(a, p, o))
  BY <1>1, <1>4 DEF Older
<1>8. ASSUME NEW o \in Present(a), NEW p \in Present(a), NEW q \in Present(a),
             Older(a, o, p), Older(a, p, q)
      PROVE  Older(a, o, q)
  BY <1>1, <1>5, <1>8 DEF Older
<1> QED  BY <1>6, <1>7, <1>8

\* The oldest of some admitted owners.
LEMMA OldestIs ==
    ASSUME NEW a \in Sound, NEW os \in SUBSET Present(a), os # {}
    PROVE  /\ Oldest(a, os) \in os
           /\ \A p \in os \ {Oldest(a, os)} : Older(a, Oldest(a, os), p)
<1> DEFINE R == {r \in os \X os : Older(a, r[1], r[2])}
<1>1. IsFiniteSet(os)
  <2>1. os \subseteq Owners
    BY DEF Present
  <2> QED  BY <2>1, OwnersFinite, FS_Subset
<1>2. \A x, y \in os : <<x, y>> \in R <=> Older(a, x, y)
  OBVIOUS
<1>3. TotalOn(R, os)
  <2>1. \A x, y \in os : x # y => (Older(a, x, y) <=> ~Older(a, y, x))
    BY OlderOrders
  <2>2. \A x, y, z \in os : Older(a, x, y) /\ Older(a, y, z) => Older(a, x, z)
    BY OlderOrders
  <2> HIDE DEF R
  <2> QED  BY <1>2, <2>1, <2>2 DEF TotalOn
<1>4. \E m \in os : \A x \in os \ {m} : <<m, x>> \in R
  <2> HIDE DEF R
  <2> QED  BY <1>1, <1>3, FirstExists
<1>5. \E m \in os : \A x \in os \ {m} : Older(a, m, x)
  <2> HIDE DEF R
  <2> QED  BY <1>2, <1>4
<1> QED  BY <1>5, Zenon DEF Oldest

\* compare_joint_packages: where two packages start to differ.
First(a, p, q) == Oldest(a, (p \ q) \cup (q \ p))

\* The first owner that only one of two packages has: before it they agree.
LEMMA FirstIs ==
    ASSUME NEW a \in Sound, NEW p \in SUBSET Present(a), NEW q \in SUBSET Present(a), p # q
    PROVE  /\ First(a, p, q) \in Present(a)
           /\ First(a, p, q) \in p <=> First(a, p, q) \notin q
           /\ \A e \in Present(a) : Older(a, e, First(a, p, q)) => (e \in p <=> e \in q)
<1> DEFINE X == (p \ q) \cup (q \ p)
           d == First(a, p, q)
<1>1. X \in SUBSET Present(a) /\ X # {}
  OBVIOUS
<1>2. d \in X /\ \A e \in X \ {d} : Older(a, d, e)
  <2>1. d = Oldest(a, X)
    BY DEF First
  <2> HIDE DEF X, d
  <2> QED  BY <1>1, <2>1, OldestIs
<1>3. d \in Present(a) /\ (d \in p <=> d \notin q)
  <2> HIDE DEF d
  <2> QED  BY <1>2
<1>4. ASSUME NEW e \in Present(a), Older(a, e, d) PROVE e \in p <=> e \in q
  <2> SUFFICES ASSUME e \in X PROVE FALSE
    OBVIOUS
  <2> HIDE DEF d, X
  <2>1. e # d
    BY <1>3, <1>4, OlderOrders
  <2>2. Older(a, d, e)
    BY <1>2, <2>1
  <2> QED  BY <1>3, <1>4, <2>1, <2>2, OlderOrders
<1> QED  BY <1>3, <1>4

\* No other owner has this property.
LEMMA FirstOnly ==
    ASSUME NEW a \in Sound, NEW p \in SUBSET Present(a), NEW q \in SUBSET Present(a),
           NEW d \in Present(a), d \in p <=> d \notin q,
           \A e \in Present(a) : Older(a, e, d) => (e \in p <=> e \in q)
    PROVE  First(a, p, q) = d
<1>0. p # q
  OBVIOUS
<1>1. /\ First(a, p, q) \in Present(a)
      /\ First(a, p, q) \in p <=> First(a, p, q) \notin q
      /\ \A e \in Present(a) : Older(a, e, First(a, p, q)) => (e \in p <=> e \in q)
  BY <1>0, FirstIs
<1>2. ASSUME First(a, p, q) # d PROVE FALSE
  <2>1. Older(a, First(a, p, q), d) \/ Older(a, d, First(a, p, q))
    BY <1>1, <1>2, OlderOrders
  <2> QED  BY <1>1, <2>1
<1> QED  BY <1>2

\* Of two packages exactly one comes first.
LEMMA EarlierTotal ==
    ASSUME NEW a \in Sound, NEW p \in SUBSET Present(a), NEW q \in SUBSET Present(a), p # q
    PROVE  Earlier(a, p, q, First(a, p, q)) <=> ~Earlier(a, q, p, First(a, q, p))
<1>1. First(a, q, p) = First(a, p, q)
  <2>1. (p \ q) \cup (q \ p) = (q \ p) \cup (p \ q)
    OBVIOUS
  <2> QED  BY <2>1, Zenon DEF First
<1>2. First(a, p, q) \in p <=> First(a, p, q) \notin q
  BY FirstIs
<1> DEFINE d == First(a, p, q)
<1>3. Earlier(a, p, q, d) <=> ~Earlier(a, q, p, d)
  <2> HIDE DEF d
  <2>1. d \in p <=> d \notin q
    BY <1>2 DEF d
  <2>2. CASE d \in p
    BY <2>1, <2>2 DEF Earlier
  <2>3. CASE d \notin p
    BY <2>1, <2>3 DEF Earlier
  <2> QED  BY <2>2, <2>3
<1> QED  BY <1>1, <1>3

\* The order in which packages come first is transitive.
LEMMA EarlierTransitive ==
    ASSUME NEW a \in Sound, NEW p \in SUBSET Present(a), NEW q \in SUBSET Present(a),
           NEW r \in SUBSET Present(a), p # q, q # r, p # r,
           Earlier(a, p, q, First(a, p, q)), Earlier(a, q, r, First(a, q, r))
    PROVE  Earlier(a, p, r, First(a, p, r))
<1> DEFINE P == Present(a)
           c == First(a, p, q)
           d == First(a, q, r)
           e == First(a, p, r)
           Before(x, y) == Older(a, x, y)
<1>1. /\ c \in P /\ (c \in p <=> c \notin q)
      /\ \A x \in P : Before(x, c) => (x \in p <=> x \in q)
  BY FirstIs
<1>2. /\ d \in P /\ (d \in q <=> d \notin r)
      /\ \A x \in P : Before(x, d) => (x \in q <=> x \in r)
  BY FirstIs
<1>3. /\ e \in P /\ (e \in p <=> e \notin r)
      /\ \A x \in P : Before(x, e) => (x \in p <=> x \in r)
  BY FirstIs
<1>4. /\ \A x, y \in P : x # y => (Before(x, y) <=> ~Before(y, x))
      /\ \A x, y, z \in P : Before(x, y) /\ Before(y, z) => Before(x, z)
      /\ \A x \in P : ~Before(x, x)
  BY OlderOrders
<1>5. /\ c \in p => \E x \in q : Before(c, x)
      /\ c \notin p => \A x \in p : ~Before(c, x)
  BY DEF Earlier
<1>6. /\ d \in q => \E x \in r : Before(d, x)
      /\ d \notin q => \A x \in q : ~Before(d, x)
  BY DEF Earlier
<1>7. p \subseteq P /\ q \subseteq P /\ r \subseteq P
  OBVIOUS
<1>8. \A f \in P : (f \in p <=> f \notin r) /\ (\A x \in P : Before(x, f) => (x \in p <=> x \in r)) => e = f
  BY FirstOnly
<1>9. \/ e \in p /\ \E x \in r : Before(e, x)
      \/ e \notin p /\ \A x \in p : ~Before(e, x)
  <2> HIDE DEF c, d, e, P, Before
  <2>1. CASE Before(c, d)
    <3>1. c \in q <=> c \in r
      BY <1>1, <1>2, <2>1
    <3>2. \A x \in P : Before(x, c) => (x \in p <=> x \in r)
      BY <1>1, <1>2, <1>4, <2>1
    <3>3. e = c
      BY <1>1, <1>8, <3>1, <3>2
    <3>4. CASE c \in p
      <4>1. \E x \in r : Before(c, x)
        <5>1. CASE d \in r
          BY <2>1, <5>1
        <5>2. CASE d \notin r
          <6>1. PICK x \in r : Before(d, x)
            BY <1>2, <1>6, <5>2
          <6> QED  BY <1>1, <1>2, <1>4, <1>7, <2>1, <6>1
        <5> QED  BY <5>1, <5>2
      <4> QED  BY <3>3, <3>4, <4>1
    <3>5. CASE c \notin p
      BY <1>5, <3>3, <3>5
    <3> QED  BY <3>4, <3>5
  <2>2. CASE Before(d, c)
    <3>1. d \in p <=> d \in q
      BY <1>1, <1>2, <2>2
    <3>2. \A x \in P : Before(x, d) => (x \in p <=> x \in r)
      BY <1>1, <1>2, <1>4, <2>2
    <3>3. e = d
      BY <1>2, <1>8, <3>1, <3>2
    <3>4. CASE d \in q
      BY <1>6, <3>1, <3>3, <3>4
    <3>5. CASE d \notin q
      <4>1. c \notin q
        BY <1>6, <2>2, <3>5
      <4>2. PICK x \in q : Before(c, x)
        BY <1>1, <1>5, <4>1
      <4>3. Before(d, x)
        BY <1>1, <1>2, <1>4, <1>7, <2>2, <4>2
      <4> QED  BY <1>6, <3>5, <4>3
    <3> QED  BY <3>4, <3>5
  <2>3. CASE c = d
    <3>1. CASE c \notin q
      BY <1>1, <1>5, <1>6, <2>3, <3>1
    <3>2. CASE c \in q
      <4>1. c \notin p /\ c \notin r /\ \A x \in p : ~Before(c, x)
        BY <1>1, <1>2, <1>5, <2>3, <3>2
      <4>2. \A x \in P : Before(x, c) => (x \in p <=> x \in r)
        BY <1>1, <1>2, <2>3
      <4>3. e # c /\ ~Before(e, c)
        BY <1>3, <4>1, <4>2
      <4>4. Before(c, e)
        BY <1>1, <1>3, <1>4, <4>3
      <4>5. e \notin p
        BY <4>1, <4>4
      <4>6. \A x \in p : ~Before(e, x)
        BY <1>1, <1>3, <1>4, <1>7, <4>1, <4>4
      <4> QED  BY <4>5, <4>6
    <3> QED  BY <3>1, <3>2
  <2> QED  BY <1>1, <1>2, <1>4, <2>1, <2>2, <2>3
<1> QED  BY <1>9 DEF Earlier

\* The highest priority in a package.
LEMMA TopIs ==
    ASSUME NEW os \in SUBSET Owners, os # {}
    PROVE  TopPriority(os) \in Int
<1> DEFINE S == {Priority(o) : o \in os}
           T == {4 - x : x \in S}
<1>1. S \subseteq 0 .. 4 /\ S # {}
  BY Priorities
<1>2. T \in SUBSET Nat /\ T # {}
  <2> HIDE DEF S
  <2>1. \A x \in S : x \in 0 .. 4
    BY <1>1
  <2>2. \A x \in S : 4 - x \in Nat
    BY <2>1
  <2> QED  BY <1>1, <2>2
<1>3. PICK t \in T : \A n \in T : t <= n
  <2> HIDE DEF T
  <2> QED  BY <1>2, Least
<1> HIDE DEF S
<1>4. PICK x \in S : t = 4 - x
  BY <1>3
<1>5. \A y \in S : x >= y
  <2> SUFFICES ASSUME NEW y \in S PROVE x >= y
    OBVIOUS
  <2>1. 4 - x <= 4 - y
    BY <1>3, <1>4
  <2>2. x \in Int /\ y \in Int
    BY <1>1
  <2> QED  BY <2>1, <2>2
<1>6. Max(S) \in S
  BY <1>5, Zenon DEF Max
<1>7. TopPriority(os) = Max(S)
  BY DEF TopPriority, S
<1>8. Max(S) \in 0 .. 4
  BY <1>1, <1>6
<1> QED  BY <1>7, <1>8

\* The cheapest of some packages.
LEMMA CheapestIs ==
    ASSUME NEW a \in Sound, NEW ps \in SUBSET (SUBSET Present(a)), ps # {}, {} \notin ps
    PROVE  Cheapest(a, ps) \in ps
<1> DEFINE R == {r \in ps \X ps : Cheaper(a, r[1], r[2])}
           Top(p) == TopPriority(p)
           Lex(p, q) == Earlier(a, p, q, First(a, p, q))
<1>1. IsFiniteSet(ps)
  <2>1. Present(a) \subseteq Owners
    BY DEF Present
  <2>2. IsFiniteSet(Present(a))
    BY <2>1, OwnersFinite, FS_Subset
  <2>3. IsFiniteSet(SUBSET Present(a))
    BY <2>2, FS_SUBSET
  <2> QED  BY <2>3, FS_Subset
<1>2. \A x, y \in ps : <<x, y>> \in R <=> Cheaper(a, x, y)
  OBVIOUS
<1>3. \A x, y \in ps : Cheaper(a, x, y) <=> Top(x) < Top(y) \/ (Top(x) = Top(y) /\ Lex(x, y))
  BY DEF Cheaper, First
<1>4. \A x \in ps : Top(x) \in Int
  <2> SUFFICES ASSUME NEW x \in ps PROVE Top(x) \in Int
    OBVIOUS
  <2>1. x \in SUBSET Owners /\ x # {}
    BY DEF Present
  <2> QED  BY <2>1, TopIs
<1>5. \A x, y \in ps : x # y => (Lex(x, y) <=> ~Lex(y, x))
  BY EarlierTotal
<1>6. \A x, y, z \in ps : x # y /\ y # z /\ x # z /\ Lex(x, y) /\ Lex(y, z) => Lex(x, z)
  <2> SUFFICES ASSUME NEW x \in ps, NEW y \in ps, NEW z \in ps,
                      x # y, y # z, x # z, Lex(x, y), Lex(y, z)
               PROVE  Lex(x, z)
    OBVIOUS
  <2>1. x \in SUBSET Present(a) /\ y \in SUBSET Present(a) /\ z \in SUBSET Present(a)
    OBVIOUS
  <2> QED  BY <2>1, EarlierTransitive
<1>7. TotalOn(R, ps)
  <2> HIDE DEF R, Top, Lex
  <2>1. ASSUME NEW x \in ps, NEW y \in ps, x # y PROVE <<x, y>> \in R <=> <<y, x>> \notin R
    BY <1>2, <1>3, <1>4, <1>5, <2>1
  <2>2. ASSUME NEW x \in ps, NEW y \in ps, NEW z \in ps, x # y, y # z, x # z,
               <<x, y>> \in R, <<y, z>> \in R
        PROVE  <<x, z>> \in R
    BY <1>2, <1>3, <1>4, <1>6, <2>2
  <2> QED  BY <2>1, <2>2 DEF TotalOn
<1>8. \E m \in ps : \A x \in ps \ {m} : <<m, x>> \in R
  <2> HIDE DEF R
  <2> QED  BY <1>1, <1>7, FirstExists
<1>9. \E m \in ps : \A x \in ps \ {m} : Cheaper(a, m, x)
  <2> HIDE DEF R
  <2> QED  BY <1>2, <1>8
<1> QED  BY <1>9, Zenon DEF Cheapest

\* One choice of the loop: owners that may go and are not yet selected, and
\* some of them whenever an account can still be freed.
LEMMA PickIs ==
    ASSUME NEW a \in Sound, NEW in, NEW allowed \in SUBSET Present(a), NEW sel \in SUBSET allowed,
           NEW lone, lone = Lone(a, in, allowed, sel),
           NEW joint, joint = Joint(a, in, allowed, sel)
    PROVE  /\ Pick(a, lone, joint) \subseteq allowed \ sel
           /\ joint # {} => Pick(a, lone, joint) # {}
<1>1. lone \in SUBSET Present(a) /\ lone \subseteq allowed \ sel
  BY DEF Lone
<1>2. joint \in SUBSET (SUBSET Present(a)) /\ {} \notin joint /\ \A p \in joint : p \subseteq allowed \ sel
  BY DEF Joint
<1>3. CASE lone # {}
  <2>1. Oldest(a, lone) \in lone
    BY <1>1, <1>3, OldestIs
  <2>2. Pick(a, lone, joint) = {Oldest(a, lone)}
    BY <1>3 DEF Pick
  <2> QED  BY <1>1, <2>1, <2>2
<1>4. CASE lone = {} /\ joint # {}
  <2>1. Cheapest(a, joint) \in joint
    BY <1>2, <1>4, CheapestIs
  <2>2. Pick(a, lone, joint) = Cheapest(a, joint)
    BY <1>4 DEF Pick
  <2>3. Cheapest(a, joint) # {}
    BY <1>2, <2>1
  <2> QED  BY <1>2, <2>1, <2>2, <2>3
<1>5. CASE lone = {} /\ joint = {}
  BY <1>5 DEF Pick
<1> QED  BY <1>3, <1>4, <1>5

\* execute_victim_selection frees what is needed when letting every allowed
\* owner go would.
LEMMA VictimsEnough ==
    ASSUME NEW a \in Sound, NEW in, NEW need \in Int, NEW allowed \in SUBSET Present(a),
           Cardinality(Freed(a, in, allowed)) >= need
    PROVE  /\ Victims(a, in, need, allowed) \subseteq allowed
           /\ Cardinality(Freed(a, in, Victims(a, in, need, allowed))) >= need
<1> DEFINE S == SUBSET allowed
           N == Cardinality(allowed)
           More(sel) == SelectMore(a, in, need, allowed, sel)
           Enough(sel) == Cardinality(Freed(a, in, sel)) >= need
<1>1. IsFiniteSet(allowed) /\ N \in Nat
  <2>1. allowed \subseteq Owners
    BY DEF Present
  <2> QED  BY <2>1, OwnersFinite, FS_Subset, FS_CardinalityType
<1>2. ASSUME NEW sel \in S
      PROVE  /\ Enough(sel) => More(sel) = sel
             /\ ~Enough(sel) => \E pick : pick # {} /\ pick \subseteq allowed \ sel /\ More(sel) = sel \cup pick
  <2>1. CASE Enough(sel)
    BY <2>1 DEF SelectMore
  <2>2. CASE ~Enough(sel)
    <3> DEFINE lone == Lone(a, in, allowed, sel)
               joint == Joint(a, in, allowed, sel)
               pick == Pick(a, lone, joint)
    <3>1. More(sel) = sel \cup pick
      BY <2>2 DEF SelectMore
    <3>2. \E k \in Physical(a) \ in : Refs(a, k) \subseteq allowed /\ ~(Refs(a, k) \subseteq sel)
      <4> SUFFICES ASSUME \A k \in Physical(a) \ in : Refs(a, k) \subseteq allowed => Refs(a, k) \subseteq sel
                   PROVE  FALSE
        OBVIOUS
      <4>1. Freed(a, in, allowed) = Freed(a, in, sel)
        BY DEF Freed
      <4> QED  BY <2>2, <4>1
    <3>3. joint # {}
      <4>1. PICK k \in Physical(a) \ in : Refs(a, k) \subseteq allowed /\ ~(Refs(a, k) \subseteq sel)
        BY <3>2
      <4>2. Refs(a, k) \ sel # {}
        BY <4>1
      <4>3. Refs(a, k) \ sel \in joint
        BY <4>1, <4>2 DEF Joint
      <4> QED  BY <4>3
    <3>4. pick \subseteq allowed \ sel /\ pick # {}
      <4>1. sel \in SUBSET allowed
        OBVIOUS
      <4>2. lone = Lone(a, in, allowed, sel) /\ joint = Joint(a, in, allowed, sel)
        OBVIOUS
      <4> HIDE DEF lone, joint
      <4> QED  BY <3>3, <4>1, <4>2, PickIs
    <3> HIDE DEF pick
    <3> QED  BY <2>2, <3>1, <3>4
  <2> QED  BY <2>1, <2>2
<1>3. \A sel \in S : More(sel) \in S
  <2> HIDE DEF More, Enough
  <2> SUFFICES ASSUME NEW sel \in S PROVE More(sel) \in S
    OBVIOUS
  <2>1. CASE Enough(sel)
    BY <1>2, <2>1
  <2>2. CASE ~Enough(sel)
    BY <1>2, <2>2
  <2> QED  BY <2>1, <2>2
<1>40. PICK f : Selection(f, S, a, in, need, allowed)
  <2>1. {} \in S
    OBVIOUS
  <2>2. \A sel \in S : SelectMore(a, in, need, allowed, sel) \in S
    BY <1>3
  <2> HIDE DEF S
  <2> QED  BY <1>1, <2>1, <2>2, VictimsRun
<1>4. /\ f \in [0 .. N -> S] /\ f[0] = {}
      /\ \A n \in 1 .. N : f[n] = More(f[n - 1])
      /\ Victims(a, in, need, allowed) = f[N]
  BY <1>40 DEF Selection
<1> DEFINE Good == {n \in 0 .. N : Enough(f[n]) \/ Cardinality(f[n]) >= n}
<1>5. 0 \in Good
  <2>1. Cardinality({}) = 0 /\ 0 \in 0 .. N
    BY <1>1, FS_EmptySet
  <2>2. Cardinality(f[0]) >= 0
    BY <1>4, <2>1
  <2> HIDE DEF Enough
  <2> QED  BY <2>1, <2>2
<1>6. ASSUME NEW n \in 1 .. N, n - 1 \in Good PROVE n \in Good
  <2> HIDE DEF Enough, More
  <2>1. n \in 0 .. N /\ n - 1 \in 0 .. N /\ n \in Nat
    BY <1>1
  <2>2. f[n] = More(f[n - 1]) /\ f[n - 1] \in S
    BY <1>4, <2>1
  <2>3. CASE Enough(f[n - 1])
    BY <1>2, <2>1, <2>2, <2>3
  <2>4. CASE ~Enough(f[n - 1])
    <3>1. PICK pick : pick # {} /\ pick \subseteq allowed \ f[n - 1] /\ f[n] = f[n - 1] \cup pick
      BY <1>2, <2>2, <2>4
    <3>2. f[n - 1] \subseteq f[n] /\ f[n - 1] # f[n] /\ f[n] \subseteq allowed
      BY <2>2, <3>1
    <3>3. IsFiniteSet(f[n])
      BY <1>1, <3>2, FS_Subset
    <3>4. Cardinality(f[n - 1]) < Cardinality(f[n])
      BY <3>2, <3>3, Smaller
    <3>5. Cardinality(f[n - 1]) \in Nat /\ Cardinality(f[n]) \in Nat
      BY <3>2, <3>3, FS_Subset, FS_CardinalityType
    <3>6. Cardinality(f[n - 1]) >= n - 1
      BY <1>6, <2>4
    <3>7. Cardinality(f[n]) >= n
      BY <2>1, <3>4, <3>5, <3>6
    <3> QED  BY <2>1, <3>7
  <2> QED  BY <2>3, <2>4
<1>7. N \in Good
  <2>1. \A n \in 0 .. N : n \in Good
    <3> HIDE DEF Good, N
    <3> QED  BY <1>1, <1>5, <1>6, UpTo
  <2> QED  BY <1>1, <2>1
<1>8. f[N] \in S
  BY <1>1, <1>4
<1>9. Enough(f[N])
  <2> SUFFICES ASSUME Cardinality(f[N]) >= N PROVE Enough(f[N])
    <3> HIDE DEF Enough
    <3> QED  BY <1>7
  <2>1. f[N] \subseteq allowed
    BY <1>8
  <2>2. f[N] = allowed
    <3> SUFFICES ASSUME f[N] # allowed PROVE FALSE
      OBVIOUS
    <3>1. Cardinality(f[N]) < Cardinality(allowed)
      BY <1>1, <2>1, Smaller
    <3>2. Cardinality(f[N]) \in Nat
      BY <1>1, <2>1, FS_Subset, FS_CardinalityType
    <3> QED  BY <1>1, <3>1, <3>2
  <2> QED  BY <2>2
<1> QED  BY <1>4, <1>8, <1>9

\* What letting the owners vs go makes of the accounts, next to a group ks.
LEMMA RoomExact ==
    ASSUME NEW a \in Sound, NEW ks \in SUBSET Keys, NEW vs
    PROVE  /\ Cardinality(Freed(a, ks, vs)) \in Nat /\ Cardinality(Added(a, ks)) \in Nat
           /\ Cardinality(Without(a, vs) \cup ks) =
                a.len + Cardinality(Added(a, ks)) - Cardinality(Freed(a, ks, vs))
           /\ Cardinality(Without(a, vs) \cup ks) <= a.cap <=> Cardinality(Freed(a, ks, vs)) >= Overflow(a, ks)
<1> DEFINE P == Physical(a)
           N == Added(a, ks)
           U == P \cup N
           F == Freed(a, ks, vs)
<1>0. a.groups \in [Owners -> SUBSET Keys] /\ a.len = Cardinality(P) /\ a.len \in Nat /\ a.cap \in Nat
      /\ a \in Admissions
  BY SoundParts
<1>1. N = ks \ P /\ P \cap N = {}
  BY DEF Added
<1>2. F \subseteq U
  BY DEF Freed
<1>3. Without(a, vs) \cup ks = U \ F
  <2>1. \A k : k \in P <=> \E p \in Owners : k \in a.groups[p]
    BY DEF Physical
  <2>2. \A k : k \in Without(a, vs) <=> \E p \in Owners : p \notin vs /\ k \in a.groups[p]
    BY DEF Without
  <2>3. \A k : k \in F <=> k \in P /\ k \notin ks /\ \A p \in Owners : k \in a.groups[p] => p \in vs
    BY DEF Freed, Refs
  <2>4. \A k : k \in N <=> k \in ks /\ k \notin P
    BY <1>1
  <2>5. ASSUME NEW k PROVE k \in Without(a, vs) \cup ks <=> k \in U \ F
    <3> HIDE DEF P, N, F
    <3> QED  BY <2>1, <2>2, <2>3, <2>4
  <2> QED  BY <2>5
<1>4. IsFiniteSet(P) /\ IsFiniteSet(N) /\ Cardinality(P) \in Nat /\ Cardinality(N) \in Nat
  <2>1. N \in SUBSET Keys
    BY DEF Added
  <2> HIDE DEF N
  <2> QED  BY <1>0, <2>1, Finite, GroupFinite
<1>5. IsFiniteSet(U) /\ Cardinality(U) = Cardinality(P) + Cardinality(N)
  <2>1. Cardinality({}) = 0
    BY FS_EmptySet
  <2> HIDE DEF P, N
  <2>2. IsFiniteSet(U) /\ Cardinality(U) = Cardinality(P) + Cardinality(N) - Cardinality({})
    BY <1>1, <1>4, FS_Union
  <2> HIDE DEF U
  <2> QED  BY <1>4, <2>1, <2>2
<1>6. Cardinality(F) \in Nat /\ Cardinality(U \ F) = Cardinality(U) - Cardinality(F)
  <2> HIDE DEF U, F
  <2> QED  BY <1>2, <1>5, Parts
<1>7. Cardinality(Without(a, vs) \cup ks) = a.len + Cardinality(N) - Cardinality(F)
  <2>1. Cardinality(Without(a, vs) \cup ks) = Cardinality(U \ F)
    BY <1>3, Zenon
  <2> HIDE DEF P, N, U, F
  <2> QED  BY <1>0, <1>4, <1>5, <1>6, <2>1
<1>8. Overflow(a, ks) = a.len + Cardinality(N) - a.cap
  BY DEF Overflow
<1>9. Cardinality(Without(a, vs) \cup ks) <= a.cap <=> Cardinality(F) >= Overflow(a, ks)
  <2> HIDE DEF P, N, U, F
  <2> QED  BY <1>0, <1>4, <1>6, <1>7, <1>8
<1> QED  BY <1>4, <1>6, <1>7, <1>9

\* The tiers that the planner may open are the ones that would make room.
LEMMA TiersExact ==
    ASSUME NEW a \in Sound, NEW ks \in SUBSET Keys, NEW top
    PROVE  OpenTiers(a, ks, Overflow(a, ks), top) = {t \in 0 .. top : RoomBelow(a, ks, t)}
<1>1. \A t : Freeable(a, ks, t) = Freed(a, ks, Evictable(a, t))
  BY DEF Freeable, Freed
<1>2. \A t : Cardinality(Freeable(a, ks, t)) >= Overflow(a, ks) <=> RoomBelow(a, ks, t)
  <2> SUFFICES ASSUME NEW t
               PROVE  Cardinality(Freeable(a, ks, t)) >= Overflow(a, ks) <=> RoomBelow(a, ks, t)
    OBVIOUS
  <2> DEFINE vs == Evictable(a, t)
  <2>1. Cardinality(Without(a, vs) \cup ks) <= a.cap <=> Cardinality(Freed(a, ks, vs)) >= Overflow(a, ks)
    <3> HIDE DEF vs
    <3> QED  BY RoomExact
  <2> QED  BY <1>1, <2>1 DEF RoomBelow
<1> QED  BY <1>2 DEF OpenTiers

\* The least protected of some tiers.
LEMMA MinTier ==
    ASSUME NEW T \in SUBSET Nat, T # {}
    PROVE  Min(T) \in T
<1>1. \E m \in T : \A n \in T : m <= n
  BY Least
<1> QED  BY <1>1, Zenon DEF Min

\* The victims of a plan with an open tier.
LEMMA PlanEnough ==
    ASSUME NEW a \in Sound, NEW in, NEW need \in Nat, need > 0,
           NEW top \in Nat, NEW tiers, tiers = OpenTiers(a, in, need, top), tiers # {},
           NEW vs, vs = Plan(a, in, need, tiers)
    PROVE  /\ vs \subseteq Evictable(a, Min(tiers)) /\ vs # {}
           /\ Cardinality(Freed(a, in, vs)) >= need
<1> DEFINE allowed == Evictable(a, Min(tiers))
<1>1. tiers \in SUBSET Nat
  BY DEF OpenTiers
<1>2. Min(tiers) \in tiers
  BY <1>1, MinTier
<1>3. Cardinality(Freeable(a, in, Min(tiers))) >= need
  BY <1>2 DEF OpenTiers
<1>4. Freeable(a, in, Min(tiers)) = Freed(a, in, allowed)
  BY DEF Freeable, Freed
<1>5. allowed \in SUBSET Present(a)
  BY DEF Evictable
<1>6. vs = Victims(a, in, need, allowed)
  BY DEF Plan
<1>7. vs \subseteq allowed /\ Cardinality(Freed(a, in, vs)) >= need
  <2>1. Cardinality(Freed(a, in, allowed)) >= need
    BY <1>3, <1>4
  <2>2. need \in Int
    OBVIOUS
  <2> HIDE DEF allowed
  <2> QED  BY <1>5, <1>6, <2>1, <2>2, VictimsEnough
<1>8. vs # {}
  <2> SUFFICES ASSUME vs = {} PROVE FALSE
    OBVIOUS
  <2>1. Freed(a, in, {}) = {}
    BY DEF Freed, Refs, Physical
  <2>2. Cardinality({}) = 0
    BY FS_EmptySet
  <2> QED  BY <1>7, <2>1, <2>2
<1> QED  BY <1>7, <1>8

\* try_admit_with_eviction, exactly.
Admitted(a, o, ks, r, tiers) ==
    /\ r.result = (IF Fits(a, ks) \/ tiers # {} THEN "Inserted" ELSE "RejectedProtected")
    /\ Fits(a, ks) \/ tiers # {} =>
         r.adm \in Sound /\ r.adm.cap = a.cap /\ r.adm.groups[o] = ks
    /\ \A p \in Present(a) \ Present(r.adm) : p \in Evictable(a, Min(tiers))

\* An admission with eviction does what Admitted says: it succeeds exactly if
\* some tier has room, and takes its victims from the first such tier.
LEMMA EvictionExact ==
    ASSUME NEW a \in Sound, NEW o \in Owners, a.groups[o] = {}, NEW ks \in SUBSET Keys, ks # {},
           NEW tiers, tiers = {t \in 0 .. TopTier(o) : RoomBelow(a, ks, t)},
           NEW r, r = try_admit_with_eviction(a, o, ks)
    PROVE  Admitted(a, o, ks, r, tiers)
<1>0. a.groups \in [Owners -> SUBSET Keys] /\ a.len \in Nat /\ a.cap \in Nat
  BY SoundParts
<1>1. CASE Fits(a, ks)
  <2>1. PutIn(a, o, ks, r)
    BY <1>1, NewSound DEF try_admit_with_eviction
  <2>2. /\ r.result = "Inserted" /\ r.adm \in Sound /\ r.adm.cap = a.cap
        /\ r.adm.groups = [a.groups EXCEPT ![o] = ks]
    BY <2>1 DEF PutIn
  <2>3. Present(a) \subseteq Present(r.adm) /\ r.adm.groups[o] = ks
    BY <1>0, <2>2 DEF Present
  <2> QED  BY <1>1, <2>2, <2>3 DEF Admitted
<1>2. CASE ~Fits(a, ks)
  <2> DEFINE need == Overflow(a, ks)
             vs == Plan(a, ks, need, tiers)
  <2>1. tiers = OpenTiers(a, ks, need, TopTier(o))
    BY TiersExact
  <2>2. r = EvictAndAdmit(a, o, ks, vs)
    BY <1>2, <2>1 DEF try_admit_with_eviction
  <2>3. CASE tiers = {}
    <3>1. vs = {}
      BY <2>3 DEF Plan
    <3>2. r = [adm |-> a, result |-> "RejectedProtected"]
      BY <2>2, <3>1 DEF EvictAndAdmit
    <3> QED  BY <1>2, <2>3, <3>2 DEF Admitted
  <2>4. CASE tiers # {}
    <3>1. need \in Nat /\ need > 0
      <4>1. Added(a, ks) \in SUBSET Keys
        BY DEF Added
      <4>2. Cardinality(Added(a, ks)) \in Nat
        BY <4>1, GroupFinite
      <4> QED  BY <1>0, <1>2, <4>2 DEF Overflow, Fits
    <3>2. TopTier(o) \in Nat
      BY Priorities DEF TopTier
    <3>3. /\ vs \subseteq Evictable(a, Min(tiers)) /\ vs # {}
          /\ Cardinality(Freed(a, ks, vs)) >= need
      <4>1. vs = Plan(a, ks, need, tiers)
        OBVIOUS
      <4> HIDE DEF vs, need
      <4> QED  BY <2>1, <2>4, <3>1, <3>2, <4>1, PlanEnough
    <3> DEFINE all == UNION {WithVictims(a, o, ks, vs)[p] : p \in Owners}
    <3>4. all = Without(a, vs) \cup ks
      <4> HIDE DEF vs
      <4>1. \A p \in Owners : WithVictims(a, o, ks, vs)[p] = IF p = o THEN ks ELSE IF p \in vs THEN {} ELSE a.groups[p]
        BY DEF WithVictims
      <4>2. \A k : k \in all <=> \E p \in Owners : k \in WithVictims(a, o, ks, vs)[p]
        OBVIOUS
      <4>3. \A k : k \in Without(a, vs) <=> \E p \in Owners : p \notin vs /\ k \in a.groups[p]
        BY DEF Without
      <4>4. ASSUME NEW k PROVE k \in all <=> k \in Without(a, vs) \cup ks
        <5> HIDE DEF all
        <5>1. CASE k \in ks
          BY <4>1, <4>2, <5>1
        <5>2. CASE k \notin ks
          <6>1. \A p \in Owners : k \in WithVictims(a, o, ks, vs)[p] <=> p \notin vs /\ k \in a.groups[p]
            BY <4>1, <5>2
          <6> QED  BY <4>2, <4>3, <5>2, <6>1
        <5> QED  BY <5>1, <5>2
      <4> QED  BY <4>4
    <3>5. ~(Cardinality(all) > a.cap)
      <4>1. Cardinality(all) <= a.cap
        <5> HIDE DEF vs, all
        <5> QED  BY <3>3, <3>4, RoomExact
      <4>2. Cardinality(all) \in Nat
        <5>1. all \in SUBSET Keys
          BY <1>0, <3>4 DEF Without
        <5> HIDE DEF all
        <5> QED  BY <5>1, GroupFinite
      <4> HIDE DEF all
      <4> QED  BY <1>0, <4>1, <4>2
    <3>6. /\ r.result = "Inserted" /\ r.adm \in Sound /\ r.adm.cap = a.cap
          /\ r.adm.groups = WithVictims(a, o, ks, vs)
      <4> HIDE DEF vs
      <4> DEFINE e == EvictAndAdmit(a, o, ks, vs)
      <4>1. ~(Cardinality(all) > a.cap) =>
                /\ e.result = "Inserted" /\ e.adm \in Sound /\ e.adm.cap = a.cap
                /\ e.adm.groups = WithVictims(a, o, ks, vs)
        BY <3>3, EvictSound
      <4> HIDE DEF all
      <4> QED  BY <2>2, <3>5, <4>1
    <3>7. r.adm.groups[o] = ks /\ Present(a) \ Present(r.adm) \subseteq vs
      <4> HIDE DEF vs
      <4> QED  BY <3>6 DEF WithVictims, Present
    <3> HIDE DEF vs
    <3> QED  BY <2>4, <3>3, <3>6, <3>7 DEF Admitted
  <2> QED  BY <2>3, <2>4
<1> QED  BY <1>1, <1>2

\* A group is admitted exactly when letting owners go that are no better
\* protected than its own makes room, victims come from the least protected
\* tiers that suffice, and the candidate of an eviction is never refused
\* (select_eviction_victims, try_admit_with_eviction).
THEOREM PlannerIsExact == Spec => []PlannerExact
<1>1. ASSUME adm \in Sound PROVE PlannerExact
  <2> SUFFICES ASSUME NEW o \in Owners \ Present(adm), NEW ks \in Planned[o],
                      NEW tiers, tiers = {t \in 0 .. TopTier(o) : RoomBelow(adm, ks, t)},
                      NEW r, r = try_admit_owner_group(adm, o, ks)
               PROVE  ExactFor(adm, o, ks, r, tiers)
    BY Zenon DEF PlannerExact
  <2>1. ks \in SUBSET Keys /\ ks # {} /\ adm.groups[o] = {}
    BY Inputs DEF Present
  <2> DEFINE e == try_admit_with_eviction(adm, o, ks)
  <2>2. Admitted(adm, o, ks, e, tiers)
    <3>1. e = try_admit_with_eviction(adm, o, ks)
      OBVIOUS
    <3> HIDE DEF e
    <3> QED  BY <1>1, <2>1, <3>1, EvictionExact
  <2>3. r = e
    <3>1. CASE Fits(adm, ks)
      <4>1. try_admit_new_group(adm, o, ks).result = "Inserted"
        BY <1>1, <2>1, <3>1, NewSound DEF PutIn
      <4> QED  BY <2>1, <3>1, <4>1 DEF try_admit_owner_group, try_admit_with_eviction
    <3>2. CASE ~Fits(adm, ks)
      <4>1. try_admit_new_group(adm, o, ks).result = "RejectedCap"
        BY <3>2 DEF try_admit_new_group
      <4> QED  BY <2>1, <4>1 DEF try_admit_owner_group
    <3> QED  BY <3>1, <3>2
  <2> HIDE DEF e
  <2> QED  BY <2>2, <2>3 DEF Admitted, ExactFor
<1>2. IInv => PlannerExact
  BY <1>1 DEF IInv
<1> QED  BY <1>2, Invariant, PTL

\* With everyone but the wallet gone there is room for a wallet group that is
\* no larger than the cap.
LEMMA WalletFits ==
    ASSUME NEW a \in Sound, a.groups[Wallet] = {}, NEW ks \in SUBSET Keys, ks # {},
           Cardinality(ks) <= a.cap
    PROVE  LET r == try_admit_with_eviction(a, Wallet, ks)
           IN  r.result = "Inserted" /\ r.adm.groups[Wallet] = ks
<1> DEFINE r == try_admit_with_eviction(a, Wallet, ks)
           tiers == {t \in 0 .. TopTier(Wallet) : RoomBelow(a, ks, t)}
<1>0. Wallet \in Owners
  BY Inputs
<1>1. Admitted(a, Wallet, ks, r, tiers)
  <2>1. r = try_admit_with_eviction(a, Wallet, ks) /\ tiers = {t \in 0 .. TopTier(Wallet) : RoomBelow(a, ks, t)}
    OBVIOUS
  <2> HIDE DEF r, tiers
  <2> QED  BY <1>0, <2>1, EvictionExact
<1>2. TopTier(Wallet) = 3
  BY Priorities DEF TopTier
<1>3. Without(a, Evictable(a, 3)) = {}
  <2>1. ASSUME NEW p \in Owners \ Evictable(a, 3) PROVE a.groups[p] = {}
    <3>1. CASE p = Wallet
      BY <3>1
    <3>2. CASE p # Wallet
      <4>1. Priority(p) <= 3
        BY <3>2, Priorities
      <4> QED  BY <3>2, <4>1 DEF Evictable, Present
    <3> QED  BY <3>1, <3>2
  <2> QED  BY <2>1 DEF Without
<1>4. RoomBelow(a, ks, 3)
  <2>1. Without(a, Evictable(a, 3)) \cup ks = ks
    BY <1>3
  <2> QED  BY <2>1 DEF RoomBelow
<1>5. 3 \in tiers
  BY <1>2, <1>4
<1> HIDE DEF tiers, r
<1>6. tiers # {}
  BY <1>5
<1>7. r.result = "Inserted" /\ r.adm.groups[Wallet] = ks
  BY <1>1, <1>6 DEF Admitted
<1> QED  BY <1>7 DEF r

\* A wallet group that is no larger than the cap always gets in
\* (try_admit_wallet_owner_group behind apply_wallet_pin).
THEOREM WalletAlwaysAdmitted == Spec => []WalletAdmitted
<1>1. ASSUME adm \in Sound PROVE WalletAdmitted
  <2> SUFFICES ASSUME NEW ks \in Planned[Wallet], Cardinality(ks) <= adm.cap
               PROVE  try_admit_owner_group(adm, Wallet, ks).adm.groups[Wallet] = ks
    BY DEF WalletAdmitted
  <2>1. ks \in SUBSET Keys /\ ks # {} /\ Wallet \in Owners
    BY Inputs
  <2>0. adm.groups \in [Owners -> SUBSET Keys]
    BY <1>1, SoundParts
  <2>2. CASE adm.groups[Wallet] = {}
    <3>1. CASE Fits(adm, ks)
      <4>1. PutIn(adm, Wallet, ks, try_admit_new_group(adm, Wallet, ks))
        BY <1>1, <2>1, <2>2, <3>1, NewSound
      <4>2. try_admit_owner_group(adm, Wallet, ks) = try_admit_new_group(adm, Wallet, ks)
        BY <2>1, <2>2, <4>1 DEF try_admit_owner_group, PutIn
      <4> QED  BY <2>0, <2>1, <4>1, <4>2 DEF PutIn
    <3>2. CASE ~Fits(adm, ks)
      <4>1. try_admit_new_group(adm, Wallet, ks).result = "RejectedCap"
        BY <3>2 DEF try_admit_new_group
      <4>2. try_admit_owner_group(adm, Wallet, ks) = try_admit_with_eviction(adm, Wallet, ks)
        BY <2>1, <2>2, <4>1 DEF try_admit_owner_group
      <4> QED  BY <1>1, <2>1, <2>2, <4>2, WalletFits
    <3> QED  BY <3>1, <3>2
  <2>3. CASE adm.groups[Wallet] = ks
    <3>1. try_admit_owner_group(adm, Wallet, ks).adm = [adm EXCEPT !.older = Stamp(adm, Wallet)]
      BY <2>1, <2>3 DEF try_admit_owner_group
    <3> QED  BY <1>1, <2>1, <2>3, <3>1, TouchSound
  <2>4. CASE adm.groups[Wallet] # {} /\ adm.groups[Wallet] # ks
    <3> DEFINE rep == try_replace_group(adm, Wallet, ks)
               out == remove_group(adm, Wallet)
    <3>1. try_admit_owner_group(adm, Wallet, ks) =
            IF rep.result = "RejectedCap" THEN try_admit_with_eviction(out, Wallet, ks) ELSE rep
      BY <2>1, <2>4 DEF try_admit_owner_group
    <3>2. CASE rep.result = "RejectedCap"
      <4>1. out \in Sound /\ out.groups = [adm.groups EXCEPT ![Wallet] = {}] /\ out.cap = adm.cap
        BY <1>1, <2>1, RemoveSound
      <4>2. out.groups[Wallet] = {} /\ Cardinality(ks) <= out.cap
        BY <2>0, <2>1, <4>1
      <4> HIDE DEF out
      <4>3. try_admit_with_eviction(out, Wallet, ks).adm.groups[Wallet] = ks
        BY <2>1, <4>1, <4>2, WalletFits
      <4> QED  BY <3>1, <3>2, <4>3
    <3>3. CASE rep.result # "RejectedCap"
      <4>1. PutIn(adm, Wallet, ks, rep) \/ rep = [adm |-> adm, result |-> "RejectedCap"]
        BY <1>1, <2>1, ReplaceSound
      <4>2. PutIn(adm, Wallet, ks, rep)
        <5> HIDE DEF rep
        <5> QED  BY <3>3, <4>1
      <4>3. rep.adm.groups[Wallet] = ks
        <5> HIDE DEF rep
        <5> QED  BY <2>0, <2>1, <4>2 DEF PutIn
      <4> QED  BY <3>1, <3>3, <4>3
    <3> QED  BY <3>2, <3>3
  <2> QED  BY <2>2, <2>3, <2>4
<1>2. IInv => WalletAdmitted
  BY <1>1 DEF IInv
<1> QED  BY <1>2, Invariant, PTL

\* A cap shrink reaches every cap that the wallet alone fits in, without
\* touching the wallet's group (try_shrink_cap).
THEOREM ShrinkAlwaysReaches == Spec => []ShrinkReaches
<1>1. ASSUME adm \in Sound PROVE ShrinkReaches
  <2>0. adm.groups \in [Owners -> SUBSET Keys] /\ adm.len \in Nat /\ adm.cap \in Nat /\ Wallet \in Owners
    BY <1>1, Inputs, SoundParts
  <2>1. WalletLen(adm) \in Nat
    <3>1. adm.groups[Wallet] \in SUBSET Keys
      BY <2>0
    <3> QED  BY <3>1, GroupFinite DEF WalletLen
  <2> SUFFICES ASSUME NEW cap \in WalletLen(adm) .. adm.cap
               PROVE  ShrunkTo(adm, cap, try_shrink_cap(adm, cap).adm)
    BY DEF ShrinkReaches
  <2>2. cap \in Nat /\ ~(cap > adm.cap) /\ ~(WalletLen(adm) > cap) /\ WalletLen(adm) <= cap
    BY <2>0, <2>1
  <2>3. CASE adm.len <= cap
    <3>1. try_shrink_cap(adm, cap).adm = [adm EXCEPT !.cap = cap]
      BY <2>2, <2>3 DEF try_shrink_cap
    <3>2. adm \in Admissions
      BY <1>1, SoundParts
    <3> QED  BY <2>3, <3>1, <3>2 DEF ShrunkTo, Admissions
  <2>4. CASE ~(adm.len <= cap)
    <3> DEFINE need == adm.len - cap
               tiers == OpenTiers(adm, {}, need, 3)
               vs == Plan(adm, {}, need, tiers)
               r == Commit(adm, [Dropped(adm, vs) EXCEPT !.cap = cap])
    <3>1. try_shrink_cap(adm, cap) = r
      BY <2>2, <2>4 DEF try_shrink_cap, ShrinkTiers
    <3>2. need \in Nat /\ need > 0
      BY <2>0, <2>2, <2>4
    <3>3. {} \in SUBSET Keys /\ Added(adm, {}) = {} /\ Cardinality({}) = 0
      BY FS_EmptySet DEF Added
    <3>4. \A ws : /\ Cardinality(Freed(adm, {}, ws)) \in Nat
                  /\ Cardinality(Without(adm, ws)) = adm.len - Cardinality(Freed(adm, {}, ws))
      <4> SUFFICES ASSUME NEW ws
                   PROVE  /\ Cardinality(Freed(adm, {}, ws)) \in Nat
                          /\ Cardinality(Without(adm, ws)) = adm.len - Cardinality(Freed(adm, {}, ws))
        OBVIOUS
      <4>1. /\ Cardinality(Freed(adm, {}, ws)) \in Nat
            /\ Cardinality(Without(adm, ws) \cup {}) =
                 adm.len + Cardinality(Added(adm, {})) - Cardinality(Freed(adm, {}, ws))
        BY <1>1, <3>3, RoomExact
      <4>2. Without(adm, ws) \cup {} = Without(adm, ws)
        OBVIOUS
      <4> QED  BY <2>0, <3>3, <4>1, <4>2
    <3>5. Without(adm, Evictable(adm, 3)) \subseteq adm.groups[Wallet]
      <4>1. ASSUME NEW p \in Owners \ Evictable(adm, 3), p # Wallet PROVE adm.groups[p] = {}
        <5>1. Priority(p) <= 3
          BY <4>1, Priorities
        <5> QED  BY <4>1, <5>1 DEF Evictable, Present
      <4> QED  BY <4>1 DEF Without
    <3>6. Cardinality(Without(adm, Evictable(adm, 3))) <= WalletLen(adm)
      <4>1. IsFiniteSet(adm.groups[Wallet])
        BY <2>0, GroupFinite
      <4> QED  BY <3>5, <4>1, FS_Subset DEF WalletLen
    <3>7. Freeable(adm, {}, 3) = Freed(adm, {}, Evictable(adm, 3))
      BY DEF Freeable, Freed
    <3>8. Cardinality(Freeable(adm, {}, 3)) >= need
      <4> DEFINE ws == Evictable(adm, 3)
      <4>1. /\ Cardinality(Freed(adm, {}, ws)) \in Nat
            /\ Cardinality(Without(adm, ws)) = adm.len - Cardinality(Freed(adm, {}, ws))
        BY <3>4
      <4> QED  BY <2>0, <2>1, <2>2, <3>6, <3>7, <4>1
    <3>9. tiers # {}
      <4>1. 3 \in 0 .. 3
        OBVIOUS
      <4> HIDE DEF need
      <4> QED  BY <3>8, <4>1 DEF OpenTiers
    <3>10. /\ vs \subseteq Evictable(adm, Min(tiers))
           /\ Cardinality(Freed(adm, {}, vs)) >= need
      <4>1. tiers = OpenTiers(adm, {}, need, 3) /\ vs = Plan(adm, {}, need, tiers) /\ 3 \in Nat
        OBVIOUS
      <4> HIDE DEF need, tiers, vs
      <4> QED  BY <1>1, <3>2, <3>9, <4>1, PlanEnough
    <3> HIDE DEF vs
    <3>11. Cardinality(Without(adm, vs)) <= cap
      <4>1. /\ Cardinality(Freed(adm, {}, vs)) \in Nat
            /\ Cardinality(Without(adm, vs)) = adm.len - Cardinality(Freed(adm, {}, vs))
        BY <3>4
      <4> QED  BY <2>0, <2>2, <3>10, <4>1
    <3>12. /\ r.adm \in Sound /\ r.adm.cap = cap
           /\ r.adm.groups = [o \in Owners |-> IF o \in vs THEN {} ELSE adm.groups[o]]
      BY <1>1, <2>2, <3>11, ShrinkCommit
    <3>13. Wallet \notin vs
      BY <3>10 DEF Evictable
    <3> HIDE DEF r
    <3>14. r.adm.groups[Wallet] = adm.groups[Wallet] /\ r.adm.len <= cap
      BY <2>0, <3>12, <3>13, SoundParts
    <3> QED  BY <3>1, <3>12, <3>14 DEF ShrunkTo
  <2> QED  BY <2>3, <2>4
<1>2. IInv => ShrinkReaches
  BY <1>1 DEF IInv
<1> QED  BY <1>2, Invariant, PTL

\* Groups that fit in the cap together are admitted one after the other as
\* they are: the loop never comes to an eviction.
SoFar(g, n) == [o \in Owners |-> IF \E i \in 1 .. n : Order[i] = o THEN g[o] ELSE {}]

\* One step of it: a group that fits with the ones before it is put in as it is.
LEMMA AdmitFitting ==
    ASSUME NEW b \in Sound, NEW o \in Owners, b.groups[o] = {}, NEW ks \in SUBSET Keys,
           NEW all \in SUBSET Keys, Physical(b) \subseteq all, ks \subseteq all,
           Cardinality(all) <= b.cap
    PROVE  /\ try_admit_owner_group(b, o, ks).result = "Inserted"
           /\ try_admit_owner_group(b, o, ks).adm.groups = [b.groups EXCEPT ![o] = ks]
<1>0. b.groups \in [Owners -> SUBSET Keys] /\ b.len \in Nat /\ b.cap \in Nat
  BY SoundParts
<1>1. CASE ks = {}
  <2>1. [b.groups EXCEPT ![o] = ks] = b.groups
    BY <1>0, <1>1
  <2> QED  BY <1>1, <2>1 DEF try_admit_owner_group
<1>2. CASE ks # {}
  <2>1. Freed(b, ks, {}) = {} /\ Without(b, {}) = Physical(b)
    BY DEF Freed, Refs, Physical, Without
  <2>2. /\ Cardinality(Added(b, ks)) \in Nat
        /\ Cardinality(Without(b, {}) \cup ks) = b.len + Cardinality(Added(b, ks)) - Cardinality(Freed(b, ks, {}))
    BY RoomExact
  <2>3. Cardinality({}) = 0
    BY FS_EmptySet
  <2>4. Without(b, {}) \cup ks \subseteq all /\ IsFiniteSet(all) /\ Cardinality(all) \in Nat
    BY <2>1, GroupFinite
  <2>5. Cardinality(Without(b, {}) \cup ks) <= Cardinality(all)
    BY <2>4, FS_Subset
  <2>6. Fits(b, ks)
    <3>1. Cardinality(Freed(b, ks, {})) = 0
      BY <2>1, <2>3, Zenon
    <3> DEFINE x == Cardinality(Added(b, ks))
               y == Cardinality(Without(b, {}) \cup ks)
               z == Cardinality(all)
    <3>2. x \in Nat /\ y = b.len + x - 0
      BY <2>2, <3>1
    <3>3. y <= z /\ z \in Nat /\ z <= b.cap
      BY <2>4, <2>5
    <3> HIDE DEF x, y, z
    <3>4. b.len + x <= b.cap
      BY <1>0, <3>2, <3>3
    <3> QED  BY <3>4 DEF Fits, x
  <2>7. PutIn(b, o, ks, try_admit_new_group(b, o, ks))
    BY <1>2, <2>6, NewSound
  <2>8. try_admit_owner_group(b, o, ks) = try_admit_new_group(b, o, ks)
    BY <1>2, <2>7 DEF try_admit_owner_group, PutIn
  <2> QED  BY <2>7, <2>8 DEF PutIn
<1> QED  BY <1>1, <1>2

\* A restore under a cap that holds the snapshot gives the snapshot's groups.
LEMMA RestoreIsExact ==
    ASSUME NEW cap \in Nat, NEW g \in [Owners -> SUBSET Keys],
           Cardinality(UNION {g[o] : o \in Owners}) <= cap
    PROVE  RestoredTo(restore_admission(cap, g), g)
<1> DEFINE a == NoAdmission(cap)
           all == UNION {g[o] : o \in Owners}
           S == Answers(cap)
           N == Len(Order)
<1>1. a \in Sound /\ a.cap = cap /\ a.groups = NoGroups
  BY NoAdmissionSound
<1>2. all \in SUBSET Keys /\ \A o \in Owners : g[o] \subseteq all
  OBVIOUS
<1>3. PICK f : Admitting(f, S, a, g)
  <2> HIDE DEF a
  <2> QED  BY <1>1, AdmitAllAnswers
<1>4. /\ f \in [0 .. N -> S] /\ f[0] = [adm |-> a, result |-> "Inserted"]
      /\ \A n \in 1 .. N : f[n] = AdmitNext(f[n - 1], Order[n], g[Order[n]])
      /\ AdmitAll(a, g) = f[N]
  BY <1>3 DEF Admitting
<1> DEFINE Good == {n \in 0 .. N : f[n].result = "Inserted" /\ f[n].adm.groups = SoFar(g, n)}
<1>40. N \in Nat
  BY InOrder
<1>5. 0 \in Good
  <2>1. SoFar(g, 0) = NoGroups
    BY DEF SoFar, NoGroups
  <2>2. 0 \in 0 .. N
    BY <1>40
  <2> HIDE DEF a
  <2> QED  BY <1>1, <1>4, <2>1, <2>2
<1>6. ASSUME NEW n \in 1 .. N, n - 1 \in Good PROVE n \in Good
  <2> DEFINE o == Order[n]
             b == f[n - 1].adm
  <2>1. n \in 0 .. N /\ n - 1 \in 0 .. N
    BY <1>40
  <2>2. f[n - 1] \in S /\ f[n - 1].result = "Inserted" /\ b.groups = SoFar(g, n - 1)
    BY <1>4, <1>6, <2>1
  <2>3. b \in Sound /\ b.cap = cap
    BY <2>2 DEF Answers
  <2>4. o \in Owners
    BY InOrder
  <2>5. \A i \in 1 .. n - 1 : Order[i] # o
    <3> SUFFICES ASSUME NEW i \in 1 .. n - 1 PROVE Order[i] # o
      OBVIOUS
    <3>1. i \in 1 .. N /\ i # n
      BY <1>40
    <3> QED  BY <3>1, InOrder
  <2>6. b.groups[o] = {}
    <3> HIDE DEF o, b
    <3> QED  BY <2>2, <2>4, <2>5 DEF SoFar
  <2>7. f[n] = try_admit_owner_group(b, o, g[o])
    <3>1. f[n] = AdmitNext(f[n - 1], Order[n], g[Order[n]])
      BY <1>4
    <3> QED  BY <2>2, <3>1 DEF AdmitNext
  <2>8. Physical(b) \subseteq all
    <3> HIDE DEF b
    <3>1. \A p \in Owners : b.groups[p] \subseteq g[p]
      BY <2>2 DEF SoFar
    <3> HIDE DEF all
    <3> QED  BY <1>2, <3>1 DEF Physical
  <2>9. /\ f[n].result = "Inserted"
        /\ f[n].adm.groups = [b.groups EXCEPT ![o] = g[o]]
    <3> HIDE DEF o, b, all
    <3>1. g[o] \in SUBSET Keys /\ g[o] \subseteq all /\ Cardinality(all) <= b.cap
      BY <1>2, <2>3, <2>4 DEF all
    <3>2. /\ try_admit_owner_group(b, o, g[o]).result = "Inserted"
          /\ try_admit_owner_group(b, o, g[o]).adm.groups = [b.groups EXCEPT ![o] = g[o]]
      BY <1>2, <2>3, <2>4, <2>6, <2>8, <3>1, AdmitFitting
    <3> QED  BY <2>7, <3>2
  <2>10. [SoFar(g, n - 1) EXCEPT ![o] = g[o]] = SoFar(g, n)
    <3>1. ASSUME NEW p \in Owners
          PROVE  (\E i \in 1 .. n : Order[i] = p) <=> p = o \/ (\E i \in 1 .. n - 1 : Order[i] = p)
      <4>1. \A i : i \in 1 .. n <=> i = n \/ i \in 1 .. n - 1
        BY <1>40
      <4> QED  BY <4>1
    <3> HIDE DEF o
    <3> QED  BY <3>1 DEF SoFar
  <2> QED  BY <2>1, <2>2, <2>9, <2>10
<1>7. N \in Good
  <2>1. \A n \in 0 .. N : n \in Good
    <3> HIDE DEF Good, N
    <3> QED  BY <1>40, <1>5, <1>6, UpTo
  <2> QED  BY <1>40, <2>1
<1>8. SoFar(g, N) = g
  BY InOrder DEF SoFar
<1>9. f[N] \in S /\ f[N].result = "Inserted" /\ f[N].adm.groups = g
  BY <1>40, <1>4, <1>7, <1>8
<1>10. Cardinality(g[Wallet]) <= cap /\ Cardinality(g[Wallet]) \in Nat
  <2>1. IsFiniteSet(all) /\ Cardinality(all) \in Nat /\ g[Wallet] \subseteq all
    BY <1>2, GroupFinite, Inputs
  <2>2. Cardinality(g[Wallet]) <= Cardinality(all) /\ Cardinality(g[Wallet]) \in Nat
    BY <2>1, Parts
  <2> QED  BY <2>1, <2>2
<1>11. restore_admission(cap, g) = Settled(f[N])
  <2>1. ~(Cardinality(g[Wallet]) > cap)
    BY <1>10
  <2> QED  BY <1>4, <2>1 DEF restore_admission
<1>12. WalletLen(f[N].adm) <= cap
  BY <1>9, <1>10 DEF WalletLen
<1>13. Settled(f[N]).adm = f[N].adm /\ Settled(f[N]).result = "Converged"
  BY <1>9, <1>12, SettledAdm
<1> QED  BY <1>9, <1>11, <1>13 DEF RestoredTo

\* The admission a restart builds from a snapshot is the one that was saved,
\* Tracker groups excepted, whenever the cap still holds it
\* (restore_admission_from_snapshot).
THEOREM RestoreAlwaysExact == Spec => []RestoreExact
<1>1. ASSUME adm \in Sound PROVE RestoreExact
  <2> DEFINE g == Persisted(adm.groups)
  <2>1. g \in [Owners -> SUBSET Keys]
    BY <1>1, SoundParts DEF Persisted
  <2>2. Range(g) = {g[o] : o \in Owners}
    <3> HIDE DEF g
    <3> QED  BY <2>1 DEF Range
  <2>3. ASSUME NEW cap \in 1 .. MaxCap, Cardinality(UNION Range(g)) <= cap
        PROVE  RestoredTo(restore_admission(cap, g), g)
    <3>1. cap \in Nat
      BY Inputs
    <3>2. Cardinality(UNION {g[o] : o \in Owners}) <= cap
      <4> HIDE DEF g
      <4> QED  BY <2>2, <2>3
    <3> HIDE DEF g
    <3> QED  BY <2>1, <3>1, <3>2, RestoreIsExact
  <2> QED  BY <2>3 DEF RestoreExact
<1>2. IInv => RestoreExact
  BY <1>1 DEF IInv
<1> QED  BY <1>2, Invariant, PTL

-----------------------------------------------------------------------------
(* A converged push has settled.                                              *)

\* What a call for one owner that succeeds does to the groups.
Effect(a, o, ks, r) ==
    r.result = "Inserted" =>
      /\ r.adm.groups[o] = IF ks = {} THEN a.groups[o] ELSE ks
      /\ \A p \in Owners \ {o} : r.adm.groups[p] \in {{}, a.groups[p]}

\* A group put in without an eviction changes no other group.
LEMMA PutInEffect ==
    ASSUME NEW a \in Sound, NEW o \in Owners, NEW ks, ks # {}, NEW r, PutIn(a, o, ks, r)
    PROVE  Effect(a, o, ks, r)
<1>1. a.groups \in [Owners -> SUBSET Keys] /\ r.adm.groups = [a.groups EXCEPT ![o] = ks]
  BY SoundParts DEF PutIn
<1> QED  BY <1>1 DEF Effect

\* An admission with eviction empties other groups and never cuts them.
LEMMA EvictionEffect ==
    ASSUME NEW a \in Sound, NEW o \in Owners, a.groups[o] = {}, NEW ks \in SUBSET Keys, ks # {}
    PROVE  Effect(a, o, ks, try_admit_with_eviction(a, o, ks))
<1>1. CASE Fits(a, ks)
  <2>1. PutIn(a, o, ks, try_admit_new_group(a, o, ks))
    BY <1>1, NewSound
  <2>2. try_admit_with_eviction(a, o, ks) = try_admit_new_group(a, o, ks)
    BY <1>1 DEF try_admit_with_eviction
  <2> QED  BY <2>1, <2>2, PutInEffect
<1>2. CASE ~Fits(a, ks)
  <2> DEFINE vs == Plan(a, ks, Overflow(a, ks), OpenTiers(a, ks, Overflow(a, ks), TopTier(o)))
             r == EvictAndAdmit(a, o, ks, vs)
             all == UNION {WithVictims(a, o, ks, vs)[p] : p \in Owners}
  <2>1. try_admit_with_eviction(a, o, ks) = r
    BY <1>2 DEF try_admit_with_eviction
  <2> HIDE DEF vs
  <2>2. CASE vs = {}
    <3>1. r.result = "RejectedProtected"
      BY <2>2 DEF EvictAndAdmit
    <3> QED  BY <2>1, <3>1 DEF Effect
  <2>3. CASE vs # {}
    <3>1. /\ Cardinality(all) > a.cap => r = [adm |-> a, result |-> "InternalInvariantViolation"]
          /\ ~(Cardinality(all) > a.cap) =>
                  /\ r.result = "Inserted" /\ r.adm \in Sound /\ r.adm.cap = a.cap
                  /\ r.adm.groups = WithVictims(a, o, ks, vs)
      BY <2>3, EvictSound
    <3> HIDE DEF all, r
    <3>2. r.result = "Inserted" => r.adm.groups = WithVictims(a, o, ks, vs)
      BY <3>1
    <3>3. Effect(a, o, ks, r)
      BY <3>2 DEF Effect, WithVictims
    <3> QED  BY <2>1, <3>3
  <2> QED  BY <2>2, <2>3
<1> QED  BY <1>1, <1>2

\* try_admit_owner_group, whichever of insert, replace and evict it takes, does
\* the same.
LEMMA OwnerGroupEffect ==
    ASSUME NEW a \in Sound, NEW o \in Owners, NEW ks \in SUBSET Keys
    PROVE  Effect(a, o, ks, try_admit_owner_group(a, o, ks))
<1>0. a.groups \in [Owners -> SUBSET Keys]
  BY SoundParts
<1>1. CASE ks = {}
  <2>1. try_admit_owner_group(a, o, ks).adm = a
    BY <1>1 DEF try_admit_owner_group
  <2> QED  BY <1>1, <2>1 DEF Effect
<1>2. CASE ks # {} /\ a.groups[o] = {}
  <2> DEFINE new == try_admit_new_group(a, o, ks)
  <2>1. try_admit_owner_group(a, o, ks) =
          IF new.result = "RejectedCap" THEN try_admit_with_eviction(a, o, ks) ELSE new
    BY <1>2 DEF try_admit_owner_group
  <2>2. /\ Fits(a, ks) => PutIn(a, o, ks, new)
        /\ ~Fits(a, ks) => new = [adm |-> a, result |-> "RejectedCap"]
    BY <1>2, NewSound
  <2> HIDE DEF new
  <2>3. CASE Fits(a, ks)
    <3>1. new.result # "RejectedCap" /\ PutIn(a, o, ks, new)
      BY <2>2, <2>3 DEF PutIn
    <3> QED  BY <1>2, <2>1, <3>1, PutInEffect
  <2>4. CASE ~Fits(a, ks)
    <3>1. new.result = "RejectedCap"
      BY <2>2, <2>4
    <3> QED  BY <1>2, <2>1, <3>1, EvictionEffect
  <2> QED  BY <2>3, <2>4
<1>3. CASE ks # {} /\ a.groups[o] # {} /\ a.groups[o] = ks
  <2>1. try_admit_owner_group(a, o, ks).adm = [a EXCEPT !.older = Stamp(a, o)]
    BY <1>3 DEF try_admit_owner_group
  <2>2. try_admit_owner_group(a, o, ks).adm.groups = a.groups
    BY <1>3, <2>1, TouchSound
  <2> QED  BY <1>3, <2>2 DEF Effect
<1>4. CASE ks # {} /\ a.groups[o] # {} /\ a.groups[o] # ks
  <2> DEFINE rep == try_replace_group(a, o, ks)
             out == remove_group(a, o)
  <2>1. try_admit_owner_group(a, o, ks) =
          IF rep.result = "RejectedCap" THEN try_admit_with_eviction(out, o, ks) ELSE rep
    BY <1>4 DEF try_admit_owner_group
  <2>2. PutIn(a, o, ks, rep) \/ rep = [adm |-> a, result |-> "RejectedCap"]
    BY <1>4, ReplaceSound
  <2>3. out \in Sound /\ out.groups = [a.groups EXCEPT ![o] = {}]
    BY RemoveSound
  <2> HIDE DEF rep, out
  <2>4. CASE rep.result = "RejectedCap"
    <3>1. out.groups[o] = {} /\ \A p \in Owners \ {o} : out.groups[p] = a.groups[p]
      BY <1>0, <2>3
    <3>2. Effect(out, o, ks, try_admit_with_eviction(out, o, ks))
      BY <1>4, <2>3, <3>1, EvictionEffect
    <3>3. Effect(a, o, ks, try_admit_with_eviction(out, o, ks))
      BY <1>4, <3>1, <3>2 DEF Effect
    <3> QED  BY <2>1, <2>4, <3>3
  <2>5. CASE rep.result # "RejectedCap"
    <3>1. PutIn(a, o, ks, rep)
      BY <2>2, <2>5
    <3> QED  BY <1>4, <2>1, <2>5, <3>1, PutInEffect
  <2> QED  BY <2>4, <2>5
<1> QED  BY <1>1, <1>2, <1>3, <1>4

\* An admission that converged on e holds for every owner the group of e or
\* nothing.
Holds(a, e) == \A o \in Owners : a.groups[o] \in {{}, e[o]}

\* Converging on e, with the groups e does not want gone, leaves for every owner
\* the group of e or nothing.
LEMMA AdmitAllHolds ==
    ASSUME NEW a \in Sound, NEW e \in [Owners -> SUBSET Keys],
           \A o \in Owners : e[o] = {} => a.groups[o] = {},
           AdmitAll(a, e).result = "Inserted"
    PROVE  Holds(AdmitAll(a, e).adm, e)
<1> DEFINE S == Answers(a.cap)
           N == Len(Order)
<1>1. PICK f : Admitting(f, S, a, e)
  BY AdmitAllAnswers
<1>2. /\ f \in [0 .. N -> S] /\ f[0] = [adm |-> a, result |-> "Inserted"]
      /\ \A n \in 1 .. N : f[n] = AdmitNext(f[n - 1], Order[n], e[Order[n]])
      /\ AdmitAll(a, e) = f[N]
  BY <1>1 DEF Admitting
<1>3. N \in Nat
  BY InOrder
<1> DEFINE Clean(b) == \A o \in Owners : e[o] = {} => b.groups[o] = {}
           Upto(b, n) == \A i \in 1 .. n : b.groups[Order[i]] \in {{}, e[Order[i]]}
           Good == {n \in 0 .. N : f[n].result = "Inserted" => Clean(f[n].adm) /\ Upto(f[n].adm, n)}
<1>4. 0 \in Good
  <2>1. f[0].adm = a /\ 0 \in 0 .. N
    BY <1>2, <1>3
  <2>2. Clean(a) /\ Upto(a, 0)
    BY <1>3
  <2> HIDE DEF Clean, Upto
  <2> QED  BY <2>1, <2>2
<1>5. ASSUME NEW n \in 1 .. N, n - 1 \in Good PROVE n \in Good
  <2>1. n \in 0 .. N /\ n - 1 \in 0 .. N
    BY <1>3
  <2> DEFINE b == f[n - 1].adm
             c == f[n].adm
             o == Order[n]
  <2> SUFFICES ASSUME f[n].result = "Inserted" PROVE Clean(c) /\ Upto(c, n)
    <3> HIDE DEF Clean, Upto
    <3> QED  BY <2>1
  <2>2. f[n] = AdmitNext(f[n - 1], o, e[o])
    BY <1>2
  <2>3. f[n - 1].result = "Inserted"
    BY <2>2 DEF AdmitNext
  <2>4. f[n] = try_admit_owner_group(b, o, e[o])
    BY <2>2, <2>3 DEF AdmitNext
  <2>5. b \in Sound
    <3>1. f[n - 1] \in S
      BY <1>2, <2>1
    <3> QED  BY <3>1 DEF Answers
  <2>6. o \in Owners /\ e[o] \in SUBSET Keys
    BY InOrder
  <2>7. Effect(b, o, e[o], f[n])
    <3> HIDE DEF b, o
    <3> QED  BY <2>4, <2>5, <2>6, OwnerGroupEffect
  <2>8. /\ c.groups[o] = IF e[o] = {} THEN b.groups[o] ELSE e[o]
        /\ \A p \in Owners \ {o} : c.groups[p] \in {{}, b.groups[p]}
    BY <2>7 DEF Effect
  <2>9. Clean(b) /\ Upto(b, n - 1)
    <3> HIDE DEF Clean, Upto
    <3> QED  BY <1>5, <2>3
  <2>10. Clean(c)
    <3> SUFFICES ASSUME NEW p \in Owners, e[p] = {} PROVE c.groups[p] = {}
      OBVIOUS
    <3>1. b.groups[p] = {}
      BY <2>9
    <3> HIDE DEF b, c
    <3> QED  BY <2>8, <3>1
  <2>11. Upto(c, n)
    <3> SUFFICES ASSUME NEW i \in 1 .. n PROVE c.groups[Order[i]] \in {{}, e[Order[i]]}
      OBVIOUS
    <3>1. CASE i = n
      <4>1. e[o] = {} => b.groups[o] = {}
        BY <2>6, <2>9
      <4> QED  BY <2>8, <3>1, <4>1
    <3>2. CASE i # n
      <4>1. i \in 1 .. n - 1 /\ i \in 1 .. N
        BY <1>3, <3>2
      <4>2. Order[i] \in Owners \ {o}
        BY <3>2, <4>1, InOrder
      <4>3. b.groups[Order[i]] \in {{}, e[Order[i]]}
        BY <2>9, <4>1
      <4>4. c.groups[Order[i]] \in {{}, b.groups[Order[i]]}
        BY <2>8, <4>2
      <4> QED  BY <4>3, <4>4
    <3> QED  BY <3>1, <3>2
  <2> QED  BY <2>10, <2>11
<1>6. N \in Good
  <2>1. \A n \in 0 .. N : n \in Good
    <3> HIDE DEF Good, N
    <3> QED  BY <1>3, <1>4, <1>5, UpTo
  <2>2. N \in 0 .. N
    BY <1>3
  <2> HIDE DEF Good, N
  <2> QED  BY <2>1, <2>2
<1>7. Upto(f[N].adm, N)
  <2> HIDE DEF Clean, Upto
  <2> QED  BY <1>2, <1>6
<1>8. \A o \in Owners : f[N].adm.groups[o] \in {{}, e[o]}
  BY <1>7, InOrder
<1> QED  BY <1>2, <1>8 DEF Holds

\* Removing the owners of os empties their groups and no other.
Cleared(a, os, n) ==
    [o \in Owners |-> IF o \in os /\ \E i \in 1 .. n : Order[i] = o THEN {} ELSE a.groups[o]]

\* The groups that are left.
LEMMA RemoveAllGroups ==
    ASSUME NEW a \in Sound, NEW os
    PROVE  RemoveAll(a, os).groups = [o \in Owners |-> IF o \in os THEN {} ELSE a.groups[o]]
<1> DEFINE S == {b \in Sound : b.cap = a.cap}
           N == Len(Order)
<1>1. PICK f : Removing(f, S, a, os)
  BY RemoveAllSound
<1>2. /\ f \in [0 .. N -> S] /\ f[0] = a
      /\ \A n \in 1 .. N : f[n] = (IF Order[n] \in os THEN remove_group(f[n - 1], Order[n]) ELSE f[n - 1])
      /\ RemoveAll(a, os) = f[N]
  BY <1>1 DEF Removing
<1>3. N \in Nat /\ a.groups \in [Owners -> SUBSET Keys]
  BY InOrder, SoundParts
<1> DEFINE Good == {n \in 0 .. N : f[n].groups = Cleared(a, os, n)}
<1>4. 0 \in Good
  <2>1. Cleared(a, os, 0) = a.groups
    BY <1>3 DEF Cleared
  <2>2. 0 \in 0 .. N
    BY <1>3
  <2> QED  BY <1>2, <2>1, <2>2
<1>5. ASSUME NEW n \in 1 .. N, n - 1 \in Good PROVE n \in Good
  <2> DEFINE o == Order[n]
             b == f[n - 1]
  <2>1. n \in 0 .. N /\ n - 1 \in 0 .. N
    BY <1>3
  <2>2. b \in Sound /\ b.groups = Cleared(a, os, n - 1)
    BY <1>2, <1>5, <2>1
  <2>3. o \in Owners
    BY InOrder
  <2>4. f[n] = IF o \in os THEN remove_group(b, o) ELSE b
    BY <1>2
  <2>5. ASSUME NEW p \in Owners
        PROVE  (\E i \in 1 .. n : Order[i] = p) <=> p = o \/ (\E i \in 1 .. n - 1 : Order[i] = p)
    <3>1. \A i : i \in 1 .. n <=> i = n \/ i \in 1 .. n - 1
      BY <1>3
    <3> QED  BY <3>1
  <2> HIDE DEF o, b
  <2>6. CASE o \in os
    <3>1. f[n].groups = [b.groups EXCEPT ![o] = {}]
      BY <2>2, <2>3, <2>4, <2>6, RemoveSound
    <3>2. [Cleared(a, os, n - 1) EXCEPT ![o] = {}] = Cleared(a, os, n)
      BY <2>3, <2>5, <2>6 DEF Cleared
    <3> QED  BY <2>1, <2>2, <3>1, <3>2
  <2>7. CASE o \notin os
    <3>1. f[n].groups = b.groups
      BY <2>4, <2>7
    <3>2. Cleared(a, os, n - 1) = Cleared(a, os, n)
      BY <2>5, <2>7 DEF Cleared
    <3> QED  BY <2>1, <2>2, <3>1, <3>2
  <2> QED  BY <2>6, <2>7
<1>6. N \in Good
  <2>1. \A n \in 0 .. N : n \in Good
    <3> HIDE DEF Good, N
    <3> QED  BY <1>3, <1>4, <1>5, UpTo
  <2>2. N \in 0 .. N
    BY <1>3
  <2> HIDE DEF Good, N
  <2> QED  BY <2>1, <2>2
<1>7. Cleared(a, os, N) = [o \in Owners |-> IF o \in os THEN {} ELSE a.groups[o]]
  BY InOrder DEF Cleared
<1> QED  BY <1>2, <1>6, <1>7

\* Admitting what an admission already holds, or what its accounts cover,
\* succeeds and adds no account.
LEMMA AdmitHeld ==
    ASSUME NEW b \in Sound, NEW o \in Owners, NEW ks \in SUBSET Keys,
           ks \subseteq Physical(b), b.groups[o] \in {{}, ks}
    PROVE  /\ try_admit_owner_group(b, o, ks).result = "Inserted"
           /\ try_admit_owner_group(b, o, ks).adm.groups = [b.groups EXCEPT ![o] = ks]
           /\ Physical(try_admit_owner_group(b, o, ks).adm) = Physical(b)
<1> DEFINE r == try_admit_owner_group(b, o, ks)
<1>0. /\ b.groups \in [Owners -> SUBSET Keys] /\ b.len \in Nat /\ b.len <= b.cap
      /\ b.len = Cardinality(Physical(b))
  BY SoundParts
<1>1. r.result = "Inserted" /\ r.adm.groups = [b.groups EXCEPT ![o] = ks]
  <2>1. CASE b.groups[o] = {}
    <3>1. Physical(b) \in SUBSET Keys
      BY <1>0 DEF Physical
    <3>2. Cardinality(Physical(b)) <= b.cap
      BY <1>0
    <3> QED  BY <2>1, <3>1, <3>2, AdmitFitting
  <2>2. CASE b.groups[o] # {}
    <3>1. b.groups[o] = ks /\ ks # {}
      BY <2>2
    <3>2. r = [adm |-> [b EXCEPT !.older = Stamp(b, o)], result |-> "Inserted"]
      BY <3>1 DEF try_admit_owner_group
    <3>3. [b EXCEPT !.older = Stamp(b, o)].groups = b.groups
      BY <2>2, TouchSound
    <3>4. [b.groups EXCEPT ![o] = ks] = b.groups
      BY <1>0, <3>1
    <3> HIDE DEF r
    <3> QED  BY <3>2, <3>3, <3>4
  <2> QED  BY <2>1, <2>2
<1>2. Physical(r.adm) = Physical(b)
  <2> DEFINE c == r.adm
  <2>1. c.groups[o] = ks /\ \A p \in Owners \ {o} : c.groups[p] = b.groups[p]
    BY <1>0, <1>1
  <2>2. b.groups[o] \subseteq ks
    OBVIOUS
  <2> HIDE DEF c
  <2>3. Physical(c) \subseteq Physical(b)
    BY <2>1 DEF Physical
  <2>4. Physical(b) \subseteq Physical(c)
    BY <2>1, <2>2 DEF Physical
  <2>5. Physical(c) = Physical(b)
    BY <2>3, <2>4
  <2> QED  BY <2>5 DEF c
<1> QED  BY <1>1, <1>2

\* Converging again on groups whose accounts are all admitted succeeds and
\* admits the same accounts: an owner that was evicted shares its accounts with
\* others and is taken back without an eviction.
LEMMA AdmitAllHeld ==
    ASSUME NEW a \in Sound, NEW e \in [Owners -> SUBSET Keys], Holds(a, e),
           \A o \in Owners : e[o] \subseteq Physical(a)
    PROVE  AdmitAll(a, e).result = "Inserted" /\ Physical(AdmitAll(a, e).adm) = Physical(a)
<1> DEFINE S == Answers(a.cap)
           N == Len(Order)
<1>1. PICK f : Admitting(f, S, a, e)
  BY AdmitAllAnswers
<1>2. /\ f \in [0 .. N -> S] /\ f[0] = [adm |-> a, result |-> "Inserted"]
      /\ \A n \in 1 .. N : f[n] = AdmitNext(f[n - 1], Order[n], e[Order[n]])
      /\ AdmitAll(a, e) = f[N]
  BY <1>1 DEF Admitting
<1>3. N \in Nat
  BY InOrder
<1> DEFINE Good == {n \in 0 .. N : /\ f[n].result = "Inserted" /\ Holds(f[n].adm, e)
                                   /\ Physical(f[n].adm) = Physical(a)}
<1>4. 0 \in Good
  <2>1. f[0].adm = a /\ f[0].result = "Inserted" /\ 0 \in 0 .. N
    BY <1>2, <1>3
  <2> QED  BY <2>1
<1>5. ASSUME NEW n \in 1 .. N, n - 1 \in Good PROVE n \in Good
  <2> DEFINE b == f[n - 1].adm
             o == Order[n]
  <2>1. n \in 0 .. N /\ n - 1 \in 0 .. N
    BY <1>3
  <2>2. f[n - 1] \in S /\ f[n - 1].result = "Inserted" /\ Holds(b, e) /\ Physical(b) = Physical(a)
    BY <1>2, <1>5, <2>1
  <2>3. b \in Sound /\ o \in Owners
    BY <2>2, InOrder DEF Answers
  <2>4. f[n] = try_admit_owner_group(b, o, e[o])
    <3>1. f[n] = AdmitNext(f[n - 1], Order[n], e[Order[n]])
      BY <1>2
    <3> QED  BY <2>2, <3>1 DEF AdmitNext
  <2>5. b.groups[o] \in {{}, e[o]} /\ e[o] \subseteq Physical(b) /\ e[o] \in SUBSET Keys
    <3> HIDE DEF b, o
    <3> QED  BY <2>2, <2>3 DEF Holds
  <2> HIDE DEF b, o
  <2>6. /\ f[n].result = "Inserted" /\ f[n].adm.groups = [b.groups EXCEPT ![o] = e[o]]
        /\ Physical(f[n].adm) = Physical(b)
    BY <2>3, <2>4, <2>5, AdmitHeld
  <2>7. Holds(f[n].adm, e)
    <3>1. b.groups \in [Owners -> SUBSET Keys]
      BY <2>3, SoundParts
    <3> QED  BY <2>2, <2>3, <2>6, <3>1 DEF Holds
  <2> QED  BY <2>1, <2>2, <2>6, <2>7
<1>6. N \in Good
  <2>1. \A n \in 0 .. N : n \in Good
    <3> HIDE DEF Good, N
    <3> QED  BY <1>3, <1>4, <1>5, UpTo
  <2>2. N \in 0 .. N
    BY <1>3
  <2> HIDE DEF Good, N
  <2> QED  BY <2>1, <2>2
<1> QED  BY <1>2, <1>6

\* A push converged only if every group went in.
LEMMA ConvergedAll ==
    ASSUME NEW c, NEW all \in Answers(c), Settled(all).result = "Converged"
    PROVE  all.result = "Inserted"
<1>1. all.result \in Results /\ all = [adm |-> all.adm, result |-> all.result]
  BY DEF Answers
<1>2. Settled(all).result = IF WalletLen(all.adm) > all.adm.cap THEN "ProtectedOverflow"
                         ELSE IF all.result # "Inserted" \/ all.adm.len > all.adm.cap THEN "Unconverged"
                         ELSE "Converged"
  BY <1>1 DEF Settled
<1> QED  BY <1>2

\* The wallet's group is never larger than the cap.
LEMMA WalletWithin ==
    ASSUME NEW a \in Sound
    PROVE  WalletLen(a) \in Nat /\ WalletLen(a) <= a.cap
<1>1. /\ a.groups \in [Owners -> SUBSET Keys] /\ a.len \in Nat /\ a.cap \in Nat
      /\ a.len = Cardinality(Physical(a)) /\ a.len <= a.cap
  BY SoundParts DEF Sound, Admissions
<1>2. a.groups[Wallet] \subseteq Physical(a) /\ Physical(a) \in SUBSET Keys
  BY <1>1, OrderOK DEF Physical
<1>3. IsFiniteSet(Physical(a)) /\ Cardinality(Physical(a)) \in Nat
  BY <1>2, GroupFinite
<1>4. Cardinality(a.groups[Wallet]) <= Cardinality(Physical(a)) /\ Cardinality(a.groups[Wallet]) \in Nat
  BY <1>2, <1>3, Parts
<1> QED  BY <1>1, <1>4 DEF WalletLen

\* What a converged push leaves behind holds, for every owner, the demanded
\* group or nothing.
LEMMA ConvergedHolds ==
    ASSUME NEW a \in Sound, NEW d \in [Owners -> SUBSET Keys],
           converge_admission(a, d).result = "Converged"
    PROVE  Holds(converge_admission(a, d).adm, WithTrackers(a, d))
<1> DEFINE e == WithTrackers(a, d)
           b == DropStale(a, e)
<1>1. ~(WalletLen(a) > a.cap)
  BY WalletWithin, SoundParts DEF Sound, Admissions
<1>2. converge_admission(a, d) = Settled(AdmitAll(b, e))
  BY <1>1 DEF converge_admission, converge_to
<1>3. e \in [Owners -> SUBSET Keys]
  BY SoundParts DEF WithTrackers
<1> HIDE DEF e
<1>4. b \in Sound
  BY RemoveAllSound DEF DropStale
<1>5. \A o \in Owners : e[o] = {} => b.groups[o] = {}
  <2>1. b.groups = [o \in Owners |-> IF o \in {p \in Owners : e[p] = {}} THEN {} ELSE a.groups[o]]
    BY RemoveAllGroups DEF DropStale
  <2> HIDE DEF b
  <2> QED  BY <2>1
<1> HIDE DEF b
<1>6. AdmitAll(b, e) \in Answers(b.cap)
  BY <1>3, <1>4, AdmitAllAnswers
<1>7. AdmitAll(b, e).result = "Inserted"
  BY <1>2, <1>6, ConvergedAll
<1>8. Holds(AdmitAll(b, e).adm, e)
  BY <1>3, <1>4, <1>5, <1>7, AdmitAllHolds
<1>9. converge_admission(a, d).adm = AdmitAll(b, e).adm
  BY <1>2, <1>6, SettledAdm
<1> QED  BY <1>8, <1>9 DEF e

\* An admission that holds a demand its accounts cover converges on that
\* demand without a change of accounts.
LEMMA ConvergeHeld ==
    ASSUME NEW a \in Sound, NEW d \in [Owners -> SUBSET Keys],
           Holds(a, WithTrackers(a, d)),
           \A o \in Owners : WithTrackers(a, d)[o] \subseteq Physical(a)
    PROVE  /\ converge_admission(a, d).result = "Converged"
           /\ Physical(converge_admission(a, d).adm) = Physical(a)
<1> DEFINE e == WithTrackers(a, d)
           b == DropStale(a, e)
<1>1. ~(WalletLen(a) > a.cap) /\ a.groups \in [Owners -> SUBSET Keys]
  BY WalletWithin, SoundParts DEF Sound, Admissions
<1>2. converge_admission(a, d) = Settled(AdmitAll(b, e))
  BY <1>1 DEF converge_admission, converge_to
<1>3. e \in [Owners -> SUBSET Keys] /\ Holds(a, e) /\ \A o \in Owners : e[o] \subseteq Physical(a)
  BY SoundParts DEF WithTrackers
<1> HIDE DEF e
<1>4. b \in Sound
  BY RemoveAllSound DEF DropStale
<1>5. b.groups = a.groups
  <2>1. b.groups = [o \in Owners |-> IF o \in {p \in Owners : e[p] = {}} THEN {} ELSE a.groups[o]]
    BY RemoveAllGroups DEF DropStale
  <2>2. \A o \in Owners : e[o] = {} => a.groups[o] = {}
    BY <1>3 DEF Holds
  <2> HIDE DEF b
  <2> QED  BY <1>1, <2>1, <2>2
<1> HIDE DEF b
<1>6. Physical(b) = Physical(a) /\ Holds(b, e)
  BY <1>3, <1>5 DEF Physical, Holds
<1>7. AdmitAll(b, e) \in Answers(b.cap)
  BY <1>3, <1>4, AdmitAllAnswers
<1>8. AdmitAll(b, e).result = "Inserted" /\ Physical(AdmitAll(b, e).adm) = Physical(b)
  BY <1>3, <1>4, <1>6, AdmitAllHeld
<1>9. WalletLen(AdmitAll(b, e).adm) <= b.cap
  <2>1. AdmitAll(b, e).adm \in Sound /\ AdmitAll(b, e).adm.cap = b.cap
    BY <1>7 DEF Answers
  <2> QED  BY <2>1, WalletWithin
<1>10. Settled(AdmitAll(b, e)).result = "Converged" /\ Settled(AdmitAll(b, e)).adm = AdmitAll(b, e).adm
  BY <1>7, <1>8, <1>9, SettledAdm
<1> QED  BY <1>2, <1>6, <1>8, <1>10

\* What the prune leaves of a demand is held, Tracker groups included, and
\* covered by the accounts that are admitted.
LEMMA PrunedHeld ==
    ASSUME NEW a \in Sound, NEW b \in Sound, NEW d \in [Owners -> SUBSET Keys],
           Holds(b, WithTrackers(a, d))
    PROVE  /\ Pruned(b, d) \in [Owners -> SUBSET Keys]
           /\ Holds(b, WithTrackers(b, Pruned(b, d)))
           /\ \A o \in Owners : WithTrackers(b, Pruned(b, d))[o] \subseteq Physical(b)
<1> DEFINE p == Pruned(b, d)
<1>1. b.groups \in [Owners -> SUBSET Keys] /\ \A o \in Owners : b.groups[o] \subseteq Physical(b)
  BY SoundParts DEF Physical
<1>2. p \in [Owners -> SUBSET Keys] /\ \A o \in Owners : p[o] = d[o] \cap Physical(b)
  BY DEF Pruned
<1> HIDE DEF p
<1>3. \A o \in Owners : WithTrackers(b, p)[o] = IF o[1] = "Tracker" /\ p[o] = {} THEN b.groups[o] ELSE p[o]
  BY DEF WithTrackers
<1>4. \A o \in Owners : WithTrackers(a, d)[o] = IF o[1] = "Tracker" /\ d[o] = {} THEN a.groups[o] ELSE d[o]
  BY DEF WithTrackers
<1>5. \A o \in Owners : WithTrackers(b, p)[o] \subseteq Physical(b)
  BY <1>1, <1>2, <1>3
<1>6. ASSUME NEW o \in Owners PROVE b.groups[o] \in {{}, WithTrackers(b, p)[o]}
  <2>1. b.groups[o] \in {{}, WithTrackers(a, d)[o]}
    BY DEF Holds
  <2>2. CASE o[1] = "Tracker" /\ d[o] = {}
    <3>1. p[o] = {}
      BY <1>2, <2>2
    <3> QED  BY <1>3, <2>2, <3>1
  <2>3. CASE ~(o[1] = "Tracker" /\ d[o] = {}) /\ b.groups[o] # {}
    <3>1. b.groups[o] = d[o]
      BY <1>4, <2>1, <2>3
    <3>2. p[o] = d[o]
      BY <1>1, <1>2, <3>1
    <3> QED  BY <1>3, <3>1, <3>2
  <2> QED  BY <2>2, <2>3
<1> QED  BY <1>2, <1>5, <1>6 DEF Holds, p

\* A push that converged has settled: pushing what the prune left of its
\* demand converges again on the same accounts, for every set of owners,
\* groups and demands (converge_admission_from_groups,
\* prune_tracked_maps_to_admitted_with_deadline).
THEOREM PushAlwaysSettles == Spec => []PushSettles
<1>1. ASSUME adm \in Sound, NEW d \in Demands PROVE Settles(converge_admission(adm, d), d)
  <2> DEFINE once == converge_admission(adm, d)
             b == once.adm
  <2> SUFFICES ASSUME once.result = "Converged"
               PROVE  SameAccounts(once, converge_admission(b, Pruned(b, d)))
    BY DEF Settles
  <2>1. d \in [Owners -> SUBSET Keys]
    BY DemandsOK
  <2>2. b \in Sound
    BY <1>1, <2>1, ConvergeSound
  <2>3. Holds(b, WithTrackers(adm, d))
    BY <1>1, <2>1, ConvergedHolds
  <2> HIDE DEF once
  <2>4. /\ Pruned(b, d) \in [Owners -> SUBSET Keys]
        /\ Holds(b, WithTrackers(b, Pruned(b, d)))
        /\ \A o \in Owners : WithTrackers(b, Pruned(b, d))[o] \subseteq Physical(b)
    BY <1>1, <2>1, <2>2, <2>3, PrunedHeld
  <2> QED  BY <2>2, <2>4, ConvergeHeld DEF SameAccounts
<1>2. IInv => PushSettles
  BY <1>1 DEF IInv, PushSettles
<1> QED  BY <1>2, Invariant, PTL

=============================================================================
