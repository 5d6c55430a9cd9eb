----------------------------- MODULE EngineProofs -----------------------------
(* Theorems about three parts of the execution engine that share nothing   *)
(* but the process they run in: the resource locks (ResourceLocks), the    *)
(* presence of wallet accounts (WalletPresence) and the confirmation of    *)
(* transactions (TxConfirm).  Every definition and lemma is about one of them.*)
EXTENDS ResourceLocks, WalletPresence, TxConfirm, FiniteSetTheorems, TLAPS


-----------------------------------------------------------------------------
(***************************************************************************)
(* ResourceLocks, for every set of intents, resources and sources and every*)
(* configuration of the FairnessTracker.                                   *)
(***************************************************************************)
Lock == {Free} \cup [holder : Intents, overdue : BOOLEAN]

LocksTypes ==
    /\ resource_locks \in [Resources -> Lock]
    /\ preemption_counts \in [Sources -> Seq(Nat)]
    /\ starved_sources \in [Sources -> Nat]
    /\ now \in Nat
    /\ building \in [Intents -> SUBSET Resources]
    /\ lost \in [Intents -> SUBSET Resources]

\* What a source's list of events ev looks like when its protection ends at
\* until.  Events are in clock order; from the max_preemptions-th on they are
\* protection_duration apart, because each of them started a protection.
Ordered(ev) == \A j, k \in 1 .. Len(ev) : j <= k => ev[j] <= ev[k]
Spaced(ev) ==
    \A j, k \in 1 .. Len(ev) :
      max_preemptions <= j /\ j <= k => ev[k] - ev[j] >= (k - j) * protection_duration
Past(ev, t) == \A k \in 1 .. Len(ev) : ev[k] <= t
Protects(ev, until) ==
    max_preemptions <= Len(ev) => until >= ev[Len(ev)] + protection_duration

History(ev, until, t) == Ordered(ev) /\ Spaced(ev) /\ Past(ev, t) /\ Protects(ev, until)

Histories == enabled => \A s \in Sources : History(preemption_counts[s], starved_sources[s], now)

LocksIInv == LocksTypes /\ Histories /\ BuilderKeepsPool

-----------------------------------------------------------------------------
(***************************************************************************)
(* Lists of events.                                                        *)
(***************************************************************************)
\* A list with the oldest n events taken away is a history as long as an
\* event remains.
LEMMA PopFront ==
    ASSUME NEW ev \in Seq(Nat), NEW until \in Nat, NEW t \in Nat, NEW n \in 0 .. Len(ev),
           History(ev, until, t)
    PROVE  LET new == SubSeq(ev, n + 1, Len(ev))
           IN  new \in Seq(Nat) /\ History(new, until, t)
<1> DEFINE new == SubSeq(ev, n + 1, Len(ev))
<1>0. max_preemptions \in Nat \ {0} /\ protection_duration \in Nat \ {0}
  BY FairnessType
<1>1. new \in Seq(Nat) /\ Len(new) = Len(ev) - n /\ \A k \in 1 .. Len(new) : new[k] = ev[k + n]
  <2>1. Len(ev) \in Nat /\ n + 1 \in 1 .. Len(ev) + 1
    OBVIOUS
  <2>2. Len(new) = Len(ev) - n
    BY <2>1
  <2>3. \A k \in 1 .. Len(new) : new[k] = ev[k + n]
    BY <2>1, <2>2
  <2>4. new \in Seq(Nat)
    BY <2>1
  <2> QED  BY <2>2, <2>3, <2>4
<1> HIDE DEF new
<1>2. Ordered(new)
  <2> SUFFICES ASSUME NEW j \in 1 .. Len(new), NEW k \in 1 .. Len(new), j <= k
               PROVE  new[j] <= new[k]
    BY DEF Ordered
  <2>1. j + n \in 1 .. Len(ev) /\ k + n \in 1 .. Len(ev) /\ j + n <= k + n
    BY <1>1
  <2> QED  BY <1>1, <2>1 DEF History, Ordered
<1>3. Spaced(new)
  <2> SUFFICES ASSUME NEW j \in 1 .. Len(new), NEW k \in 1 .. Len(new),
                      max_preemptions <= j, j <= k
               PROVE  new[k] - new[j] >= (k - j) * protection_duration
    BY DEF Spaced
  <2>1. j + n \in 1 .. Len(ev) /\ k + n \in 1 .. Len(ev) /\ j + n <= k + n
        /\ max_preemptions <= j + n
    BY <1>0, <1>1
  <2>2. ev[k + n] - ev[j + n] >= ((k + n) - (j + n)) * protection_duration
    BY <2>1 DEF History, Spaced
  <2>3. (k + n) - (j + n) = k - j
    OBVIOUS
  <2> QED  BY <1>1, <2>2, <2>3
<1>4. Past(new, t)
  <2> SUFFICES ASSUME NEW k \in 1 .. Len(new) PROVE new[k] <= t
    BY DEF Past
  <2>1. k + n \in 1 .. Len(ev)
    BY <1>1
  <2> QED  BY <1>1, <2>1 DEF History, Past
<1>5. Protects(new, until)
  <2> SUFFICES ASSUME max_preemptions <= Len(new)
               PROVE  until >= new[Len(new)] + protection_duration
    BY DEF Protects
  <2>1. Len(new) \in 1 .. Len(new) /\ max_preemptions <= Len(ev) /\ Len(new) + n = Len(ev)
    BY <1>0, <1>1
  <2>2. new[Len(new)] = ev[Len(ev)]
    BY <1>1, <2>1
  <2> QED  BY <2>1, <2>2 DEF History, Protects
<1>6. History(new, until, t)
  BY <1>2, <1>3, <1>4, <1>5 DEF History
<1> QED  BY <1>1, <1>6 DEF new

\* Appending the present moment t keeps a history if the source was not
\* protected at t, and the new protection is as record_preemption sets it.
LEMMA PushBack ==
    ASSUME NEW ev \in Seq(Nat), NEW until \in Nat, NEW until2 \in Nat, NEW t \in Nat,
           History(ev, until, t), until <= t,
           until2 = IF Len(Append(ev, t)) >= max_preemptions THEN t + protection_duration ELSE until
    PROVE  History(Append(ev, t), until2, t)
<1> DEFINE new == Append(ev, t)
<1>0. max_preemptions \in Nat \ {0} /\ protection_duration \in Nat \ {0}
  BY FairnessType
<1>1. /\ Len(new) = Len(ev) + 1 /\ new[Len(ev) + 1] = t
      /\ \A k \in 1 .. Len(ev) : new[k] = ev[k] /\ ev[k] \in Nat
      /\ until2 = IF Len(new) >= max_preemptions THEN t + protection_duration ELSE until
  OBVIOUS
<1> HIDE DEF new
<1>1a. \A k \in 1 .. Len(new) : k \in 1 .. Len(ev) \/ k = Len(ev) + 1
  BY <1>1
<1>2a. Past(new, t)
  BY <1>1, <1>1a DEF History, Past
<1>2. Ordered(new)
  <2> SUFFICES ASSUME NEW j \in 1 .. Len(new), NEW k \in 1 .. Len(new), j <= k
               PROVE  new[j] <= new[k]
    BY DEF Ordered
  <2>1. CASE k \in 1 .. Len(ev)
    <3>1. j \in 1 .. Len(ev)
      BY <1>1, <2>1
    <3> QED  BY <1>1, <2>1, <3>1 DEF History, Ordered
  <2>2. CASE k = Len(ev) + 1
    BY <1>1, <1>2a, <2>2 DEF Past
  <2> QED  BY <1>1a, <2>1, <2>2
<1>3. Spaced(new)
  <2> SUFFICES ASSUME NEW j \in 1 .. Len(new), NEW k \in 1 .. Len(new),
                      max_preemptions <= j, j <= k
               PROVE  new[k] - new[j] >= (k - j) * protection_duration
    BY DEF Spaced
  <2>1. CASE k \in 1 .. Len(ev)
    <3>1. j \in 1 .. Len(ev)
      BY <1>1, <2>1
    <3> QED  BY <1>1, <2>1, <3>1 DEF History, Spaced
  <2>2. CASE k = Len(ev) + 1 /\ j = k
    BY <1>0, <1>1, <2>2
  <2>3. CASE k = Len(ev) + 1 /\ j <= Len(ev)
    <3> DEFINE n == Len(ev)
    <3>1. n \in 1 .. n /\ j \in 1 .. n /\ max_preemptions <= n
      BY <1>0, <2>3
    <3>2. ev[n] - ev[j] >= (n - j) * protection_duration
      BY <3>1 DEF History, Spaced
    <3>3. t >= ev[n] + protection_duration
      BY <1>0, <1>1, <3>1 DEF History, Protects
    <3>4. (k - j) * protection_duration = (n - j) * protection_duration + protection_duration
      BY <1>0, <2>3, <3>1
    <3>5. (n - j) * protection_duration \in Int
      BY <1>0, <3>1
    <3>6. new[k] = t /\ new[j] = ev[j] /\ ev[j] \in Nat /\ ev[n] \in Nat
      BY <1>1, <2>3, <3>1
    <3> DEFINE x == (n - j) * protection_duration
               y == (k - j) * protection_duration
    <3>7. x \in Int /\ y = x + protection_duration /\ ev[n] - ev[j] >= x
      BY <3>2, <3>4, <3>5
    <3> HIDE DEF n, x, y
    <3>8. t - ev[j] >= x + protection_duration
      <4>1. \A a, b, d, u, p \in Int : b - a >= d /\ u >= b + p => u - a >= d + p
        OBVIOUS
      <4>2. /\ ev[j] \in Int /\ ev[n] \in Int /\ x \in Int /\ t \in Int
            /\ protection_duration \in Int
        BY <1>0, <3>6, <3>7
      <4> QED  BY <3>3, <3>7, <4>1, <4>2, Zenon
    <3> QED  BY <3>6, <3>7, <3>8, Zenon DEF y
  <2> QED  BY <1>1, <1>1a, <2>1, <2>2, <2>3
<1>4. Protects(new, until2)
  BY <1>0, <1>1 DEF Protects
<1> QED  BY <1>2, <1>2a, <1>3, <1>4 DEF History, new

\* The number of old events is a number of events.
LEMMA PoppedInRange ==
    ASSUME LocksTypes, NEW s \in Sources
    PROVE  Popped(s) \in 0 .. Len(preemption_counts[s])
<1> DEFINE ev == preemption_counts[s]
           old == {k \in DOMAIN ev : ev[k] < cutoff}
<1>1. ev \in Seq(Nat) /\ DOMAIN ev = 1 .. Len(ev) /\ Len(ev) \in Nat
  BY DEF LocksTypes
<1>2. IsFiniteSet(1 .. Len(ev)) /\ Cardinality(1 .. Len(ev)) = Len(ev)
  BY <1>1, FS_Interval
<1>3. old \in SUBSET (1 .. Len(ev))
  BY <1>1
<1>4. IsFiniteSet(old) /\ Cardinality(old) <= Cardinality(1 .. Len(ev))
  BY <1>2, <1>3, FS_Subset
<1>5. Cardinality(old) \in Nat
  BY <1>4, FS_CardinalityType
<1>6. Popped(s) = Cardinality(old)
  BY DEF Popped
<1> QED  BY <1>1, <1>2, <1>4, <1>5, <1>6

-----------------------------------------------------------------------------
(***************************************************************************)
(* The invariant.                                                          *)
(***************************************************************************)
\* Initially there are no events and no builders.
LEMMA LocksInitIInv == Init => LocksIInv
<1> SUFFICES ASSUME Init PROVE LocksIInv
  OBVIOUS
<1>1. LocksTypes
  BY DEF Init, LocksTypes, Lock
<1>2. ASSUME NEW s \in Sources PROVE History(preemption_counts[s], starved_sources[s], now)
  <2>1. preemption_counts[s] = << >> /\ Len(<< >>) = 0
    BY DEF Init
  <2> QED  BY <2>1, FairnessType DEF History, Ordered, Spaced, Past, Protects
<1>3. BuilderKeepsPool
  BY DEF Init, BuilderKeepsPool
<1> QED  BY <1>1, <1>2, <1>3 DEF LocksIInv, Histories

\* A preemption of source s, recorded while s is not protected.
LEMMA RecordStep ==
    ASSUME LocksIInv, NEW s \in Sources, ~is_starved(s), record_preemption(s), UNCHANGED now
    PROVE  /\ preemption_counts' \in [Sources -> Seq(Nat)]
           /\ starved_sources' \in [Sources -> Nat]
           /\ Histories'
<1>0. LocksTypes
  BY DEF LocksIInv
<1>1. CASE ~enabled
  BY <1>0, <1>1 DEF record_preemption, fairness, Histories, LocksTypes
<1>2. CASE enabled
  <2> DEFINE w == InWindow(s)
             events == Append(w, now)
             until == IF Len(events) >= max_preemptions
                      THEN now + protection_duration ELSE starved_sources[s]
  <2>1. History(preemption_counts[s], starved_sources[s], now)
    BY <1>2 DEF LocksIInv, Histories
  <2>2. preemption_counts[s] \in Seq(Nat) /\ starved_sources[s] \in Nat /\ now \in Nat
    BY <1>0 DEF LocksTypes
  <2>3. w \in Seq(Nat) /\ History(w, starved_sources[s], now)
    BY <1>0, <2>1, <2>2, PopFront, PoppedInRange DEF InWindow
  <2>4. starved_sources[s] <= now
    BY <1>2, <2>2 DEF is_starved
  <2>5. until \in Nat /\ events \in Seq(Nat)
    BY <2>2, <2>3, FairnessType
  <2>6. History(events, until, now)
    BY <2>2, <2>3, <2>4, <2>5, PushBack
  <2>7. /\ preemption_counts' = [preemption_counts EXCEPT ![s] = events]
        /\ starved_sources' = IF Len(events) >= max_preemptions
                              THEN [starved_sources EXCEPT ![s] = now + protection_duration]
                              ELSE starved_sources
    BY <1>2 DEF record_preemption
  <2>8. starved_sources' = [starved_sources EXCEPT ![s] = until]
    BY <1>0, <2>7 DEF LocksTypes
  <2> HIDE DEF events, until
  <2>9. \A q \in Sources : /\ preemption_counts'[q] = IF q = s THEN events ELSE preemption_counts[q]
                           /\ starved_sources'[q] = IF q = s THEN until ELSE starved_sources[q]
    BY <1>0, <2>7, <2>8 DEF LocksTypes
  <2>10. Histories'
    BY <2>6, <2>9 DEF LocksIInv, Histories
  <2> QED  BY <1>0, <2>5, <2>7, <2>8, <2>10 DEF LocksTypes
<1> QED  BY <1>1, <1>2

\* Expiry and acquisition, which change what the builders hold and believe.
LEMMA ExpireStep ==
    ASSUME LocksIInv, Expire
    PROVE  LocksIInv'
<1>1. /\ \A r \in Resources : resource_locks'[r] =
           IF resource_locks[r].overdue THEN Free ELSE resource_locks[r]
      /\ \A i \in Intents : lost'[i] = lost[i] \cup {r \in HeldBy(i) : resource_locks[r].overdue}
  BY DEF Expire
<1>2. LocksTypes'
  BY DEF Expire, HeldBy, fairness, Lock, LocksIInv, LocksTypes
<1>3. BuilderKeepsPool'
  <2> SUFFICES ASSUME NEW i \in Intents, NEW r \in building'[i] \ lost'[i]
               PROVE  resource_locks'[r].holder = i
    BY DEF BuilderKeepsPool
  <2>1. r \in Resources /\ r \in building[i] \ lost[i]
    BY <1>1 DEF Expire, LocksIInv, LocksTypes
  <2>2. resource_locks[r].holder = i
    BY <2>1 DEF LocksIInv, BuilderKeepsPool
  <2> QED  BY <1>1, <2>1, <2>2 DEF HeldBy
<1> QED  BY <1>2, <1>3 DEF Expire, fairness, LocksIInv, Histories

LEMMA AcquireStep ==
    ASSUME LocksIInv, NEW i \in Intents, NEW r \in Resources, Acquire(i, r)
    PROVE  /\ resource_locks' \in [Resources -> Lock]
           /\ building' \in [Intents -> SUBSET Resources]
           /\ lost' \in [Intents -> SUBSET Resources]
           /\ BuilderKeepsPool'
<1> USE DEF LocksIInv, LocksTypes
<1>1. /\ resource_locks' \in [Resources -> Lock]
      /\ building' \in [Intents -> SUBSET Resources]
      /\ lost' \in [Intents -> SUBSET Resources]
  BY DEF Acquire, HeldBy, Lock
<1>2. ASSUME NEW j \in Intents, NEW q \in building'[j] \ lost'[j]
      PROVE  resource_locks'[q].holder = j
  <2>1. CASE j = i /\ q = r
    BY <2>1 DEF Acquire
  <2>2. CASE j = i /\ q # r
    BY <1>1, <2>2 DEF Acquire, BuilderKeepsPool
  <2>3. CASE j # i
    <3>1. q \in Resources /\ q \in building[j] \ lost[j] /\ (q = r => q \notin HeldBy(j))
      BY <1>1, <2>3 DEF Acquire
    <3>2. resource_locks[q].holder = j
      BY <3>1 DEF BuilderKeepsPool
    <3>3. q # r
      BY <3>1, <3>2 DEF HeldBy
    <3> QED  BY <3>1, <3>2, <3>3 DEF Acquire
  <2> QED  BY <2>1, <2>2, <2>3
<1> QED  BY <1>1, <1>2 DEF BuilderKeepsPool

\* Every step keeps the invariant.
LEMMA LocksNextIInv == LocksIInv /\ [Next]_vars => LocksIInv'
<1> SUFFICES ASSUME LocksIInv, [Next]_vars PROVE LocksIInv'
  OBVIOUS
<1>1. CASE UNCHANGED vars
  BY <1>1 DEF vars, fairness, beliefs, LocksIInv, LocksTypes, Histories, BuilderKeepsPool
<1>2. CASE Tick
  <2>1. now' \in Nat /\ now' >= now
    BY <1>2 DEF Tick, LocksIInv, LocksTypes
  <2>2. ASSUME enabled, NEW s \in Sources
        PROVE  History(preemption_counts[s], starved_sources[s], now')
    <3>1. History(preemption_counts[s], starved_sources[s], now)
      BY <2>2 DEF LocksIInv, Histories
    <3>2. preemption_counts[s] \in Seq(Nat)
      BY DEF LocksIInv, LocksTypes
    <3>3. Past(preemption_counts[s], now')
      BY <2>1, <3>1, <3>2 DEF History, Past, LocksIInv, LocksTypes
    <3> QED  BY <3>1, <3>3 DEF History
  <2> QED  BY <1>2, <2>1, <2>2
           DEF Tick, fairness, beliefs, LocksIInv, LocksTypes, Histories, BuilderKeepsPool
<1>3. CASE cleanup_expired
  BY <1>3, ExpireStep DEF cleanup_expired
<1>4. ASSUME NEW r \in Resources, TtlElapses(r) PROVE LocksIInv'
  <2>1. \A q \in Resources : resource_locks'[q].holder = resource_locks[q].holder
    BY <1>4 DEF TtlElapses, Held, Lock, LocksIInv, LocksTypes
  <2>2. LocksTypes'
    BY <1>4 DEF TtlElapses, Held, Lock, fairness, beliefs, LocksIInv, LocksTypes
  <2>3. BuilderKeepsPool'
    BY <1>4, <2>1 DEF TtlElapses, beliefs, LocksIInv, LocksTypes, BuilderKeepsPool
  <2> QED  BY <1>4, <2>2, <2>3 DEF TtlElapses, fairness, LocksIInv, Histories
<1>5. ASSUME NEW i \in Intents, release_resource_locks_for_intent(i) PROVE LocksIInv'
  <2>1. LocksTypes'
    BY <1>5 DEF release_resource_locks_for_intent, Forget, Lock, fairness, LocksIInv, LocksTypes
  <2>2. BuilderKeepsPool'
    BY <1>5 DEF release_resource_locks_for_intent, Forget, HeldBy, LocksIInv, LocksTypes,
                BuilderKeepsPool
  <2> QED  BY <1>5, <2>1, <2>2
           DEF release_resource_locks_for_intent, fairness, LocksIInv, Histories
<1>6. ASSUME NEW i \in Intents, NEW r \in Resources, try_lock_resource_begin(i, r)
      PROVE  LocksIInv'
  BY <1>6, ExpireStep DEF try_lock_resource_begin
<1>7. ASSUME NEW i \in Intents, NEW r \in Resources, try_lock_resource_conflict(i, r)
      PROVE  LocksIInv'
  BY <1>7 DEF try_lock_resource_conflict, fairness, beliefs, LocksIInv, LocksTypes, Histories,
              BuilderKeepsPool
<1>8. ASSUME NEW i \in Intents, NEW r \in Resources, try_lock_resource_acquired(i, r)
      PROVE  LocksIInv'
  <2>1. Acquire(i, r) /\ UNCHANGED fairness /\ UNCHANGED now
    BY <1>8 DEF try_lock_resource_acquired, Acquire
  <2> QED  BY <2>1, AcquireStep DEF fairness, LocksIInv, LocksTypes, Histories
<1>9. ASSUME NEW i \in Intents, NEW r \in Resources, try_lock_resource_preempt(i, r)
      PROVE  LocksIInv'
  <2> DEFINE h == resource_locks[r].holder
  <2>1. h \in Intents
    <3>1. resource_locks[r] \in Lock
      BY DEF LocksIInv, LocksTypes
    <3>2. Held(r)
      BY <1>9 DEF try_lock_resource_preempt, MayPreempt, Available
    <3> QED  BY <3>1, <3>2 DEF Held, Lock
  <2>2. SourceOf[h] \in Sources /\ ~is_starved(SourceOf[h])
    BY <1>9, <2>1, FairnessType
       DEF try_lock_resource_preempt, MayPreempt, should_block_preemption
  <2>3. record_preemption(SourceOf[h]) /\ Acquire(i, r) /\ UNCHANGED now
    BY <1>9 DEF try_lock_resource_preempt, Acquire
  <2> HIDE DEF h
  <2>4. /\ preemption_counts' \in [Sources -> Seq(Nat)] /\ starved_sources' \in [Sources -> Nat]
        /\ Histories'
    BY <2>2, <2>3, RecordStep
  <2> QED  BY <2>3, <2>4, AcquireStep DEF LocksIInv, LocksTypes
<1> QED  BY <1>1, <1>2, <1>3, <1>4, <1>5, <1>6, <1>7, <1>8, <1>9 DEF Next

-----------------------------------------------------------------------------
\* A history has at most the promised number of events in a window of length
\* window_duration that ends at t: what is further back is too old.
LEMMA WindowBound ==
    ASSUME NEW ev \in Seq(Nat), NEW until \in Nat, NEW t \in Nat, History(ev, until, t)
    PROVE  Cardinality({k \in DOMAIN ev : ev[k] >= t - window_duration})
             <= max_preemptions + (window_duration \div protection_duration)
<1> DEFINE q == window_duration \div protection_duration
           n == Len(ev)
           lo == n - max_preemptions - q + 1
           recent == {k \in DOMAIN ev : ev[k] >= t - window_duration}
<1>0. /\ max_preemptions \in Nat \ {0} /\ protection_duration \in Nat \ {0}
      /\ window_duration \in Nat /\ n \in Nat /\ DOMAIN ev = 1 .. n
  BY FairnessType
<1>1. q \in Nat /\ window_duration < (q + 1) * protection_duration
  BY <1>0
<1> HIDE DEF q, n
<1>2. ASSUME NEW k \in 1 .. n, k < lo PROVE ev[k] < t - window_duration
  <2> DEFINE j == IF k < max_preemptions THEN max_preemptions ELSE k
  <2>1. j \in 1 .. n /\ n \in 1 .. n /\ max_preemptions <= j /\ k <= j /\ q + 1 <= n - j
    BY <1>0, <1>1, <1>2
  <2> HIDE DEF j
  <2>2. ev[n] - ev[j] >= (n - j) * protection_duration
    BY <2>1 DEF History, Spaced, n
  <2>3. ev[k] <= ev[j] /\ ev[n] <= t
    BY <1>2, <2>1 DEF History, Ordered, Past, n
  <2>4. (n - j) * protection_duration >= (q + 1) * protection_duration
    BY <1>0, <1>1, <2>1
  <2>5. ev[k] \in Nat /\ ev[j] \in Nat /\ ev[n] \in Nat
    BY <1>0, <1>2, <2>1 DEF n
  <2>6. (n - j) * protection_duration \in Int /\ (q + 1) * protection_duration \in Int
    BY <1>0, <1>1, <2>1
  <2>7. ASSUME NEW x \in Int, NEW y \in Int, ev[n] - ev[j] >= x, x >= y, window_duration < y
        PROVE  ev[k] < t - window_duration
    BY <1>0, <2>3, <2>5, <2>7
  <2> QED  BY <1>1, <2>2, <2>4, <2>6, <2>7, Zenon
<1>3. recent \in SUBSET (lo .. n)
  <2> SUFFICES ASSUME NEW k \in 1 .. n, ev[k] >= t - window_duration PROVE k \in lo .. n
    BY <1>0
  <2>1. ev[k] \in Nat
    BY <1>0
  <2>2. ~(k < lo)
    BY <1>0, <1>2, <2>1
  <2> QED  BY <1>0, <1>1, <2>2
<1>4. lo \in Int /\ n \in Int
  BY <1>0, <1>1
<1>5. /\ IsFiniteSet(lo .. n)
      /\ Cardinality(lo .. n) = IF lo > n THEN 0 ELSE n - lo + 1
  BY <1>4, FS_Interval
<1>6. IsFiniteSet(recent) /\ Cardinality(recent) <= Cardinality(lo .. n)
  BY <1>3, <1>5, FS_Subset
<1>7. Cardinality(recent) \in Nat /\ Cardinality(lo .. n) \in Nat
  BY <1>5, <1>6, FS_CardinalityType
<1>8. Cardinality(recent) <= max_preemptions + q
  <2> HIDE DEF recent
  <2> QED  BY <1>0, <1>1, <1>4, <1>5, <1>6, <1>7
<1> QED  BY <1>8 DEF q

\* No source is preempted more often in any window than the limit plus one
\* further time per protection period, whatever the limit, the window and the
\* protection (FairnessTracker::record_preemption, should_block_preemption).
THEOREM PreemptionsBounded == Spec => []PreemptionBound
<1>1. LocksIInv => PreemptionBound
  <2> SUFFICES ASSUME LocksIInv, enabled, NEW s \in Sources
               PROVE  get_preemption_count(s)
                        <= max_preemptions + (window_duration \div protection_duration)
    BY DEF PreemptionBound
  <2>1. /\ preemption_counts[s] \in Seq(Nat) /\ starved_sources[s] \in Nat /\ now \in Nat
        /\ History(preemption_counts[s], starved_sources[s], now)
    BY DEF LocksIInv, LocksTypes, Histories
  <2> QED  BY <2>1, WindowBound DEF get_preemption_count, cutoff
<1> QED  BY <1>1, LocksInitIInv, LocksNextIInv, PTL DEF Spec

\* An intent that builds on a pool holds it, unless the pool was preempted or
\* expired under it: no other intent's release, rejection, expiry or preemption
\* elsewhere takes it (release_resource_locks_for_intent, cleanup_expired).
THEOREM BuildersKeepPools == Spec => []BuilderKeepsPool
<1>1. LocksIInv => BuilderKeepsPool
  BY DEF LocksIInv
<1> QED  BY <1>1, LocksInitIInv, LocksNextIInv, PTL DEF Spec

-----------------------------------------------------------------------------
(***************************************************************************)
(* WalletPresence, for every bound on slots and amounts, with and without  *)
(* known landing slots, every interleaving of the three tasks.             *)
(***************************************************************************)
Snapshot == [slot : Nat, amount : Nat]
ReaderState == [pc : {"idle", "heal", "unclear", "mark", "set"}, snap : Snapshot]

PresenceTypes ==
    /\ slot \in Nat /\ held \in Nat
    /\ snapshots \subseteq Snapshot /\ closes \subseteq Nat
    /\ present \in BOOLEAN /\ available \in Nat
    /\ cleared \in Nat \cup {NotCleared}
    /\ reader \in [Handlers -> ReaderState]
    /\ closer \in [pc : {"idle", "tokens", "slot"}, slot : Nat]
    /\ last_close \in Nat \cup {NotCleared} /\ raced \in BOOLEAN

\* While a close is applied and nothing overlaps it, no snapshot is under way,
\* and what it has cleared stays cleared.
CloseAlone ==
    closer.pc # "idle" /\ ~raced =>
      /\ \A h \in Handlers : reader[h].pc = "idle"
      /\ ~present
      /\ closer.pc = "slot" => available = 0

\* As long as the marker of such a close is there, it is the marker of the
\* latest close and nobody has got past it with anything but news.
Guarded ==
    closer.pc = "idle" /\ ~raced /\ cleared # NotCleared =>
      /\ cleared = last_close /\ ~present /\ available = 0
      /\ \A h \in Handlers : /\ reader[h].pc \in {"idle", "heal", "unclear"}
                             /\ reader[h].pc = "unclear" => Fresh(reader[h].snap)

\* Between the removal of the marker and the return of presence, the task that
\* removed it is about to mark.
Announced ==
    closer.pc = "idle" /\ ~raced /\ cleared = NotCleared /\ ~present =>
      last_close = NotCleared \/ \E h \in Handlers : reader[h].pc = "mark" /\ Fresh(reader[h].snap)

PresenceIInv == PresenceTypes /\ CloseAlone /\ Guarded /\ Announced

-----------------------------------------------------------------------------
\* Initially the account is unknown and nothing was ever closed.
LEMMA PresenceInitIInv == PresenceInit => PresenceIInv
<1> SUFFICES ASSUME PresenceInit PROVE PresenceIInv
  OBVIOUS
<1>1. Idle \in ReaderState /\ IdleCloser.pc = "idle"
  BY DEF Idle, IdleCloser, ReaderState, Snapshot, NoSlot
<1>2. PresenceTypes
  BY <1>1 DEF PresenceInit, PresenceTypes, IdleCloser, NoSlot
<1> QED  BY <1>1, <1>2 DEF PresenceInit, PresenceIInv, CloseAlone, Guarded, Announced

\* The chain only publishes.
LEMMA PresenceChainStep ==
    ASSUME PresenceIInv,
           \/ \E a \in 0 .. MaxAmount, s \in 1 .. MaxSlot : ChainBalance(a, s)
           \/ \E known \in SlotKnown, s \in 1 .. MaxSlot : ChainClose(known, s)
    PROVE  PresenceIInv'
<1> USE PresenceType DEF NoSlot
<1>1. PresenceTypes'
  <2>1. ASSUME NEW a \in 0 .. MaxAmount, NEW s \in 1 .. MaxSlot, ChainBalance(a, s)
        PROVE  PresenceTypes'
    <3>1. {[slot |-> s, amount |-> a], [slot |-> NoSlot, amount |-> a]} \subseteq Snapshot
      BY DEF Snapshot
    <3> QED  BY <2>1, <3>1 DEF ChainBalance, PresenceIInv, PresenceTypes, book, history
  <2>2. ASSUME NEW known \in SlotKnown, NEW s \in 1 .. MaxSlot, ChainClose(known, s)
        PROVE  PresenceTypes'
    <3>1. {[slot |-> NoSlot, amount |-> 0]} \subseteq Snapshot
      BY DEF Snapshot
    <3> QED  BY <2>2, <3>1 DEF ChainClose, PresenceIInv, PresenceTypes, book, history
  <2> QED  BY <2>1, <2>2
<1>2. UNCHANGED <<book, reader, closer, history>>
  BY DEF ChainBalance, ChainClose
<1> QED  BY <1>1, <1>2 DEF PresenceIInv, CloseAlone, Guarded, Announced, Fresh, book, history

\* One task's handling of a snapshot, step by step.
LEMMA SnapshotStep ==
    ASSUME PresenceIInv, NEW h \in Handlers,
           \/ \E s \in snapshots : SnapshotCheck(h, s)
           \/ SnapshotHeal(h) \/ SnapshotUnclear(h)
           \/ mark_token_wallet_ata_present(h) \/ SnapshotSet(h)
    PROVE  PresenceIInv'
<1> USE DEF PresenceIInv, PresenceTypes, CloseAlone, Guarded, Announced, Fresh, ReaderState,
            NoSlot, NotCleared, chain, book, history
<1>0. Idle \in ReaderState /\ Idle.pc = "idle"
  BY DEF Idle, Snapshot
<1>1. ASSUME NEW s \in snapshots, SnapshotCheck(h, s) PROVE PresenceIInv'
  <2>1. s \in Snapshot /\ s.slot \in Nat
    BY DEF Snapshot
  <2>2. CASE Stale(s)
    BY <1>1, <2>2 DEF SnapshotCheck
  <2>3. CASE ~Stale(s)
    <3> DEFINE next == [pc |-> IF HealsOnly(s) THEN "heal" ELSE "unclear", snap |-> s]
    <3>1. cleared # NotCleared /\ cleared = last_close => Fresh(s)
      BY <2>1, <2>3 DEF Stale
    <3>2. /\ next \in ReaderState /\ next.snap = s /\ next.pc \in {"heal", "unclear"}
      BY <2>1
    <3>3. reader' = [reader EXCEPT ![h] = next] /\ UNCHANGED <<chain, book, closer, last_close>>
          /\ raced' = (raced \/ closer.pc # "idle") /\ reader[h].pc = "idle"
      BY <1>1, <2>3 DEF SnapshotCheck
    <3> HIDE DEF next
    <3>4. PresenceTypes' /\ CloseAlone'
      BY <3>2, <3>3
    <3>5. Guarded'
      BY <3>1, <3>2, <3>3
    <3>6. Announced'
      BY <3>3
    <3> QED  BY <3>4, <3>5, <3>6
  <2> QED  BY <2>2, <2>3
<1>2. CASE SnapshotHeal(h)
  BY <1>0, <1>2 DEF SnapshotHeal
<1>3. CASE SnapshotUnclear(h)
  BY <1>3 DEF SnapshotUnclear
<1>4. CASE mark_token_wallet_ata_present(h)
  BY <1>4 DEF mark_token_wallet_ata_present
<1>5. CASE SnapshotSet(h)
  BY <1>0, <1>5 DEF SnapshotSet, Snapshot
<1> QED  BY <1>1, <1>2, <1>3, <1>4, <1>5

\* clear_token_wallet_presence, step by step.
LEMMA ClearStep ==
    ASSUME PresenceIInv, (\E c \in closes : ClearPresent(c)) \/ ClearTokens \/ ClearSlot
    PROVE  PresenceIInv'
<1> USE DEF PresenceIInv, PresenceTypes, CloseAlone, Guarded, Announced, Fresh,
            NoSlot, NotCleared, chain, book, history
<1>1. ASSUME NEW c \in closes, ClearPresent(c) PROVE PresenceIInv'
  BY <1>1 DEF ClearPresent
<1>2. CASE ClearTokens
  BY <1>2 DEF ClearTokens
<1>3. CASE ClearSlot
  BY <1>3 DEF ClearSlot, IdleCloser
<1> QED  BY <1>1, <1>2, <1>3

\* Every step keeps the invariant.
LEMMA PresenceNextIInv == PresenceIInv /\ [PresenceNext]_presenceVars => PresenceIInv'
<1> SUFFICES ASSUME PresenceIInv, [PresenceNext]_presenceVars PROVE PresenceIInv'
  OBVIOUS
<1>1. CASE UNCHANGED presenceVars
  BY <1>1 DEF presenceVars, chain, book, history, PresenceIInv, PresenceTypes, CloseAlone, Guarded, Announced, Fresh
<1>2. CASE PresenceNext
  BY <1>2, PresenceChainStep, SnapshotStep, ClearStep, Zenon DEF PresenceNext
<1> QED  BY <1>1, <1>2

-----------------------------------------------------------------------------
\* After a close that no snapshot's handling overlapped, the account does not
\* count as existing while the close's marker is there: whatever the order and
\* the number of the snapshots, whatever the tasks that apply them are doing.
THEOREM ClosedStaysClosedThm == PresenceSpec => []ClosedStaysClosed
<1>1. PresenceIInv => ClosedStaysClosed
  BY DEF PresenceIInv, PresenceTypes, Guarded, ClosedStaysClosed, token_wallet_snapshot_seen
<1> QED  BY <1>1, PresenceInitIInv, PresenceNextIInv, PTL DEF PresenceSpec

\* After such a close token_wallet_ata_present comes back only while a task
\* holds a snapshot that is newer than the close or has no slot, although the
\* check of the marker and the write are separate critical sections.
THEOREM CleanCloseHoldsThm == PresenceSpec => CleanCloseHolds
<1> DEFINE Restore == ~present /\ present' /\ ~raced
                        => \E h \in Handlers : reader[h].pc = "mark" /\ Fresh(reader[h].snap)
<1>1. PresenceIInv /\ [PresenceNext]_presenceVars => [Restore]_presenceVars
  <2> SUFFICES ASSUME PresenceIInv, PresenceNext, ~present, present', ~raced
               PROVE  \E h \in Handlers : reader[h].pc = "mark" /\ Fresh(reader[h].snap)
    OBVIOUS
  <2>1. PICK h \in Handlers : mark_token_wallet_ata_present(h)
    BY DEF PresenceNext, ChainBalance, ChainClose, SnapshotCheck, SnapshotHeal, SnapshotUnclear,
           SnapshotSet, ClearPresent, ClearTokens, ClearSlot, chain, book, history
  <2>2. reader[h].pc = "mark"
    BY <2>1 DEF mark_token_wallet_ata_present
  <2>3. closer.pc = "idle" /\ cleared = NotCleared
    BY <2>2 DEF PresenceIInv, CloseAlone, Guarded
  <2> QED  BY <2>2, <2>3 DEF PresenceIInv, Announced, Fresh
<1> QED  BY <1>1, PresenceInitIInv, PresenceNextIInv, PTL DEF PresenceSpec, CleanCloseHolds

-----------------------------------------------------------------------------
(***************************************************************************)
(* TxConfirm, for every set of transactions and every bound on the         *)
(* redelivery of a confirm.                                                *)
(***************************************************************************)
ConfirmResult == {"ok", "err"}

ConfirmTypes ==
    /\ sent \in [Sigs -> BOOLEAN]
    /\ landed \in [Sigs -> {"no"} \cup ConfirmResult]
    /\ deliveries \in [Sigs -> Nat]
    /\ pending \in SUBSET Sigs
    /\ orphan \in [Sigs -> {"none"} \cup ConfirmResult]
    /\ channel \in [Sigs -> {"none"} \cup ConfirmResult]
    /\ pc \in [Sigs -> {"unregistered", "insert", "check2", "waiting", "done"}]
    /\ dispatch \in {Nobody} \cup [sig : Sigs]
    /\ outcome \in [Sigs -> {"none", "Confirmed", "FailedConfirmed", "TimeoutSent"}]

\* Whatever carries a confirm carries what the chain decided: the orphan
\* buffer and the channels hold the landed result, and the main loop is between
\* its two critical sections only with the confirm of a landed transaction.
Carried ==
    /\ \A s \in Sigs : orphan[s] # "none" => orphan[s] = landed[s]
    /\ \A s \in Sigs : channel[s] # "none" => channel[s] = landed[s]
    /\ dispatch # Nobody => landed[dispatch.sig] # "no"

\* A single-transaction entry of pending_tx_confirms belongs to a waiter that
\* is between its insert and its return.
PendingIsLive ==
    \A s \in Sigs \ Bundles : s \in pending => pc[s] \in {"check2", "waiting"}

ConfirmIInv == ConfirmTypes /\ Carried /\ PendingIsLive /\ OutcomeIsTrue

-----------------------------------------------------------------------------
\* Initially nothing is carried and nobody is registered.
LEMMA ConfirmInitIInv == ConfirmInit => ConfirmIInv
  BY DEF ConfirmInit, ConfirmIInv, ConfirmTypes, Carried, PendingIsLive, OutcomeIsTrue, Nobody

\* Sending and landing: a result is fixed once, before anything carries it.
LEMMA ConfirmChainStep ==
    ASSUME ConfirmIInv, NEW s \in Sigs,
           Send(s) \/ \E result \in ConfirmResult : Land(s, result)
    PROVE  ConfirmIInv'
<1>1. CASE Send(s)
  BY <1>1 DEF Send, ConfirmIInv, ConfirmTypes, Carried, PendingIsLive, OutcomeIsTrue
<1>2. ASSUME NEW result \in ConfirmResult, Land(s, result) PROVE ConfirmIInv'
  <2>1. ConfirmTypes'
    BY <1>2 DEF Land, ConfirmIInv, ConfirmTypes
  <2>2. orphan[s] = "none" /\ channel[s] = "none" /\ outcome[s] # "Confirmed"
        /\ (outcome[s] = "FailedConfirmed" => s \in Bundles)
    BY <1>2 DEF Land, ConfirmIInv, ConfirmTypes, Carried, OutcomeIsTrue, ConfirmResult
  <2>3. \A t \in Sigs : landed'[t] = IF t = s THEN result ELSE landed[t]
    BY <1>2 DEF Land, ConfirmIInv, ConfirmTypes
  <2>4. Carried'
    <3>1. dispatch # Nobody => dispatch.sig \in Sigs
      BY DEF ConfirmIInv, ConfirmTypes
    <3> QED  BY <1>2, <2>2, <2>3, <3>1 DEF Land, ConfirmIInv, Carried, ConfirmResult
  <2>5. PendingIsLive' /\ OutcomeIsTrue'
    BY <1>2, <2>2, <2>3 DEF Land, ConfirmIInv, PendingIsLive, OutcomeIsTrue
  <2> QED  BY <2>1, <2>4, <2>5 DEF ConfirmIInv
<1> QED  BY <1>1, <1>2

\* Registration, in its three critical sections, only moves a carried result.
LEMMA RegisterStep ==
    ASSUME ConfirmIInv, NEW s \in Sigs,
           RegisterCheck(s) \/ RegisterInsert(s) \/ RegisterCheckAgain(s)
    PROVE  ConfirmIInv'
<1>1. CASE RegisterCheck(s)
  BY <1>1 DEF RegisterCheck, Goto, ConfirmIInv, ConfirmTypes, Carried, PendingIsLive, OutcomeIsTrue
<1>2. CASE RegisterInsert(s)
  BY <1>2 DEF RegisterInsert, Goto, ConfirmIInv, ConfirmTypes, Carried, PendingIsLive, OutcomeIsTrue
<1>3. CASE RegisterCheckAgain(s)
  BY <1>3 DEF RegisterCheckAgain, Goto, ConfirmIInv, ConfirmTypes, Carried, PendingIsLive, OutcomeIsTrue
<1> QED  BY <1>1, <1>2, <1>3

\* The main loop's two critical sections, and the eviction of old orphans.
LEMMA DispatchStep ==
    ASSUME ConfirmIInv, NEW s \in Sigs,
           DispatchPending(s) \/ DispatchOrphan(s) \/ evict_stale_orphan_tx_confirms(s)
    PROVE  ConfirmIInv'
<1>1. CASE DispatchPending(s)
  BY <1>1, ConfirmType
     DEF DispatchPending, Notify, ConfirmIInv, ConfirmTypes, Carried, PendingIsLive, OutcomeIsTrue, ConfirmResult, Nobody
<1>2. CASE DispatchOrphan(s)
  <2>1. dispatch # Nobody
    BY <1>2, ConfirmType DEF DispatchOrphan, Nobody
  <2>2. landed[s] \in ConfirmResult
    BY <1>2, <2>1 DEF DispatchOrphan, ConfirmIInv, ConfirmTypes, Carried
  <2> QED  BY <1>2, <2>2
         DEF DispatchOrphan, Notify, ConfirmIInv, ConfirmTypes, Carried, PendingIsLive, OutcomeIsTrue
<1>3. CASE evict_stale_orphan_tx_confirms(s)
  BY <1>3 DEF evict_stale_orphan_tx_confirms, ConfirmIInv, ConfirmTypes, Carried, PendingIsLive, OutcomeIsTrue
<1> QED  BY <1>1, <1>2, <1>3

\* The ways a waiter ends: channel, deadline, and Jito's answers.
LEMMA DecideStep ==
    ASSUME ConfirmIInv, NEW s \in Sigs,
           \/ Notified(s) \/ Deadline(s)
           \/ JitoStatus(s) \/ JitoError(s) \/ BundleTimeout(s)
    PROVE  ConfirmIInv'
<1> USE DEF Goto, Waiting, ConfirmIInv, ConfirmTypes, Carried, PendingIsLive, OutcomeIsTrue
<1>1. CASE Notified(s)
  <2>1. channel[s] \in ConfirmResult /\ landed[s] = channel[s]
    BY <1>1 DEF Notified
  <2>2. \/ Verdict(channel[s]) = "Confirmed" /\ landed[s] = "ok"
        \/ Verdict(channel[s]) = "FailedConfirmed" /\ landed[s] = "err"
    BY <2>1 DEF Verdict, ConfirmResult
  <2> QED  BY <1>1, <2>2 DEF Notified
<1>2. CASE Deadline(s)
  BY <1>2 DEF Deadline
<1>3. CASE JitoStatus(s)
  BY <1>3 DEF JitoStatus
<1>4. CASE JitoError(s)
  BY <1>4 DEF JitoError
<1>5. CASE BundleTimeout(s)
  BY <1>5 DEF BundleTimeout
<1> QED  BY <1>1, <1>2, <1>3, <1>4, <1>5

\* Every step keeps the invariant.
LEMMA ConfirmNextIInv == ConfirmIInv /\ [ConfirmNext]_confirmVars => ConfirmIInv'
<1> SUFFICES ASSUME ConfirmIInv, [ConfirmNext]_confirmVars PROVE ConfirmIInv'
  OBVIOUS
<1>1. CASE UNCHANGED confirmVars
  BY <1>1 DEF confirmVars, ConfirmIInv, ConfirmTypes, Carried, PendingIsLive, OutcomeIsTrue
<1>2. CASE ConfirmNext
  <2>1. PICK s \in Sigs :
          \/ Send(s) \/ Waiter(s)
          \/ \E result \in {"ok", "err"} : Land(s, result)
          \/ DispatchPending(s) \/ DispatchOrphan(s)
          \/ evict_stale_orphan_tx_confirms(s)
    BY <1>2, Zenon DEF ConfirmNext
  <2> QED  BY <2>1, ConfirmChainStep, RegisterStep, DispatchStep, DecideStep, Zenon DEF Waiter, ConfirmResult
<1> QED  BY <1>1, <1>2

-----------------------------------------------------------------------------
\* An intent is Confirmed only if its transaction succeeded on chain, and a
\* single transaction FailedConfirmed only if it failed there, however its
\* confirm travelled between dispatch_wallet_tx_confirmed and the waiter.
THEOREM OutcomesAreTrue == ConfirmSpec => []OutcomeIsTrue
<1>1. ConfirmIInv => OutcomeIsTrue
  BY DEF ConfirmIInv
<1> QED  BY <1>1, ConfirmInitIInv, ConfirmNextIInv, PTL DEF ConfirmSpec

\* A single-transaction waiter that has returned has no entry left in
\* pending_tx_confirms.
THEOREM NoStaleWaiters == ConfirmSpec => []NoStaleWaiter
<1>1. ConfirmIInv => NoStaleWaiter
  BY DEF ConfirmIInv, PendingIsLive, NoStaleWaiter
<1> QED  BY <1>1, ConfirmInitIInv, ConfirmNextIInv, PTL DEF ConfirmSpec
=============================================================================
