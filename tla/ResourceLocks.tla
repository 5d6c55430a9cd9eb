---------------------------- MODULE ResourceLocks ----------------------------
(***************************************************************************)
(* The resource half of LockManager (src/src/storage/locks.rs): pool locks *)
(* that serialise transaction building, preemption of a lower-priority     *)
(* holder, and the FairnessTracker that limits how often a source may be   *)
(* preempted; with what process_intent (src/src/bin/execution_engine.rs)   *)
(* makes of the answers: it builds on every pool it was given, and nothing *)
(* tells it that a pool was taken from it.                                 *)
(*                                                                         *)
(* try_lock_resource is two critical sections: cleanup_expired, then the   *)
(* decision under the resource_locks write lock (the fairness check and    *)
(* the record of the preemption happen inside it).  "now" is the clock the *)
(* fairness windows are measured on; a lock's own TTL is the abstract flag *)
(* "overdue", because the TTL is configured independently.                 *)
(***************************************************************************)
EXTENDS Integers, FiniteSets, Sequences

CONSTANTS
    Intents, Resources, Sources,
    Tier,                 \* Tier[i]: lower is more urgent
    SourceOf,             \* SourceOf[i]: the strategy that sent i
    max_preemptions,      \* FairnessTracker::new: 5 in LockManager::new
    window_duration,      \* 60 s there
    protection_duration,  \* 30 s there
    enabled,
    MaxTime               \* bound: the clock runs over 0..MaxTime

ASSUME FairnessType ==
    /\ Tier \in [Intents -> Nat] /\ SourceOf \in [Intents -> Sources]
    /\ max_preemptions \in Nat \ {0} /\ window_duration \in Nat
    /\ protection_duration \in Nat \ {0} /\ enabled \in BOOLEAN /\ MaxTime \in Nat
    /\ "nobody" \notin Intents   \* the holder of a free lock

VARIABLES
    resource_locks,     \* [Resources -> Free or [holder, overdue]]
    preemption_counts,  \* [Sources -> Seq(time)], oldest first
    starved_sources,    \* [Sources -> protection_until], 0 when absent
    now,
    calling,            \* [Intents -> SUBSET Resources]: between the two sections
    rejected,           \* intents that met a conflict and have not yet released
    building,           \* [Intents -> SUBSET Resources]: the pools i was given and builds on
    lost                \* history: those of them preempted or expired under it

fairness == <<preemption_counts, starved_sources>>
beliefs == <<building, lost>>
vars == <<resource_locks, fairness, now, calling, rejected, beliefs>>

Free == [holder |-> "nobody", overdue |-> FALSE]
Held(r) == resource_locks[r] # Free
HeldBy(i) == {r \in Resources : resource_locks[r].holder = i}

Init ==
    /\ resource_locks = [r \in Resources |-> Free]
    /\ preemption_counts = [s \in Sources |-> <<>>]
    /\ starved_sources = [s \in Sources |-> 0]
    /\ now = 0
    /\ calling = [i \in Intents |-> {}]
    /\ rejected = {}
    /\ building = [i \in Intents |-> {}]
    /\ lost = [i \in Intents |-> {}]

-----------------------------------------------------------------------------
(***************************************************************************)
(* FairnessTracker.                                                        *)
(***************************************************************************)
is_starved(s) == enabled /\ starved_sources[s] > now

should_block_preemption(preempted, preempting) == is_starved(preempted)

\* The window is closed on the left: only events older than the cutoff go.
cutoff == now - window_duration

\* get_preemption_count counts the events in the window.
get_preemption_count(s) ==
    Cardinality({k \in DOMAIN preemption_counts[s] : preemption_counts[s][k] >= cutoff})

\* Events are appended in clock order under the resource_locks write lock, so
\* the loop that pops old events from the front pops all the old ones.
Popped(s) ==
    Cardinality({k \in DOMAIN preemption_counts[s] : preemption_counts[s][k] < cutoff})
InWindow(s) == SubSeq(preemption_counts[s], Popped(s) + 1, Len(preemption_counts[s]))

\* Seeded defect: protection starts only when the count is exactly the limit.
record_preemption_once(s) ==
    LET events == Append(InWindow(s), now)
    IN IF enabled
       THEN /\ preemption_counts' = [preemption_counts EXCEPT ![s] = events]
            /\ starved_sources' = IF Len(events) = max_preemptions
                 THEN [starved_sources EXCEPT ![s] = now + protection_duration]
                 ELSE starved_sources
       ELSE UNCHANGED fairness

record_preemption(s) ==
    LET events == Append(InWindow(s), now)
    IN IF enabled
       THEN /\ preemption_counts' = [preemption_counts EXCEPT ![s] = events]
            /\ starved_sources' = IF Len(events) >= max_preemptions
                 THEN [starved_sources EXCEPT ![s] = now + protection_duration]
                 ELSE starved_sources
       ELSE UNCHANGED fairness

-----------------------------------------------------------------------------
(***************************************************************************)
(* Resource locks.                                                         *)
(***************************************************************************)
\* cleanup_expired drops every lock whose TTL has elapsed.
Expire ==
    /\ resource_locks' = [r \in Resources |->
         IF resource_locks[r].overdue THEN Free ELSE resource_locks[r]]
    /\ lost' = [i \in Intents |-> lost[i] \cup {r \in HeldBy(i) : resource_locks[r].overdue}]
    /\ UNCHANGED <<fairness, now, rejected, building>>

\* The periodic task calls cleanup_expired as well (execution_engine.rs).
cleanup_expired == Expire /\ UNCHANGED calling

\* The loop over the intent's pools; a rejected intent is past it.
try_lock_resource_begin(i, r) ==
    /\ calling[i] = {} /\ i \notin rejected
    /\ calling' = [calling EXCEPT ![i] = {r}]
    /\ Expire

\* Acquired and AcquiredByPreemption are one answer to process_intent.
Acquire(i, r) ==
    /\ resource_locks' = [resource_locks EXCEPT ![r] = [holder |-> i, overdue |-> FALSE]]
    /\ calling' = [calling EXCEPT ![i] = {}]
    /\ building' = [building EXCEPT ![i] = @ \cup {r}]
    /\ lost' = [j \in Intents |-> IF j = i THEN lost[j] \ {r}
                                  ELSE lost[j] \cup (HeldBy(j) \cap {r})]
    /\ UNCHANGED <<now, rejected>>

\* Free, or held by the same intent.
Available(i, r) == ~Held(r) \/ resource_locks[r].holder = i

MayPreempt(i, r) ==
    LET h == resource_locks[r].holder
    IN /\ ~Available(i, r)
       /\ Tier[i] < Tier[h]
       /\ ~should_block_preemption(SourceOf[h], SourceOf[i])

try_lock_resource_acquired(i, r) ==
    /\ r \in calling[i] /\ Available(i, r)
    /\ Acquire(i, r)
    /\ UNCHANGED fairness

\* The loser is told nothing: it goes on building on r.
try_lock_resource_preempt(i, r) ==
    /\ r \in calling[i] /\ MayPreempt(i, r)
    /\ record_preemption(SourceOf[resource_locks[r].holder])
    /\ Acquire(i, r)

\* Conflict: process_intent rejects the intent; its next step is release_locks.
try_lock_resource_conflict(i, r) ==
    /\ r \in calling[i] /\ ~Available(i, r) /\ ~MayPreempt(i, r)
    /\ calling' = [calling EXCEPT ![i] = {}]
    /\ rejected' = rejected \cup {i}
    /\ UNCHANGED <<resource_locks, fairness, now, beliefs>>

\* i has sent its transaction or given up: it builds on nothing any more.
Forget(i) ==
    /\ building' = [building EXCEPT ![i] = {}]
    /\ lost' = [lost EXCEPT ![i] = {}]
    /\ rejected' = rejected \ {i}

\* Seeded defect: what i was given is released, not what it still holds.
release_given(i) ==
    /\ calling[i] = {}
    /\ resource_locks' = [r \in Resources |-> IF r \in building[i] THEN Free ELSE resource_locks[r]]
    /\ Forget(i)
    /\ UNCHANGED <<fairness, now, calling>>

release_resource_locks_for_intent(i) ==
    /\ calling[i] = {}
    /\ resource_locks' = [r \in Resources |-> IF r \in HeldBy(i) THEN Free ELSE resource_locks[r]]
    /\ Forget(i)
    /\ UNCHANGED <<fairness, now, calling>>

TtlElapses(r) ==
    /\ Held(r) /\ ~resource_locks[r].overdue
    /\ resource_locks' = [resource_locks EXCEPT ![r].overdue = TRUE]
    /\ UNCHANGED <<fairness, now, calling, rejected, beliefs>>

Tick ==
    /\ now < MaxTime
    /\ now' = now + 1
    /\ UNCHANGED <<resource_locks, fairness, calling, rejected, beliefs>>

Next ==
    \/ Tick
    \/ cleanup_expired
    \/ \E r \in Resources : TtlElapses(r)
    \/ \E i \in Intents : release_resource_locks_for_intent(i)
    \/ \E i \in Intents, r \in Resources :
         \/ try_lock_resource_begin(i, r)
         \/ try_lock_resource_acquired(i, r)
         \/ try_lock_resource_preempt(i, r)
         \/ try_lock_resource_conflict(i, r)

Spec == Init /\ [][Next]_vars

-----------------------------------------------------------------------------
(***************************************************************************)
(* Correctness.                                                            *)
(***************************************************************************)
\* What a pool lock is worth to the transaction built under it: an intent that
\* builds on a pool still holds it, unless the pool was preempted or expired
\* under it.  In particular a preempted intent that ends later, or is rejected
\* over another pool, never frees the pool of the intent that preempted it
\* (release_resource_locks_for_intent), and no two intents that were left in
\* peace build on one pool.
BuilderKeepsPool ==
    \A i \in Intents : \A r \in building[i] \ lost[i] : resource_locks[r].holder = i

\* Starvation bound: the limit plus one further preemption per protection
\* period is the most a source suffers in any closed window, although the
\* protection is shorter than the window.
PreemptionBound ==
    enabled => \A s \in Sources :
      get_preemption_count(s) <= max_preemptions + (window_duration \div protection_duration)
=============================================================================
