--------------------------- MODULE TrackAdmission ---------------------------
(***************************************************************************)
(* FixedCapAdmission of market-data (market_data/track): which groups of   *)
(* accounts the md-track-worker may have in the Geyser filter, under a     *)
(* hard cap on distinct accounts.  A group is all-or-nothing and belongs   *)
(* to an owner <<consumer, key>>; groups of different owners share         *)
(* accounts, an account leaves the filter with its last owner.  When a     *)
(* group does not fit, eviction_planner opens the least protected tier     *)
(* that can free enough and picks victims greedily.  The worker thread is  *)
(* the only one that touches the admission, so every call is atomic.       *)
(*                                                                         *)
(* Touch stamps are compared only between owners of the same consumer (the *)
(* consumer's priority comes first in every order), so what is kept of     *)
(* them is which of two such owners was touched before the other; u64      *)
(* stamps and their renormalisation keep exactly that order.               *)
(***************************************************************************)
EXTENDS Integers, Sequences, FiniteSets, FiniteSetsExt

CONSTANTS Order,     \* the owners <<consumer, key>> in the Ord order of ExplicitOwner
          Planned,   \* Planned[o]: the groups that may be asked for owner o
          Demands,   \* the demands the tracked maps may hold, owner -> accounts
          MaxCap     \* caps are 1..MaxCap

Owners == Range(Order)
Consumers == {"Wallet", "Position", "Momentum", "Arb", "Tracker"}
Wallet == <<"Wallet", "wallet">>
Keys == UNION {UNION Planned[o] : o \in Owners}

(* consumer_eviction_priority; Wallet is above every tier. *)
Priority(o) == CASE o[1] = "Tracker" -> 0
                 [] o[1] = "Arb" -> 1
                 [] o[1] = "Momentum" -> 2
                 [] o[1] = "Position" -> 3
                 [] o[1] = "Wallet" -> 4

ASSUME OrderOK ==
  /\ Order \in Seq(Owners)
  /\ Wallet \in Owners
  /\ \A o \in Owners : o[1] = "Wallet" => o = Wallet
  /\ \A i, j \in DOMAIN Order : i < j => Order[i] # Order[j] /\ Priority(Order[i]) >= Priority(Order[j])
  /\ \A o \in Owners : o[1] \in Consumers /\ {} \notin Planned[o]
ASSUME KeysFinite == IsFiniteSet(Keys)
ASSUME DemandsOK == Demands \subseteq [Owners -> SUBSET Keys]
ASSUME MaxCapOK == MaxCap \in Nat \ {0}

VARIABLES adm,      \* the admission: groups, older (touch order), len (physical_len), cap
          config,   \* configured max_tracked_accounts
          ready     \* geyser_explicit_ready

vars == <<adm, config, ready>>

----------------------------------------------------------------------------
(* Ownership: groups of owners and the reference counts they imply. *)
NoGroups == [o \in Owners |-> {}]
Present(a) == {o \in Owners : a.groups[o] # {}}
Refs(a, k) == {o \in Owners : k \in a.groups[o]}
Physical(a) == UNION {a.groups[o] : o \in Owners}
Added(a, ks) == ks \ Physical(a)

NoAdmission(cap) == [groups |-> NoGroups, older |-> {}, len |-> 0, cap |-> cap]

Rivals(a, o) == {p \in Present(a) \ {o} : p[1] = o[1]}

Forget(older, os) == {r \in older : r[1] \notin os /\ r[2] \notin os}

\* The touched owner is the youngest of its consumer.
Stamp(a, o) == Forget(a.older, {o}) \cup (Rivals(a, o) \X {o})

----------------------------------------------------------------------------
(* eviction_planner: a tier t lets the owners of priority <= t go.  An     *)
(* account is freeable when every owner of it may go; an account of the    *)
(* incoming group is never worth freeing.                                  *)
Evictable(a, t) == {o \in Present(a) : o # Wallet /\ Priority(o) <= t}
Freeable(a, in, t) == {k \in Physical(a) \ in : Refs(a, k) \subseteq Evictable(a, t)}

(* allowed_for_incoming: a consumer opens the tiers up to its own. *)
TopTier(o) == IF Priority(o) > 3 THEN 3 ELSE Priority(o)

OpenTiers(a, in, need, top) ==
  {t \in 0..top : Cardinality(Freeable(a, in, t)) >= need}

(* build_sorted_candidates / owner_sort_tuple: (priority, last touch). *)
Older(a, o, p) ==
  \/ Priority(o) < Priority(p)
  \/ Priority(o) = Priority(p) /\ <<o, p>> \in a.older
Oldest(a, os) == CHOOSE o \in os : \A p \in os \ {o} : Older(a, o, p)

(* compare_joint_packages: highest priority inside, then the sorted        *)
(* packages lexicographically (first is where they start to differ).       *)
TopPriority(os) == Max({Priority(o) : o \in os})
Earlier(a, p, q, first) ==
  IF first \in p THEN \E o \in q : Older(a, first, o) ELSE \A o \in p : ~Older(a, first, o)
Cheaper(a, p, q) ==
  \/ TopPriority(p) < TopPriority(q)
  \/ /\ TopPriority(p) = TopPriority(q)
     /\ Earlier(a, p, q, Oldest(a, (p \ q) \cup (q \ p)))
Cheapest(a, ps) == CHOOSE p \in ps : \A q \in ps \ {p} : Cheaper(a, p, q)

(* execute_victim_selection, sel being the victims selected so far: take   *)
(* the oldest owner that frees an account by itself; when there is none,   *)
(* the cheapest set of remaining owners of one account.                    *)
Freed(a, in, sel) == {k \in Physical(a) \ in : Refs(a, k) \subseteq sel}

Lone(a, in, allowed, sel) ==
  {o \in allowed \ sel : \E k \in a.groups[o] \ in : Refs(a, k) \ sel = {o}}
Joint(a, in, allowed, sel) ==
  {Refs(a, k) \ sel : k \in {k \in Physical(a) \ in : Refs(a, k) \subseteq allowed}} \ {{}}

\* Seeded defect: owners that free an account only together are not found.
PickAlone(a, lone, joint) ==
  IF lone # {} THEN {Oldest(a, lone)} ELSE {}

Pick(a, lone, joint) ==
  IF lone # {} THEN {Oldest(a, lone)} ELSE IF joint # {} THEN Cheapest(a, joint) ELSE {}

\* One turn of the while loop; it takes an owner or ends, so there is at most
\* one turn per owner.
SelectMore(a, in, need, allowed, sel) ==
  IF Cardinality(Freed(a, in, sel)) >= need THEN sel
  ELSE sel \cup Pick(a, Lone(a, in, allowed, sel), Joint(a, in, allowed, sel))

Victims(a, in, need, allowed) ==
  LET select[n \in 0..Cardinality(allowed)] ==
        IF n = 0 THEN {} ELSE SelectMore(a, in, need, allowed, select[n - 1])
  IN  select[Cardinality(allowed)]

(* select_eviction_victims / select_cap_shrink_victims; no victims means   *)
(* RejectedProtected, victims that free too little an invariant violation. *)
Plan(a, in, need, tiers) ==
  IF tiers = {} THEN {} ELSE Victims(a, in, need, Evictable(a, Min(tiers)))

----------------------------------------------------------------------------
(* FixedCapAdmission.  A call returns the admission after it and a result. *)
Fits(a, ks) == a.len + Cardinality(Added(a, ks)) <= a.cap

try_admit_new_group(a, o, ks) ==
  IF ~Fits(a, ks) THEN [adm |-> a, result |-> "RejectedCap"]
  ELSE [adm |-> [a EXCEPT !.groups[o] = ks, !.older = Stamp(a, o),
                          !.len = @ + Cardinality(Added(a, ks))],
        result |-> "Inserted"]

(* The candidate with the victims out and the group in is built aside and  *)
(* validated; only a candidate that frees what the plan says and is within *)
(* the cap replaces the admission.                                         *)
Dropped(a, vs) ==
  [a EXCEPT !.groups = [o \in Owners |-> IF o \in vs THEN {} ELSE @[o]], !.older = Forget(@, vs)]

Commit(a, cand) ==
  IF Cardinality(Physical(cand)) > cand.cap
  THEN [adm |-> a, result |-> "InternalInvariantViolation"]
  ELSE [adm |-> [cand EXCEPT !.len = Cardinality(Physical(cand))], result |-> "Inserted"]

EvictAndAdmit(a, o, ks, vs) ==
  IF vs = {} THEN [adm |-> a, result |-> "RejectedProtected"]
  ELSE Commit(a, [Dropped(a, vs) EXCEPT !.groups[o] = ks, !.older = Stamp(Dropped(a, vs), o)])

Overflow(a, ks) == a.len + Cardinality(Added(a, ks)) - a.cap

try_admit_with_eviction(a, o, ks) ==
  IF Fits(a, ks) THEN try_admit_new_group(a, o, ks)
  ELSE EvictAndAdmit(a, o, ks,
         Plan(a, ks, Overflow(a, ks), OpenTiers(a, ks, Overflow(a, ks), TopTier(o))))

remove_group(a, o) ==
  IF a.groups[o] = {} THEN a
  ELSE [a EXCEPT !.groups[o] = {}, !.older = Forget(@, {o}),
                 !.len = @ - Cardinality({k \in a.groups[o] : Refs(a, k) = {o}})]

\* Seeded defect: a replaced group frees its accounts, shared or not.
FreedBy_any(a, o, ks) == a.groups[o] \ ks

FreedBy(a, o, ks) == {k \in a.groups[o] \ ks : Refs(a, k) = {o}}

try_replace_group(a, o, ks) ==
  LET len == a.len - Cardinality(FreedBy(a, o, ks)) + Cardinality(Added(a, ks))
  IN IF len > a.cap THEN [adm |-> a, result |-> "RejectedCap"]
     ELSE [adm |-> [a EXCEPT !.groups[o] = ks, !.older = Stamp(a, o), !.len = len],
           result |-> "Inserted"]

WalletLen(a) == Cardinality(a.groups[Wallet])

\* Seeded defect: a shrink does not open the Position tier.
ShrinkTiers_low(a, cap) == OpenTiers(a, {}, a.len - cap, 2)

ShrinkTiers(a, cap) == OpenTiers(a, {}, a.len - cap, 3)

try_shrink_cap(a, cap) ==
  IF cap > a.cap THEN [adm |-> a, result |-> "RejectedCapIncrease"]
  ELSE IF WalletLen(a) > cap THEN [adm |-> a, result |-> "ProtectedOverflow"]
  ELSE IF a.len <= cap THEN [adm |-> [a EXCEPT !.cap = cap], result |-> "Inserted"]
  ELSE Commit(a, [Dropped(a, Plan(a, {}, a.len - cap, ShrinkTiers(a, cap))) EXCEPT !.cap = cap])

(* shed_owner_groups_for_consumers / shed_arb_owner_groups: up to n groups *)
(* of one consumer, oldest first, must-hot Arb groups skipped.             *)
ShedVictims(a, c, n, hot) ==
  LET row == {o \in Present(a) : o[1] = c /\ ~(c = "Arb" /\ o \in hot)}
  IN  {o \in row : Cardinality({p \in row : <<p, o>> \in a.older}) < n}

\* remove_group for one owner of os after the other.
RemoveAll(a, os) ==
  LET removed[n \in 0..Len(Order)] ==
        IF n = 0 THEN a
        ELSE IF Order[n] \in os THEN remove_group(removed[n - 1], Order[n]) ELSE removed[n - 1]
  IN  removed[Len(Order)]

----------------------------------------------------------------------------
(* admission_wiring *)
\* Seeded defect: the old group is still there when the larger one is admitted.
try_admit_owner_group_over(a, o, ks) ==
  IF ks = {} THEN [adm |-> a, result |-> "Inserted"]
  ELSE IF a.groups[o] = {} THEN try_admit_with_eviction(a, o, ks)
  ELSE IF a.groups[o] = ks THEN [adm |-> [a EXCEPT !.older = Stamp(a, o)], result |-> "Inserted"]
  ELSE try_replace_group(a, o, ks)

(* A group that must grow past the cap is taken out before it is admitted  *)
(* again with eviction: a refusal then leaves its owner with nothing.      *)
try_admit_owner_group(a, o, ks) ==
  IF ks = {} THEN [adm |-> a, result |-> "Inserted"]
  ELSE IF a.groups[o] = {} THEN
    LET new == try_admit_new_group(a, o, ks) IN
    IF new.result = "RejectedCap" THEN try_admit_with_eviction(a, o, ks) ELSE new
  ELSE IF a.groups[o] = ks THEN [adm |-> [a EXCEPT !.older = Stamp(a, o)], result |-> "Inserted"]
  ELSE LET rep == try_replace_group(a, o, ks) IN
       IF rep.result = "RejectedCap" THEN try_admit_with_eviction(remove_group(a, o), o, ks) ELSE rep

(* Admit the groups of d one owner after the other; the first refusal ends *)
(* the loop.                                                               *)
AdmitNext(sofar, o, ks) ==
  IF sofar.result = "Inserted" THEN try_admit_owner_group(sofar.adm, o, ks) ELSE sofar
AdmitAll(a, d) ==
  LET admitted[n \in 0..Len(Order)] ==
        IF n = 0 THEN [adm |-> a, result |-> "Inserted"]
        ELSE AdmitNext(admitted[n - 1], Order[n], d[Order[n]])
  IN  admitted[Len(Order)]

Settled(all) ==
  [all EXCEPT !.result = IF WalletLen(all.adm) > all.adm.cap THEN "ProtectedOverflow"
                         ELSE IF @ # "Inserted" \/ all.adm.len > all.adm.cap THEN "Unconverged"
                         ELSE "Converged"]

(* merge_admission_tracker_owner_groups: a Tracker group that is already   *)
(* admitted stays demanded.                                                *)
WithTrackers(a, d) ==
  [o \in Owners |-> IF o[1] = "Tracker" /\ d[o] = {} THEN a.groups[o] ELSE d[o]]

DropStale(a, d) == RemoveAll(a, {o \in Owners : d[o] = {}})

converge_to(a, d) == Settled(AdmitAll(DropStale(a, d), d))
converge_admission(a, demand) ==
  IF WalletLen(a) > a.cap THEN [adm |-> a, result |-> "ProtectedOverflow"]
  ELSE converge_to(a, WithTrackers(a, demand))

\* Seeded defect: a wallet that fills the cap counts as an overflow.
restore_admission_strict(cap, groups) ==
  IF Cardinality(groups[Wallet]) >= cap
  THEN [adm |-> NoAdmission(cap), result |-> "ProtectedOverflow"]
  ELSE Settled(AdmitAll(NoAdmission(cap), groups))

restore_admission(cap, groups) ==
  IF Cardinality(groups[Wallet]) > cap
  THEN [adm |-> NoAdmission(cap), result |-> "ProtectedOverflow"]
  ELSE Settled(AdmitAll(NoAdmission(cap), groups))

----------------------------------------------------------------------------
(* The worker's commands. *)
Init == /\ adm = NoAdmission(MaxCap)
        /\ config = MaxCap
        /\ ready = FALSE

(* try_admit_wallet_owner_group (apply_wallet_pin, withdraw_wallet_pin):   *)
(* the wallet's accounts and pinned mints; more than the cap is refused,   *)
(* none releases the group.                                                *)
AdmitWallet(ks) ==
  /\ Cardinality(ks) <= adm.cap
  /\ adm' = IF ks = {} THEN remove_group(adm, Wallet) ELSE try_admit_owner_group(adm, Wallet, ks).adm
  /\ UNCHANGED <<config, ready>>

(* apply_momentum_active_entries / apply_arb_active_entries for one pool   *)
(* whose layout is cached: its planned group.  An admitted Momentum group  *)
(* supersedes the Position group of the pool and the other way round.      *)
PoolConsumers == {"Position", "Momentum", "Arb"}
Superseded(o) ==
  CASE o[1] = "Position" -> {<<"Momentum", o[2]>>}
    [] o[1] = "Momentum" -> {<<"Position", o[2]>>}
    [] OTHER -> {}

AdmitPool(o, ks) ==
  /\ o[1] \in PoolConsumers /\ ks # {o[2]}
  /\ \E new \in {try_admit_owner_group(adm, o, ks)} :
       adm' = IF new.result = "Inserted" THEN RemoveAll(new.adm, Superseded(o)) ELSE new.adm
  /\ UNCHANGED <<config, ready>>

(* try_admit_hot_pool_account_bootstrap: the pool account alone, while the *)
(* pool cache has no layout; nothing is superseded.                        *)
Bootstrap(o) ==
  /\ o[1] \in PoolConsumers /\ {o[2]} \in Planned[o]
  /\ adm' = try_admit_owner_group(adm, o, {o[2]}).adm
  /\ UNCHANGED <<config, ready>>

(* release_pool_consumer_group, and the Tracker mint group that a wallet   *)
(* pin or its withdrawal drops.                                            *)
Release(o) ==
  /\ o # Wallet /\ o \in Present(adm)
  /\ adm' = remove_group(adm, o)
  /\ UNCHANGED <<config, ready>>

(* apply_exec_hot_pressure_shed; the planner never sheds Wallet or         *)
(* Position groups.                                                        *)
Shed(c, n, hot) ==
  \E row \in {ShedVictims(adm, c, n, hot)} :
     /\ row # {}
     /\ adm' = RemoveAll(adm, row)
     /\ UNCHANGED <<config, ready>>

(* The config handler stores the new max_tracked_accounts; the worker      *)
(* applies it when the command arrives.                                    *)
ConfigChange(cap) ==
  /\ config # cap
  /\ config' = cap
  /\ UNCHANGED <<adm, ready>>

InConfig(a) == a.cap <= config /\ a.len <= config

(* apply_explicit_cap_shrink: a rejected increase leaves the flag alone. *)
CapShrink ==
  \E shrunk \in {try_shrink_cap(adm, config)} :
    /\ adm' = shrunk.adm
    /\ ready' = IF shrunk.result = "RejectedCapIncrease" THEN ready
                ELSE shrunk.result = "Inserted" /\ InConfig(shrunk.adm)
    /\ UNCHANGED config

(* track_worker_execute_coalesced_push up to on_admission_converge_result. *)
\* Seeded defect: a converged push is ready whatever the configured cap.
PushUnchecked(d) ==
  \E done \in {converge_admission(adm, d)} :
    /\ adm' = done.adm
    /\ ready' = (done.result = "Converged")
    /\ UNCHANGED config

Push(d) ==
  \E done \in {converge_admission(adm, d)} :
    /\ adm' = done.adm
    /\ ready' = (done.result = "Converged" /\ InConfig(done.adm) /\ WalletLen(done.adm) <= config)
    /\ UNCHANGED config

(* prune_tracked_maps_to_admitted after a ready push: the tracked maps keep *)
(* the rows of the accounts that are admitted.                             *)
\* Seeded defect: the maps keep their rows.
PrunedNone(a, d) == d

Pruned(a, d) == [o \in Owners |-> d[o] \cap Physical(a)]

(* A restart.  The snapshot on disk holds the groups of some earlier       *)
(* admission, Tracker groups excepted; as nothing else survives, restarting *)
(* at once from the groups of the moment reaches the same admissions.  The *)
(* cap of the new process is the configured one.                           *)
Persisted(groups) == [o \in Owners |-> IF o[1] = "Tracker" THEN {} ELSE groups[o]]
Restart ==
  \E back \in {restore_admission(config, Persisted(adm.groups))} :
    /\ adm' = back.adm
    /\ ready' = (back.result = "Converged" /\ InConfig(back.adm))
    /\ UNCHANGED config

Next ==
  \/ \E ks \in Planned[Wallet] \cup {{}} : AdmitWallet(ks)
  \/ \E o \in Owners \ {Wallet} : \E ks \in Planned[o] : AdmitPool(o, ks)
  \/ \E o \in Owners : Bootstrap(o)
  \/ \E o \in Owners : Release(o)
  \/ \E c \in {"Tracker", "Momentum", "Arb"}, n \in 1..2 :
       \E hot \in SUBSET {o \in Owners : o[1] = "Arb"} : Shed(c, n, hot)
  \/ \E cap \in 1..MaxCap : ConfigChange(cap)
  \/ CapShrink
  \/ \E d \in Demands : Push(d)
  \/ Restart

Spec == Init /\ [][Next]_vars

----------------------------------------------------------------------------
(* Properties *)

(* The touch order puts the admitted owners of a consumer, and nobody      *)
(* else, in a row.                                                         *)
TouchOrder(a) ==
  /\ \A r \in a.older : r[1] \in Present(a) /\ r[2] \in Rivals(a, r[1])
  /\ \A o \in Present(a) : \A p \in Rivals(a, o) : <<o, p>> \in a.older <=> <<p, o>> \notin a.older
  /\ \A r, s \in a.older : r[2] = s[1] => <<r[1], s[2]>> \in a.older

(* The counter the cap is enforced with (physical_len, updated by deltas)  *)
(* is the number of distinct accounts that the groups cover, it is within  *)
(* the cap, and the stamps order the admitted owners.                      *)
BooksOf(a) == a.len = Cardinality(Physical(a)) /\ a.len <= a.cap /\ TouchOrder(a)
Books == BooksOf(adm)

(* What the planner promises, stated without tiers or a greedy choice:     *)
(* some set of owners, none of them better protected than the incoming     *)
(* one and none the wallet, makes room.                                    *)
Without(a, vs) == UNION {a.groups[p] : p \in Owners \ vs}
RoomBelow(a, ks, t) == Cardinality(Without(a, Evictable(a, t)) \cup ks) <= a.cap

(* A new group is admitted exactly when evicting owners that are no better *)
(* protected than its own could make room; the victims come from the least *)
(* protected tiers that suffice, and InternalInvariantViolation never      *)
(* happens (select_eviction_victims, try_admit_with_eviction).             *)
ExactFor(a, o, ks, new, tiers) ==
  /\ new.result = IF Fits(a, ks) \/ tiers # {} THEN "Inserted" ELSE "RejectedProtected"
  /\ \A p \in Present(a) \ Present(new.adm) : p \in Evictable(a, Min(tiers))
PlannerExact ==
  \A o \in Owners \ Present(adm) : \A ks \in Planned[o] :
    ExactFor(adm, o, ks, try_admit_owner_group(adm, o, ks),
             {t \in 0..TopTier(o) : RoomBelow(adm, ks, t)})

(* A wallet group that is no larger than the cap always gets in, whatever  *)
(* else is admitted, also when it replaces a smaller one                   *)
(* (try_admit_wallet_owner_group behind apply_wallet_pin).                 *)
WalletAdmitted ==
  \A ks \in Planned[Wallet] :
    Cardinality(ks) <= adm.cap => try_admit_owner_group(adm, Wallet, ks).adm.groups[Wallet] = ks

(* A cap shrink reaches every cap that the wallet alone fits in, without   *)
(* touching the wallet's group (try_shrink_cap).                           *)
ShrunkTo(a, cap, s) ==
  s.cap = cap /\ s.len <= cap /\ s.groups[Wallet] = a.groups[Wallet]
ShrinkReaches ==
  \A cap \in WalletLen(adm)..adm.cap : cap # 0 => ShrunkTo(adm, cap, try_shrink_cap(adm, cap).adm)

(* A push that converged has settled: pushing what the prune left of its   *)
(* demand converges again on the same accounts, so the worker does not     *)
(* swap subscriptions for ever (converge_admission_from_groups may evict   *)
(* groups of the demand it converges on).                                  *)
SameAccounts(once, again) == again.result = "Converged" /\ Physical(again.adm) = Physical(once.adm)
Settles(once, d) ==
  once.result = "Converged" => SameAccounts(once, converge_admission(once.adm, Pruned(once.adm, d)))
PushSettles == \A d \in Demands : Settles(converge_admission(adm, d), d)

(* The admission a restart builds from a snapshot is the one that was      *)
(* saved, Tracker groups excepted, whenever the cap still holds it.        *)
RestoredTo(back, groups) == back.result = "Converged" /\ back.adm.groups = groups
RestoreExact ==
  \A cap \in 1..MaxCap :
    Cardinality(UNION Range(Persisted(adm.groups))) <= cap =>
      RestoredTo(restore_admission(cap, Persisted(adm.groups)), Persisted(adm.groups))

(* The Geyser filter is declared ready only when it respects the cap that  *)
(* is configured at that moment: a converged push or a restart that finds  *)
(* the admission above the configured cap is not ready.                    *)
ReadyInConfig == [][ready' /\ ~ready => InConfig(adm)']_vars
=============================================================================
