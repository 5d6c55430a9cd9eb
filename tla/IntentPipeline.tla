--------------------------- MODULE IntentPipeline ---------------------------
(***************************************************************************)
(* The life of a TradeIntent in the execution engine                       *)
(* (src/src/bin/execution_engine.rs, process_intent): delivery from        *)
(* JetStream, idempotency check, gates, pool and capital locks, plan and   *)
(* simulation, send, confirmation, records, fill accounting, release.      *)
(*                                                                         *)
(* Several tasks run at once, up to the permits of intent_semaphore.  A    *)
(* task is one delivery of an intent: JetStream delivers at least once, so *)
(* two tasks may carry the same intent.  The capital locks are those of    *)
(* CapitalLocks, after the start-up snapshot has set wsol_initialized.     *)
(* The wallet on chain and the feed that reports it are external.          *)
(*                                                                         *)
(* A step of a task is a stretch of process_intent that touches shared     *)
(* state at most once.  Checks that depend on configuration, prices or     *)
(* pool data are free choices; pool locks are those of ResourceLocks and   *)
(* may be held by any other intent; the outcome of a confirmation is what  *)
(* TxConfirm establishes.                                                  *)
(***************************************************************************)
EXTENDS Integers, FiniteSets, Sequences

CONSTANTS
    Tasks,                   \* deliveries of intents
    Intents, Mints,
    Sol, Tokens,             \* what an intent reserves and spends (see CapitalLocks)
    Fill,                    \* Fill[i][m]: units of m a BUY receives
    Proceeds,                \* Proceeds[i]: WSOL a SELL receives
    Bundles,                 \* intents sent as a Jito bundle
    ColdPath,                \* SELLs for liquidation, kill switch or sell_all
    InitialWsol,             \* wallet at start-up
    InitialTokens,           \* [Mints -> Nat]
    max_concurrent_intents,  \* permits
    MaxRecoveries,           \* bound: plan retries after a failed simulation
    MaxUnits,                \* bound: token balances
    AmbiguousSend,           \* a sender may report an error although the bytes got through
    Worlds                   \* the environments to consider

ASSUME PipelineType ==
    /\ IsFiniteSet(Tasks) /\ IsFiniteSet(Intents) /\ "WSOL" \notin Mints
    /\ Sol \in [Intents -> Nat] /\ Tokens \in [Intents -> [Mints -> Nat]]
    /\ Fill \in [Intents -> [Mints -> Nat]] /\ Proceeds \in [Intents -> Nat]
    /\ Bundles \subseteq Intents /\ ColdPath \subseteq Intents
    /\ InitialWsol \in Nat /\ InitialTokens \in [Mints -> Nat]
    /\ max_concurrent_intents \in Nat \ {0} /\ MaxRecoveries \in Nat /\ MaxUnits \in Nat
    /\ AmbiguousSend \in BOOLEAN
    /\ Worlds \subseteq [IntentOf : [Tasks -> Intents], TtlCovers : BOOLEAN,
                          PublishFails : BOOLEAN]

VARIABLES
    world,              \* one of Worlds, the same for ever
    available_sol, available_wsol, wsol_initialized, available_tokens,
    capital_locks, trying, adding, chain_sol, chain_wsol, base_sol, base_wsol,
    processed_intents,  \* LockManager's idempotency set
    pc,                 \* [Tasks -> where the task is]
    recoveries,         \* [Tasks -> Nat]
    outcome,            \* [Tasks -> DecisionOutcome]
    submitted,          \* tasks whose transaction reached the network
    landed,             \* [Tasks -> "no", "ok", "emptied" or "err"]
    landing_slot,       \* [Tasks -> Nat], 0 until it landed
    wallet,             \* [Accounts -> Nat], the chain's truth
    feed,               \* [Accounts -> Seq([slot, amount])], snapshots not yet applied
    cleared             \* token_wallet_ata_cleared_at_slot: [Mints -> slot],
                        \* NoSlot when the slot is unknown, NotCleared when absent

Cap == INSTANCE CapitalLocks WITH InitialSol <- 0, MaxLamports <- 0, MaxFill <- MaxUnits

Accounts == {"WSOL"} \cup Mints
NoSlot == 0
NotCleared == -1
locks    == <<available_sol, available_wsol, available_tokens, wsol_initialized,
              capital_locks, trying, adding, chain_sol, chain_wsol, base_sol, base_wsol>>
progress == <<recoveries, outcome, submitted>>
outside  == <<landed, landing_slot, wallet, feed, cleared>>
vars     == <<world, locks, processed_intents, pc, progress, outside>>

\* The intent task t carries; whether the pre-send TTL outlasts planning and
\* sending; whether writing a decision or result record may fail.
IntentOf == world.IntentOf
TtlCovers == world.TtlCovers
PublishFails == world.PublishFails

Idle == {"upstream", "queued", "done"}
Running == {t \in Tasks : pc[t] \notin Idle}
PreSend == {"locking", "plan", "send", "sending", "promote"}
PostSend == {"confirm", "record", "account", "add", "adding", "release"}

IsBuy(i) == Sol[i] > 0
At(t, l) == pc[t] = l
Goto(t, l) == pc' = [pc EXCEPT ![t] = l]

Init ==
    /\ world \in Worlds
    /\ available_sol = 0 /\ available_wsol = InitialWsol /\ wsol_initialized = TRUE
    /\ available_tokens = InitialTokens
    /\ capital_locks = [i \in Intents |-> Cap!NoLock]
    /\ trying = [i \in Intents |-> "idle"] /\ adding = [i \in Intents |-> Cap!NoAdd]
    /\ chain_sol = 0 /\ base_sol = 0 /\ chain_wsol = InitialWsol /\ base_wsol = 0
    /\ processed_intents = {}
    /\ pc = [t \in Tasks |-> "upstream"]
    /\ recoveries = [t \in Tasks |-> 0]
    /\ outcome = [t \in Tasks |-> "none"]
    /\ submitted = {}
    /\ landed = [t \in Tasks |-> "no"]
    /\ landing_slot = [t \in Tasks |-> NoSlot]
    /\ cleared = [m \in Mints |-> NotCleared]
    /\ wallet = [a \in Accounts |-> IF a = "WSOL" THEN InitialWsol ELSE InitialTokens[a]]
    /\ feed = [a \in Accounts |-> <<>>]

-----------------------------------------------------------------------------
(***************************************************************************)
(* Delivery, idempotency and gates.                                        *)
(***************************************************************************)
\* The JetStream consumer enqueues the intent, acknowledges it, and the
\* dispatcher spawns the task.
Deliver(t) ==
    /\ At(t, "upstream") /\ Goto(t, "queued")
    /\ UNCHANGED <<locks, processed_intents, progress, outside>>

\* A permit is taken and the idempotency set is consulted.
Admit(t) ==
    /\ At(t, "queued")
    /\ Cardinality(Running) < max_concurrent_intents
    /\ Goto(t, IF IntentOf[t] \in processed_intents THEN "reject" ELSE "gates")
    /\ UNCHANGED <<locks, processed_intents, progress, outside>>

\* TTL (emit_expired_decision), kill switch, position, slippage, loss and fee
\* limits, and for a SELL the free balance of the mint.
Gates(t, verdict) ==
    /\ At(t, "gates")
    /\ verdict = "pools" =>
         \A m \in Mints : available_tokens[m] >= Tokens[IntentOf[t]][m]
    /\ Goto(t, verdict)
    /\ UNCHANGED <<locks, processed_intents, progress, outside>>

\* try_lock_resource per pool: a conflict gives up whatever the intent holds.
LockPools(t, verdict) ==
    /\ At(t, "pools") /\ Goto(t, verdict)
    /\ UNCHANGED <<locks, processed_intents, progress, outside>>

-----------------------------------------------------------------------------
(***************************************************************************)
(* Capital lock.  wsol_initialized does not change any more, so a second   *)
(* delivery of the same intent may wait for the first one's two steps.     *)
(***************************************************************************)
LockCapitalBegin(t) ==
    /\ At(t, "capital") /\ Goto(t, "locking")
    /\ Cap!try_lock_capital_begin(IntentOf[t])
    /\ UNCHANGED <<processed_intents, progress, outside>>

LockCapitalAcquire(t) ==
    /\ At(t, "locking") /\ Goto(t, "plan")
    /\ Cap!try_lock_capital_acquire(IntentOf[t])
    /\ UNCHANGED <<processed_intents, progress, outside>>

\* InsufficientCapital or Conflict, also with another delivery of this intent.
LockCapitalFail(t) ==
    /\ At(t, "locking") /\ Goto(t, "abort")
    /\ Cap!try_lock_capital_fail(IntentOf[t])
    /\ UNCHANGED <<processed_intents, progress, outside>>

-----------------------------------------------------------------------------
(***************************************************************************)
(* Plan, simulate, recover.                                                *)
(***************************************************************************)
\* Validation, plan, tip, quote or simulation failed ("abort"), or the
\* simulation succeeded ("send").  The count of retries is local to this stage.
PlanAndSimulate(t, verdict) ==
    /\ At(t, "plan") /\ Goto(t, verdict)
    /\ recoveries' = [recoveries EXCEPT ![t] = 0]
    /\ UNCHANGED <<locks, processed_intents, outcome, submitted, outside>>

\* Cold-path recovery: pool state is requested again and the plan is rebuilt;
\* the PumpSwap path renews the lock's TTL first (if the lock is still there).
Recover(t, renew) ==
    /\ At(t, "plan") /\ recoveries[t] < MaxRecoveries
    /\ recoveries' = [recoveries EXCEPT ![t] = @ + 1]
    /\ IF renew /\ capital_locks[IntentOf[t]].phase = "PreSend"
       THEN Cap!renew_capital_lock_ttl(IntentOf[t])
       ELSE UNCHANGED locks
    /\ UNCHANGED <<processed_intents, pc, outcome, submitted, outside>>

-----------------------------------------------------------------------------
(***************************************************************************)
(* Send.                                                                   *)
(***************************************************************************)
\* PnL gate of an arbitrage, signer, blockhash, tip, size or compile error.
SendGate(t) ==
    /\ At(t, "send") /\ Goto(t, "abort")
    /\ UNCHANGED <<locks, processed_intents, progress, outside>>

\* config.send_enabled is off: marked processed, recorded, released.
SendDisabled(t) ==
    /\ At(t, "send") /\ Goto(t, "record")
    /\ processed_intents' = processed_intents \cup {IntentOf[t]}
    /\ outcome' = [outcome EXCEPT ![t] = "Rejected"]
    /\ UNCHANGED <<locks, recoveries, submitted, outside>>

\* The bytes reach the network; the caller does not know yet.
Submit(t) ==
    /\ At(t, "send") /\ Goto(t, "sending")
    /\ submitted' = submitted \cup {t}
    /\ UNCHANGED <<locks, processed_intents, recoveries, outcome, outside>>

SendOk(t) ==
    /\ At(t, "sending") /\ Goto(t, "promote")
    /\ processed_intents' = processed_intents \cup {IntentOf[t]}
    /\ UNCHANGED <<locks, progress, outside>>

\* Every sender failed, or the last one failed after the network had the
\* bytes.  The intent is not marked processed ("allow retry").
SendErr(t) ==
    /\ At(t, "send") \/ (AmbiguousSend /\ At(t, "sending"))
    /\ Goto(t, "record")
    /\ outcome' = [outcome EXCEPT ![t] = "Rejected"]
    /\ UNCHANGED <<locks, processed_intents, recoveries, submitted, outside>>

\* Seeded defect: the reservation stays in its pre-send phase.
PromoteSkipped(t) ==
    /\ At(t, "promote") /\ Goto(t, "confirm")
    /\ UNCHANGED <<locks, processed_intents, progress, outside>>

\* promote_capital_lock_to_in_flight; a missing lock is not noticed.
Promote(t) ==
    /\ At(t, "promote") /\ Goto(t, "confirm")
    /\ IF Cap!contains_key(IntentOf[t])
       THEN Cap!promote_capital_lock_to_in_flight(IntentOf[t])
       ELSE UNCHANGED locks
    /\ UNCHANGED <<processed_intents, progress, outside>>

-----------------------------------------------------------------------------
(***************************************************************************)
(* Confirm and record.                                                     *)
(***************************************************************************)
\* Seeded defect: no deadline, the task waits for a definite answer.
ConfirmNoDeadline(t, o) ==
    /\ At(t, "confirm") /\ Goto(t, "record")
    /\ o = "Confirmed" /\ landed[t] \in {"ok", "emptied"}
    /\ outcome' = [outcome EXCEPT ![t] = o]
    /\ UNCHANGED <<locks, processed_intents, recoveries, submitted, outside>>

\* A timeout is "Sent" for a transaction and "Rejected" for a bundle; a
\* bundle also counts as failed when Jito answers with an error.
Confirm(t, o) ==
    /\ At(t, "confirm") /\ Goto(t, "record")
    /\ o = "Confirmed" => landed[t] \in {"ok", "emptied"}
    /\ o = "FailedConfirmed" => landed[t] = "err" \/ IntentOf[t] \in Bundles
    /\ o = "Sent" => IntentOf[t] \notin Bundles
    /\ o = "Rejected" => IntentOf[t] \in Bundles
    /\ outcome' = [outcome EXCEPT ![t] = o]
    /\ UNCHANGED <<locks, processed_intents, recoveries, submitted, outside>>

\* DecisionRecord and ExecutionResult are written and published.
Record(t) ==
    /\ At(t, "record")
    /\ Goto(t, IF outcome[t] = "Confirmed" THEN "account" ELSE "release")
    /\ UNCHANGED <<locks, processed_intents, progress, outside>>

\* One of the four "?" returns the error to the spawned task, which logs it.
RecordFails(t) ==
    /\ PublishFails
    /\ At(t, "record") /\ Goto(t, "done")
    /\ UNCHANGED <<locks, processed_intents, progress, outside>>

-----------------------------------------------------------------------------
(***************************************************************************)
(* Fill accounting of a confirmed trade, then release.                     *)
(***************************************************************************)
\* A balance that already covers the fill is taken to include it; otherwise
\* the fill is added.  The fill may also be unavailable.
AccountBuy(t, m, known) ==
    LET fill == Fill[IntentOf[t]][m]
    IN /\ At(t, "account") /\ fill > 0
       /\ Goto(t, IF ~known \/ available_tokens[m] >= fill THEN "release" ELSE "add")
       /\ UNCHANGED <<locks, processed_intents, progress, outside>>

AddRead(t, m) ==
    /\ At(t, "add") /\ Fill[IntentOf[t]][m] > 0 /\ Goto(t, "adding")
    /\ Cap!add_available_token_balance_read(IntentOf[t], m, Fill[IntentOf[t]][m])
    /\ UNCHANGED <<processed_intents, progress, outside>>

AddWrite(t) ==
    /\ At(t, "adding") /\ Goto(t, "release")
    /\ Cap!add_available_token_balance_write(IntentOf[t])
    /\ UNCHANGED <<processed_intents, progress, outside>>

\* scope48_confirmed_sell_close_decision on the position at lock time.
FullClose(t, m) ==
    LET i == IntentOf[t]
        total_pos == IF Cap!contains_key(i) /\ Tokens[i][m] > 0
                     THEN capital_locks[i].token_position_total_at_lock[m]
                     ELSE available_tokens[m]
    IN i \in ColdPath \/ Tokens[i][m] >= total_pos \/ landed[t] = "emptied"

\* clear_token_wallet_presence for a full close; the landing slot may be unknown.
AccountSell(t, m, known) ==
    /\ At(t, "account") /\ Tokens[IntentOf[t]][m] > 0 /\ Goto(t, "release")
    /\ IF FullClose(t, m)
       THEN /\ Cap!remove_available_tokens(m)
            /\ cleared' = [cleared EXCEPT ![m] = IF known THEN landing_slot[t] ELSE NoSlot]
       ELSE UNCHANGED <<locks, cleared>>
    /\ UNCHANGED <<processed_intents, progress, landed, landing_slot, wallet, feed>>

Release(t) ==
    /\ At(t, "release") /\ Goto(t, "done")
    /\ IF outcome[t] = "Confirmed" /\ ~IsBuy(IntentOf[t])
       THEN Cap!release_locks_after_confirmed_sell(IntentOf[t])
       ELSE Cap!release_locks(IntentOf[t])
    /\ UNCHANGED <<processed_intents, progress, outside>>

\* Seeded defect: an early exit forgets the locks.
AbortKeepsLocks(t) ==
    /\ At(t, "abort") /\ Goto(t, "reject")
    /\ UNCHANGED <<locks, processed_intents, progress, outside>>

\* The early exits between the pool locks and the send: release_locks by
\* intent id, whichever delivery of the intent took them.
Abort(t) ==
    /\ At(t, "abort") /\ Goto(t, "reject")
    /\ Cap!release_locks(IntentOf[t])
    /\ UNCHANGED <<processed_intents, progress, outside>>

\* emit_rejected_decision or emit_sim_failed_decision.
Reject(t) ==
    /\ At(t, "reject") /\ Goto(t, "done")
    /\ outcome' = [outcome EXCEPT ![t] = "Rejected"]
    /\ UNCHANGED <<locks, processed_intents, recoveries, submitted, outside>>

\* emit_expired_decision marks the intent processed once the record is out.
Expire(t) ==
    /\ At(t, "expire") /\ Goto(t, "done")
    /\ outcome' = [outcome EXCEPT ![t] = "Expired"]
    /\ \/ processed_intents' = processed_intents \cup {IntentOf[t]}
       \/ PublishFails /\ UNCHANGED processed_intents
    /\ UNCHANGED <<locks, recoveries, submitted, outside>>

-----------------------------------------------------------------------------
(***************************************************************************)
(* Around the tasks: clock, periodic clean-up, chain, wallet feed.         *)
(***************************************************************************)
CopiesOf(i) == {t \in Tasks : IntentOf[t] = i}

LockTtlElapses(i) ==
    /\ TtlCovers => \A t \in CopiesOf(i) : pc[t] \notin PreSend
    /\ Cap!TtlElapses(i)
    /\ UNCHANGED <<processed_intents, pc, progress, outside>>

PeriodicCleanup ==
    /\ Cap!Expired # {}
    /\ Cap!cleanup_expired
    /\ UNCHANGED <<processed_intents, pc, progress, outside>>

Delta(i, a) == IF a = "WSOL" THEN Proceeds[i] - Sol[i] ELSE Fill[i][a] - Tokens[i][a]
Spent(i, a) == IF a = "WSOL" THEN Sol[i] ELSE Tokens[i][a]

\* Every landing has a slot of its own, in the order of landing.
NextSlot == 1 + Cardinality({t \in Tasks : landed[t] # "no"})

\* External: the transaction executes; the accounts it changes are reported.
LandOk(t) ==
    LET i == IntentOf[t]
    IN /\ t \in submitted /\ landed[t] = "no"
       /\ \A a \in Accounts : wallet[a] >= Spent(i, a)
       /\ wallet' = [a \in Accounts |-> wallet[a] + Delta(i, a)]
       /\ feed' = [a \in Accounts |-> IF Delta(i, a) = 0 THEN feed[a]
             ELSE Append(feed[a], [slot |-> NextSlot, amount |-> wallet'[a]])]
       /\ landed' = [landed EXCEPT ![t] =
            IF \E m \in Mints : Tokens[i][m] > 0 /\ wallet'[m] = 0 THEN "emptied" ELSE "ok"]
       /\ landing_slot' = [landing_slot EXCEPT ![t] = NextSlot]
       /\ UNCHANGED <<locks, processed_intents, pc, progress, cleared>>

LandErr(t) ==
    /\ t \in submitted /\ landed[t] = "no"
    /\ landed' = [landed EXCEPT ![t] = "err"]
    /\ landing_slot' = [landing_slot EXCEPT ![t] = NextSlot]
    /\ UNCHANGED <<locks, processed_intents, pc, progress, wallet, feed, cleared>>

\* wallet_token_snapshot_stale_after_close; WalletPresence has its inner steps.
Stale(m, s) == cleared[m] # NotCleared /\ (s.slot <= cleared[m] \/ cleared[m] = NoSlot)

\* apply_wallet_balance_snapshot_event for WSOL and for a token mint.
Apply(a, s) ==
    CASE a = "WSOL" ->
           Cap!update_wsol_only(s.amount) /\ UNCHANGED cleared
      [] a # "WSOL" /\ Stale(a, s) ->
           UNCHANGED <<locks, cleared>>
      [] a # "WSOL" /\ ~Stale(a, s) ->
           /\ Cap!set_available_token_balance(a, s.amount)
           /\ cleared' = [cleared EXCEPT ![a] = NotCleared]

\* Seeded defect: a batch is coalesced to its oldest value.
SnapshotFirst(a, k) ==
    /\ Apply(a, feed[a][1])
    /\ feed' = [feed EXCEPT ![a] = SubSeq(@, k + 1, Len(@))]
    /\ UNCHANGED <<processed_intents, pc, progress, landed, landing_slot, wallet>>

\* The snapshot consumer applies the last of a batch of k snapshots.
Snapshot(a, k) ==
    /\ Apply(a, feed[a][k])
    /\ feed' = [feed EXCEPT ![a] = SubSeq(@, k + 1, Len(@))]
    /\ UNCHANGED <<processed_intents, pc, progress, landed, landing_slot, wallet>>

-----------------------------------------------------------------------------
Task(t) ==
    \/ Admit(t)
    \/ \E verdict \in {"expire", "reject", "pools"} : Gates(t, verdict)
    \/ \E verdict \in {"abort", "capital"} : LockPools(t, verdict)
    \/ LockCapitalBegin(t) \/ LockCapitalAcquire(t) \/ LockCapitalFail(t)
    \/ \E verdict \in {"abort", "send"} : PlanAndSimulate(t, verdict)
    \/ \E renew \in BOOLEAN : Recover(t, renew)
    \/ SendGate(t) \/ SendDisabled(t) \/ Submit(t) \/ SendOk(t) \/ SendErr(t)
    \/ Promote(t)
    \/ \E o \in {"Confirmed", "FailedConfirmed", "Sent", "Rejected"} : Confirm(t, o)
    \/ Record(t) \/ RecordFails(t)
    \/ \E m \in Mints, known \in BOOLEAN : AccountBuy(t, m, known) \/ AccountSell(t, m, known)
    \/ \E m \in Mints : AddRead(t, m)
    \/ AddWrite(t) \/ Release(t) \/ Abort(t) \/ Reject(t) \/ Expire(t)

Next ==
    /\ \/ \E t \in Tasks : Deliver(t) \/ Task(t) \/ LandOk(t) \/ LandErr(t)
       \/ \E i \in Intents : LockTtlElapses(i)
       \/ PeriodicCleanup
       \/ \E a \in Accounts : \E k \in 1 .. Len(feed[a]) : Snapshot(a, k)
    /\ UNCHANGED world

\* The runtime keeps polling every task, and every wait inside one has a
\* deadline.  Nothing is assumed of the network, the feed or the chain.
Fairness == \A t \in Tasks : WF_vars(Task(t) /\ UNCHANGED world)
Spec == Init /\ [][Next]_vars /\ Fairness

-----------------------------------------------------------------------------
(***************************************************************************)
(* Correctness.                                                            *)
(***************************************************************************)
\* When no delivery of an intent is being processed any more, its capital is
\* free again: every exit of process_intent releases (the comment at
\* execution_engine.rs:14088 "Release lock at terminal outcome"), except when
\* a record cannot be written.
NoLeakedReservation ==
    ~PublishFails =>
      \A i \in Intents :
        (\A t \in CopiesOf(i) : pc[t] \in Idle) => capital_locks[i] = Cap!NoLock

\* A transaction that was sent and is not yet accounted for holds its
\* reservation (execution_engine.rs:13359 "After successful send: capital
\* reservation stays (I-20) but is immune to pre-send TTL"), as long as the
\* TTL outlasts planning and no second delivery of the intent is around to
\* release it.
InFlightReserved ==
    TtlCovers =>
      \A t \in submitted :
        pc[t] \in PostSend /\ outcome[t] # "Rejected" /\ CopiesOf(IntentOf[t]) = {t}
          => /\ capital_locks[IntentOf[t]].phase = "InFlight"
             /\ capital_locks[IntentOf[t]].tokens = Tokens[IntentOf[t]]

\* When all tasks have ended and every snapshot was applied, free and reserved
\* trading capital add up to what the wallet holds: releases, reports, expiry,
\* redeliveries and late landings cancel out in every order.  The exception is
\* a last report below what was then reserved (possible when a reservation was
\* leaked): it is clamped to zero free capital, see WsolBooks of CapitalLocks.
Settled == (\A t \in Tasks : pc[t] \in Idle) /\ \A a \in Accounts : feed[a] = <<>>
SettledBooks ==
    Settled /\ base_wsol <= wallet["WSOL"] => Cap!total_wsol_lamports = wallet["WSOL"]

\* I-22 (docs/INVARIANTS.md:71): an intent is not traded twice, however often
\* it is delivered.
AtMostOneSend == \A i \in Intents : Cardinality(submitted \cap CopiesOf(i)) <= 1

\* Every delivered intent reaches its end and gives its permit back, whatever
\* the chain, the feed and the other tasks do.
EveryIntentEnds == \A t \in Tasks : pc[t] = "queued" ~> pc[t] = "done"
=============================================================================
