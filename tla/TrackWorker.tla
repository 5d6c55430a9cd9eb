----------------------------- MODULE TrackWorker -----------------------------
(***************************************************************************)
(* How market-data decides which accounts its Geyser subscription carries: *)
(* the command protocol of the md-track-worker thread                      *)
(* (market_data/track/worker.rs, pending.rs, worker_commands.rs,           *)
(* geyser_sync.rs), the momentum-bot's active pools on their way to it     *)
(* (coalesce.rs, nats/momentum_active_pools.rs), and the start-up barrier  *)
(* (barrier.rs).                                                           *)
(*                                                                         *)
(* Several threads send commands.  A send takes four steps: dedupe and     *)
(* take a revision (under the store's lock), try_send, count the queue     *)
(* slot, note the command as in flight.  A command that finds the queue    *)
(* full is staged in the store's pending slots.  The worker empties the    *)
(* queue, replays the pending slots, and pushes the admitted accounts once *)
(* the coalescing deadline has passed; a push that does not complete       *)
(* makes the worker send itself ContinueGeyserEvict.                       *)
(*                                                                         *)
(* Wallet demand has one revision counter per mint, momentum updates one,  *)
(* and all the control commands share one.  The Arb stream is the Momentum *)
(* stream under another name and the Tracker stream has no producer: both  *)
(* are left out.  Which accounts a pool or a mint stands for, and what the *)
(* cap admits, is the subject of TrackAdmission: here a command is         *)
(* admitted or it is not.                                                  *)
(***************************************************************************)
EXTENDS Integers, Sequences, FiniteSets

CONSTANTS
  Mints,        \* mints the wallet may hold
  Pools,        \* (mint, pool) rows the momentum-bot may want hot
  None,         \* no command, no target
  QueueCap,     \* MARKET_DATA_TRACK_WORKER_QUEUE_CAP
  PendingCap,   \* MARKET_DATA_TRACK_PENDING_CAP
  Budgets       \* bounds: how often the outside world acts in a behaviour

ASSUME Caps == /\ QueueCap \in Nat \ {0}
               /\ PendingCap \in Nat \ {0}

\* A budget bounds the changes of the wallet's demand, the sync intents of the
\* ingest side, the changes of the bot's active set, its periodic snapshots,
\* and the faults (lost messages, rejected admissions, cut pushes).
Budget == [wallet : Nat, control : Nat, changes : Nat, ticks : Nat, faults : Nat]

ASSUME BudgetsOK == Budgets \subseteq Budget

\* The streams that are no mint's have names of their own.
ASSUME StreamsOK == "momentum" \notin Mints /\ "control" \notin Mints

VARIABLES
  active, wire, burst,              \* the bot's set, NATS, the coalescer's buffer
  out, at,                          \* per thread: the command being sent, and how far
  queue, depth,                     \* the channel and its queue_depth counter
  pending, issued, applied,         \* BoundedProtocolStore: slots and revisions
  inflight, evicts,                 \* inflight_sync_strength_counts, inflight_continue_evict
  wpc, todo,                        \* the worker: phase of its loop, commands to replay
  due, contEvict, flag,             \* coalesce_deadline, pending_continue_evict, restore_barrier_pending
  wanted, pinned,                   \* wallet demand, and what the worker has pinned
  hot, lastTarget, deferred,        \* hot_pool_registry, last_momentum_snapshot_target, deferred pins
  synced, barrier,                  \* last_synced_explicit_pubkeys, GeyserConnectBarrier
  boot, phase,                      \* commands main still sends at start-up; the process
  disk,                             \* the explicit-set snapshot found at start-up
  budget                            \* what is left of the budget

bot == <<active, wire, burst>>
senders == <<out, at>>
store == <<pending, issued, applied, inflight, evicts>>
worker == <<wpc, todo, due, contEvict, flag>>
tracked == <<wanted, pinned, hot, lastTarget, deferred, synced>>
start == <<barrier, boot, phase, disk>>
workerVars == <<bot, senders, queue, depth, store, worker, tracked, start, budget>>

Threads == {"main", "md", "coalescer", "worker"}
Keys == Mints \cup {"momentum", "control"}

SyncKinds == {"debounced", "push", "config"}
Update == [full : BOOLEAN, on : SUBSET Pools, off : SUBSET Pools]
Kinds == SyncKinds \cup {"pin", "unpin", "hot", "restore", "continue", "retry"}
Command == [key : Keys, rev : Nat, kind : Kinds, arg : Update \cup {None}]

\* sync_intent_strength
Strength(k) == CASE k = "debounced" -> 0 [] k = "push" -> 1 [] k = "config" -> 2

\* merge_sync_intent_payloads
Strongest(ks) == CHOOSE k \in ks : \A j \in ks : Strength(j) <= Strength(k)

MaxRev(s) == CHOOSE r \in s : \A q \in s : q <= r

------------------------------------------------------------------------------
(* Momentum updates.                                                       *)

\* The last word on a pool counts, and a full snapshot takes back every
\* activation before it.
merge_momentum_active_pools_updates(us) ==
  LET i == DOMAIN us
  IN  [full |-> \E n \in i : us[n].full,
       on   |-> {p \in Pools : \E n \in i : p \in us[n].on /\
                   \A k \in i : k > n => ~us[k].full /\ p \notin us[k].off},
       off  |-> {p \in Pools : \E n \in i : p \in us[n].off /\
                   \A k \in i : k >= n => p \notin us[k].on}]

\* apply_momentum_active_pools_update: reconcile to a snapshot that differs
\* from the last one, then the removals, then the active entries.
Reconciled(u) == IF u.full /\ lastTarget # u.on THEN hot \cap u.on ELSE hot

Applied(u) == (Reconciled(u) \ u.off) \cup u.on

------------------------------------------------------------------------------
(* BoundedProtocolStore.                                                   *)

IsSync(c) == c.kind \in SyncKinds
Syncs == {pending[i] : i \in {j \in DOMAIN pending : IsSync(pending[j])}}

Cmd(key, rev, kind, arg) == [key |-> key, rev |-> rev, kind |-> kind, arg |-> arg]

is_applicable(c) == c.rev > applied[c.key]

\* The slots with an index in K, in the order R of their indices.
InOrder(slots, K, R) ==
  [n \in 1..Cardinality(K) |->
     slots[CHOOSE i \in K : Cardinality({j \in K : <<j, i>> \in R}) = n - 1]]

Staged(slots) == {r \in (DOMAIN slots) \X (DOMAIN slots) : r[1] < r[2]}

\* coalesce_with_pending: the slots that survive the staging of c, and c
\* with what it takes over from the slots that do not.
Superseded(s, c) ==
  CASE IsSync(c) -> IsSync(s)
    [] c.kind = "continue" -> s.kind = "continue" /\ s.rev < c.rev
    [] c.key \in Mints \cup {"momentum"} -> s.key = c.key /\ s.rev < c.rev
    [] OTHER -> FALSE

CoalesceSlots(slots, c) ==
  InOrder(slots, {i \in DOMAIN slots : ~Superseded(slots[i], c)}, Staged(slots))

CoalesceCommand(slots, c) ==
  LET old == {i \in DOMAIN slots : Superseded(slots[i], c)}
      syncs == {slots[i] : i \in old} \cup {c}
      updates == Append(InOrder(slots, old, Staged(slots)), c)
  IN  CASE IsSync(c) /\ old # {} ->
             Cmd("control", MaxRev({s.rev : s \in syncs}), Strongest({s.kind : s \in syncs}), None)
        [] c.kind = "hot" ->
             [c EXCEPT !.arg = merge_momentum_active_pools_updates(
                                 [n \in DOMAIN updates |-> updates[n].arg])]
        [] OTHER -> c

\* stage_on_queue_full: a continue already staged absorbs the new one; a full
\* store gives up its oldest slot.
Stage(slots, c) ==
  LET rest == CoalesceSlots(slots, c)
  IN  IF c.kind = "continue" /\ \E i \in DOMAIN rest : rest[i].kind = "continue"
      THEN rest
      ELSE Append(IF Len(rest) < PendingCap THEN rest ELSE Tail(rest),
                  CoalesceCommand(slots, c))

\* try_dedupe_enqueue: TRUE when the sender need not send.
InflightStrengths == {s \in 0..2 : inflight[s] > 0}

Deduped(kind) ==
  \/ kind \in SyncKinds /\ (InflightStrengths # {} \/ Syncs # {})
  \/ kind = "continue" /\ (evicts > 0 \/ \E i \in DOMAIN pending : pending[i].kind = "continue")

\* What deduping does to the store: nothing when an equal or stronger intent
\* is in flight, otherwise a fresh revision for the merged slot.
DedupeEffect(kind) ==
  LET rev == issued["control"] + 1
      skip == \/ kind \in SyncKinds /\ \E s \in InflightStrengths : Strength(kind) <= s
              \/ kind = "continue" /\ evicts > 0
  IN  IF skip THEN UNCHANGED <<pending, issued>>
      ELSE /\ issued' = [issued EXCEPT !["control"] = rev]
           /\ pending' = IF kind = "continue"
                         THEN [i \in DOMAIN pending |->
                                 IF pending[i].kind = "continue"
                                 THEN [pending[i] EXCEPT !.rev = rev] ELSE pending[i]]
                         ELSE Stage(pending, Cmd("control", rev, kind, None))

------------------------------------------------------------------------------
(* Sending: track_worker_try_enqueue, by any thread.                       *)

KeyOf(kind, m) == CASE kind \in {"pin", "unpin"} -> m
                    [] kind = "hot" -> "momentum"
                    [] OTHER -> "control"

\* Dedupe, or take the next revision of the key (one critical section).
Begin(t, kind, m, arg) ==
  /\ at[t] = "idle"
  /\ UNCHANGED <<queue, depth, applied, inflight, evicts>>
  /\ IF Deduped(kind)
     THEN DedupeEffect(kind) /\ UNCHANGED senders
     ELSE LET k == KeyOf(kind, m)
          IN  /\ issued' = [issued EXCEPT ![k] = @ + 1]
              /\ out' = [out EXCEPT ![t] = Cmd(k, issued[k] + 1, kind, arg)]
              /\ at' = [at EXCEPT ![t] = "wrapped"]
              /\ UNCHANGED pending

QueueFull == depth >= QueueCap \/ Len(queue) >= QueueCap

\* Seeded defect: a command that finds the queue full is dropped.
TrySendOrDrop(t) ==
  /\ at[t] = "wrapped"
  /\ queue' = IF QueueFull THEN queue ELSE Append(queue, out[t])
  /\ at' = [at EXCEPT ![t] = IF QueueFull THEN "idle" ELSE "sent"]
  /\ out' = [out EXCEPT ![t] = IF QueueFull THEN None ELSE @]
  /\ UNCHANGED <<bot, depth, store, worker, tracked, start, budget>>

TrySend(t) ==
  /\ at[t] = "wrapped"
  /\ IF QueueFull
     THEN /\ pending' = Stage(pending, out[t])
          /\ at' = [at EXCEPT ![t] = "idle"]
          /\ out' = [out EXCEPT ![t] = None]
          /\ UNCHANGED queue
     ELSE /\ queue' = Append(queue, out[t])
          /\ at' = [at EXCEPT ![t] = "sent"]
          /\ UNCHANGED <<pending, out>>
  /\ UNCHANGED <<bot, depth, issued, applied, inflight, evicts, worker, tracked, start, budget>>

CountSlot(t) ==
  /\ at[t] = "sent"
  /\ depth' = depth + 1
  /\ at' = [at EXCEPT ![t] = "counted"]
  /\ UNCHANGED <<bot, out, queue, store, worker, tracked, start, budget>>

note_inflight_enqueued(t) ==
  /\ at[t] = "counted"
  /\ inflight' = IF IsSync(out[t]) THEN [inflight EXCEPT ![Strength(out[t].kind)] = @ + 1]
                                   ELSE inflight
  /\ evicts' = IF out[t].kind = "continue" THEN evicts + 1 ELSE evicts
  /\ at' = [at EXCEPT ![t] = "idle"]
  /\ out' = [out EXCEPT ![t] = None]
  /\ UNCHANGED <<bot, queue, depth, pending, issued, applied, worker, tracked, start, budget>>

------------------------------------------------------------------------------
(* The producers.                                                          *)

Spend(what) == budget[what] > 0 /\ budget' = [budget EXCEPT ![what] = @ - 1]

\* restore_explicit_set_from_snapshot_on_startup: main sends the snapshot if
\* there is one, then a push, and waits for the barrier; nobody else runs yet.
Boot ==
  /\ phase = "starting" /\ boot # <<>>
  /\ Begin("main", Head(boot), None, None)
  /\ boot' = Tail(boot)
  /\ UNCHANGED <<bot, worker, tracked, barrier, phase, disk, budget>>

\* wait_ready: the other tasks are spawned, or the process bails out.
BootDone ==
  /\ phase = "starting" /\ boot = <<>> /\ at["main"] = "idle"
  /\ \/ barrier = "ready" /\ phase' = "up"
     \/ barrier = "failed" /\ phase' = "down"
  /\ UNCHANGED <<bot, senders, queue, depth, store, worker, tracked, barrier, boot, disk, budget>>

\* md_state_process_job: TrackWalletMint or WithdrawWalletMint.
WalletDemand ==
  \E m \in Mints :
    /\ phase = "up" /\ Spend("wallet")
    /\ wanted' = [wanted EXCEPT ![m] = ~@]
    /\ Begin("md", IF wanted[m] THEN "unpin" ELSE "pin", m, None)
    /\ UNCHANGED <<bot, worker, pinned, hot, lastTarget, deferred, synced, start>>

\* A refreshed window, a cache fill or a config change asks for a sync.
IngestControl ==
  \E kind \in {"debounced", "config"} :
    /\ phase = "up" /\ Spend("control")
    /\ Begin("main", kind, None, None)
    /\ UNCHANGED <<bot, worker, tracked, start>>

\* activity_interval: deferred pins are retried.  The tick is longer than the
\* worker needs for one: none is sent while another is under way.
ActivityTick ==
  /\ phase = "up" /\ deferred # {}
  /\ \A i \in DOMAIN queue : queue[i].kind # "retry"
  /\ \A i \in DOMAIN pending : pending[i].kind # "retry"
  /\ due = "none"
  /\ Begin("main", "retry", None, None)
  /\ UNCHANGED <<bot, worker, tracked, start, budget>>

------------------------------------------------------------------------------
(* The momentum-bot and the coalescer.  Every publish is a task of its own *)
(* on core NATS: updates overtake each other and may be lost.              *)

\* A tick is still to come: what is lost or reordered now can be repaired.
TickLeft == budget.ticks > 0

\* flush_momentum_active_pool_publish_queue: an incremental update.
BotChange ==
  \E p \in Pools :
    /\ phase = "up" /\ TickLeft /\ Spend("changes")
    /\ active' = (active \ {p}) \cup ({p} \ active)
    /\ wire' = wire \cup {[full |-> FALSE, on |-> {p} \ active, off |-> {p} \cap active]}
    /\ UNCHANGED <<burst, senders, queue, depth, store, worker, tracked, start>>

\* reconcile_momentum_active_pools_snapshot_publish: the periodic snapshot.
\* After the last one nothing older is under way.
BotTick ==
  /\ phase = "up"
  /\ budget.ticks = 1 => wire = {} /\ burst = <<>>
  /\ Spend("ticks")
  /\ wire' = wire \cup {[full |-> TRUE, on |-> active, off |-> {}]}
  /\ UNCHANGED <<active, burst, senders, queue, depth, store, worker, tracked, start>>

\* momentum_coalesce_try_send: delivered, or lost on the way.
Deliver ==
  \E u \in wire :
    /\ wire' = wire \ {u}
    /\ \/ burst' = Append(burst, u) /\ UNCHANGED budget
       \/ TickLeft /\ Spend("faults") /\ UNCHANGED burst
    /\ UNCHANGED <<active, senders, queue, depth, store, worker, tracked, start>>

\* spawn_momentum_tracking_coalescer: the burst becomes one command.
CoalesceBurst ==
  /\ burst # <<>>
  /\ Begin("coalescer", "hot", None, merge_momentum_active_pools_updates(burst))
  /\ burst' = <<>>
  /\ UNCHANGED <<active, wire, worker, tracked, start, budget>>

------------------------------------------------------------------------------
(* The worker.                                                             *)

\* track_worker_prepare_command_delivery, for an applicable command.
Prepare(c) ==
  /\ due' = IF due = "none" THEN "armed" ELSE due
  /\ contEvict' = (contEvict \/ c.kind = "continue")

Fault == Spend("faults")

\* retry_deferred_hot_pool_reserve_registrations: a pool no longer hot is
\* forgotten, one whose state is still missing stays.
Retry(h, d) ==
  \/ deferred' = {} /\ UNCHANGED budget
  \/ d \cap h # {} /\ deferred' = d \cap h /\ Fault

Admitted(p, h, d) == p \cup (h \ d)

mark_applied(c) == applied' = [applied EXCEPT ![c.key] = IF c.rev > @ THEN c.rev ELSE @]

\* Seeded defect: a rejected command is not staged again.
RejectDropped(c) == Fault /\ UNCHANGED <<pending, applied, pinned>>

\* The admission gate rejects: the revision does not advance and the command
\* is staged for replay.
Reject(c) == Fault /\ pending' = Stage(pending, c) /\ UNCHANGED <<applied, pinned>>

\* apply_wallet_pin and withdraw_wallet_pin.
Wallet(c) ==
  /\ \/ /\ pinned' = IF c.kind = "pin" THEN pinned \cup {c.key} ELSE pinned \ {c.key}
        /\ mark_applied(c)
        /\ UNCHANGED <<pending, budget>>
     \/ /\ c.kind = "unpin" => c.key \in pinned
        /\ Reject(c)
  /\ UNCHANGED <<hot, lastTarget, deferred, flag, barrier>>

\* apply_momentum_active_pools_on_track_worker.  A pool the gate or a missing
\* pool state keeps out is deferred.
Hot(c) ==
  LET u == c.arg IN
  /\ hot' = Applied(u)
  /\ lastTarget' = IF u.full THEN u.on ELSE lastTarget
  /\ \/ Retry(hot', deferred)
     \/ \E p \in u.on \ (hot \ deferred) : deferred' = (deferred \cap hot') \cup {p} /\ Fault
  /\ mark_applied(c)
  /\ UNCHANGED <<pending, pinned, flag, barrier>>

\* Seeded defect: a continued push forgets the barrier main waits for.
SyncIntentNoFlag(c) ==
  /\ flag' = (flag \/ (c.kind # "continue" /\ barrier # "ready"))
  /\ mark_applied(c)
  /\ UNCHANGED <<pending, pinned, hot, lastTarget, deferred, barrier, budget>>

\* Push, debounced push, config change, continue: only the barrier is noted.
SyncIntent(c) ==
  /\ flag' = (flag \/ (c.kind # "config" /\ barrier # "ready"))
  /\ mark_applied(c)
  /\ UNCHANGED <<pending, pinned, hot, lastTarget, deferred, barrier, budget>>

\* apply_explicit_set_snapshot: the rows on disk, or an admission overflow.
Restore(c) ==
  /\ hot' = hot \cup disk.pools
  /\ pinned' = pinned \cup disk.mints
  /\ flag' = TRUE
  /\ \/ UNCHANGED <<barrier, budget>>
     \/ barrier' = "failed" /\ Fault
  /\ mark_applied(c)
  /\ UNCHANGED <<pending, lastTarget, deferred>>

RetryDeferred(c) ==
  /\ Retry(hot, deferred)
  /\ mark_applied(c)
  /\ UNCHANGED <<pending, pinned, hot, lastTarget, flag, barrier>>

\* track_worker_process_command and track_worker_apply_protocol_command.
Process(c) ==
  \/ c.key \in Mints /\ Wallet(c)
  \/ c.kind = "hot" /\ Hot(c)
  \/ c.kind \in SyncKinds \cup {"continue"} /\ SyncIntent(c)
  \/ c.kind = "restore" /\ Restore(c)
  \/ c.kind = "retry" /\ RetryDeferred(c)

\* A superseded command is dropped, any other arms the push and is applied.
Handle(c) ==
  IF is_applicable(c)
  THEN Prepare(c) /\ Process(c)
  ELSE UNCHANGED <<due, contEvict, flag, pending, applied, pinned, hot, lastTarget, deferred,
                   barrier, budget>>

Saturated(n) == IF n > 0 THEN n - 1 ELSE 0

\* Seeded defect: the depth counter is decremented unchecked.
on_dequeue_unchecked(c) ==
  /\ depth' = depth - 1
  /\ inflight' = IF IsSync(c) THEN [inflight EXCEPT ![Strength(c.kind)] = Saturated(@)] ELSE inflight
  /\ evicts' = IF c.kind = "continue" THEN Saturated(evicts) ELSE evicts

\* track_worker_on_dequeue.
on_dequeue(c) ==
  /\ depth' = Saturated(depth)
  /\ inflight' = IF IsSync(c) THEN [inflight EXCEPT ![Strength(c.kind)] = Saturated(@)] ELSE inflight
  /\ evicts' = IF c.kind = "continue" THEN Saturated(evicts) ELSE evicts

Running == phase # "down" /\ at["worker"] = "idle"

\* The receive part of the loop: one command after the other.
Receive ==
  /\ Running /\ wpc = "recv" /\ queue # <<>>
  /\ queue' = Tail(queue)
  /\ on_dequeue(Head(queue))
  /\ Handle(Head(queue))
  /\ UNCHANGED <<bot, senders, issued, wpc, todo, wanted, synced, boot, phase, disk>>

\* take_applicable_pending_sorted: streams in the order they were staged, each
\* by revision (wallet demand is one stream).
StreamOf(c) == IF c.key \in Mints THEN "wallet" ELSE c.key

\* No slot before the i-th is of its stream; slots i and j are replayed in this
\* order.
OpensStream(slots, i) == \A j \in 1..(i - 1) : StreamOf(slots[j]) # StreamOf(slots[i])
Before(slots, i, j) ==
  IF StreamOf(slots[i]) = StreamOf(slots[j])
  THEN slots[i].rev < slots[j].rev \/ (slots[i].rev = slots[j].rev /\ i < j)
  ELSE \E m \in 1..i : /\ OpensStream(slots, m) /\ StreamOf(slots[m]) = StreamOf(slots[i])
                        /\ \A n \in 1..m : StreamOf(slots[n]) # StreamOf(slots[j])

Replayed(slots) == {r \in (DOMAIN slots) \X (DOMAIN slots) : Before(slots, r[1], r[2])}

DrainPending ==
  /\ Running /\ wpc = "recv" /\ queue = <<>>
  /\ pending # <<>> \/ due # "none"
  /\ todo' = InOrder(pending, {i \in DOMAIN pending : is_applicable(pending[i])}, Replayed(pending))
  /\ pending' = <<>>
  /\ wpc' = "replay"
  /\ UNCHANGED <<bot, senders, queue, depth, issued, applied, inflight, evicts, due, contEvict,
                 flag, tracked, start, budget>>

Replay ==
  /\ Running /\ wpc = "replay" /\ todo # <<>>
  /\ todo' = Tail(todo)
  /\ Handle(Head(todo))
  /\ UNCHANGED <<bot, senders, queue, depth, issued, inflight, evicts, wpc, wanted, synced, boot,
                 phase, disk>>

\* The coalescing deadline passes.
DeadlinePasses ==
  /\ due = "armed" /\ due' = "passed"
  /\ UNCHANGED <<bot, senders, queue, depth, store, wpc, todo, contEvict, flag, tracked, start, budget>>

NotDue ==
  /\ Running /\ wpc = "replay" /\ todo = <<>> /\ due # "passed"
  /\ wpc' = "recv"
  /\ UNCHANGED <<bot, senders, queue, depth, store, todo, due, contEvict, flag, tracked, start, budget>>

\* track_worker_execute_coalesced_push.  It completes; its budget runs out
\* before the new set is published; or the admission does not converge, which
\* fails the barrier.  The worker follows up an incomplete one.
PushDone ==
  /\ synced' = Admitted(pinned, hot, deferred')
  /\ barrier' = IF flag THEN "ready" ELSE barrier
  /\ wpc' = "recv"

\* Seeded defect: an incomplete push is not followed up.
PushCutForgotten ==
  /\ Admitted(pinned, hot, deferred') # synced \/ contEvict
  /\ UNCHANGED <<synced, barrier>>
  /\ wpc' = "recv"

PushCut ==
  /\ Admitted(pinned, hot, deferred') # synced \/ contEvict
  /\ UNCHANGED <<synced, barrier>>
  /\ wpc' = "continue"

PushUnconverged ==
  /\ UNCHANGED synced
  /\ barrier' = "failed"
  /\ wpc' = "continue"

Push ==
  /\ Running /\ wpc = "replay" /\ todo = <<>> /\ due = "passed"
  /\ due' = "none" /\ contEvict' = FALSE /\ flag' = FALSE
  /\ \/ Retry(hot, deferred) /\ PushDone
     \/ deferred' = deferred \cap hot /\ Fault /\ (PushCut \/ PushUnconverged)
  /\ UNCHANGED <<bot, senders, queue, depth, store, todo, wanted, pinned, hot, lastTarget, boot,
                 phase, disk>>

SendContinue ==
  /\ Running /\ wpc = "continue"
  /\ Begin("worker", "continue", None, None)
  /\ wpc' = "recv"
  /\ UNCHANGED <<bot, todo, due, contEvict, flag, tracked, start, budget>>

------------------------------------------------------------------------------
WorkerInit ==
  \E snap \in BOOLEAN :
    /\ active = {} /\ wire = {} /\ burst = <<>>
    /\ out = [t \in Threads |-> None] /\ at = [t \in Threads |-> "idle"]
    /\ queue = <<>> /\ depth = 0
    /\ pending = <<>>
    /\ issued = [k \in Keys |-> 0] /\ applied = [k \in Keys |-> 0]
    /\ inflight = [s \in 0..2 |-> 0] /\ evicts = 0
    /\ wpc = "recv" /\ todo = <<>> /\ due = "none" /\ contEvict = FALSE /\ flag = FALSE
    /\ disk = IF snap THEN [pools |-> Pools, mints |-> Mints] ELSE [pools |-> {}, mints |-> {}]
    /\ wanted = [m \in Mints |-> snap] /\ pinned = {}
    /\ hot = {} /\ lastTarget = None /\ deferred = {} /\ synced = {}
    /\ barrier = "pending" /\ phase = "starting"
    /\ boot = IF snap THEN <<"restore", "push">> ELSE <<"push">>
    /\ budget \in Budgets

Send(t) == TrySend(t) \/ CountSlot(t) \/ note_inflight_enqueued(t)

WorkerStep == Receive \/ DrainPending \/ Replay \/ NotDue \/ Push \/ SendContinue

WorkerNext ==
  \/ Boot \/ BootDone \/ WalletDemand \/ IngestControl \/ ActivityTick
  \/ BotChange \/ BotTick \/ Deliver \/ CoalesceBurst
  \/ \E t \in Threads : Send(t)
  \/ WorkerStep \/ DeadlinePasses

WorkerSpec == WorkerInit /\ [][WorkerNext]_workerVars

\* Threads run, deadlines pass, the bot's interval ticks and NATS delivers.
Fairness ==
  /\ \A t \in Threads : WF_workerVars(Send(t))
  /\ WF_workerVars(WorkerStep) /\ WF_workerVars(DeadlinePasses)
  /\ WF_workerVars(Boot) /\ WF_workerVars(BootDone) /\ WF_workerVars(ActivityTick)
  /\ WF_workerVars(BotTick) /\ WF_workerVars(Deliver) /\ WF_workerVars(CoalesceBurst)

FairSpec == WorkerSpec /\ Fairness

------------------------------------------------------------------------------
(* Properties.                                                             *)

\* Every variable keeps its type.  queue_depth and the in-flight counters are
\* raised after the send: the worker may lower them first, and must not wrap.
TypeOK ==
  /\ active \subseteq Pools /\ wire \subseteq Update /\ burst \in Seq(Update)
  /\ \A t \in Threads : out[t] \in Command \cup {None}
  /\ queue \in Seq(Command) /\ Len(queue) <= QueueCap /\ depth \in Nat
  /\ pending \in Seq(Command) /\ Len(pending) <= PendingCap /\ todo \in Seq(Command)
  /\ issued \in [Keys -> Nat] /\ applied \in [Keys -> Nat]
  /\ inflight \in [0..2 -> Nat] /\ evicts \in Nat
  /\ pinned \subseteq Mints /\ hot \subseteq Pools /\ deferred \subseteq hot

\* Start-up always ends (wait_ready): whatever slices the restore's push needs,
\* the barrier is signalled and market-data goes on or bails out.
StartupSettles == <>(phase # "starting")

\* The wallet's last demand for each mint is what ends up pinned, through full
\* queues, rejected admissions and replays (I-MD-5 in worker.rs).
WalletConverges == <>[](phase = "up" => pinned = {m \in Mints : wanted[m]})

\* The subscription ends up with everything the worker has pinned: no push is
\* lost, none is left incomplete, and deferred pools are registered.
Published == <>[](phase = "up" => synced = pinned \cup hot)

\* The bot's full snapshots repair lost additions: every pool it wants hot
\* ends up hot.
ActiveRecovers == <>[](phase = "up" => active \subseteq hot)

==============================================================================
