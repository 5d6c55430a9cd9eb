# Iron Crab: TLA+ models, model checks and proofs

Iron Crab is a multi-process Solana trading system. This directory holds TLA+
specifications of its core: the *execution engine* that handles the money, the
*position books* of position-manager and momentum-bot, and the parts of
*market-data* the others rely on (which accounts are watched, and what the pool
caches say). With them come the TLC configurations that check them on small
instances and the TLAPS proofs that hold for every instance. All paths below
are relative to the repository; `locks.rs` is `src/storage/locks.rs` and
`execution_engine.rs`, `momentum_bot.rs`, `market_data.rs` and
`position_manager.rs` are in `src/bin/`.

To check a run: `tlc -config <cfg> <module>`; to check the proofs of a
component: `tlapm` on the proof module that section 2 names for it.

## 1. The system

### Processes and messages

```
 Geyser / RPC            NATS + JetStream                     Solana / Jito
      |                                                            ^
 market-data --- pool state, wallet snapshots, tx confirms --.     | transactions,
      |                                                      v     | bundles
      +--> momentum-bot --- TradeIntent --------------> execution-engine
      +--> arb-strategy --- TradeIntent -------------->    |   |
                  ^                                        |   +-> DecisionRecord,
                  +------------- ExecutionResult ----------+       ExecutionResult
 control plane / UI --- ControlRequest, ConfigUpdate ----->|       (NATS, JSONL)
 position-manager <---- ExecutionResult, snapshots --------+
```

Strategies never sign. They publish a `TradeIntent`; the execution engine is
the only signer. It takes each intent through *check - lock - plan - simulate -
send - confirm - account - release* and answers with a decision record and an
execution result. Everything it knows about the wallet comes from market-data,
over at-least-once, unordered streams.

### Inventory

| Component | State | Operations | Interacts with | What is hard | What makes it correct |
|---|---|---|---|---|---|
| LockManager, capital (`locks.rs`) | free SOL, WSOL, tokens; one lock per intent with phase, bucket, TTL; `wsol_initialized` | `try_lock_capital`, `renew_capital_lock_ttl`, `promote_capital_lock_to_in_flight`, `release_locks`, `release_locks_after_confirmed_sell`, `cleanup_expired`, `update_*`, `set_` and `add_available_token_balance` | every intent task, snapshot consumer, timer | several locks, two-section operations, reports that contradict reservations, expiry | conservation; an in-flight reservation is touched by nobody else; no u64 wraps |
| LockManager, pools and `FairnessTracker` | holder and TTL per pool; preemption times; protection | `try_lock_resource`, `release_resource_locks_for_intent`, `cleanup_expired` | intent tasks, timer | preemption, windows, protection shorter than the window, losers that build on | who builds undisturbed holds the pool; preemption is bounded |
| LockManager, wallet presence | presence, balance, close slot per mint | `apply_wallet_token_snapshot`, `clear_token_wallet_presence` | snapshot consumer, liquidation, SELL tasks | late and duplicate snapshots; unlocked gaps | a closed account is not revived by old news |
| LockManager, idempotency set | processed ids | `is_duplicate`, `mark_processed`, save, restore | intent tasks, state snapshot | redelivery, crash | one intent trades once |
| Intent pipeline (`process_intent`) | permits, per-task progress | one per stage | all of the above | concurrency, early exits, ambiguous sends, timeouts | nothing leaks; sent means reserved; books settle; every intent ends |
| Transaction confirmation | `pending_tx_confirms`, orphan buffer, channels | register, dispatch, evict, wait, poll Jito | market-data, Jito, intent tasks | register/dispatch race, duplicate and late confirms, deadlines | the outcome is true; every waiter ends |
| State snapshot, kill switch | `execution_state.json`, flag | save, load, kill switch, reset | control plane | crash inside a write, ack before processing | an ordered stop holds; a saved intent is not repeated |
| Wallet snapshot consumer | batch, last value per mint | coalesce, apply | LockManager | batching over an unordered stream | the newest value wins |
| Liquidation job | in-progress flag, inventory | run, retry | kill switch, pipeline | duplicate requests, partial failure | everything is sold or reported |
| Send path, bundle tip | sender list, fallback order | send, tip | RPC, Jito | errors after the bytes are out | at most one fallback executes |
| WsolManager | pending wrap, thresholds | wrap, unwrap, confirm | LockManager | the pending-wrap floor against snapshots | native reserve is kept |
| AccountJanitor | none | close empty accounts | RPC | - | closes only empty accounts |
| LivePoolCache, PoolCacheSync | per pool: reserves, slot of the last change, newest slot seen | `upsert`, `update_vault_balance`, `apply_pool_cache_update`, bootstrap | market-data threads, JetStream, engine | several writers and two locks, partial parses, publish workers and a bounded queue, restarts | a known pair of reserves and the watermark are kept; a fresh tick repairs what went wrong |
| Tx builder, quote calculator | none | build, quote | pool cache | 128-bit arithmetic | min_out is honoured |
| PositionAuthority, position-manager | balance and status per mint, KV queue and bucket | `apply_buy`, `apply_sell`, `apply_wallet_snapshot(_complete)`, publish, restart | results, wallet scans, momentum-bot | order of results and snapshots, redelivery, crash, failed KV writes | positions come to equal holdings |
| market-data, track worker | command queue, pending slots, revisions, in-flight counters, pinned and hot sets, start-up barrier | enqueue, dedupe, stage, replay, coalesced push, restore | ingest threads, momentum-bot, Geyser | several senders, full queue, rejected admissions, cut pushes, lost messages | the last demand is what ends up subscribed; start-up ends |
| market-data, admission | owner groups, account counter, stamps, cap | admit, evict, replace, shrink, shed, converge, restore | track worker | shared accounts, tiers, joint eviction | the counter is exact; what can fit does fit |
| market-data, ingest and publish, cold path | coalescing queues, publish workers | parse, publish, refresh over RPC | Geyser, RPC, NATS | ordering, reconnect | every change is published |
| momentum-bot | tracker, position, pending intents, hints | probe, scale in, exit, handle results and snapshots | intents, results, authority bucket | orphaned, late and repeated results, stale snapshots | no fill counts twice; the bot ends flat |
| arb-strategy | in-flight set | find cycles, publish | intents, results | lost or repeated results | one open intent per target |
| JsonlWriter, NATS client, IPC schema, metrics | files, connections | append, rotate, publish | all | I/O errors | - |
| Control plane, UI, scripts | - | operator requests | engine | - | - |

`PROJECT.json` lists every component with its status and, where it is not
modelled, the reason.

## 2. Modules

| Module | Models | Builds on |
|---|---|---|
| `CapitalLocks` | the capital half of LockManager | - |
| `ResourceLocks` | pool locks and FairnessTracker | - |
| `WalletPresence` | presence, close slots and slot-ordered snapshots of one mint | - |
| `TxConfirm` | waiter registration, dispatch, orphan buffer, deadlines, Jito | - |
| `IntentPipeline` | `process_intent` from delivery to release | instance `Cap` of `CapitalLocks` on shared variables |
| `EngineRestart` | state file, kill switch, idempotency set across crashes | - |
| `PositionAuthority` | the reducer, its two hosts, the KV mirror, wallet scans | - |
| `MomentumPositions` | the life of one token in momentum-bot | - |
| `TrackWorker` | commands to the md-track-worker thread, pushes, start-up barrier | - |
| `TrackAdmission` | which account groups fit under the cap | - |
| `PoolCache` | one pool in market-data's and the engine's cache | - |
| `CapitalLocksProofs`, `EngineRestartProofs`, `PositionAuthorityProofs`, `MomentumPositionsProofs`, `TrackAdmissionProofs` | theorems | their module |
| `EngineProofs` | theorems | `ResourceLocks`, `WalletPresence`, `TxConfirm` |
| `MarketDataProofs` | theorems | `PoolCache`, `TrackWorker` |
| `IntentPipelineProofs` | theorems | `IntentPipeline`, instance `CapP` of `CapitalLocksProofs` |
| `MC*` | TLC instances | their module |

The granularity is the same everywhere: *one step is one critical section* (one
hold of a `parking_lot` lock, one map access, one file operation) or one await.
An operation that takes a lock twice is two actions with the local state in
between kept in a variable. Definitions carry the source's names where there is
one function for the definition. "Seeded defect" definitions are not part of
any specification: they are wrong versions of the definition below them, used
to see that a property notices.

### CapitalLocks

`capital_locks[i]` is the entry of the map, with phase `"None"` standing for a
missing entry. `overdue` stands for `created_at + ttl < now`, so time is the
action `TtlElapses`. `trying` and `adding` hold the local state of the two
operations that consist of two critical sections: `try_lock_capital` (cleanup
and the read of `wsol_initialized`, then the reservation) and
`add_available_token_balance` (read, then write). `chain_*` and `base_*` are
history: the last report and what was reserved at that moment. Callers are
unconstrained: every operation may be called for every intent at any time, so
what holds here holds for every caller in the engine. `update_balances` is
called from tests only and is left out.

### ResourceLocks

`now` is the clock of the fairness windows; the TTL of a lock is an
independent `overdue` flag. `try_lock_resource` is cleanup, then a decision
under the write lock. `FairnessTracker::cleanup_expired` has no caller and is
left out. Pool locks of one intent are released together, which is also what
the promotion to in-flight does with them.

A lock is worth what its holder makes of it, so the module follows
`process_intent` too: `building[i]` are the pools it was given (an
acquisition by preemption counts like any other), `rejected` the intents
that met a conflict and are about to release everything they hold. Nothing tells
an intent that a pool was preempted or expired under it: it builds on, and
`lost[i]`, which is history, remembers it.

### WalletPresence

One mint, the chain that changes it, and three tasks: two that apply snapshots
(check, remove the close marker, mark present, set the balance), which are the
wallet snapshot consumer and the liquidation, and the SELL task
(`clear_token_wallet_presence`: three writes). Each step is one hold of one
`RwLock` and nothing excludes the tasks from each other, so all their steps
interleave. Any published snapshot may be handled at any later time, any number
of times. `last_close` and `raced` are history: the close recorded last, and
whether the handling of a snapshot overlapped it.

### TxConfirm

A task registers a waiter (check the orphan buffer, insert in
`pending_tx_confirms`, check again) before the send of a bundle and after the
send of a single transaction. The dispatcher looks in `pending_tx_confirms` and,
in a second step, buffers the confirm as an orphan. The waiter ends on its
channel, its deadline, or Jito's answer. That a bundle Jito calls confirmed has
succeeded is an assumption about Jito (bundles are atomic). Rebroadcasting
changes no state the outcome depends on.

### IntentPipeline

A task is one delivery of an intent; `pc` follows it through `process_intent`.
The capital locks are `CapitalLocks` itself (`Cap!try_lock_capital_begin`, ...),
after start-up has set `wsol_initialized`. Simplifications: the verdict of the
risk gates, of the plan builder and of the simulation is a free choice; a pool
lock is granted or refused freely (`ResourceLocks` says when); the confirmation
outcome is constrained by what the chain did, as `TxConfirm` establishes;
applying a snapshot is one step (`WalletPresence` has its inner steps). The
chain (`LandOk`, `LandErr`) and the feed (`feed`, per account, in slot order,
applied in batches of which only the last counts) are external. A submitted
transaction may land at any later time, also after its deadline. The wait of a
redelivered intent for its twin's two-step reservation is the only scheduling
restriction. Replay mode is left out.

The environment is a value of `Worlds`, chosen at the start and kept:

- `IntentOf`: which intent each delivery carries, so that two may be one;
- `TtlCovers`: the pre-send TTL is longer than planning plus sending;
- `PublishFails`: writing or publishing a record may return an error.

`AmbiguousSend` says that a sender may report an error although the network
has the transaction; it is on in `pipeline` and off in `pipeline_twice`, where
nothing but the redelivery is meant to go wrong. `NoLeakedReservation` is required
where records do not fail, `InFlightReserved` where locks outlive planning and
no second copy of the intent runs: section 4 says what the code does otherwise.

### EngineRestart

`file` is `execution_state.json`; a save truncates it (`BeginSave`) and then
writes it (`SaveCompletes`). A crash or disk error in between leaves `Torn`,
from which `load` restores nothing. An intent is acknowledged after it is
enqueued and before it is processed; an unacknowledged one is delivered again.
`ordered` is history: what an operator may rely on. One delivery of an intent
is processed at a time here; concurrent copies are `IntentPipeline`'s subject.

### PositionAuthority

`by_mint` is the reducer's map, `kv` the POSITION_AUTHORITY bucket, `queue` the
batches waiting for the KV worker. `host` is the process the reducer runs in:
the engine enqueues under the reducer's lock and applies a result once, from
memory; position-manager enqueues after the lock is released, from two tasks,
and its results are redelivered until they are acknowledged. `PeriodicScan` is
`publish_wallet_snapshot`: one snapshot per subject into a stream that keeps the
last one, and a completion list over core NATS that may be lost. `Restart`
rebuilds the reducer from the stream. The 90 s of grace are a flag that
`GraceExpires` clears. Trades (`WalletChange`) are external. SOL and WSOL, which
the reducer ignores, and the data it copies along are left out.

### MomentumPositions

The main loop is one thread of steps; the intent publish worker, the authority
watcher and the exit scan that a confirmed BUY spawns run beside it. `tracker`
is the entry state machine, `pos` the position (`latched` is `exit_generated`,
`fresh` the 90 s of grace and the time before `max_hold_time`, `cooling` the
retry delay), `entry` the pending-BUY index, `hint` the wallet hint. The engine
executes, fails, times out or executes after the time-out; a result may be
delivered again, a snapshot may be older than a trade (`was`), somebody else
may sell (`ForeignSale`). Whether to enter or leave is a free choice; hard
exits bypass the cooldown as in the code. A BUY fills one unit. SELL ids are
used again once nobody remembers them, which keeps the number of exit attempts
unbounded in a finite model.

### TrackWorker

A send is four steps (dedupe and revision, `try_send`, queue counter, in-flight
counter), because the worker runs between them. A command that finds the queue
full is staged and merged; the worker replays the staged ones by revision. The
worker's loop is receive, replay, push; a push that is cut short makes the
worker send itself ContinueGeyserEvict. The momentum-bot's updates are lost or
delivered in any order and coalesced. Here a command is admitted or rejected
freely; `TrackAdmission` says which. The Arb stream repeats the Momentum stream
and the Tracker stream has no producer: both are left out.

### TrackAdmission

The worker thread is the only caller, so every call is one step, and the
admission is a record that pure operators transform: `try_admit_owner_group`,
`try_replace_group`, `remove_group`, `try_shrink_cap`, `converge_admission`,
`restore_admission`. Most properties are about what an operator returns in every
reachable state, against a definition that knows nothing of tiers or greedy
choices. Stamps are compared within one consumer only, so what is kept of them
is the relation `older` between the admitted owners of a consumer. The loops of
the code (admit one owner after the other, remove one after the other, select
victims until enough is freed) are recursive functions over the turns of the
loop. The joint packages of the planner (two owners that only together free
a shared account) are kept: they are where the greedy choice is delicate.

A converged push may evict groups of the very demand it converges on, so the
same demand pushed again need not give the same accounts. What settles it is
the prune of the tracked maps after a ready push (`Pruned`): `PushSettles` says
that the demand that is left converges on the accounts that are subscribed. The
rows of a pool whose layout is not cached yet are planned later and are no part
of a demand.

### PoolCache

One hot pool whose vaults are tracked. `row` is market-data's entry, `srow` the
engine's. Four kinds of thread write `row` or publish it, and all interleave:

- the account thread (`acct`): pool accounts, whose parse has no reserves, and
  vault ticks; each is published through `outbox`;
- the two transaction threads (`tx`): a swap names the pool's accounts, the
  thread reads the row (`TxRead`), fills in what it lacks and upserts all of it,
  the reserves it read included, with the slot of the swap (`TxPrepare`,
  `TxCommit`); a PumpSwap row is then published as PoolDiscovered (`TxPublish`);
- cold-path tasks (`cold`): reserves read over RPC, published past the workers;
- the refresh from the cache (`beat`, for a pin or a heartbeat): reserves, then
  the slot, then the publication, past the workers too.

`upsert` takes the row's lock twice (`...Prepare` or `AccountUpdate`, then
`...Commit`), and `update_vault_balance` takes it once. `Enqueue` may drop the
message, because the publish queue is bounded and shared by all pools. The
dispatcher deals the jobs of all pools round robin, so each message of this
pool is at another worker and any of them may be stored next (`Worker(i)`). The
subject keeps one message. The engine reads it when it starts, creates its
durable consumer (a message may slip in between) and then applies and
acknowledges. Geyser jobs may be taken in any order, coalesced or dropped. The
kinds of pool differ in what a parse omits, in whether a swap gives away the
layout, and in whether the engine merges a PoolDiscovered with what it has.

`repaired` is history: the last thing to happen to the reserves in market-data
was that a vault tick of the newest slot was queued behind no other message,
with both reserves known and the engine's durable consumer in place.

## 3. Runs

Distinct states are for the configurations as they are.

| Run | Checks | Instance and bounds | States | Result |
|---|---|---|---|---|
| `capital` | `TypeOK`, `NativeBooks`, `WsolBooks`, `InFlightImmune`, `TokensLeaveOnlyWhenSold` | a BUY of 1 and a SELL of 1; reports 0..2 lamports, 0..1 tokens, fills of 1: reports above, at and below the reservation, and a flag that flips with reservations open | 331,580 | pass |
| `pools` | `PreemptionBound`, `BuilderKeepsPool` | two urgent intents and one victim on two pools; limit 2, window 2, protection 1, clock 0..4, which is two windows; urgent intents and pools are interchangeable (symmetry) | 1,301,994 | pass |
| `presence` | `ClosedStaysClosed`, `CleanCloseHolds` | 2 slots, amounts 0..1, close slot known or unknown, two tasks that apply snapshots and one that closes, all interleaved; any number of closes | 774,534 | pass |
| `confirm` | `OutcomeIsTrue`, `NoStaleWaiter`, `EveryTxDecided` | a single transaction and a bundle, each confirm delivered up to twice | 4,388 | pass |
| `pipeline` | `NoLeakedReservation`, `InFlightReserved`, `SettledBooks`, `EveryIntentEnds` | two worlds: a bundle BUY and a SELL of the same mint; one BUY delivered twice with locks that expire early and failing records. Two permits, one recovery, ambiguous sends | 144,386 | pass |
| `pipeline_twice` | `AtMostOneSend` | one BUY delivered twice, nothing else fails | - | violated |
| `restart` | `KillSwitchHolds`, `SavedNeverResent` | two intents, each sent at most twice; any number of crashes, failed saves and restarts | 29,314 | pass |
| `authority` | `TypeOK`, `KvFollows`, `Converges`, `KvConverges` | one mint, both hosts, two trades of up to 2 units, two snapshots on their way, one fault (redelivery, crash, failed call) | 399,094 | pass |
| `momentum` | `NoDoubleFill`, `GraceProtects`, `EventuallyFlat` | a probe and a scale-in, two SELLs alive at a time, one fault | 357,308 | pass |
| `track` | `TypeOK`, `StartupSettles`, `WalletConverges`, `Published`, `ActiveRecovers` | one mint, one pool, a queue of 1; four mixes of wallet demand, control commands, bot updates and up to three faults | 442,208 | pass |
| `admission` | `Books`, `PlannerExact`, `WalletAdmitted`, `ShrinkReaches`, `PushSettles`, `RestoreExact`, `ReadyInConfig` | eight owners of all five consumers, groups of up to 3 accounts that overlap, caps 1..4, four demands | 19,624 | pass |
| `poolcache` | `TickRepairs`, `PairKept`, `SeenKept` | PumpSwap, Orca, Raydium and Meteora CPMM; two slots, the first with the pool and one balance, the second with a swap and the other balance; one transaction thread, one refresh or restart | 2,493,236 | pass |

The bounds are small because the interesting cases need few actors: a race
takes two, a stale message takes one message and one change, and every seeded
defect shows within these bounds. A second mint, pool or token would add
independent copies: the models of one mint, pool or token have no step that
touches two.

What the passing runs show:

- **capital.** Free plus reserved lamports are what the feed last reported, or
  what was reserved at that report if that was more. The second half is not
  cosmetic: the code stores `report.saturating_sub(locked)`, so a report below
  the reservations makes the total exceed the wallet until the next report.
- **pools.** Because protection (30 s in production) is shorter than the
  window (60 s), a source may lose more than `max_preemptions` in a window:
  the limit plus one per protection period, and no more; the run reaches that
  number. A builder that was left in peace holds its pool. What could break
  this is the release by intent id of somebody it preempted, who ends later or
  is turned away at another pool, and it does not.
- **presence.** The race between a close and the handling of a snapshot
  (section 4) does not outlive the next close: after a close that nothing
  overlapped, and whatever happened before, the account counts as closed until
  there is news of it, although check and write remain separate.
- **pipeline.** With the stated assumptions nothing leaks and
  whatever is in flight stays reserved. Without them too, with two copies of
  an intent releasing each other's reservations, the WSOL books equal the
  wallet once all is quiet, also after late landings of transactions given up
  on, and every delivery ends.
- **confirm.** Whatever route a confirm takes, a `Confirmed` transaction did
  succeed, a `FailedConfirmed` single transaction did fail, and everyone ends.
- **restart.** An ordered stop holds across restarts as long as no restart
  reads a torn file; an intent in the file on disk is never repeated.
- **authority.** The reducer and the bucket may be wrong for a while (a fill
  counted twice, a snapshot older than a trade), but the periodic scan repairs
  both for good, whichever host runs the reducer. In the engine the bucket is
  the reducer's state whenever its queue is empty and no write failed.
- **momentum.** With at most one fault, a fill that arrives as a result, as an
  orphan and in a snapshot enlarges the position once (also with three BUYs,
  2,212,463 states); a young position does not fall to old news;
  failed, lost and repeated exits end with everything sold.
- **track.** With a queue of one nearly every command is staged, merged or
  deduplicated, and still the wallet's last demand is pinned, everything
  pinned is published and start-up ends.
- **admission.** The greedy planner is exact: it rejects a group only if no set
  of equally or less protected owners could make room, shared accounts
  included. Once a push has converged and the tracked maps are pruned, the next
  push converges on the same accounts, so an overfull demand does not make the
  subscription flap.
- **poolcache.** However messages are reordered, the engine never falls back
  from a known pair of reserves (for the kinds of pool whose discovery is
  merged), and what it refused as old it keeps refusing. It may hold old or
  wrong reserves for a while, even at an equal slot, because messages are dropped,
  overtake each other and carry reserves older than their stamp. What ends that
  is a tick of the newest slot that is queued behind no other message: from then
  on, until market-data changes the reserves or publishes them again, the
  engine that has read the subject has market-data's reserves. A tick queued
  behind another message may be overtaken by it, and promises nothing. (Also
  with one slot that touches everything and two refreshes or restarts,
  2,684,039 states, and with both transaction threads over two swaps, 434,140.)

Deadlock checking is off where a behaviour ends because a bound is used up or
all the work is done: `TxConfirm`, `IntentPipeline`, `MomentumPositions`,
`TrackWorker`, `PoolCache`.

### Fairness

`IntentPipeline` assumes weak fairness of each task: the runtime polls every
spawned task, and every await inside one has a deadline (lock waits, RPC
calls, sends, confirmation). Nothing is assumed of the network, the chain or
the feed: `LandOk`, `Snapshot` and `PeriodicCleanup` may never happen. A task
waits for a permit only until a running one ends. `TxConfirm` assumes weak
fairness of the send, of each waiter and of the second step of a dispatch that
has begun; a confirm may never be delivered at all.

`PositionAuthority` assumes weak fairness of the periodic scan (an interval
timer), of the two tasks of position-manager, of the drain of results, of the
KV worker's successful writes and of the clock. `MomentumPositions` assumes weak
fairness of the publish worker, the engine (every published intent is executed,
fails or times out), the clock, the exit handlers and the authority watcher, and
strong fairness of the arms of the main `select!` loop (results, timed exits,
wallet snapshots; completion lists may all be lost): each is ready again and again, not
continuously, because the others run in between, and `tokio::select!` picks
among ready arms at random. `TrackWorker` assumes weak fairness of each sender,
of the worker, of the coalescing deadline, of start-up, of the interval ticks of
market-data and of the bot, and of delivery of a message that is not lost.
`TrackAdmission` and `PoolCache` have no liveness property.

## 4. Findings

One is a run with expected violation; the counterexample was read and compared
with the code.

**Two copies of an intent are both sent** (`pipeline_twice`). `process_intent`
asks `is_duplicate` first and calls `mark_processed` only after the send. A
second delivery that passed the check before the send gets its capital once the
first has released it, and is sent as well. I-22 in `docs/INVARIANTS.md`
excludes this.

### Known departures

Places where the code does less than it, or a comment, says. They were seen
while exploring the models with TLC or reading for them. The modules keep
the behaviour; the properties of section 3 say where they except it.

Execution engine:

- A failed decision or result record leaks an in-flight reservation: the `?` at
  `execution_engine.rs:13690` returns after the promotion and before the
  release, and no TTL frees an in-flight lock.
- A snapshot from before a close revives the account, although `locks.rs:360`
  says it must not: it passes the staleness check (641), the SELL task records
  its close in three writes, and the snapshot goes on, removes the marker and
  marks the account present. A later plan then lacks CreateIdempotent.
  `CleanCloseHolds` confines this to closes that such a snapshot overlapped.
- A confirm is stranded in the orphan buffer: the dispatcher gives up `pending_tx_confirms` before it fills
  the buffer (`execution_engine.rs:14992`); a waiter that registers in between
  misses it in both places and ends at its deadline.
- A torn state file loses the kill switch: the file is rewritten in place (`execution_engine.rs:2037`).
- `add_available_token_balance` loses an update made between its two sections
  (`locks.rs:497-503`), although its comment says it adds.
- A report below the reservations makes `total_native_sol` exceed the on-chain
  balance (`locks.rs:576`), although the comment says they are equal.
- A preempted intent builds on beside the newcomer: `process_intent` treats
  `AcquiredByPreemption` like `Acquired` (`execution_engine.rs:11640`) and nobody
  tells the loser, nor a holder whose lock expired (`locks.rs:1096`). The
  comment at `locks.rs:975` says that pool locks serialise the builds on a pool.
- A close whose slot is unknown makes every later slotted snapshot stale
  (`locks.rs:687`).
- An early exit of a second delivery releases, by intent id, the in-flight
  reservation of the first (`execution_engine.rs:11652`); and if the pre-send
  TTL runs out first, the promotion finds nothing and nobody notices (13365).
- Capital of a timed-out or confirmed BUY is free before the feed reports the
  spending, so a second BUY may reserve lamports the wallet no longer has; a
  timed-out SELL that lands late gives its tokens back (14094).
- The BUY fill heuristic takes any balance of at least the fill as proof that
  the fill is included (13916); the next snapshot corrects it.
- The position limit counts confirmed positions only, so several BUYs pass at
  the limit (11328); the kill switch is read once, at the gates (11228).
- A bundle waiter that ends on Jito's answer leaves its entry in
  `pending_tx_confirms` until a later confirm (15246).
- A crash after the acknowledgement and before the decision loses the intent
  without a record (9753).
- The daily-loss gate never triggers: `record_pnl_lamports`
  (`execution_engine.rs:7040-7046`) has no caller.

Position books:

- position-manager enqueues KV changes after releasing the reducer's lock, from
  two tasks, so the bucket may get them in the other order; `kv_publish.rs:28`
  says "preserves reducer apply order". The next scan repairs it.
- The tombstone sweep after a restart waits for a WalletSnapshotComplete in the
  bootstrap, but that event is published on core NATS only
  (`market_data.rs:9486`) and is never there.
- A redelivered result counts a BUY twice, and a partial SELL applied after its
  own snapshot leaves a closed entry, until the next snapshot.
- At start-up the stale-subject cleanup may zero a token that is held, if the
  owner scan failed (`market_data.rs:9440-9455`).
- In momentum-bot an exit cancels a pending scale-in BUY in `pending_intents`
  only (`momentum_bot.rs:7255`). If that BUY then fails or times out, its
  pending-BUY entry stays and blocks the wallet-snapshot reconcile of the mint;
  so does a result that overtakes the booking after the publication. This is
  the exception in `EventuallyFlat`.
- A fill is counted twice after two faults: `wallet_snapshot_orphan_fill_already_applied`
  (`momentum_bot.rs:8056`) recognises a fill only in a position that a snapshot
  sized exactly like it. When a snapshot sizes the position with two fills, one
  of which still comes as an orphaned result, that one is added again.
  `NoDoubleFill` is therefore about histories with at most one fault.
- `check_for_exits` and the registration of the SELL are not one step: the main
  loop and a spawned scan may both sell (6965).
- After a scale-in the wallet hint is the last fill only (8905) and caps the
  next exit. The ghost close after an insufficient-balance simulation needs a
  zero hint, which is removed instead of stored.
- Saves and deletes of a position in KV are spawned tasks without an order.

Market-data:

- A full active-pool snapshot equal to the last one is skipped
  (`market_data.rs:7326`), so a lost removal is not repaired, although
  `nats/momentum_active_pools.rs:17` calls it authoritative. `ActiveRecovers` is
  therefore about additions.
- The in-flight counters of the track worker are raised after `try_send`; if
  the worker is faster, one is left too high and later sync intents are
  deduplicated away until it drops.
- All control commands share one revision: an older one that was staged is
  dropped once a newer one is applied; likewise a staged Momentum delta. Full
  pending slots evict the oldest (`pending.rs:514`).
- A burst of md-state jobs moves TrackMints behind WithdrawWalletMint
  (`md_state/worker.rs:64`).
- A group that grows beyond the cap is removed before it is refused
  (`admission_wiring.rs:158`), so a wallet demand above the cap ends with no
  wallet group. Convergence may report success although a later group of the
  same consumer evicted an earlier one.
- Four publish workers take the messages of one pool in turn
  (`publish/account.rs:226`) and can store them in reverse; `nats/topics.rs:89`
  expects the latest state to be kept.
- A newest reserve is lost in market-data: a transaction thread prepares its
  upsert from a row without the reserve, the account thread writes the newest
  vault tick, and the upsert stores what it prepared. The merge is documented
  to keep reserves that a parse does not carry (`live_pool_cache.rs:586`), but it
  is applied to the row of the first lock, and the second stores over whatever is
  there (1044; only an insert is merged again). The tick is not repeated, since
  the tracked vault remembers it as its last balance.
- A slot-0 hydration prepared before a Geyser upsert is stored over it and
  lowers the watermark (`live_pool_cache.rs:948-1044`), against the comment
  above `upsert`.
- A message that finds the publish queue full is dropped with a warning and
  not repeated (`publish/account.rs:71`).
- A transaction thread publishes the reserves it finds in the row under the
  slot of the swap (`sidefx/handlers.rs:1220`), and the refresh from the cache
  reads its slot after the reserves (`market_data.rs:6114`): the engine may be
  given old reserves under a new slot, and then refuse the tick between them.
- The backfill of reserves from the tracked vaults never finds a balance
  (`market_data.rs:5546-5592`): `VaultInfo.last_balance` is only ever
  initialised, to 0 (2593, 2611, 3962), and a rebuild of the membership snapshot
  puts that 0 over the last tick (4987).
- A vault tick may be accepted by market-data and refused by the engine, since
  one compares with the slot of the last change and the other with the newest
  slot seen. A tick the row refuses is remembered as the last balance, so its
  repetition is dropped as unchanged.
- A PoolDiscovered without reserves wipes the engine's pair for Raydium AMM and
  Meteora CPMM, which are not merged; `PairKept` is about the others.
- A message published between the engine's bootstrap and the creation of its
  durable consumer is missed (`execution_engine.rs:9006` says there is no gap).

## 5. Proofs

### CapitalLocksProofs

Theorems, for every finite set of intents, every set of mints and every demand:

- `TypeCorrect`: `Spec => []TypeOK`. The unchecked u64 subtractions of
  `try_lock_capital` never wrap.
- `NativeConservation`, `WsolConservation`: `Spec => []NativeBooks`,
  `Spec => []WsolBooks`.
- `InFlightProtected`: `Spec => InFlightImmune`.
- `TokensConserved`: `Spec => TokensLeaveOnlyWhenSold`.

Assumptions: `IntentsFinite`, `SolType`, `TokensType`, `BoundsType` (demands and
bounds are naturals); TLC evaluates them in every run of the module.

The inductive invariant is `IInv == TypeOK /\ AbsentIsNoLock /\ NativeBooks /\
WsolBooks`. The two laws are nearly inductive because `base_*` records what was
reserved at the last report. `AbsentIsNoLock` is needed when a lock is taken:
the sum grows by exactly the demand only if the missing entry held nothing.
`TypeOK` is needed everywhere, since subtraction is only invertible on naturals.

The sum of the reservations, a loop over a map in the code, is defined as the
cardinality of a set with one element per reserved lamport (`Units`). That
makes the three facts the proof needs finite-set facts instead of inductions:
`SumSplit` (a sum splits over a set and its complement), `SumSingle` and, from
them, `SumRelease` and `SumAcquire`. `ReleaseSums`, `AcquireSums` and
`MarkSums` lift them to the three ways `capital_locks` changes; the step lemmas
(`ReleaseSetStep`, `AcquireStep`, `MarkStep`, `ReportSolStep`,
`ReportWsolStep`) are then used once per action in `NextIInv`.

### EngineRestartProofs

Theorems, for every set of intents and without a bound on crashes:

- `KillSwitchPersists`: `Spec => KillSwitchHolds`.
- `SavedIsFinal`: `Spec => SavedNeverResent`.

Neither property is about one variable: what a restart reads must agree with
what was promised before the crash. `KillSwitchCopies` and `IdempotencyCopies`
follow the flag and the set through their three copies: memory, the snapshot
being written, the file. `IdempotencyCopies` also says that an intent on its
way to a send is unknown to memory, hence to the file.

### IntentPipelineProofs

Theorems, for every finite set of deliveries and intents and every set of
environments (`Worlds`):

- `NoReservationLeaks`: `Spec => []NoLeakedReservation`.
- `InFlightKeepsCapital`: `Spec => []InFlightReserved`.
- `BooksSettle`: `Spec => []SettledBooks`.
- `LedgerCarriesOver`: the type and conservation laws of `CapitalLocks` hold in
  the composed system, although it does not start in `CapitalLocks`' initial
  state.

Assumption: `PipelineType` (tasks and intents are finite, amounts are naturals,
the WSOL account is none of the mints, a world maps deliveries to intents).

The proof is compositional. `LockStep` lists the LockManager operations; every
step of the pipeline is one of them or leaves the locks alone (`NextLocks`), and
`CapP == INSTANCE CapitalLocksProofs` supplies the lemmas that each operation
keeps the books (`LockStepBooks`). A wallet report is the only operation used
with an argument outside `CapitalLocks`' bounds; it goes through
`CapP!ReportWsolStep`, which has none. The invariant adds three parts, each for
one property:

- `Owed`: whatever is reserved for an intent, some delivery of it is at a point
  from which every path passes a release. It speaks of *some* delivery because
  two copies of an intent share one lock.
- `Kept`: a delivery that is alone with its intent has its reservation, not
  overdue while it plans and immune after the promotion.
- `Fed`: the last report on its way, or the last one applied, is the wallet.

### EngineProofs

The three smaller parts of the engine; the specifications are `ConfirmSpec`,
`PresenceSpec` and `Spec` of `ResourceLocks`.

`OutcomesAreTrue`, `NoStaleWaiters`: `ConfirmSpec => []OutcomeIsTrue`,
`ConfirmSpec => []NoStaleWaiter`, for every set of transactions and any number
of deliveries (assumption `ConfirmType`). `Carried` says that every copy of a
confirm (channel, orphan buffer, the dispatcher between its two sections) tells
what the chain says; `PendingIsLive` that an entry of a single transaction has a
waiter.

`ClosedStaysClosedThm`, `CleanCloseHoldsThm`: `PresenceSpec =>
[]ClosedStaysClosed`, `PresenceSpec => CleanCloseHolds`, for every chain and
amount and all interleavings of the critical sections (assumption
`PresenceType`). `CloseAlone` says that while a close that nothing overlapped is
being written no snapshot is under way, so what it has cleared stays cleared;
`Guarded` that as long as its marker stands, it is the marker of the latest close
and nobody has passed it with anything but news; `Announced` that between the
removal of the marker and the return of presence the task that removed it is
about to mark.

`PreemptionsBounded`: `Spec => []PreemptionBound`; `BuildersKeepPools`:
`Spec => []BuilderKeepsPool`. For every set of intents, sources and pools and
all values of the limit, the window and the protection (assumption
`FairnessType`). The bound does not follow from the counter: protection ends
before the window does, so more than the limit is reached. The invariant
`Histories` keeps the recorded preemptions of a source ordered in time
(`Ordered`), in the past (`Past`) and, from the limit on, a protection period
apart (`Spaced`, `Protects`); the number in a window is then at most the limit
plus the number of protection periods that fit in it.

### PositionAuthorityProofs

`ReducerTypeCorrect`: `Spec => []TypeOK`; `KvMirrorsReducer`:
`Spec => []KvFollows`. For every finite set of mints and every bound (assumption
`AuthorityConstants`). `Counted` bounds a balance by one wallet plus one fill
for every result applied, each trade and each fault allowing one: the bound in
`TypeOK` is what redelivery can do and cannot be lowered to the wallet's.
`Mirror` says, for the host that enqueues under the lock, that applying the
queue to the bucket gives the reducer's state: the last entry of a mint in the
queue, or its key if there is none, is what the reducer holds.

### MarketDataProofs

`PoolCache` (assumptions `ChainOK`, `ConfigOK`):

- `WatermarkKept`, `ReservesKept`: `Spec => SeenKept`, `Spec => PairKept`, for
  every chain, kind of pool, set of transaction threads and number of refreshes
  and restarts. From the
  row types, `RowOrNone` (a row that does not exist is the empty one) and one
  lemma on `apply_pool_cache_update` (`ApplyRow`).
- `TickRepairsEngine`: `Spec => []TickRepairs`. The types carry the fact it rests
  on: no slot stored or sent is above the head of the chain, so a message of the
  newest slot is refused by nobody (`Row(h)`, `Message(h)`). `Repair` follows
  that message after the tick: it is the only one in the outbox, with the row's
  reserves and a slot no smaller than any the engine or the subject has
  (`Waiting`), or it is the subject's message, and what the engine has read
  since is that message (`Delivered`). A slot reported later ends neither, only
  a change of the reserves or a further publication does.

`TrackWorker`, for all mints, pools, caps and budgets (assumptions `Caps`,
`BudgetsOK`, `StreamsOK`: no mint is called as another stream); the
specification is `WorkerSpec`, without the fairness the liveness runs add:

- `WorkerTypeCorrect`: `WorkerSpec => []TypeOK`. The queue and the pending slots
  are within their caps, no counter goes below zero, a deferred pin is of a hot
  pool. The invariant `WorkerInv` adds what a thread between the steps of a send
  has in hand, that a sync intent is always a control command, and that a hot
  command carries an update. The content is in the store: merging, coalescing
  and replaying give commands and never more of them. `InOrder` puts slots in an
  order by counting how many come before each; `RankHit` shows that in a strict
  total order on a finite set every place is taken (the ranks are an injection
  into as many numbers), and `ReplayedStrict` that the replay order (streams as
  they were first staged, then revision, then age) is one.

### MomentumPositionsProofs

- `NeverDoubleFilled`: `Spec => []NoDoubleFill`.
- `GraceAlwaysProtects`: `Spec => GraceProtects`.

For every number of BUYs, every finite set of SELL ids and any number of faults
(assumption `MomentumConstants`: the bounds are naturals, ids of SELLs are not
ids of BUYs, and `None` is none of the values stored). `NoDoubleFill` speaks of
histories with at most one fault; after two the code does count a fill twice
(section 4).

A fill reaches the bot as a result, as an orphaned result and inside a wallet
snapshot, so the position alone says nothing of what may still be added to it.
The inductive invariant keeps the account:

- `OneBuy`, `OnePlace`: the BUY that is not settled is the latest one, the
  tracker waits for it, and it is queued, ordered or answered, never two of
  these. `Credit` is then the fill still to come, of which there is at most one.
- `Ledger`: wallet and credit are within what was bought; a confirmed SELL has
  sold something.
- `Covered`, `Unsold`: without a fault the pending-BUY entry covers the BUY, so
  no snapshot opens a position beside it; while uncovering it is the only fault,
  a position does not vanish unless something was sold.
- `Roomy`: with at most one fault the position has room for the credit, or it
  is the snapshot of that very fill, which
  `wallet_snapshot_orphan_fill_already_applied` recognises. This is where the
  single fault enters: a second one makes both alternatives false.
- `FreshIsLive`: a position in its grace period was opened by a result. With it
  `GraceProtects` follows for every step and any number of faults.

### TrackAdmissionProofs

Theorems, for every list of owners, every finite set of accounts, all planned
groups, demands and caps:

- `BooksHold`: `Spec => []Books`. `physical_len`, kept by deltas over shared
  accounts, is exact and within the cap; the stamps order the owners.
- `PlannerIsExact`: `Spec => []PlannerExact`. The greedy selection misses no
  eviction that would make room, and `InternalInvariantViolation` is
  unreachable.
- `WalletAlwaysAdmitted`, `ShrinkAlwaysReaches`: `Spec => []WalletAdmitted`,
  `Spec => []ShrinkReaches`.
- `RestoreAlwaysExact`: `Spec => []RestoreExact`.
- `PushAlwaysSettles`: `Spec => []PushSettles`.
- `ReadyRespectsConfig`: `Spec => ReadyInConfig`.

Assumptions: `OrderOK` (the owners are listed without repetition by falling
priority, one of them is the wallet), `KeysFinite`, `DemandsOK`, `MaxCapOK`.

The invariant is small, `adm \in Sound` with the configured cap in range; the
work is in what the calls compute. The library's induction theorems cannot be
used, so induction is done over sets: a set of numbers has a least element
(`Least`), hence what holds for 0 and is passed on holds up to N (`UpTo`). A
loop then has a run (`LoopRuns`), and a run stays in every set its body stays in
(`StaysIn`). On these rest

- the books: each single call keeps `Sound` (`Put`, `PutIn`, `WithVictims` are
  the three ways a group changes), so each loop does;
- the planner: `CHOOSE` of the oldest owner and of the cheapest package is of a
  total order on a finite set, so the choice exists; a turn of the selection
  that has not freed enough takes a further owner, so after one turn per owner
  the selection has freed enough or everything its tier can free;
- the restore: after n owners the admission is exactly the first n saved
  groups (`SoFar`), which fit, so no eviction ever starts;
- the settled push: after a converged push each owner has the group of the
  demand or none (`Holds`), the pruned demand asks each for the part that is
  subscribed, and re-admitting it drops no account.

The invariants of `IntentPipeline`, `PositionAuthority` (with two mints),
`ResourceLocks`, `WalletPresence`, `PoolCache` and `MomentumPositions` (with one and two faults) were also checked
with TLC on the instances of section 3.

### Only model-checked

Liveness (`EveryTxDecided`, `EveryIntentEnds`, `Converges`, `KvConverges`,
`EventuallyFlat`, `StartupSettles`, `WalletConverges`, `Published`,
`ActiveRecovers`) is out of the prover's reach: it needs fairness and ENABLED.

Every invariant and action property of a passing run is a theorem.

## 6. Not modelled

- DEX programs, parsers, quote calculation and transaction building: byte
  layouts and 64- and 128-bit arithmetic, out of reach of small instances.
- Account janitor, JSONL files, metrics, message types, user interface,
  scripts: I/O without interacting state. Configuration reload is read once
  per intent.
- Arbitrage search and pricing: a pure search over floating-point quotes.
- Of modelled parts: the pending-wrap floor of WSOL snapshots, the daily-loss
  counter, the liquidation job, replay mode; entry and exit signals and the KV
  mirror of momentum-bot; the hot-pool registry (which accounts a pool stands
  for) and the subscription swap inside a push; age, readiness and account
  metadata of pool rows; RPC scheduling of the cold path.

- Of the writers and publishers of a pool row, those that repeat a modelled
  shape: the promotion of an address-book entry when a pool becomes hot
  (`market_data.rs:3462`, read, merge, upsert as in `TxRead`), the Raydium CPMM
  rows of the wallet bootstrap (8360, a slot-0 upsert and publication as on the
  cold path), the account-thread publications of PumpFun rows and DLMM bitmaps
  (`sidefx/handlers.rs:412`, `484`, `1563`, `1628`). Left out altogether: pools
  that are not hot (their swaps only fill the address book), unpinning, a
  publication that times out. Whether a PumpSwap swap names enough accounts to be
  published is a free choice. `Worker` lets any waiting message be next, which
  with four workers is exact up to four messages of one pool.
- Of the wallet presence: the bootstrap scan of the engine, which runs alone
  before the tasks start.

## 7. Plan

Every safety property of the models is proved. Next come models: `WsolManager` (wrap, unwrap, the pending-wrap
floor) composed with `CapitalLocks`; `Liquidation` (in-progress flag, retries,
two kill-switch requests) composed with `EngineRestart`; `TxSender` (fallback
order, ambiguous errors) refining the send steps of `IntentPipeline`; in-flight
arbitrage intents; an abstract reservation ledger that `CapitalLocks`
implements.
