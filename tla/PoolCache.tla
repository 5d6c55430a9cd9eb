------------------------------ MODULE PoolCache ------------------------------
(***************************************************************************)
(* One pool in the MASTER LivePoolCache of market-data and in the SLAVE    *)
(* cache of the execution engine, and the JetStream subject between them.  *)
(*                                                                         *)
(* market-data writes the row from several threads at once: the account    *)
(* side effect thread (pool accounts and vault balance ticks from Geyser), *)
(* the two transaction side effect threads (the accounts of a swap that    *)
(* was seen) and cold-path tasks (RPC reads).  LivePoolCache::upsert takes *)
(* the row lock twice, to prepare the entry and to store it, and           *)
(* update_vault_balance once.  What changed is published by a pool of      *)
(* workers, or past them, to a subject that keeps one message; the engine  *)
(* replays that message when it starts and then follows a durable          *)
(* consumer.                                                               *)
(*                                                                         *)
(* Pools do not interact but for the bounded queues they share, so one is  *)
(* enough: a hot pool whose vaults are tracked.  A reserve is a small      *)
(* number; mints, vault keys, readiness and layout metadata are left out,  *)
(* and so are rows without vaults (PumpFun), the age of a row, unpinning,  *)
(* and a publication that times out.                                       *)
(***************************************************************************)
EXTENDS Naturals, Integers, Sequences, FiniteSets

CONSTANTS
  Dexes,      \* the kinds of pool, as the code tells them apart (see Merging)
  MaxSlot,    \* last slot of the chain that is modelled
  Balance,    \* Balance[s][l]: balance of vault l after slot s
  Touched,    \* Touched[s]: what Geyser reports of slot s
  TxThreads,  \* the transaction side effect threads
  MaxFaults   \* how many refreshes (cold and cached) and restarts a run may have

Legs == {"base", "quote"}
\* A balance of a vault, the pool account, or a swap of the pool.
Sources == Legs \cup {"pool", "trade"}

\* The parse of a pool account carries no reserve (None in the code).
Omitted == -1

ASSUME ChainOK ==
  /\ MaxSlot \in Nat \ {0}
  /\ Balance \in [1..MaxSlot -> [Legs -> Nat \ {0}]]
  /\ Touched \in [1..MaxSlot -> SUBSET Sources]
ASSUME ConfigOK ==
  /\ Dexes \subseteq {"pump_amm", "orca", "raydium", "meteora_cpmm"}
  /\ MaxFaults \in Nat

VARIABLES
  dex,            \* what this pool is
  head,           \* the last slot Geyser has reported
  feed,           \* side effect jobs not yet handled: [of, slot]
  row,            \* the MASTER row
  mapped,         \* the pool's vaults are in vault_to_pool
  last,           \* last_balance of the tracked vaults
  acct, tx, cold, \* where the writers of the row are
  beat,           \* where the refresh from the cache is
  outbox,         \* messages waiting at the publish workers, oldest first
  stream,         \* the subject's one message
  srow,           \* the SLAVE row
  engine,         \* down, booted, live, applied
  behind,         \* a message was stored since the engine last read the subject
  durable,        \* the durable consumer exists
  unread,         \* and has not acknowledged the subject's message
  left,           \* how many refreshes and restarts may still happen
  repaired        \* history: the last thing to happen to the reserves in
                  \* market-data was the publication of a newest vault tick

chain == <<dex, head>>
cache == <<row, mapped, last>>
threads == <<acct, tx, cold, beat>>
master == <<cache, threads, outbox>>
consumer == <<behind, durable, unread>>
slave == <<srow, engine>>
vars == <<chain, feed, master, stream, slave, consumer, left, repaired>>

NoRow == [on |-> FALSE, r |-> [l \in Legs |-> Omitted], slot |-> 0, seen |-> 0]
Idle == [pc |-> "idle"]
NoMsg == [kind |-> "none", r |-> [l \in Legs |-> 0], slot |-> 0]

\* The pools whose PoolDiscovered keeps a reserve that it does not carry, and
\* whose layout can be read from a swap (orca stands for raydium_cpmm and
\* meteora_dlmm too).
Merging == {"pump_amm", "orca"}

(***************************************************************************)
(* The row.                                                                *)
(***************************************************************************)
Or0(x) == IF x = Omitted THEN 0 ELSE x
\* Reserves as a message carries them: unwrap_or(0).
Known(r) == [l \in Legs |-> Or0(r[l])]
Pair(r) == \A l \in Legs : r[l] > 0
Larger(a, b) == IF a > b THEN a ELSE b

\* An upsert that carries a slot is refused below the row's watermark.
Stale(e, slot) == slot > 0 /\ slot < e.seen

\* merge_account_parse_preserves_existing: a reserve the message does not
\* carry keeps its value.  Meteora CPMM has no None: there a Geyser message
\* with both reserves zero is the one that carries none.
Merge(prev, inc, slot) ==
  IF dex = "meteora_cpmm"
    THEN IF slot > 0 /\ \A l \in Legs : inc[l] = 0 THEN prev ELSE inc
    ELSE [l \in Legs |-> IF inc[l] = Omitted THEN prev[l] ELSE inc[l]]

\* Seeded defect: an RPC hydration, which has no slot, resets the watermark.
Entry_reset(prev, inc, slot) ==
  LET r == Merge(prev.r, inc, slot)
  IN [on |-> TRUE, r |-> r, slot |-> slot, seen |-> slot]

\* The entry an upsert stores over an existing one: `slot' moves only when
\* the reserves do, `seen' never goes back, and slot 0 moves neither.
Entry(prev, inc, slot) ==
  LET r == Merge(prev.r, inc, slot)
  IN [on |-> TRUE, r |-> r,
      slot |-> IF slot = 0 \/ r = prev.r THEN prev.slot ELSE slot,
      seen |-> Larger(prev.seen, slot)]

NewEntry(inc, slot) == [on |-> TRUE, r |-> inc, slot |-> slot, seen |-> slot]

\* First half of upsert, under the first lock.
Prepared(e, inc, slot) == IF e.on THEN Entry(e, inc, slot) ELSE NewEntry(inc, slot)

\* Second half: the entry prepared from what the first half read is stored
\* as it is, unless there was no row then and there is one now.
Stored(e, prepared, asInsert, slot) ==
  IF e.on /\ asInsert THEN Entry(e, prepared.r, slot) ELSE prepared

\* Seeded defect: an upsert of the row's own slot counts as stale.
upsert_strict(e, inc, slot) ==
  IF e.on /\ slot > 0 /\ slot <= e.seen THEN e ELSE Prepared(e, inc, slot)

\* The whole of upsert where nobody else writes the row (the SLAVE).
upsert(e, inc, slot) ==
  IF e.on /\ Stale(e, slot) THEN e ELSE Prepared(e, inc, slot)

\* update_vault_balance: its own staleness test is against the last slot
\* that changed the row, and it leaves the watermark alone.
update_vault_balance(e, l, bal, slot) ==
  IF e.on /\ e.r[l] # bal /\ slot >= e.slot
    THEN [e EXCEPT !.r[l] = bal, !.slot = slot]
    ELSE e

(***************************************************************************)
(* Publishing.                                                             *)
(***************************************************************************)
Msg(kind, r, slot) == [kind |-> kind, r |-> r, slot |-> slot]

\* The queue of the publish workers is bounded and shared by all pools: a
\* message that finds it full is dropped.
Enqueue(m) == outbox' = Append(outbox, m) \/ UNCHANGED outbox

\* The subject keeps only the message that was stored last.
Publish(m) == stream' = m /\ behind' = TRUE /\ unread' = TRUE /\ UNCHANGED durable

\* A publish worker sends its oldest message.  The dispatcher deals the jobs
\* of all pools round robin, so this pool's messages sit each at another
\* worker, and any of them may be the next to be sent.
Worker(i) ==
  /\ Publish(outbox[i])
  /\ outbox' = SubSeq(outbox, 1, i - 1) \o SubSeq(outbox, i + 1, Len(outbox))
  /\ UNCHANGED <<chain, feed, cache, threads, slave, left, repaired>>

(***************************************************************************)
(* Geyser and the account side effect thread of market-data.               *)
(***************************************************************************)
\* The chain reaches its next slot and Geyser reports what happened in it.
GeyserSlot ==
  /\ head < MaxSlot
  /\ head' = head + 1
  /\ feed' = feed \cup {[of |-> a, slot |-> head + 1] : a \in Touched[head + 1]}
  /\ UNCHANGED <<dex, master, stream, consumer, slave, left, repaired>>

\* A job is coalesced with a newer one, or found its bounded queue full.
DropJob(j) ==
  /\ feed' = feed \ {j}
  /\ UNCHANGED <<chain, master, stream, consumer, slave, left, repaired>>

\* The account thread takes a job; queues and bursts by class can change the
\* order.
Take(j) ==
  /\ acct = Idle
  /\ feed' = feed \ {j}

\* A vault tick whose balance is new to the tracked vault reaches the row,
\* if the vault is mapped to it.
VaultTick(j) ==
  /\ j.of \in Legs
  /\ Take(j)
  /\ LET l == j.of
         bal == Balance[j.slot][l]
     IN /\ last' = [last EXCEPT ![l] = bal]
        /\ IF last[l] = bal
             THEN UNCHANGED <<row, acct>>
             ELSE /\ row' = IF mapped THEN update_vault_balance(row, l, bal, j.slot)
                                      ELSE row
                  /\ acct' = [pc |-> "ticked", slot |-> j.slot]
  /\ repaired' = (repaired /\ row'.r = row.r)
  /\ UNCHANGED <<chain, mapped, tx, cold, beat, outbox, stream, consumer, slave, left>>

\* ... and is published with what the row then holds, the legs the row does
\* not know filled from the tracked vaults, when both are known.
TickPublish ==
  /\ acct.pc = "ticked"
  /\ acct' = Idle
  /\ LET r == [l \in Legs |-> IF row.r[l] > 0 THEN row.r[l] ELSE last[l]]
     IN IF Pair(r) THEN Enqueue(Msg("balance", r, acct.slot)) ELSE UNCHANGED outbox
  /\ repaired' = (/\ acct.slot = head /\ Pair(row.r) /\ durable
                  /\ outbox = << >> /\ outbox' # << >>)
  /\ UNCHANGED <<chain, feed, cache, tx, cold, beat, stream, consumer, slave, left>>

\* The snapshot of the tracked vaults is rebuilt, which puts the balances of
\* the tracked vaults' own rows back: they are never written after the start.
MembershipRebuild ==
  /\ last' = [l \in Legs |-> 0]
  /\ UNCHANGED <<chain, feed, row, mapped, threads, outbox, stream, consumer, slave,
                 left, repaired>>

\* A pool account: its parse has no reserves.  First half of the upsert.
AccountUpdate(j) ==
  /\ j.of = "pool"
  /\ Take(j)
  /\ LET inc == [l \in Legs |-> IF dex = "meteora_cpmm" THEN 0 ELSE Omitted]
     IN IF row.on /\ Stale(row, j.slot)
          THEN UNCHANGED <<acct, mapped>>
          ELSE /\ acct' = [pc |-> "prepared", entry |-> Prepared(row, inc, j.slot),
                           insert |-> ~row.on, prev |-> row, slot |-> j.slot]
               /\ mapped' = TRUE
  /\ UNCHANGED <<chain, row, last, tx, cold, beat, outbox, stream, consumer, slave,
                 left, repaired>>

AccountCommit ==
  /\ acct.pc = "prepared"
  /\ IF row.on /\ Stale(row, acct.slot)
       THEN acct' = Idle /\ UNCHANGED row
       ELSE /\ row' = Stored(row, acct.entry, acct.insert, acct.slot)
            /\ acct' = [pc |-> "committed", prev |-> acct.prev, slot |-> acct.slot]
  /\ repaired' = (repaired /\ row'.r = row.r)
  /\ UNCHANGED <<chain, feed, mapped, last, tx, cold, beat, outbox, stream, consumer, slave, left>>

\* The row as it is now is published as PoolDiscovered.  A pool that is not
\* EXEC_HOT is skipped when its reserves did not change.
AccountPublish ==
  /\ acct.pc = "committed"
  /\ acct' = Idle
  /\ \/ Enqueue(Msg("discovered", Known(row.r), acct.slot))
     \/ acct.prev.on /\ Known(acct.prev.r) = Known(row.r) /\ UNCHANGED outbox
  /\ repaired' = FALSE
  /\ UNCHANGED <<chain, feed, cache, tx, cold, beat, stream, consumer, slave, left>>

(***************************************************************************)
(* The transaction side effect threads.                                    *)
(***************************************************************************)
\* A swap of the pool names its accounts.  The row is read and, once the
\* accounts it lacks are filled in, comes back as an upsert of the swap's
\* slot.  (The layouts of the other kinds cannot be read from a swap.)
TxRead(t, j) ==
  /\ dex \in Merging
  /\ j.of = "trade"
  /\ tx[t] = Idle
  /\ feed' = feed \ {j}
  /\ tx' = [tx EXCEPT ![t] = [pc |-> "read", r |-> row.r, slot |-> j.slot]]
  /\ UNCHANGED <<chain, cache, acct, cold, beat, outbox, stream, consumer, slave,
                 left, repaired>>

TxPrepare(t) ==
  /\ tx[t].pc = "read"
  /\ IF row.on /\ Stale(row, tx[t].slot)
       THEN /\ tx' = [tx EXCEPT ![t] = [pc |-> "seeded", slot |-> tx[t].slot]]
            /\ UNCHANGED mapped
       ELSE /\ tx' = [tx EXCEPT ![t] =
                        [pc |-> "prepared", entry |-> Prepared(row, tx[t].r, tx[t].slot),
                         insert |-> ~row.on, slot |-> tx[t].slot]]
            /\ mapped' = TRUE
  /\ UNCHANGED <<chain, feed, row, last, acct, cold, beat, outbox, stream, consumer, slave,
                 left, repaired>>

TxCommit(t) ==
  /\ tx[t].pc = "prepared"
  /\ row' = IF row.on /\ Stale(row, tx[t].slot)
              THEN row
              ELSE Stored(row, tx[t].entry, tx[t].insert, tx[t].slot)
  /\ tx' = [tx EXCEPT ![t] = [pc |-> "seeded", slot |-> tx[t].slot]]
  /\ repaired' = (repaired /\ row'.r = row.r)
  /\ UNCHANGED <<chain, feed, mapped, last, acct, cold, beat, outbox, stream, consumer, slave, left>>

\* The swap of a PumpSwap pool that names all its accounts is published as
\* PoolDiscovered, with the reserves the row has by then.
TxPublish(t) ==
  /\ tx[t].pc = "seeded"
  /\ tx' = [tx EXCEPT ![t] = Idle]
  /\ \/ /\ dex = "pump_amm"
        /\ Enqueue(Msg("discovered", Known(row.r), tx[t].slot))
        /\ repaired' = FALSE
     \/ UNCHANGED <<outbox, repaired>>
  /\ UNCHANGED <<chain, feed, cache, acct, cold, beat, stream, consumer, slave, left>>

(***************************************************************************)
(* The cold path, and the refresh from the cache.                          *)
(***************************************************************************)
\* The vault balances are read by RPC.  A refresh needs a row; ensuring a
\* PumpSwap pool does not, and trusts a complete pair in the cache unless it
\* is forced.
ColdFetch ==
  /\ cold = Idle /\ left > 0 /\ head > 0
  /\ dex # "pump_amm" => row.on
  /\ \E r \in {Balance[head]} \cup (IF dex = "pump_amm" /\ Pair(row.r) THEN {row.r} ELSE {}) :
       cold' = [pc |-> "fetched", r |-> r]
  /\ left' = left - 1
  /\ UNCHANGED <<chain, feed, cache, acct, tx, beat, outbox, stream, consumer, slave, repaired>>

\* The upsert of the cold path: PumpSwap is stamped with the Geyser head, the
\* others carry no slot and are never stale.
ColdPrepare ==
  /\ cold.pc = "fetched"
  /\ LET slot == IF dex = "pump_amm" THEN head ELSE 0
     IN IF row.on /\ Stale(row, slot)
          THEN /\ cold' = [pc |-> "committed", r |-> cold.r, slot |-> slot]
               /\ UNCHANGED mapped
          ELSE /\ cold' = [pc |-> "prepared", entry |-> Prepared(row, cold.r, slot),
                           insert |-> ~row.on, r |-> cold.r, slot |-> slot]
               /\ mapped' = TRUE
  /\ UNCHANGED <<chain, feed, row, last, acct, tx, beat, outbox, stream, consumer, slave,
                 left, repaired>>

ColdCommit ==
  /\ cold.pc = "prepared"
  /\ row' = IF row.on /\ Stale(row, cold.slot)
              THEN row
              ELSE Stored(row, cold.entry, cold.insert, cold.slot)
  /\ cold' = [pc |-> "committed", r |-> cold.r, slot |-> cold.slot]
  /\ repaired' = (repaired /\ row'.r = row.r)
  /\ UNCHANGED <<chain, feed, mapped, last, acct, tx, beat, outbox, stream, consumer, slave, left>>

\* It publishes what it fetched, past the workers; Raydium the row instead.
ColdPublish ==
  /\ cold.pc = "committed"
  /\ cold' = Idle
  /\ Publish(CASE dex = "pump_amm" -> Msg("discovered", cold.r, cold.slot)
               [] dex = "raydium"  -> Msg("balance", Known(row.r), row.slot)
               [] OTHER            -> Msg("balance", cold.r, 0))
  /\ repaired' = FALSE
  /\ UNCHANGED <<chain, feed, cache, acct, tx, beat, outbox, slave, left>>

\* A pool that is pinned, or due for its heartbeat, is published from the
\* cache when it knows a reserve.  The slot is read after the reserves.
BeatRead ==
  /\ beat = Idle /\ left > 0
  /\ \E l \in Legs : row.r[l] > 0
  /\ beat' = [pc |-> "read", r |-> Known(row.r)]
  /\ left' = left - 1
  /\ UNCHANGED <<chain, feed, cache, acct, tx, cold, outbox, stream, consumer, slave, repaired>>

BeatStamp ==
  /\ beat.pc = "read"
  /\ beat' = [pc |-> "stamped", r |-> beat.r, slot |-> row.slot]
  /\ UNCHANGED <<chain, feed, cache, acct, tx, cold, outbox, stream, consumer, slave,
                 left, repaired>>

\* It goes past the workers too.
BeatPublish ==
  /\ beat.pc = "stamped"
  /\ beat' = Idle
  /\ Publish(Msg("balance", beat.r, beat.slot))
  /\ repaired' = FALSE
  /\ UNCHANGED <<chain, feed, cache, acct, tx, cold, outbox, slave, left>>

\* market-data restarts: rows, queues and jobs are lost, the stream is not.
MasterRestart ==
  /\ left > 0
  /\ row' = NoRow /\ mapped' = FALSE /\ last' = [l \in Legs |-> 0]
  /\ acct' = Idle /\ tx' = [t \in TxThreads |-> Idle] /\ cold' = Idle /\ beat' = Idle
  /\ feed' = {} /\ outbox' = << >>
  /\ left' = left - 1
  /\ repaired' = FALSE
  /\ UNCHANGED <<chain, stream, consumer, slave>>

(***************************************************************************)
(* The engine's SLAVE row.                                                 *)
(***************************************************************************)
\* Seeded defect: PoolDiscovered is taken as it comes (Bug 27).
apply_unmerged(e, m) ==
  IF m.kind = "none" THEN e
  ELSE upsert(e,
              [l \in Legs |->
                 IF e.on /\ m.r[l] = 0 /\ m.kind = "balance"
                   THEN Or0(e.r[l]) ELSE m.r[l]],
              m.slot)

\* apply_pool_cache_update: a zero in a message stands for a reserve it does
\* not know and is filled from the row before the row is written.
apply_pool_cache_update(e, m) ==
  IF m.kind = "none" THEN e
  ELSE upsert(e,
              [l \in Legs |->
                 IF e.on /\ m.r[l] = 0 /\ (m.kind = "balance" \/ dex \in Merging)
                   THEN Or0(e.r[l]) ELSE m.r[l]],
              m.slot)

\* Start: the subject's message is replayed into the empty cache.
Bootstrap ==
  /\ engine = "down"
  /\ srow' = apply_pool_cache_update(srow, stream)
  /\ behind' = FALSE
  /\ engine' = "booted"
  /\ UNCHANGED <<chain, feed, master, stream, durable, unread, left, repaired>>

\* Then the durable consumer: an existing one continues where it was, a new
\* one (DeliverPolicy::New) starts after the message that is there now.
CreateConsumer ==
  /\ engine = "booted"
  /\ engine' = "live"
  /\ durable' = TRUE
  /\ unread' = (durable /\ unread)
  /\ UNCHANGED <<chain, feed, master, stream, behind, srow, left, repaired>>

\* A message is applied and then acknowledged.
SlaveApply ==
  /\ engine = "live" /\ unread
  /\ srow' = apply_pool_cache_update(srow, stream)
  /\ behind' = FALSE
  /\ engine' = "applied"
  /\ UNCHANGED <<chain, feed, master, stream, durable, unread, left, repaired>>

SlaveAck ==
  /\ engine = "applied"
  /\ unread' = behind
  /\ engine' = "live"
  /\ UNCHANGED <<chain, feed, master, stream, behind, durable, srow, left, repaired>>

\* The engine restarts with an empty cache; an unacknowledged message comes again.
EngineRestart ==
  /\ engine # "down" /\ left > 0
  /\ engine' = "down" /\ srow' = NoRow
  /\ left' = left - 1
  /\ UNCHANGED <<chain, feed, master, stream, consumer, repaired>>

Init ==
  /\ dex \in Dexes
  /\ head = 0 /\ feed = {}
  /\ row = NoRow /\ mapped = FALSE /\ last = [l \in Legs |-> 0]
  /\ acct = Idle /\ tx = [t \in TxThreads |-> Idle] /\ cold = Idle /\ beat = Idle
  /\ outbox = << >>
  /\ stream = NoMsg
  /\ srow = NoRow /\ engine = "down"
  /\ behind = FALSE /\ durable = FALSE /\ unread = FALSE
  /\ left = MaxFaults /\ repaired = FALSE

Thread == \/ \E j \in feed : VaultTick(j) \/ AccountUpdate(j)
          \/ TickPublish \/ AccountCommit \/ AccountPublish
TxStep(t) == \/ \E j \in feed : TxRead(t, j)
             \/ TxPrepare(t) \/ TxCommit(t) \/ TxPublish(t)
ColdStep == ColdFetch \/ ColdPrepare \/ ColdCommit \/ ColdPublish
BeatStep == BeatRead \/ BeatStamp \/ BeatPublish
Consumer == Bootstrap \/ CreateConsumer \/ SlaveApply \/ SlaveAck

Next == \/ GeyserSlot
        \/ \E j \in feed : DropJob(j)
        \/ Thread \/ MembershipRebuild
        \/ \E t \in TxThreads : TxStep(t)
        \/ ColdStep \/ BeatStep
        \/ \E i \in 1..Len(outbox) : Worker(i)
        \/ Consumer
        \/ MasterRestart \/ EngineRestart

Spec == Init /\ [][Next]_vars

-----------------------------------------------------------------------------
\* What the quote code relies on: once the engine knows both reserves of a
\* pool it never falls back to knowing one or none, however messages are
\* reordered, partial or replayed, as long as it runs (for the pools whose
\* PoolDiscovered is merged, pool_cache_sync.rs "must not wipe good SLAVE
\* reserves").
PairKept ==
  [][(dex \in Merging /\ Pair(srow.r) /\ engine' # "down") => Pair(srow.r')]_vars

\* The engine's watermark never goes back while it runs, hydrations without
\* a slot included: what it once refused as stale it keeps refusing.
SeenKept == [][engine' # "down" => srow.seen' >= srow.seen]_vars

\* A vault tick repairs the engine's row.  Messages overtake each other, are
\* dropped, and carry reserves read earlier than the slot they are stamped
\* with; but once a tick of the newest slot has been queued behind no other
\* message, and market-data neither changes the reserves nor publishes them
\* again, the engine that has read the subject has MASTER's reserves,
\* through restarts of its own.
TickRepairs ==
  repaired /\ outbox = << >> /\ engine = "live" /\ ~unread => srow.r = row.r
=============================================================================
