-------------------------- MODULE PositionAuthority --------------------------
(***************************************************************************)
(* Which tokens the wallet holds, as the other processes see it.           *)
(* market-data scans the wallet and publishes per-mint snapshots and a     *)
(* completion list (publish_wallet_snapshot); the PositionAuthority        *)
(* reducer (src/src/position_authority/state.rs) merges them with the      *)
(* confirmed execution results; a FIFO worker mirrors every change to the  *)
(* POSITION_AUTHORITY KV bucket that momentum-bot reads.                   *)
(*                                                                         *)
(* The reducer runs in two hosts.  position-manager applies from two tasks *)
(* and enqueues the KV changes after it has released the reducer's lock;   *)
(* its results come from a durable stream that redelivers what was not     *)
(* acknowledged.  execution-engine (publish_position_authority_kv)         *)
(* enqueues under the lock and applies each result once, from memory.      *)
(*                                                                         *)
(* SOL and WSOL, which the reducer ignores, and the decimals, programs and *)
(* totals it copies along are left out.                                    *)
(***************************************************************************)
EXTENDS Integers, Sequences, FiniteSets, SequencesExt

CONSTANTS
    Mints,      \* token mints
    None,       \* a missing entry
    Hosts,      \* subset of {"manager", "engine"}: where the reducer runs
    MaxBal,     \* bound: token amounts
    MaxTrades,  \* bound: changes of the wallet
    MaxStream,  \* bound: undelivered snapshots
    MaxQueue,   \* bound: batches waiting for the KV worker
    MaxFaults   \* bound: redeliveries, crashes, failed calls

Tasks == {"main", "wallet"}
Statuses == {"Open", "Closed", "ReconcileNeeded"}
PositionState == [bal : Nat, status : Statuses, recent : BOOLEAN]

ASSUME AuthorityConstants ==
    /\ IsFiniteSet(Mints) /\ Hosts \subseteq {"manager", "engine"}
    /\ {MaxBal, MaxTrades, MaxStream, MaxQueue, MaxFaults} \subseteq Nat
    /\ None \notin PositionState

VARIABLES
    host,
    chain,      \* the wallet: balance per mint
    trades,     \* history: number of changes so far
    results,    \* confirmed results not yet acknowledged
    last,       \* WALLET_SNAPSHOT stream: last balance per subject, or None
    stream,     \* WALLET_SNAPSHOT stream: not yet taken by the live consumer
    complete,   \* the WalletSnapshotComplete list on its way, or None
    by_mint,    \* PositionAuthority: a PositionState per mint, or None
    held,       \* changes a task has computed and not yet enqueued
    queue,      \* PositionAuthorityKvPublisher: batches of changes
    kv,         \* POSITION_AUTHORITY: [bal, status] per mint, or None
    unsynced,   \* history: mints whose last KV operation failed or was lost
    faults      \* history: faults so far

wallet == <<chain, trades>>
feed   == <<last, stream, complete>>
book   == <<by_mint, held, queue, kv, unsynced>>
vars   == <<host, wallet, results, feed, book, faults>>

InStream == {m \in Mints : last[m] # None}

Init ==
    /\ host \in Hosts
    /\ chain = [m \in Mints |-> 0] /\ trades = 0
    /\ results = {}
    /\ last = [m \in Mints |-> None] /\ stream = <<>> /\ complete = None
    /\ by_mint = [m \in Mints |-> None]
    /\ held = [t \in Tasks |-> {}] /\ queue = <<>>
    /\ kv = [m \in Mints |-> None] /\ unsynced = {}
    /\ faults = 0

Fault == faults < MaxFaults /\ faults' = faults + 1

-----------------------------------------------------------------------------
(***************************************************************************)
(* The wallet.                                                             *)
(***************************************************************************)
\* A transaction changes a balance.  The engine reports its own trades with
\* a result; a manual sale or transfer has none.  The Geyser feed reports the
\* change, but not the deletion of an account.
WalletChange(m, b, ours, reported) ==
    /\ trades < MaxTrades /\ b # chain[m]
    /\ reported => Len(stream) < MaxStream
    /\ trades' = trades + 1
    /\ chain' = [chain EXCEPT ![m] = b]
    /\ results' = IF ours
                  THEN results \cup {[id |-> trades, mint |-> m, old |-> chain[m], new |-> b]}
                  ELSE results
    /\ stream' = IF reported THEN Append(stream, [mint |-> m, bal |-> b]) ELSE stream
    /\ last' = IF reported THEN [last EXCEPT ![m] = b] ELSE last
    /\ UNCHANGED <<host, complete, book, faults>>

-----------------------------------------------------------------------------
(***************************************************************************)
(* market-data's periodic wallet scan, as the source of snapshots and of   *)
(* the completion list.                                                    *)
(***************************************************************************)
\* The list goes out on core NATS, at most once: one that nobody has taken
\* yet is overtaken by the next.
PeriodicScan ==
    LET ms == SetToSeq(Mints)
    IN  /\ Len(stream) + Len(ms) <= MaxStream
        /\ stream' = stream \o [i \in DOMAIN ms |-> [mint |-> ms[i], bal |-> chain[ms[i]]]]
        /\ last' = chain
        /\ complete' = {m \in Mints : chain[m] > 0}
        /\ UNCHANGED <<host, wallet, results, book, faults>>

LoseComplete ==
    /\ complete # None
    /\ Fault
    /\ complete' = None
    /\ UNCHANGED <<host, wallet, results, last, stream, book>>

-----------------------------------------------------------------------------
(***************************************************************************)
(* The reducer: PositionAuthority::apply and its four handlers.  recent    *)
(* says that last_execution_unix_secs is less than the ghost grace ago.    *)
(***************************************************************************)
Status(b) == IF b = 0 THEN "Closed" ELSE "Open"
BalOf(p) == IF p = None THEN 0 ELSE p.bal

apply_buy(p, fill) ==
    LET b == BalOf(p) + fill
    IN  [bal |-> b, status |-> Status(b), recent |-> TRUE]

\* Seeded defect: a sale of more than is known is subtracted all the same.
apply_sell_unchecked(p, sold) ==
    [bal |-> BalOf(p) - sold, status |-> Status(BalOf(p) - sold), recent |-> TRUE]

apply_sell(p, sold) ==
    IF sold > BalOf(p) THEN [bal |-> 0, status |-> "ReconcileNeeded", recent |-> TRUE]
    ELSE [bal |-> BalOf(p) - sold, status |-> Status(BalOf(p) - sold), recent |-> TRUE]

\* Seeded defect: a different balance is only flagged, not taken over.
apply_wallet_snapshot_flag(p, b) ==
    IF b = 0 THEN None
    ELSE IF p = None THEN [bal |-> b, status |-> "ReconcileNeeded", recent |-> FALSE]
    ELSE [p EXCEPT !.status = IF p.bal = b THEN "Open" ELSE "ReconcileNeeded"]

apply_wallet_snapshot(p, b) ==
    IF b = 0 THEN None
    ELSE [bal |-> b,
          status |-> IF p # None /\ p.bal = b THEN "Open" ELSE "ReconcileNeeded",
          recent |-> p # None /\ p.recent]

\* apply_wallet_snapshot_complete: the mints it forgets.
Ghosts(list) ==
    {m \in Mints : /\ BalOf(by_mint[m]) > 0 /\ m \notin list
                   /\ ~by_mint[m].recent}  \* ghost_eligible_after_snapshot_complete

\* to_snapshot and change_for_mint: what goes to the KV for a mint.
to_snapshot(p) == IF p = None THEN None ELSE [bal |-> p.bal, status |-> p.status]
Change(m, p) == [mint |-> m, val |-> to_snapshot(p)]

\* Seeded defect: the engine, too, enqueues after releasing the lock.
EmitLate(t, changes) ==
    held' = [held EXCEPT ![t] = changes] /\ queue' = queue

\* The engine enqueues inside the critical section; position-manager keeps
\* the changes in the task and enqueues them in a step of its own.
Emit(t, changes) ==
    IF host = "engine"
    THEN /\ queue' = IF changes = {} THEN queue ELSE Append(queue, changes)
         /\ held' = held
    ELSE held' = [held EXCEPT ![t] = changes] /\ queue' = queue

Ready(t) == held[t] = {} /\ Len(queue) < MaxQueue

\* apply_execution_result.  acked FALSE: position-manager's main loop was
\* cancelled, or the acknowledgement lost, between apply and ack, so the
\* stream delivers the result again.
ApplyResult(r, acked) ==
    /\ Ready("main") /\ r \in results
    /\ IF acked THEN results' = results \ {r} /\ faults' = faults
       ELSE host = "manager" /\ Fault /\ results' = results
    /\ LET p == IF r.new > r.old THEN apply_buy(by_mint[r.mint], r.new - r.old)
                ELSE apply_sell(by_mint[r.mint], r.old - r.new)
       IN  /\ by_mint' = [by_mint EXCEPT ![r.mint] = p]
           /\ Emit("main", {Change(r.mint, p)})
    /\ UNCHANGED <<host, wallet, feed, kv, unsynced>>

\* Seeded defect: a zero snapshot of an untracked mint emits no tombstone.
ApplySnapshotTracked ==
    /\ Ready("wallet") /\ stream # <<>>
    /\ stream' = Tail(stream)
    /\ LET m == Head(stream).mint
           p == apply_wallet_snapshot(by_mint[m], Head(stream).bal)
       IN  /\ by_mint' = [by_mint EXCEPT ![m] = p]
           /\ Emit("wallet", IF by_mint[m] = p THEN {} ELSE {Change(m, p)})
    /\ UNCHANGED <<host, wallet, results, last, complete, kv, unsynced, faults>>

\* apply_wallet_event_kind on the next snapshot of the live consumer.
ApplySnapshot ==
    /\ Ready("wallet") /\ stream # <<>>
    /\ stream' = Tail(stream)
    /\ LET m == Head(stream).mint
           p == apply_wallet_snapshot(by_mint[m], Head(stream).bal)
       IN  /\ by_mint' = [by_mint EXCEPT ![m] = p]
           /\ Emit("wallet", {Change(m, p)})
    /\ UNCHANGED <<host, wallet, results, last, complete, kv, unsynced, faults>>

\* Only the last snapshot of a mint in a fetched batch is applied.
SkipSuperseded ==
    /\ Ready("wallet") /\ stream # <<>>
    /\ \E i \in 2 .. Len(stream) : stream[i].mint = Head(stream).mint
    /\ stream' = Tail(stream)
    /\ UNCHANGED <<host, wallet, results, last, complete, book, faults>>

\* The completion list, taken by the main loop.
ApplyComplete ==
    /\ Ready("main") /\ complete # None
    /\ complete' = None
    /\ by_mint' = [m \in Mints |-> IF m \in Ghosts(complete) THEN None ELSE by_mint[m]]
    /\ Emit("main", {Change(m, None) : m \in Ghosts(complete)})
    /\ UNCHANGED <<host, wallet, results, last, stream, kv, unsynced, faults>>

\* Ninety seconds pass since the last execution of a mint.
GraceExpires(m) ==
    /\ by_mint[m] # None /\ by_mint[m].recent
    /\ by_mint' = [by_mint EXCEPT ![m].recent = FALSE]
    /\ UNCHANGED <<host, wallet, results, feed, held, queue, kv, unsynced, faults>>

-----------------------------------------------------------------------------
(***************************************************************************)
(* PositionAuthorityKvPublisher.                                           *)
(***************************************************************************)
enqueue(t) ==
    /\ held[t] # {} /\ Len(queue) < MaxQueue
    /\ queue' = Append(queue, held[t])
    /\ held' = [held EXCEPT ![t] = {}]
    /\ UNCHANGED <<host, wallet, results, feed, by_mint, kv, unsynced, faults>>

\* The worker writes a batch; the changes of D are not written (a failed put
\* ends the batch, a failed delete is ignored).
Publish(D) ==
    /\ queue # <<>> /\ D \subseteq Head(queue)
    /\ IF D = {} THEN faults' = faults ELSE Fault
    /\ queue' = Tail(queue)
    /\ LET done == Head(queue) \ D
           Of(C, m) == \E c \in C : c.mint = m
           Val(C, m) == (CHOOSE c \in C : c.mint = m).val
       IN  /\ kv' = [m \in Mints |-> IF Of(done, m) THEN Val(done, m) ELSE kv[m]]
           /\ unsynced' = {m \in Mints : Of(D, m) \/ (m \in unsynced /\ ~Of(done, m))}
    /\ UNCHANGED <<host, wallet, results, feed, by_mint, held>>

\* The process dies and starts again.  Memory and the queue are gone; the
\* durable streams and the bucket are not.  reconcile_position_authority_kv_
\* after_restart applies the last snapshot of every subject and writes the
\* outcome for those mints (all but the ones of D, when a write fails).  Keys
\* of other mints are swept only if a completion list was among the kinds:
\* the stream never holds one.
Restart(D) ==
    /\ Fault
    /\ D \subseteq InStream
    /\ LET p == [m \in Mints |-> IF m \in InStream THEN apply_wallet_snapshot(None, last[m])
                                 ELSE None]
       IN  /\ by_mint' = p
           /\ kv' = [m \in Mints |-> IF m \in InStream \ D THEN to_snapshot(p[m]) ELSE kv[m]]
    /\ unsynced' = (Mints \ InStream) \cup D
    /\ held' = [t \in Tasks |-> {}] /\ queue' = <<>>
    /\ results' = IF host = "engine" THEN {} ELSE results
    /\ complete' = None
    /\ UNCHANGED <<host, wallet, last, stream>>

-----------------------------------------------------------------------------
WalletTask == ApplySnapshot \/ enqueue("wallet")
MainTask == ApplyComplete \/ enqueue("main")
DrainResults == \E r \in results : ApplyResult(r, TRUE)

Next ==
    \/ \E m \in Mints, b \in 0 .. MaxBal, ours, reported \in BOOLEAN :
           WalletChange(m, b, ours, reported)
    \/ PeriodicScan \/ LoseComplete
    \/ WalletTask \/ SkipSuperseded
    \/ MainTask \/ DrainResults
    \/ \E r \in results : ApplyResult(r, FALSE)
    \/ \E m \in Mints : GraceExpires(m)
    \/ \E D \in SUBSET UNION Range(queue) : Publish(D)
    \/ \E D \in SUBSET Mints : Restart(D)

Spec == Init /\ [][Next]_vars

\* The periodic timer keeps scanning, the two tasks keep fetching, the worker
\* keeps writing and time passes.
Fairness ==
    /\ WF_vars(PeriodicScan) /\ WF_vars(WalletTask) /\ WF_vars(MainTask) /\ WF_vars(DrainResults)
    /\ WF_vars(Publish({}))
    /\ WF_vars(\E m \in Mints : GraceExpires(m))
FairSpec == Spec /\ Fairness

-----------------------------------------------------------------------------
(***************************************************************************)
(* Correctness.                                                            *)
(***************************************************************************)
\* Every variable has its type; in particular a SELL of more than the reducer
\* knows of (apply_sell) does not take the balance below zero, and a balance
\* exceeds the wallet's by at most what was bought and reported twice: one
\* snapshot that already contains results still to be applied, and results
\* that are redelivered.
TypeOK ==
    /\ host \in Hosts
    /\ chain \in [Mints -> 0 .. MaxBal]
    /\ last \in [Mints -> {None} \cup 0 .. MaxBal]
    /\ \A m \in Mints :
           by_mint[m] # None => /\ by_mint[m].bal \in 0 .. (MaxTrades + MaxFaults + 1) * MaxBal
                                /\ by_mint[m].status \in Statuses
                                /\ by_mint[m].recent \in BOOLEAN
    /\ complete = None \/ complete \subseteq Mints
    /\ unsynced \subseteq Mints

\* The bucket mirrors the reducer (kv_publish.rs:28, "preserves reducer apply
\* order"; execution_engine.rs:7121): in the host that enqueues under the
\* lock, once the queue is drained, every key whose last write went through
\* holds the reducer's present state of that mint.
KvFollows ==
    host = "engine" /\ queue = <<>>
        => \A m \in Mints \ unsynced : kv[m] = to_snapshot(by_mint[m])

\* However results, snapshots and completion lists are lost, reordered or
\* applied twice, and whoever crashes: once the wallet rests, the reducer
\* comes to agree with it and stays so.
Converges == <>[](\A m \in Mints : BalOf(by_mint[m]) = chain[m])

\* So does the bucket, in both hosts, for every mint the stream knows.
KvConverges == <>[](\A m \in InStream : BalOf(kv[m]) = chain[m])
=============================================================================
