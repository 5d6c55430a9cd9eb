-------------------------- MODULE MomentumPositions --------------------------
(***************************************************************************)
(* The life of one token in momentum-bot (src/src/bin/momentum_bot.rs):    *)
(* the entry state machine of its tracker, the position overlay, the       *)
(* intents it waits for, and what execution results, wallet snapshots and  *)
(* the POSITION_AUTHORITY bucket do to them.                               *)
(*                                                                         *)
(* The main loop is sequential: it evaluates entries, scans for exits,     *)
(* drains results and market events and cleans up.  Three tasks run beside *)
(* it: the intent publish worker, the watcher of the authority bucket, and *)
(* an exit scan spawned by every confirmed BUY.  One pool per mint; every  *)
(* BUY fills one unit.  Prices, quotes, pools and the filters that decide  *)
(* whether to enter or leave are nondeterministic.                         *)
(***************************************************************************)
EXTENDS Naturals, Sequences, FiniteSets

CONSTANTS
    None,       \* a missing entry
    MaxBuys,    \* bound: BUY intents
    SellIds,    \* intent ids of SELLs, used again once nobody knows them
    Liquidation,\* the intent id of the engine's liquidation job
    MaxFaults   \* bound: failures, timeouts, redeliveries, foreign sales

\* MomentumPosition, and the intents that are queued, ordered or pending: a BUY
\* is sized by the engine, a SELL by the bot.
Positions == [amt : Nat, src : {"Live", "WalletSnapshot"},
              latched : BOOLEAN, fresh : BOOLEAN, cooling : BOOLEAN]
Buys  == [id : Nat, side : {"buy"}, kind : {"probe", "scale_in"}, amt : {0}]
Sells == [id : SellIds, side : {"sell"}, kind : {None}, amt : Nat \ {0}]

ASSUME MomentumConstants ==
    /\ MaxBuys \in Nat /\ MaxFaults \in Nat
    /\ IsFiniteSet(SellIds) /\ Liquidation \notin SellIds
    /\ (SellIds \cup {Liquidation, None}) \cap Nat = {}
    /\ None \notin Positions \cup Buys \cup Sells

Fill == 1

VARIABLES
    tracker,    \* TokenTracker.state
    pos,        \* positions[mint]: [amt, src, latched, fresh, cooling], or None
    pending,    \* pending_intents of the mint: [id, side, kind, amt]
    entry,      \* pending_buy_entries / pending_buy_mint_index: an intent id, or None
    recovered,  \* orphaned_recovered_intent_ids
    hint,       \* latest_wallet_balance_raw_by_mint, or None
    auth,       \* authority_by_mint: a balance, or None
    sold,       \* has_recent_confirmed_full_sell
    rescan,     \* a spawned exit scan has not run yet
    exits,      \* exit signals being turned into intents: task -> amount, or 0
    queue,      \* the intent publish channel
    posting,    \* the job the worker has published and not yet booked, or None
    next,       \* next BUY id
    chain,      \* the wallet's balance
    orders,     \* intents on their way to or in the engine
    results,    \* execution results not yet taken
    bought,     \* history: units bought so far
    was,        \* history: the balance before the last trade
    faults      \* history

bot   == <<tracker, pos, pending, entry, recovered, hint, auth, sold>>
tasks == <<rescan, exits, queue, posting, next>>
world == <<chain, was, orders, results, bought>>
vars  == <<bot, tasks, world, faults>>

Tasks == {"main", "spawned"}

Init ==
    /\ tracker = "watch" /\ pos = None /\ pending = {} /\ entry = None
    /\ recovered = {} /\ hint = None /\ auth = None /\ sold = FALSE
    /\ rescan = FALSE /\ exits = [t \in Tasks |-> 0] /\ queue = <<>> /\ posting = None /\ next = 1
    /\ chain = 0 /\ was = 0 /\ orders = {} /\ results = {} /\ bought = 0
    /\ faults = 0

Fault == faults < MaxFaults /\ faults' = faults + 1
MainIdle == exits["main"] = 0

-----------------------------------------------------------------------------
(***************************************************************************)
(* Positions and the authority overlay.                                    *)
(***************************************************************************)
Position(amt, src) ==
    [amt |-> amt, src |-> src, latched |-> FALSE, fresh |-> src = "Live", cooling |-> FALSE]

open_position(p, amt) ==
    IF p = None THEN Position(amt, "Live")
    ELSE [p EXCEPT !.amt = @ + amt, !.latched = FALSE]

Unlatched(p, cooling) ==
    IF p = None THEN None ELSE [p EXCEPT !.latched = FALSE, !.cooling = @ \/ cooling]
mark_exit_generated(p) == IF p = None THEN None ELSE [p EXCEPT !.latched = TRUE]

authority_signals_closed(a) == a \in {None, 0}
authority_allows_soft_exit == ~authority_signals_closed(auth)
authority_blocks_overlay_reopen == sold \/ auth = 0

has_pending_sell == \E p \in pending : p.side = "sell"
pending_buy_blocks_reconcile == entry # None \/ \E p \in pending : p.side = "buy"

larger(a, b) == IF a < b THEN b ELSE a

\* resolve_exit_token_amount_raw: nothing against a flat authority, else the
\* largest of overlay, scan and authority, capped by the wallet hint.
resolve_exit_token_amount_raw(scanned) ==
    LET overlay == IF pos # None /\ pos.amt > 0 THEN pos.amt ELSE scanned
        known == larger(overlay, IF auth = None THEN 0 ELSE auth)
    IN  IF auth = 0 THEN 0
        ELSE IF hint # None /\ hint < known THEN hint
        ELSE known

\* A balance that reaches the bot: the wallet's, or late, the one before.
Seen(balance) ==
    \/ balance = chain /\ faults' = faults
    \/ balance = was /\ was # chain /\ Fault

\* apply_authority_snapshot_update, run by the watcher task.  a: the record's
\* balance, or None for a deleted key; exec: an execution wrote it.
AuthorityUpdate(a, exec) ==
    /\ Seen(IF a = None THEN 0 ELSE a)
    /\ LET evidence == sold \/ (a = 0 /\ exec)
       IN  pos' = IF /\ authority_signals_closed(a) /\ pos # None
                     /\ (~pos.fresh \/ evidence)
                  THEN None ELSE pos
    /\ auth' = a
    /\ UNCHANGED <<tracker, pending, entry, recovered, hint, sold, tasks, world>>

-----------------------------------------------------------------------------
(***************************************************************************)
(* Entries: check_for_signals_eval_sorted_tracker_keys,                    *)
(* generate_and_publish_buy_intent, register_buy_intent.                   *)
(***************************************************************************)
Job(id, side, kind, amt) == [id |-> id, side |-> side, kind |-> kind, amt |-> amt]

Buy(kind, waiting) ==
    /\ next <= MaxBuys
    /\ tracker' = waiting
    /\ pending' = pending \cup {Job(next, "buy", kind, 0)}
    /\ queue' = Append(queue, Job(next, "buy", kind, 0))
    /\ next' = next + 1
    /\ UNCHANGED <<pos, entry, recovered, hint, auth, sold, rescan, exits, posting, world, faults>>

ProbeBuy == MainIdle /\ tracker = "watch" /\ Buy("probe", "probe_pending")
ScaleIn  == MainIdle /\ tracker = "open_probe" /\ pos # None /\ Buy("scale_in", "scale_pending")

\* The scale-in window ends.
ScaleInWindowExpired ==
    /\ MainIdle /\ tracker = "open_probe"
    /\ tracker' = "open_full"
    /\ UNCHANGED <<pos, pending, entry, recovered, hint, auth, sold, tasks, world, faults>>

\* cleanup_old_trackers: a finished tracker goes; the mint may be seen again.
CleanupTracker ==
    /\ MainIdle /\ tracker \in {"rejected", "open_full"} /\ pos = None
    /\ tracker' = "watch"
    /\ UNCHANGED <<pos, pending, entry, recovered, hint, auth, sold, tasks, world, faults>>

unwind(tr, kind) ==
    CASE kind = "probe" /\ tr = "probe_pending" -> "watch"
      [] kind = "scale_in" /\ tr = "scale_pending" -> "open_probe"
      [] OTHER -> tr

-----------------------------------------------------------------------------
(***************************************************************************)
(* intent_publish_worker_loop.                                             *)
(***************************************************************************)
Waiting(id) == \E p \in pending : p.id = id
WithoutId(id) == {p \in pending : p.id # id}

\* A BUY that an exit cancelled in the meantime is not published.
DropCancelledBuy ==
    /\ posting = None /\ queue # <<>>
    /\ Head(queue).side = "buy" /\ ~Waiting(Head(queue).id)
    /\ queue' = Tail(queue)
    /\ tracker' = unwind(tracker, Head(queue).kind)
    /\ UNCHANGED <<pos, pending, entry, recovered, hint, auth, sold, rescan, exits, posting, next,
                   world, faults>>

Publish ==
    /\ posting = None /\ queue # <<>>
    /\ (Head(queue).side = "buy") => Waiting(Head(queue).id)
    /\ orders' = orders \cup {Head(queue)}
    /\ posting' = Head(queue)
    /\ queue' = Tail(queue)
    /\ UNCHANGED <<bot, rescan, exits, next, chain, was, results, bought, faults>>

\* The publish fails: the BUY is unwound, the exit rolled back for a retry.
PublishFails ==
    /\ posting = None /\ queue # <<>>
    /\ (Head(queue).side = "buy") => Waiting(Head(queue).id)
    /\ Fault
    /\ queue' = Tail(queue)
    /\ pending' = WithoutId(Head(queue).id)
    /\ IF Head(queue).side = "buy"
       THEN tracker' = unwind(tracker, Head(queue).kind) /\ pos' = pos
       ELSE tracker' = tracker /\ pos' = Unlatched(pos, FALSE)
    /\ UNCHANGED <<entry, recovered, hint, auth, sold, rescan, exits, posting, next, world>>

\* register_pending_buy_entry_after_publish, record_exit_intent_published.
BookPublished ==
    /\ posting # None
    /\ IF posting.side = "buy" THEN entry' = posting.id /\ pos' = pos
       ELSE /\ entry' = entry
            /\ pos' = IF Waiting(posting.id) THEN mark_exit_generated(pos) ELSE pos
    /\ posting' = None
    /\ UNCHANGED <<tracker, pending, recovered, hint, auth, sold, rescan, exits, queue, next, world, faults>>

-----------------------------------------------------------------------------
(***************************************************************************)
(* Exits.                                                                  *)
(***************************************************************************)
MayScan(t) == exits[t] = 0 /\ (t = "spawned" => rescan)

\* check_for_exits: hard exits (LP removed, the developer sold) skip the
\* cooldown and the authority.  Pending BUYs of the mint are cancelled.
check_for_exits(t, hard) ==
    /\ MayScan(t)
    /\ pos # None /\ ~pos.latched /\ ~has_pending_sell
    /\ hard \/ /\ ~pos.cooling /\ authority_allows_soft_exit
               /\ resolve_exit_token_amount_raw(pos.amt) > 0
    /\ exits' = [exits EXCEPT ![t] = pos.amt]
    /\ rescan' = (rescan /\ t # "spawned")
    /\ pending' = {p \in pending : p.side # "buy"}
    /\ UNCHANGED <<tracker, pos, entry, recovered, hint, auth, sold, queue, posting, next,
                   world, faults>>

\* The spawned scan finds nothing to do.
SpawnedScanEmpty ==
    /\ MayScan("spawned")
    /\ rescan' = FALSE
    /\ UNCHANGED <<bot, exits, queue, posting, next, world, faults>>

\* collect_timed_exit_reconcile_candidates: past max_hold_time; a latched
\* exit is tried again once its retry delay is over.
reconcile_timed_exits ==
    /\ MainIdle
    /\ pos # None /\ ~pos.fresh /\ ~has_pending_sell
    /\ pos.latched \/ ~pos.cooling
    /\ exits' = [exits EXCEPT !["main"] = pos.amt]
    /\ UNCHANGED <<bot, rescan, queue, posting, next, world, faults>>

\* Ids of SELLs nobody remembers; with none left (a bound), no SELL is made.
FreeSellIds ==
    {s \in SellIds : /\ ~Waiting(s) /\ (posting = None \/ posting.id # s)
                     /\ \A i \in DOMAIN queue : queue[i].id # s
                     /\ \A o \in orders \cup results : o.id # s}

\* generate_and_publish_exit_intent: sizes the SELL anew; gives up on zero.
\* Otherwise registers it, sets the latch (register_sell_intent) and queues it.
GenerateExit(t) ==
    /\ exits[t] > 0
    /\ exits' = [exits EXCEPT ![t] = 0]
    /\ LET amt == resolve_exit_token_amount_raw(exits[t])
       IN  IF amt = 0 \/ FreeSellIds = {} THEN UNCHANGED <<pending, pos, queue>>
           ELSE /\ LET job == Job(CHOOSE s \in FreeSellIds : TRUE, "sell", None, amt)
                   IN  /\ pending' = pending \cup {job}
                       /\ queue' = Append(queue, job)
                /\ pos' = mark_exit_generated(pos)
    /\ UNCHANGED <<tracker, entry, recovered, hint, auth, sold, rescan, posting, next, world, faults>>

\* No route or no creator: nothing is registered.
GenerateExitFails(t) ==
    /\ exits[t] > 0
    /\ Fault
    /\ exits' = [exits EXCEPT ![t] = 0]
    /\ UNCHANGED <<bot, rescan, queue, posting, next, world>>

-----------------------------------------------------------------------------
(***************************************************************************)
(* handle_execution_result.                                                *)
(***************************************************************************)
Drop(e, id) == IF e = id THEN None ELSE e
Filled(kind) == IF kind = "scale_in" THEN "open_full" ELSE "open_probe"

BuyConfirmed(r, p) ==
    IF r.fill = None
    THEN /\ tracker' = IF p.kind = "scale_in" THEN "open_full" ELSE "rejected"
         /\ UNCHANGED <<pos, recovered, hint, auth, sold, rescan>>
    ELSE /\ tracker' = Filled(p.kind)
         /\ recovered' = recovered \cup {r.id}
         /\ pos' = open_position(pos, r.fill)
         /\ sold' = (sold /\ pos # None)
         /\ hint' = r.fill
         /\ rescan' = TRUE
         /\ UNCHANGED auth

SellConfirmed(r) ==
    IF pos # None /\ r.fill < pos.amt
    THEN /\ pos' = [pos EXCEPT !.amt = @ - r.fill, !.latched = FALSE]
         /\ hint' = pos.amt - r.fill
         /\ UNCHANGED <<auth, sold>>
    ELSE /\ pos' = None /\ hint' = None
         /\ auth' = 0 /\ sold' = TRUE   \* mark_confirmed_full_sell

\* The result of an intent the bot still waits for.
PendingResult(r, p) ==
    /\ pending' = pending \ {p}
    /\ IF p.side = "buy"
       THEN /\ entry' = Drop(entry, r.id)
            /\ IF r.status = "confirmed" THEN BuyConfirmed(r, p)
               ELSE tracker' = "rejected" /\ UNCHANGED <<pos, recovered, hint, auth, sold, rescan>>
       ELSE /\ IF r.status = "confirmed" THEN SellConfirmed(r)
               ELSE pos' = Unlatched(pos, TRUE) /\ UNCHANGED <<hint, auth, sold>>
            /\ UNCHANGED <<tracker, entry, recovered, rescan>>

\* Seeded defect: a redelivered result is applied again.
OrphanBuyAgain(r) ==
    /\ pos' = IF pos # None /\ pos.src = "WalletSnapshot" /\ pos.amt = r.fill
              THEN [pos EXCEPT !.src = "Live"] ELSE open_position(pos, r.fill)
    /\ sold' = (sold /\ pos # None)
    /\ tracker' = Filled(r.kind)
    /\ recovered' = recovered
    /\ entry' = Drop(entry, r.id)
    /\ rescan' = TRUE
    /\ UNCHANGED <<pending, hint, auth>>

\* Orphaned BUY: applied once; a position that a wallet snapshot already
\* sized like the fill is only confirmed.
OrphanBuy(r) ==
    IF r.id \in recovered
    THEN UNCHANGED <<tracker, pos, pending, entry, recovered, hint, auth, sold, rescan>>
    ELSE /\ pos' = IF pos # None /\ pos.src = "WalletSnapshot" /\ pos.amt = r.fill
                   THEN [pos EXCEPT !.src = "Live"] ELSE open_position(pos, r.fill)
         /\ sold' = (sold /\ pos # None)
         /\ tracker' = Filled(r.kind)
         /\ recovered' = recovered \cup {r.id}
         /\ entry' = Drop(entry, r.id)
         /\ rescan' = TRUE
         /\ UNCHANGED <<pending, hint, auth>>

\* The result of an intent no longer waited for.
OrphanResult(r) ==
    CASE r.id = Liquidation /\ pos # None ->
             /\ pos' = None /\ auth' = 0 /\ sold' = TRUE
             /\ UNCHANGED <<tracker, pending, entry, recovered, hint, rescan>>
      [] r.side = "buy" /\ r.status = "confirmed" /\ r.fill # None -> OrphanBuy(r)
      [] r.side = "buy" /\ r.status = "confirmed" /\ r.fill = None ->
             /\ entry' = Drop(entry, r.id)
             /\ UNCHANGED <<tracker, pos, pending, recovered, hint, auth, sold, rescan>>
      [] r.side = "sell" /\ r.status # "confirmed" ->
             /\ pos' = Unlatched(pos, TRUE)
             /\ UNCHANGED <<tracker, pending, entry, recovered, hint, auth, sold, rescan>>
      [] OTHER -> UNCHANGED <<tracker, pos, pending, entry, recovered, hint, auth, sold, rescan>>

\* again: the acknowledgement is lost and the stream delivers r once more.
HandleResult(r, again) ==
    /\ MainIdle /\ r \in results
    /\ IF again THEN Fault /\ results' = results
       ELSE results' = results \ {r} /\ faults' = faults
    /\ IF Waiting(r.id) THEN PendingResult(r, CHOOSE p \in pending : p.id = r.id)
       ELSE OrphanResult(r)
    /\ UNCHANGED <<exits, queue, posting, next, chain, was, orders, bought>>

\* cleanup_stale_pending: an intent older than two minutes is given up.
CleanupStale(p) ==
    /\ MainIdle /\ p \in pending /\ p.id \notin {queue[i].id : i \in DOMAIN queue}
    /\ Fault
    /\ pending' = pending \ {p}
    /\ entry' = IF p.side = "buy" THEN Drop(entry, p.id) ELSE entry
    /\ UNCHANGED <<tracker, pos, recovered, hint, auth, sold, tasks, world>>

-----------------------------------------------------------------------------
(***************************************************************************)
(* process_market_event: wallet snapshots and the completion list.         *)
(***************************************************************************)
WalletSnapshot(balance) ==
    /\ MainIdle /\ Seen(balance)
    /\ hint' = IF balance = 0 THEN None ELSE balance
    /\ pos' = IF balance = 0
              THEN IF pos # None /\ pos.src = "WalletSnapshot" /\ ~has_pending_sell
                   THEN None ELSE pos
              ELSE IF /\ pos = None /\ ~pending_buy_blocks_reconcile
                      /\ ~authority_blocks_overlay_reopen
                   THEN Position(balance, "WalletSnapshot") ELSE pos
    /\ UNCHANGED <<tracker, pending, entry, recovered, auth, sold, tasks, world>>

\* Seeded defect: the ghost cleanup has no grace period.
WalletSnapshotCompleteNoGrace(balance) ==
    /\ MainIdle /\ Seen(balance)
    /\ pos' = IF balance = 0 THEN None ELSE pos
    /\ UNCHANGED <<tracker, pending, entry, recovered, hint, auth, sold, tasks, world>>

WalletSnapshotComplete(balance) ==
    /\ MainIdle /\ Seen(balance)
    /\ pos' = IF balance = 0 /\ pos # None /\ ~pos.fresh THEN None ELSE pos
    /\ UNCHANGED <<tracker, pending, entry, recovered, hint, auth, sold, tasks, world>>

\* Seeded defect: the reopen guard of a confirmed full SELL does not end.
TimePassesForSale ==
    /\ pos # None /\ (pos.fresh \/ pos.cooling)
    /\ pos' = [pos EXCEPT !.fresh = FALSE, !.cooling = FALSE]
    /\ UNCHANGED <<tracker, pending, entry, recovered, hint, auth, sold, tasks, world, faults>>

\* Ninety seconds pass: the entry is no longer fresh, the cooldown and the
\* reopen guard are over.
TimePasses ==
    /\ (pos # None /\ (pos.fresh \/ pos.cooling)) \/ sold
    /\ pos' = IF pos = None THEN None ELSE [pos EXCEPT !.fresh = FALSE, !.cooling = FALSE]
    /\ sold' = FALSE
    /\ UNCHANGED <<tracker, pending, entry, recovered, hint, auth, tasks, world, faults>>

-----------------------------------------------------------------------------
(***************************************************************************)
(* The engine and the wallet (external).                                    *)
(***************************************************************************)
Result(o, status, fill) ==
    [id |-> o.id, side |-> o.side, kind |-> o.kind, status |-> status, fill |-> fill]

\* An order that can be filled is filled; faults are a failure, a timeout
\* whose transaction landed, and a fill that could not be read.  Timing: the
\* answer takes longer than the worker's next step, BookPublished.
Execute(o, landed, status, fill) ==
    /\ o \in orders /\ posting # o
    /\ landed => o.side = "buy" \/ o.amt <= chain
    /\ (status = "confirmed") <=> (landed /\ status # "timeout")
    /\ IF status # "confirmed" THEN fill = None
       ELSE IF o.side = "sell" THEN fill = o.amt
       ELSE fill \in {None, Fill}
    /\ IF \/ status = "confirmed" /\ fill # None
          \/ status = "failed" /\ o.side = "sell" /\ o.amt > chain
       THEN faults' = faults ELSE Fault
    /\ orders' = orders \ {o}
    /\ chain' = IF ~landed THEN chain ELSE IF o.side = "buy" THEN chain + Fill ELSE chain - o.amt
    /\ was' = IF landed THEN chain ELSE was
    /\ bought' = IF landed /\ o.side = "buy" THEN bought + Fill ELSE bought
    /\ results' = results \cup {Result(o, status, fill)}
    /\ UNCHANGED <<bot, tasks>>

\* The wallet is emptied by somebody else: a liquidation, which the engine
\* reports, or a manual sale, which nobody does.
ForeignSale(liquidation) ==
    /\ chain > 0
    /\ Fault
    /\ chain' = 0 /\ was' = chain
    /\ results' = IF liquidation
                  THEN results \cup {Result(Job(Liquidation, "sell", None, chain), "confirmed", chain)}
                  ELSE results
    /\ UNCHANGED <<bot, tasks, orders, bought>>

-----------------------------------------------------------------------------
Exit ==
    \/ \E t \in Tasks, hard \in BOOLEAN : check_for_exits(t, hard)
    \/ reconcile_timed_exits \/ SpawnedScanEmpty
Engine ==
    \E o \in orders, landed \in BOOLEAN, status \in {"confirmed", "failed", "timeout"} :
        \E fill \in {None, Fill, o.amt} : Execute(o, landed, status, fill)
Handle == \E r \in results : HandleResult(r, FALSE)
Work == DropCancelledBuy \/ Publish \/ BookPublished
Feeds ==
    \/ \E a \in {None, chain, was}, exec \in BOOLEAN : AuthorityUpdate(a, exec)
    \/ \E balance \in {chain, was} : WalletSnapshot(balance) \/ WalletSnapshotComplete(balance)

Next ==
    \/ ProbeBuy \/ ScaleIn \/ ScaleInWindowExpired \/ CleanupTracker
    \/ Work \/ PublishFails
    \/ Exit \/ \E t \in Tasks : GenerateExit(t) \/ GenerateExitFails(t)
    \/ Handle \/ \E r \in results : HandleResult(r, TRUE)
    \/ \E p \in pending : CleanupStale(p)
    \/ Feeds
    \/ TimePasses \/ Engine \/ \E liquidation \in BOOLEAN : ForeignSale(liquidation)

Spec == Init /\ [][Next]_vars

(***************************************************************************)
(* The main loop, the worker, the spawned scan and the watcher keep        *)
(* running; the engine answers every order; the wallet is scanned and the  *)
(* authority published periodically; a position held too long is sold.     *)
(* Strong fairness where another task or scan may come first.              *)
(***************************************************************************)
FairSpec ==
    /\ Spec
    /\ WF_vars(Work) /\ WF_vars(Engine) /\ WF_vars(TimePasses)
    /\ WF_vars(GenerateExit("main")) /\ WF_vars(GenerateExit("spawned"))
    /\ SF_vars(Handle) /\ SF_vars(reconcile_timed_exits)
    /\ SF_vars(\E balance \in {chain, was} : WalletSnapshot(balance))
    /\ WF_vars(\E a \in {None, chain, was}, exec \in BOOLEAN : AuthorityUpdate(a, exec))

-----------------------------------------------------------------------------
\* NoDoubleFill: the position is never larger than what was bought for it,
\* although one fill can reach it as a result, again as a redelivered or
\* orphaned result, and as a wallet snapshot (handle_execution_result's
\* orphaned_recovered_intent_ids, wallet_snapshot_orphan_fill_already_applied,
\* pending_buy_blocks_wallet_snapshot_reconcile).  With one fault: after two,
\* a snapshot can size the position with two fills of which one is still to
\* come as an orphaned result, and is not recognised (README, known departures).
NoDoubleFill == pos # None /\ faults <= 1 => pos.amt <= bought

\* GraceProtects: a position younger than GHOST_CLEANUP_GRACE_SECS is only
\* closed on evidence of a sale (a confirmed SELL, or an authority record
\* written for an execution), never because a balance read before the BUY
\* arrives late as a completion list, a deleted key or a zero snapshot.
GraceProtects ==
    [][(pos # None /\ pos.fresh /\ pos' = None) => (sold' \/ auth' = 0)]_vars

\* EventuallyFlat: whatever fails, is late, lands unnoticed, is redelivered
\* or is sold by somebody else, the bot ends with no position and no tokens,
\* unless a pending-BUY entry was left behind: it blocks the reconcile of
\* wallet snapshots for ever (README, known departures).
EventuallyFlat == <>[](pos = None /\ (chain > 0 => entry # None))
=============================================================================
