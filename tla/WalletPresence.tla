--------------------------- MODULE WalletPresence ---------------------------
(***************************************************************************)
(* What LockManager (src/src/storage/locks.rs) knows about one wallet      *)
(* token account: whether it exists on chain, its free balance, and the    *)
(* slot of the last confirmed full close.  Three tasks write it at the same*)
(* time: two that apply wallet snapshots (apply_wallet_token_snapshot), the*)
(* wallet snapshot consumer and the liquidation, and the intent task that  *)
(* finishes a full SELL (clear_token_wallet_presence).  Every step is one  *)
(* critical section of one RwLock, and the steps interleave freely.        *)
(*                                                                         *)
(* Slots start at 1; NoSlot stands for a None slot, NotCleared for a       *)
(* missing entry of token_wallet_ata_cleared_at_slot.  Snapshots may be    *)
(* delivered in any order and any number of times.                         *)
(***************************************************************************)
EXTENDS Integers

CONSTANTS
    MaxSlot,    \* bound: slots of the chain
    MaxAmount,  \* bound: token amounts
    SlotKnown   \* subset of BOOLEAN: may the landing slot of a close be known / unknown?

ASSUME PresenceType == /\ MaxSlot \in Nat /\ MaxAmount \in Nat
                       /\ SlotKnown \subseteq BOOLEAN

NoSlot == 0
NotCleared == -1

VARIABLES
    slot, open, held,  \* the chain: current slot, does the account exist, its amount
    snapshots,         \* every snapshot ever published
    closes,            \* confirmed full SELLs whose task has not yet cleared
    present,           \* token_wallet_ata_present contains the mint
    available,         \* available_tokens of the mint (no locks here)
    cleared,           \* token_wallet_ata_cleared_at_slot of the mint
    reader,            \* per task that applies snapshots: [pc, snap]
    closer,            \* the SELL task: [pc, slot]
    last_close,        \* history: the close slot last recorded, NotCleared at first
    raced              \* history: did a snapshot's handling overlap the latest close?

chain == <<slot, open, held, snapshots, closes>>
book  == <<present, available, cleared>>
history == <<last_close, raced>>
presenceVars == <<chain, book, reader, closer, history>>

Handlers == {"consumer", "liquidation"}

Idle == [pc |-> "idle", snap |-> [slot |-> NoSlot, amount |-> 0]]
IdleCloser == [pc |-> "idle", slot |-> NoSlot]

PresenceInit ==
    /\ slot = 0 /\ open = FALSE /\ held = 0
    /\ snapshots = {} /\ closes = {}
    /\ present = FALSE /\ available = 0 /\ cleared = NotCleared
    /\ reader = [h \in Handlers |-> Idle] /\ closer = IdleCloser
    /\ last_close = NotCleared /\ raced = FALSE

-----------------------------------------------------------------------------
(***************************************************************************)
(* The chain and its feed (external).                                      *)
(***************************************************************************)
\* A transaction in this slot or the next leaves amount a in the account; the
\* feed reports it with its slot.  The RPC inventory scan of a liquidation
\* reports it without a slot.
ChainBalance(a, s) ==
    /\ s \in {slot, slot + 1} /\ s \in 1 .. MaxSlot
    /\ slot' = s /\ open' = TRUE /\ held' = a
    /\ snapshots' = snapshots \cup {[slot |-> s, amount |-> a], [slot |-> NoSlot, amount |-> a]}
    /\ UNCHANGED <<closes, book, reader, closer, history>>

\* A full SELL closes the account; market-data also publishes a zero snapshot.
ChainClose(known, s) ==
    /\ open /\ closes = {}
    /\ s \in {slot, slot + 1} /\ s \in 1 .. MaxSlot
    /\ slot' = s /\ open' = FALSE /\ held' = 0
    /\ snapshots' = snapshots \cup {[slot |-> NoSlot, amount |-> 0]}
    /\ closes' = {IF known THEN s ELSE NoSlot}
    /\ UNCHANGED <<book, reader, closer, history>>

-----------------------------------------------------------------------------
(***************************************************************************)
(* apply_wallet_token_snapshot.                                            *)
(***************************************************************************)
\* Seeded defect: the close slot itself counts as newer than the close.
StaleStrict(s) ==
    \/ cleared > NoSlot /\ s.slot > NoSlot /\ s.slot < cleared
    \/ cleared = NoSlot /\ s.slot > NoSlot

\* wallet_token_snapshot_stale_after_close, the slot comparison.
Stale(s) ==
    \/ cleared > NoSlot /\ s.slot > NoSlot /\ s.slot <= cleared
    \/ cleared = NoSlot /\ s.slot > NoSlot

\* Its last branch: a slot-less zero snapshot only heals the balance.
HealsOnly(s) == cleared # NotCleared /\ s.slot = NoSlot /\ s.amount = 0

\* The consumer takes whatever the feed delivers; the liquidation applies the
\* non-zero balances of its inventory, without a slot.
Takes(h, s) == h = "liquidation" => s.slot = NoSlot /\ s.amount > 0

\* The check reads the close marker and lets go of it.
SnapshotCheck(h, s) ==
    /\ reader[h].pc = "idle" /\ Takes(h, s)
    /\ reader' = IF Stale(s) THEN reader
                 ELSE [reader EXCEPT ![h] =
                         [pc |-> IF HealsOnly(s) THEN "heal" ELSE "unclear", snap |-> s]]
    /\ raced' = (raced \/ (closer.pc # "idle" /\ ~Stale(s)))
    /\ UNCHANGED <<chain, book, closer, last_close>>

SnapshotHeal(h) ==
    /\ reader[h].pc = "heal"
    /\ available' = 0
    /\ reader' = [reader EXCEPT ![h] = Idle]
    /\ UNCHANGED <<chain, present, cleared, closer, history>>

\* Seeded defect: the close marker survives a newer snapshot.
SnapshotUnclearKept(h) ==
    /\ reader[h].pc = "unclear"
    /\ reader' = [reader EXCEPT ![h].pc = "mark"]
    /\ UNCHANGED <<chain, book, closer, history>>

\* contains_key and remove: the removal is a no-op when there is no marker, and
\* takes whatever marker is there by then.
SnapshotUnclear(h) ==
    /\ reader[h].pc = "unclear"
    /\ cleared' = NotCleared
    /\ reader' = [reader EXCEPT ![h].pc = "mark"]
    /\ UNCHANGED <<chain, present, available, closer, history>>

mark_token_wallet_ata_present(h) ==
    /\ reader[h].pc = "mark"
    /\ present' = TRUE
    /\ reader' = [reader EXCEPT ![h].pc = "set"]
    /\ UNCHANGED <<chain, available, cleared, closer, history>>

SnapshotSet(h) ==
    /\ reader[h].pc = "set"
    /\ available' = reader[h].snap.amount
    /\ reader' = [reader EXCEPT ![h] = Idle]
    /\ UNCHANGED <<chain, present, cleared, closer, history>>

-----------------------------------------------------------------------------
(***************************************************************************)
(* clear_token_wallet_presence.                                            *)
(***************************************************************************)
ClearPresent(c) ==
    /\ closer.pc = "idle" /\ c \in closes
    /\ present' = FALSE
    /\ closes' = closes \ {c}
    /\ closer' = [pc |-> "tokens", slot |-> c]
    /\ raced' = (\E h \in Handlers : reader[h].pc # "idle")
    /\ UNCHANGED <<slot, open, held, snapshots, available, cleared, reader, last_close>>

ClearTokens ==
    /\ closer.pc = "tokens"
    /\ available' = 0
    /\ closer' = [closer EXCEPT !.pc = "slot"]
    /\ UNCHANGED <<chain, present, cleared, reader, history>>

ClearSlot ==
    /\ closer.pc = "slot"
    /\ cleared' = closer.slot
    /\ last_close' = closer.slot
    /\ closer' = IdleCloser
    /\ UNCHANGED <<chain, present, available, reader, raced>>

token_wallet_snapshot_seen == available > 0 \/ present

-----------------------------------------------------------------------------
PresenceNext ==
    \/ \E a \in 0 .. MaxAmount, s \in 1 .. MaxSlot : ChainBalance(a, s)
    \/ \E known \in SlotKnown, s \in 1 .. MaxSlot : ChainClose(known, s)
    \/ \E h \in Handlers :
         \/ \E s \in snapshots : SnapshotCheck(h, s)
         \/ SnapshotHeal(h) \/ SnapshotUnclear(h)
         \/ mark_token_wallet_ata_present(h) \/ SnapshotSet(h)
    \/ \E c \in closes : ClearPresent(c)
    \/ ClearTokens \/ ClearSlot

PresenceSpec == PresenceInit /\ [][PresenceNext]_presenceVars

-----------------------------------------------------------------------------
(***************************************************************************)
(* Correctness.                                                            *)
(***************************************************************************)
\* News of the account: a snapshot without a slot, or newer than a close whose
\* slot is known.
Fresh(s) == \/ last_close = NotCleared \/ s.slot = NoSlot
            \/ last_close > NoSlot /\ s.slot > last_close

\* The comment on token_wallet_ata_cleared_at_slot (locks.rs:360) promises that
\* snapshots at or before the close do not restore the presence.  The check of
\* the marker and the writes it allows are separate critical sections, so a close
\* between them breaks that promise.  The damage is confined to such a close:
\* after one that no snapshot's handling overlapped, whatever raced with earlier
\* closes and however many tasks apply snapshots since, the presence comes back
\* only while one of them holds news of the account.
CleanCloseHolds ==
    [][~present /\ present' /\ ~raced
         => \E h \in Handlers : reader[h].pc = "mark" /\ Fresh(reader[h].snap)]_presenceVars

\* After such a close the account does not count as existing (so that a plan
\* keeps its CreateIdempotent) for as long as the close's marker is there, even
\* while snapshots are being applied.
ClosedStaysClosed ==
    closer.pc = "idle" /\ ~raced /\ cleared # NotCleared => ~token_wallet_snapshot_seen
=============================================================================
