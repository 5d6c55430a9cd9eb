-------------------------- MODULE MarketDataProofs --------------------------
(* Theorems about market-data: PoolCache, for every chain, kind of pool,     *)
(* set of transaction threads and number of refreshes and restarts; and      *)
(* TrackWorker, for every set of mints and pools, all caps and budgets.      *)
EXTENDS PoolCache, TrackWorker, FiniteSetTheorems, TLAPS

-----------------------------------------------------------------------------
(***************************************************************************)
(* PoolCache.  Types carry the one fact about slots that everything rests  *)
(* on: no slot that is stored or sent is above the head h of the chain.    *)
(***************************************************************************)
Reserves == [Legs -> Nat \cup {Omitted}]
Row(h) == [on : BOOLEAN, r : Reserves, slot : 0 .. h, seen : 0 .. h]
Message(h) == [kind : {"none", "balance", "discovered"}, r : [Legs -> Nat], slot : 0 .. h]
Job(h) == [of : Sources, slot : 1 .. h]

AcctAt(h) ==
  {Idle} \cup [pc : {"ticked"}, slot : 0 .. h]
         \cup [pc : {"prepared"}, entry : Row(h), insert : BOOLEAN, prev : Row(h), slot : 0 .. h]
         \cup [pc : {"committed"}, prev : Row(h), slot : 0 .. h]
TxAt(h) ==
  {Idle} \cup [pc : {"read"}, r : Reserves, slot : 0 .. h]
         \cup [pc : {"prepared"}, entry : Row(h), insert : BOOLEAN, slot : 0 .. h]
         \cup [pc : {"seeded"}, slot : 0 .. h]
ColdAt(h) ==
  {Idle} \cup [pc : {"fetched"}, r : [Legs -> Nat]]
         \cup [pc : {"prepared"}, entry : Row(h), insert : BOOLEAN, r : [Legs -> Nat], slot : 0 .. h]
         \cup [pc : {"committed"}, r : [Legs -> Nat], slot : 0 .. h]
BeatAt(h) ==
  {Idle} \cup [pc : {"read"}, r : [Legs -> Nat]]
         \cup [pc : {"stamped"}, r : [Legs -> Nat], slot : 0 .. h]

Types ==
  /\ head \in 0 .. MaxSlot
  /\ feed \subseteq Job(head)
  /\ row \in Row(head) /\ srow \in Row(head)
  /\ last \in [Legs -> Nat]
  /\ acct \in AcctAt(head) /\ cold \in ColdAt(head) /\ beat \in BeatAt(head)
  /\ tx \in [TxThreads -> TxAt(head)]
  /\ outbox \in Seq(Message(head))
  /\ stream \in Message(head)

\* A SLAVE row that does not exist is the empty one.
RowOrNone == srow.on \/ srow = NoRow

\* After the publication of a newest tick: its message m waits alone, newer
\* than all the engine has read and can read before it ...
Waiting ==
  /\ Len(outbox) = 1
  /\ outbox[1].kind = "balance" /\ outbox[1].r = row.r
  /\ srow.seen <= outbox[1].slot /\ stream.slot <= outbox[1].slot

\* ... or is the subject's message, which the engine takes when it reads it.
Delivered ==
  /\ outbox = << >>
  /\ stream.kind = "balance" /\ stream.r = row.r /\ srow.seen <= stream.slot
  /\ behind => unread
  /\ engine # "down" /\ ~behind => srow.r = row.r

Repair == repaired => durable /\ Pair(row.r) /\ (Waiting \/ Delivered)

IInv == Types /\ RowOrNone /\ Repair

-----------------------------------------------------------------------------
(***************************************************************************)
(* The operators on rows and messages.                                     *)
(***************************************************************************)
\* Merging two reserves gives reserves.
LEMMA MergeTyped ==
  ASSUME NEW prev \in Reserves, NEW inc \in Reserves, NEW slot
  PROVE  Merge(prev, inc, slot) \in Reserves
  BY DEF Merge, Reserves

\* The entry an upsert stores is a row, keeps the watermark at or above the
\* previous one, and exists.
LEMMA EntryTyped ==
  ASSUME NEW h \in Nat, NEW e \in Row(h), NEW inc \in Reserves, NEW slot \in 0 .. h
  PROVE  /\ Entry(e, inc, slot) \in Row(h)
         /\ Entry(e, inc, slot).seen >= e.seen
         /\ Entry(e, inc, slot).seen = Larger(e.seen, slot)
         /\ Entry(e, inc, slot).on
         /\ Entry(e, inc, slot).r = Merge(e.r, inc, slot)
<1>1. Merge(e.r, inc, slot) \in Reserves
  BY MergeTyped DEF Row
<1>2. Larger(e.seen, slot) \in 0 .. h /\ Larger(e.seen, slot) >= e.seen
  BY DEF Row, Larger
<1> QED  BY <1>1, <1>2 DEF Entry, Row

\* Preparing an upsert gives a row.
LEMMA PreparedTyped ==
  ASSUME NEW h \in Nat, NEW e \in Row(h), NEW inc \in Reserves, NEW slot \in 0 .. h
  PROVE  Prepared(e, inc, slot) \in Row(h)
  BY EntryTyped DEF Prepared, NewEntry, Row

\* Storing a prepared entry gives a row.
LEMMA StoredTyped ==
  ASSUME NEW h \in Nat, NEW e \in Row(h), NEW p \in Row(h), NEW ins \in BOOLEAN,
         NEW slot \in 0 .. h
  PROVE  Stored(e, p, ins, slot) \in Row(h)
<1>1. p.r \in Reserves
  BY DEF Row
<1> QED  BY <1>1, EntryTyped DEF Stored

\* The reserves of a message are naturals.
LEMMA KnownTyped == ASSUME NEW r \in Reserves PROVE Known(r) \in [Legs -> Nat]
  BY DEF Known, Or0, Reserves, Omitted

\* There is no row at first.
LEMMA NoRowTyped == ASSUME NEW h \in Nat PROVE NoRow \in Row(h)
  BY DEF NoRow, Row, Reserves

\* apply_pool_cache_update: the result is a row whose watermark did not go
\* back, if there was a row, and is not above what was read; and a row of a
\* merging pool that knew both reserves still does.
LEMMA ApplyRow ==
  ASSUME NEW h \in Nat, NEW e \in Row(h), NEW m \in Message(h)
  PROVE  LET e2 == apply_pool_cache_update(e, m)
         IN /\ e2 \in Row(h)
            /\ e.on => e2.on /\ e2.seen >= e.seen
            /\ e2.on \/ e2 = e
            /\ e2.seen <= e.seen \/ e2.seen <= m.slot
            /\ dex \in Merging /\ e.on /\ Pair(e.r) => Pair(e2.r)
<1> DEFINE inc == [l \in Legs |->
                     IF e.on /\ m.r[l] = 0 /\ (m.kind = "balance" \/ dex \in Merging)
                       THEN Or0(e.r[l]) ELSE m.r[l]]
<1>1. /\ e.on \in BOOLEAN /\ e.r \in Reserves /\ e.seen \in 0 .. h
      /\ m.r \in [Legs -> Nat] /\ m.slot \in 0 .. h
  BY DEF Row, Message
<1>2. inc \in [Legs -> Nat] /\ inc \in Reserves
  BY <1>1 DEF Or0, Reserves, Omitted
<1>3. CASE m.kind = "none"
  BY <1>1, <1>3 DEF apply_pool_cache_update
<1>4. CASE m.kind # "none" /\ e.on /\ Stale(e, m.slot)
  BY <1>1, <1>4 DEF apply_pool_cache_update, upsert
<1>5. CASE m.kind # "none" /\ ~(e.on /\ Stale(e, m.slot))
  <2>1. apply_pool_cache_update(e, m) = Prepared(e, inc, m.slot)
    BY <1>5, Zenon DEF apply_pool_cache_update, upsert
  <2>2. CASE ~e.on
    BY <1>1, <1>2, <2>1, <2>2, PreparedTyped DEF Prepared, NewEntry
  <2>3. CASE e.on
    <3>1. Prepared(e, inc, m.slot) = Entry(e, inc, m.slot)
      BY <2>3 DEF Prepared
    <3>2. dex \in Merging /\ Pair(e.r) => Pair(Merge(e.r, inc, m.slot))
      <4> SUFFICES ASSUME dex \in Merging, Pair(e.r), NEW l \in Legs
                   PROVE  Merge(e.r, inc, m.slot)[l] > 0
        BY DEF Pair
      <4>1. inc[l] > 0 /\ inc[l] # Omitted
        BY <1>1, <1>2, <2>3 DEF Pair, Or0, Omitted
      <4>2. Merge(e.r, inc, m.slot)[l] = inc[l]
        BY <4>1 DEF Merge, Merging
      <4> QED  BY <4>1, <4>2
    <3> HIDE DEF inc
    <3> DEFINE e2 == Entry(e, inc, m.slot)
    <3>3. /\ e2 \in Row(h) /\ e2.seen >= e.seen /\ e2.on /\ e2.r = Merge(e.r, inc, m.slot)
          /\ e2.seen = Larger(e.seen, m.slot)
      BY <1>1, <1>2, EntryTyped
    <3>4. apply_pool_cache_update(e, m) = e2
      BY <2>1, <3>1
    <3>5. e2.seen <= e.seen \/ e2.seen <= m.slot
      BY <1>1, <3>3 DEF Larger
    <3> HIDE DEF e2
    <3> QED  BY <3>2, <3>3, <3>4, <3>5
  <2> QED  BY <2>2, <2>3, <1>1
<1> QED  BY <1>3, <1>4, <1>5, <1>1

\* A complete pair at or above the row's watermark becomes the row's.
LEMMA ApplyPair ==
  ASSUME NEW h \in Nat, NEW e \in Row(h), NEW m \in Message(h),
         e.seen <= m.slot, m.kind # "none", Pair(m.r)
  PROVE  /\ apply_pool_cache_update(e, m).r = m.r
         /\ apply_pool_cache_update(e, m).seen <= m.slot
<1> DEFINE inc == [l \in Legs |->
                     IF e.on /\ m.r[l] = 0 /\ (m.kind = "balance" \/ dex \in Merging)
                       THEN Or0(e.r[l]) ELSE m.r[l]]
<1>1. /\ e.r \in Reserves /\ e.seen \in 0 .. h
      /\ m.r \in [Legs -> Nat] /\ m.slot \in 0 .. h
  BY DEF Row, Message
<1>2. inc = m.r
  BY <1>1 DEF Pair
<1>3. apply_pool_cache_update(e, m) = Prepared(e, inc, m.slot)
  <2>1. ~Stale(e, m.slot)
    BY <1>1 DEF Stale
  <2> QED  BY <2>1, Zenon DEF apply_pool_cache_update, upsert
<1>4. Merge(e.r, inc, m.slot) = m.r
  BY <1>1, <1>2 DEF Pair, Merge, Omitted, Legs
<1> HIDE DEF inc
<1>5. CASE ~e.on
  BY <1>1, <1>2, <1>3, <1>5 DEF Prepared, NewEntry
<1>6. CASE e.on
  <2>1. Prepared(e, inc, m.slot) = Entry(e, inc, m.slot)
    BY <1>6 DEF Prepared
  <2>2. Entry(e, inc, m.slot).seen <= m.slot
    BY <1>1 DEF Entry, Larger
  <2>3. Entry(e, inc, m.slot).r = Merge(e.r, inc, m.slot)
    BY DEF Entry
  <2> QED  BY <1>3, <1>4, <2>1, <2>2, <2>3
<1> QED  BY <1>5, <1>6

-----------------------------------------------------------------------------
(***************************************************************************)
(* The invariant.                                                          *)
(***************************************************************************)
\* Initially there are no rows and no messages.
LEMMA InitIInv == Init => IInv
<1> SUFFICES ASSUME Init PROVE IInv
  OBVIOUS
<1>1. NoRow \in Row(0)
  BY NoRowTyped
<1>2. NoMsg \in Message(0)
  BY DEF NoMsg, Message
<1>3. Types
  BY <1>1, <1>2, ChainOK DEF Init, Types, AcctAt, TxAt, ColdAt, BeatAt
<1> QED  BY <1>1, <1>3 DEF Init, IInv, RowOrNone, Repair

\* What the queues, the subject and the engine need for a repair does not
\* change in a step that leaves them and MASTER's reserves alone.
LEMMA QuietRepair ==
  ASSUME IInv, repaired' => repaired /\ row'.r = row.r,
         UNCHANGED <<outbox, stream, srow, engine, behind, durable, unread>>
  PROVE  RowOrNone' /\ Repair'
  BY DEF IInv, RowOrNone, Repair, Waiting, Delivered, Pair

\* When the chain moves on, what was typed stays typed.
LEMMA Grow ==
  ASSUME NEW h \in Nat
  PROVE  /\ Row(h) \subseteq Row(h + 1) /\ Message(h) \subseteq Message(h + 1)
         /\ Job(h) \subseteq Job(h + 1)
         /\ AcctAt(h) \subseteq AcctAt(h + 1) /\ TxAt(h) \subseteq TxAt(h + 1)
         /\ ColdAt(h) \subseteq ColdAt(h + 1) /\ BeatAt(h) \subseteq BeatAt(h + 1)
<1>1. 0 .. h \subseteq 0 .. (h + 1) /\ 1 .. h \subseteq 1 .. (h + 1)
  OBVIOUS
<1>2. Row(h) \subseteq Row(h + 1) /\ Message(h) \subseteq Message(h + 1) /\ Job(h) \subseteq Job(h + 1)
  BY <1>1 DEF Row, Message, Job
<1>3. AcctAt(h) \subseteq AcctAt(h + 1)
  BY <1>1, <1>2 DEF AcctAt
<1>4. TxAt(h) \subseteq TxAt(h + 1)
  BY <1>1, <1>2 DEF TxAt
<1>5. ColdAt(h) \subseteq ColdAt(h + 1)
  BY <1>1, <1>2 DEF ColdAt
<1>6. BeatAt(h) \subseteq BeatAt(h + 1)
  BY <1>1 DEF BeatAt
<1> QED  BY <1>2, <1>3, <1>4, <1>5, <1>6

\* The chain and the queues of side effects.
LEMMA FeedStep ==
  ASSUME IInv, GeyserSlot \/ \E j \in feed : DropJob(j)
  PROVE  IInv'
<1>0. Types /\ head \in Nat
  BY ChainOK DEF IInv, Types
<1>1. CASE GeyserSlot
  <2>1. head' = head + 1 /\ head + 1 \in 1 .. MaxSlot
    BY <1>0, <1>1, ChainOK DEF GeyserSlot, Types
  <2>2. /\ UNCHANGED <<row, last, acct, cold, beat, tx, outbox, stream, srow, engine>>
        /\ UNCHANGED <<behind, durable, unread, repaired>>
    BY <1>1 DEF GeyserSlot, master, cache, threads, slave, consumer
  <2>3. feed' \subseteq Job(head + 1)
    <3>1. {[of |-> a, slot |-> head + 1] : a \in Touched[head + 1]} \subseteq Job(head + 1)
      BY <2>1, ChainOK DEF Job
    <3> QED  BY <1>0, <1>1, <3>1, Grow DEF GeyserSlot, Types
  <2>4. outbox \in Seq(Message(head + 1))
    <3>1. outbox \in Seq(Message(head)) /\ Message(head) \subseteq Message(head + 1)
      BY <1>0, Grow DEF Types
    <3> QED  BY <3>1
  <2>5. tx \in [TxThreads -> TxAt(head + 1)]
    BY <1>0, Grow DEF Types
  <2>6. Types'
    BY <1>0, <2>1, <2>2, <2>3, <2>4, <2>5, Grow DEF Types
  <2> QED  BY <2>2, <2>6, QuietRepair DEF IInv
<1>2. ASSUME NEW j \in feed, DropJob(j) PROVE IInv'
  <2>1. /\ UNCHANGED <<head, row, last, acct, cold, beat, tx, outbox, stream, srow, engine>>
        /\ UNCHANGED <<behind, durable, unread, repaired>>
        /\ feed' = feed \ {j}
    BY <1>2 DEF DropJob, chain, master, cache, threads, slave, consumer
  <2>2. Types'
    BY <1>0, <2>1 DEF Types
  <2> QED  BY <2>1, <2>2, QuietRepair DEF IInv
<1> QED  BY <1>1, <1>2

\* What a writer holds between the two halves of an upsert.
LEMMA PreparedRecord ==
  ASSUME NEW h \in Nat, NEW p \in Row(h), NEW b \in BOOLEAN, NEW e \in Row(h), NEW s \in 0 .. h
  PROVE  /\ [pc |-> "prepared", entry |-> p, insert |-> b, prev |-> e, slot |-> s] \in AcctAt(h)
         /\ [pc |-> "prepared", entry |-> p, insert |-> b, slot |-> s] \in TxAt(h)
         /\ \A r \in [Legs -> Nat] :
              [pc |-> "prepared", entry |-> p, insert |-> b, r |-> r, slot |-> s] \in ColdAt(h)
  BY DEF AcctAt, TxAt, ColdAt

\* A message joins the queue of the publish workers or is dropped.
LEMMA EnqueueTyped ==
  ASSUME Types, NEW m \in Message(head), Enqueue(m)
  PROVE  outbox' \in Seq(Message(head))
<1>1. outbox \in Seq(Message(head))
  BY DEF Types
<1>2. outbox' = Append(outbox, m) \/ outbox' = outbox
  BY DEF Enqueue
<1> QED  BY <1>1, <1>2

\* The account side effect thread.
LEMMA ThreadStep ==
  ASSUME IInv, Thread
  PROVE  IInv'
<1>0. Types /\ head \in Nat /\ row \in Row(head) /\ acct \in AcctAt(head)
  BY ChainOK DEF IInv, Types
<1>1. ASSUME NEW j \in feed, VaultTick(j) PROVE IInv'
  <2>1. j \in Job(head) /\ j.slot \in 1 .. MaxSlot /\ j.slot \in 0 .. head
    BY <1>0, ChainOK DEF Job, Types
  <2>2. j.of \in Legs /\ Balance[j.slot][j.of] \in Nat
    BY <1>1, <2>1, ChainOK DEF VaultTick
  <2>3. update_vault_balance(row, j.of, Balance[j.slot][j.of], j.slot) \in Row(head)
    BY <1>0, <2>1, <2>2 DEF update_vault_balance, Row, Reserves
  <2>4. /\ UNCHANGED <<head, tx, cold, beat, outbox, stream, srow, engine>>
        /\ UNCHANGED <<behind, durable, unread>>
        /\ repaired' => repaired /\ row'.r = row.r
        /\ feed' = feed \ {j}
    BY <1>1 DEF VaultTick, Take, chain, slave, consumer
  <2>5. row' \in Row(head) /\ last' \in [Legs -> Nat]
    BY <1>0, <1>1, <2>2, <2>3 DEF VaultTick, Types
  <2>6. acct' = acct \/ acct' = [pc |-> "ticked", slot |-> j.slot]
    BY <1>1 DEF VaultTick
  <2>7. acct' \in AcctAt(head)
    BY <1>0, <2>1, <2>6 DEF AcctAt
  <2>8. Types'
    BY <1>0, <2>4, <2>5, <2>7 DEF Types
  <2> QED  BY <2>4, <2>8, QuietRepair DEF IInv
<1>2. ASSUME NEW j \in feed, AccountUpdate(j) PROVE IInv'
  <2> DEFINE inc == [l \in Legs |-> IF dex = "meteora_cpmm" THEN 0 ELSE Omitted]
  <2>1. j \in Job(head) /\ j.slot \in 0 .. head /\ (~row.on) \in BOOLEAN
    BY <1>0 DEF Job, Types, Row
  <2>2. inc \in Reserves
    BY DEF Reserves
  <2>3. Prepared(row, inc, j.slot) \in Row(head)
    BY <1>0, <2>1, <2>2, PreparedTyped
  <2> DEFINE rec == [pc |-> "prepared", entry |-> Prepared(row, inc, j.slot),
                     insert |-> ~row.on, prev |-> row, slot |-> j.slot]
  <2>4. rec \in AcctAt(head)
    BY <1>0, <2>1, <2>3, PreparedRecord, Zenon
  <2>5. acct' = acct \/ acct' = rec
    BY <1>2, Zenon DEF AccountUpdate
  <2>6. /\ UNCHANGED <<head, row, last, tx, cold, beat, outbox, stream, srow, engine>>
        /\ UNCHANGED <<behind, durable, unread, repaired>>
        /\ feed' = feed \ {j}
    BY <1>2 DEF AccountUpdate, Take, chain, slave, consumer
  <2>7. acct' \in AcctAt(head)
    BY <1>0, <2>4, <2>5, Zenon
  <2> HIDE DEF rec, inc
  <2>8. Types'
    BY <1>0, <2>6, <2>7 DEF Types
  <2> QED  BY <2>6, <2>8, QuietRepair DEF IInv
<1>3. CASE TickPublish
  <2> DEFINE r == [l \in Legs |-> IF row.r[l] > 0 THEN row.r[l] ELSE last[l]]
             m == Msg("balance", r, acct.slot)
  <2>1. r \in [Legs -> Nat] /\ acct.slot \in 0 .. head
    BY <1>0, <1>3 DEF TickPublish, Types, Row, AcctAt, Reserves, Omitted, Idle
  <2>2. m \in Message(head) /\ m.kind = "balance" /\ m.r = r /\ m.slot = acct.slot
    BY <2>1 DEF Msg, Message
  <2>3. outbox' = outbox \/ (outbox' = Append(outbox, m) /\ Pair(r))
    BY <1>3, Zenon DEF TickPublish, Enqueue
  <2>4. /\ UNCHANGED <<head, feed, row, last, tx, cold, beat, stream, srow, engine>>
        /\ UNCHANGED <<behind, durable, unread>>
        /\ acct' = Idle
        /\ repaired' => acct.slot = head /\ Pair(row.r) /\ durable
                          /\ outbox = << >> /\ outbox' # << >>
    BY <1>3 DEF TickPublish, chain, cache, slave, consumer
  <2>5. Pair(row.r) => r = row.r
    BY <1>0 DEF Pair, Row, Reserves
  <2> HIDE DEF r, m
  <2>6. outbox' \in Seq(Message(head))
    BY <1>0, <2>2, <2>3 DEF Types
  <2>7. Types'
    BY <1>0, <2>4, <2>6 DEF Types, AcctAt
  <2>8. ASSUME repaired' PROVE durable' /\ Pair(row'.r) /\ Waiting'
    <3>1. outbox' = Append(<< >>, m) /\ acct.slot = head /\ Pair(row.r) /\ durable
      BY <2>3, <2>4, <2>8
    <3>2. Len(outbox') = 1 /\ outbox'[1] = m
      BY <3>1
    <3>3. srow.seen <= head /\ stream.slot <= head
      BY <1>0 DEF Types, Row, Message
    <3> QED  BY <2>2, <2>4, <2>5, <3>1, <3>2, <3>3 DEF Waiting, Pair
  <2> QED  BY <2>4, <2>7, <2>8 DEF IInv, RowOrNone, Repair
<1>4. CASE AccountCommit
  <2>1. /\ acct.entry \in Row(head) /\ acct.prev \in Row(head)
        /\ acct.insert \in BOOLEAN /\ acct.slot \in 0 .. head
    BY <1>0, <1>4 DEF AccountCommit, AcctAt, Idle
  <2>2. Stored(row, acct.entry, acct.insert, acct.slot) \in Row(head)
    BY <1>0, <2>1, StoredTyped
  <2>3. /\ UNCHANGED <<head, feed, last, tx, cold, beat, outbox, stream, srow, engine>>
        /\ UNCHANGED <<behind, durable, unread>>
        /\ repaired' => repaired /\ row'.r = row.r
    BY <1>4 DEF AccountCommit, chain, slave, consumer
  <2>4. row' \in Row(head) /\ acct' \in AcctAt(head)
    BY <1>0, <1>4, <2>1, <2>2 DEF AccountCommit, AcctAt
  <2>5. Types'
    BY <1>0, <2>3, <2>4 DEF Types
  <2> QED  BY <2>3, <2>5, QuietRepair DEF IInv
<1>5. CASE AccountPublish
  <2>1. Known(row.r) \in [Legs -> Nat] /\ acct.slot \in 0 .. head
    BY <1>0, <1>5, KnownTyped DEF AccountPublish, Row, AcctAt, Idle
  <2>2. Msg("discovered", Known(row.r), acct.slot) \in Message(head)
    BY <2>1 DEF Msg, Message
  <2>3. outbox' = outbox \/ Enqueue(Msg("discovered", Known(row.r), acct.slot))
    BY <1>5, Zenon DEF AccountPublish
  <2>4. outbox' \in Seq(Message(head))
    BY <1>0, <2>2, <2>3, EnqueueTyped DEF Types
  <2>5. /\ UNCHANGED <<head, feed, row, last, tx, cold, beat, stream, srow, engine>>
        /\ acct' = Idle /\ repaired' = FALSE
    BY <1>5 DEF AccountPublish, chain, cache, slave
  <2>6. Types'
    BY <1>0, <2>4, <2>5 DEF Types, AcctAt
  <2> QED  BY <2>5, <2>6 DEF IInv, RowOrNone, Repair
<1> QED  BY <1>1, <1>2, <1>3, <1>4, <1>5 DEF Thread

\* The snapshot of the tracked vaults is rebuilt.
LEMMA RebuildStep ==
  ASSUME IInv, MembershipRebuild
  PROVE  IInv'
<1>1. /\ UNCHANGED <<head, feed, row, acct, tx, cold, beat, outbox, stream, srow, engine>>
      /\ UNCHANGED <<behind, durable, unread, repaired>>
      /\ last' \in [Legs -> Nat]
  BY DEF MembershipRebuild, chain, threads, slave, consumer
<1>2. Types'
  BY <1>1 DEF IInv, Types
<1> QED  BY <1>1, <1>2, QuietRepair DEF IInv

\* The transaction side effect threads.
LEMMA TxThreadStep ==
  ASSUME IInv, NEW t \in TxThreads, TxStep(t)
  PROVE  IInv'
<1>0. /\ Types /\ head \in Nat /\ row \in Row(head) /\ row.r \in Reserves
      /\ tx \in [TxThreads -> TxAt(head)] /\ tx[t] \in TxAt(head)
  BY ChainOK DEF IInv, Types, Row
<1>1. ASSUME NEW j \in feed, TxRead(t, j) PROVE IInv'
  <2>1. j.slot \in 0 .. head
    BY <1>0 DEF Job, Types
  <2>2. [pc |-> "read", r |-> row.r, slot |-> j.slot] \in TxAt(head)
    BY <1>0, <2>1 DEF TxAt
  <2>3. /\ UNCHANGED <<head, row, last, acct, cold, beat, outbox, stream, srow, engine>>
        /\ UNCHANGED <<behind, durable, unread, repaired>>
        /\ feed' = feed \ {j}
        /\ tx' \in [TxThreads -> TxAt(head)]
    BY <1>0, <1>1, <2>2 DEF TxRead, chain, cache, slave, consumer
  <2>4. Types'
    BY <1>0, <2>3 DEF Types
  <2> QED  BY <2>3, <2>4, QuietRepair DEF IInv
<1>2. CASE TxPrepare(t)
  <2>1. tx[t].r \in Reserves /\ tx[t].slot \in 0 .. head /\ (~row.on) \in BOOLEAN
    BY <1>0, <1>2 DEF TxPrepare, TxAt, Idle, Row
  <2>2. Prepared(row, tx[t].r, tx[t].slot) \in Row(head)
    BY <1>0, <2>1, PreparedTyped
  <2> DEFINE rec == [pc |-> "prepared", entry |-> Prepared(row, tx[t].r, tx[t].slot),
                     insert |-> ~row.on, slot |-> tx[t].slot]
             sed == [pc |-> "seeded", slot |-> tx[t].slot]
  <2>3. rec \in TxAt(head)
    BY <1>0, <2>1, <2>2, PreparedRecord, Zenon
  <2>4. sed \in TxAt(head)
    BY <2>1 DEF TxAt
  <2>5. tx' = [tx EXCEPT ![t] = sed] \/ tx' = [tx EXCEPT ![t] = rec]
    BY <1>2, Zenon DEF TxPrepare
  <2>6. /\ UNCHANGED <<head, feed, row, last, acct, cold, beat, outbox, stream, srow, engine>>
        /\ UNCHANGED <<behind, durable, unread, repaired>>
    BY <1>2 DEF TxPrepare, chain, slave, consumer
  <2> HIDE DEF rec, sed
  <2>7. tx' \in [TxThreads -> TxAt(head)]
    BY <1>0, <2>3, <2>4, <2>5
  <2>8. Types'
    BY <1>0, <2>6, <2>7 DEF Types
  <2> QED  BY <2>6, <2>8, QuietRepair DEF IInv
<1>3. CASE TxCommit(t)
  <2>1. tx[t].entry \in Row(head) /\ tx[t].insert \in BOOLEAN /\ tx[t].slot \in 0 .. head
    BY <1>0, <1>3 DEF TxCommit, TxAt, Idle
  <2>2. Stored(row, tx[t].entry, tx[t].insert, tx[t].slot) \in Row(head)
    BY <1>0, <2>1, StoredTyped
  <2>3. [pc |-> "seeded", slot |-> tx[t].slot] \in TxAt(head)
    BY <2>1 DEF TxAt
  <2>4. row' \in Row(head) /\ tx' \in [TxThreads -> TxAt(head)]
    BY <1>0, <1>3, <2>2, <2>3 DEF TxCommit
  <2>5. /\ UNCHANGED <<head, feed, last, acct, cold, beat, outbox, stream, srow, engine>>
        /\ UNCHANGED <<behind, durable, unread>>
        /\ repaired' => repaired /\ row'.r = row.r
    BY <1>3 DEF TxCommit, chain, slave, consumer
  <2>6. Types'
    BY <1>0, <2>4, <2>5 DEF Types
  <2> QED  BY <2>5, <2>6, QuietRepair DEF IInv
<1>4. CASE TxPublish(t)
  <2>1. Known(row.r) \in [Legs -> Nat] /\ tx[t].slot \in 0 .. head
    BY <1>0, <1>4, KnownTyped DEF TxPublish, TxAt, Idle
  <2>2. Msg("discovered", Known(row.r), tx[t].slot) \in Message(head)
    BY <2>1 DEF Msg, Message
  <2>3. \/ Enqueue(Msg("discovered", Known(row.r), tx[t].slot)) /\ repaired' = FALSE
        \/ outbox' = outbox /\ repaired' = repaired
    BY <1>4, Zenon DEF TxPublish
  <2>4. outbox' \in Seq(Message(head))
    BY <1>0, <2>2, <2>3, EnqueueTyped DEF Types
  <2>5. /\ UNCHANGED <<head, feed, row, last, acct, cold, beat, stream, srow, engine>>
        /\ UNCHANGED <<behind, durable, unread>>
        /\ tx' \in [TxThreads -> TxAt(head)]
    BY <1>0, <1>4 DEF TxPublish, chain, cache, slave, consumer, TxAt
  <2>6. Types'
    BY <1>0, <2>4, <2>5 DEF Types
  <2>7. CASE repaired' = FALSE
    BY <2>5, <2>6, <2>7 DEF IInv, RowOrNone, Repair
  <2>8. CASE outbox' = outbox /\ repaired' = repaired
    BY <2>5, <2>6, <2>8, QuietRepair DEF IInv
  <2> QED  BY <2>3, <2>7, <2>8
<1> QED  BY <1>1, <1>2, <1>3, <1>4 DEF TxStep

\* A direct publication of well-typed reserves, after which nothing counts
\* as repaired.
LEMMA DirectStep ==
  ASSUME IInv, NEW m \in Message(head), Publish(m), repaired' = FALSE,
         UNCHANGED <<head, feed, row, last, acct, tx, outbox, srow, engine>>,
         cold' \in ColdAt(head), beat' \in BeatAt(head)
  PROVE  IInv'
<1>1. stream' \in Message(head)
  BY DEF Publish
<1>2. Types'
  BY <1>1 DEF IInv, Types
<1> QED  BY <1>2 DEF IInv, RowOrNone, Repair

\* The cold path.
LEMMA ColdPathStep ==
  ASSUME IInv, ColdStep
  PROVE  IInv'
<1>0. /\ Types /\ head \in Nat /\ row \in Row(head) /\ row.r \in Reserves
      /\ cold \in ColdAt(head) /\ beat \in BeatAt(head)
  BY ChainOK DEF IInv, Types, Row
<1>1. CASE ColdFetch
  <2>1. Balance[head] \in [Legs -> Nat]
    BY <1>0, <1>1, ChainOK DEF ColdFetch, Types
  <2>2. Pair(row.r) => row.r \in [Legs -> Nat]
    BY <1>0 DEF Pair, Reserves, Omitted
  <2>3. cold' \in ColdAt(head)
    BY <1>1, <2>1, <2>2 DEF ColdFetch, ColdAt
  <2>4. /\ UNCHANGED <<head, feed, row, last, acct, tx, beat, outbox, stream, srow, engine>>
        /\ UNCHANGED <<behind, durable, unread, repaired>>
    BY <1>1 DEF ColdFetch, chain, cache, slave, consumer
  <2>5. Types'
    BY <1>0, <2>3, <2>4 DEF Types
  <2> QED  BY <2>4, <2>5, QuietRepair DEF IInv
<1>2. CASE ColdPrepare
  <2> DEFINE slot == IF dex = "pump_amm" THEN head ELSE 0
  <2>1. cold.r \in [Legs -> Nat] /\ cold.r \in Reserves /\ (~row.on) \in BOOLEAN /\ slot \in 0 .. head
    BY <1>0, <1>2 DEF ColdPrepare, ColdAt, Idle, Reserves, Row
  <2>2. Prepared(row, cold.r, slot) \in Row(head)
    BY <1>0, <2>1, PreparedTyped
  <2> DEFINE rec == [pc |-> "prepared", entry |-> Prepared(row, cold.r, slot),
                     insert |-> ~row.on, r |-> cold.r, slot |-> slot]
             com == [pc |-> "committed", r |-> cold.r, slot |-> slot]
  <2>3. rec \in ColdAt(head)
    BY <1>0, <2>1, <2>2, PreparedRecord, Zenon
  <2>4. com \in ColdAt(head)
    BY <2>1 DEF ColdAt
  <2>5. cold' = com \/ cold' = rec
    BY <1>2, Zenon DEF ColdPrepare
  <2>6. /\ UNCHANGED <<head, feed, row, last, acct, tx, beat, outbox, stream, srow, engine>>
        /\ UNCHANGED <<behind, durable, unread, repaired>>
    BY <1>2 DEF ColdPrepare, chain, slave, consumer
  <2> HIDE DEF rec, com
  <2>7. Types'
    BY <1>0, <2>3, <2>4, <2>5, <2>6 DEF Types
  <2> QED  BY <2>6, <2>7, QuietRepair DEF IInv
<1>3. CASE ColdCommit
  <2>1. /\ cold.entry \in Row(head) /\ cold.insert \in BOOLEAN /\ cold.slot \in 0 .. head
        /\ cold.r \in [Legs -> Nat]
    BY <1>0, <1>3 DEF ColdCommit, ColdAt, Idle
  <2>2. Stored(row, cold.entry, cold.insert, cold.slot) \in Row(head)
    BY <1>0, <2>1, StoredTyped
  <2>3. row' \in Row(head) /\ cold' \in ColdAt(head)
    BY <1>0, <1>3, <2>1, <2>2 DEF ColdCommit, ColdAt
  <2>4. /\ UNCHANGED <<head, feed, last, acct, tx, beat, outbox, stream, srow, engine>>
        /\ UNCHANGED <<behind, durable, unread>>
        /\ repaired' => repaired /\ row'.r = row.r
    BY <1>3 DEF ColdCommit, chain, slave, consumer
  <2>5. Types'
    BY <1>0, <2>3, <2>4 DEF Types
  <2> QED  BY <2>4, <2>5, QuietRepair DEF IInv
<1>4. CASE ColdPublish
  <2>1. cold.r \in [Legs -> Nat] /\ cold.slot \in 0 .. head
    BY <1>0, <1>4 DEF ColdPublish, ColdAt, Idle
  <2>2. Known(row.r) \in [Legs -> Nat] /\ row.slot \in 0 .. head
    BY <1>0, KnownTyped DEF Row
  <2> DEFINE m == CASE dex = "pump_amm" -> Msg("discovered", cold.r, cold.slot)
                    [] dex = "raydium"  -> Msg("balance", Known(row.r), row.slot)
                    [] OTHER            -> Msg("balance", cold.r, 0)
  <2>3. m \in Message(head)
    BY <1>0, <2>1, <2>2 DEF Msg, Message
  <2>4. /\ UNCHANGED <<head, feed, row, last, acct, tx, beat, outbox, srow, engine>>
        /\ Publish(m) /\ repaired' = FALSE /\ cold' \in ColdAt(head)
    BY <1>4 DEF ColdPublish, chain, cache, slave, ColdAt
  <2> HIDE DEF m
  <2> QED  BY <1>0, <2>3, <2>4, DirectStep
<1> QED  BY <1>1, <1>2, <1>3, <1>4 DEF ColdStep

\* The refresh from the cache.
LEMMA BeatThreadStep ==
  ASSUME IInv, BeatStep
  PROVE  IInv'
<1>0. /\ Types /\ head \in Nat /\ row \in Row(head) /\ row.r \in Reserves
      /\ row.slot \in 0 .. head
      /\ cold \in ColdAt(head) /\ beat \in BeatAt(head)
  BY ChainOK DEF IInv, Types, Row
<1>1. CASE BeatRead \/ BeatStamp
  <2>1. beat' \in BeatAt(head)
    BY <1>0, <1>1, KnownTyped DEF BeatRead, BeatStamp, BeatAt, Idle
  <2>2. /\ UNCHANGED <<head, feed, row, last, acct, tx, cold, outbox, stream, srow, engine>>
        /\ UNCHANGED <<behind, durable, unread, repaired>>
    BY <1>1 DEF BeatRead, BeatStamp, chain, cache, slave, consumer
  <2>3. Types'
    BY <1>0, <2>1, <2>2 DEF Types
  <2> QED  BY <2>2, <2>3, QuietRepair DEF IInv
<1>2. CASE BeatPublish
  <2>1. beat.r \in [Legs -> Nat] /\ beat.slot \in 0 .. head
    BY <1>0, <1>2 DEF BeatPublish, BeatAt, Idle
  <2>2. Msg("balance", beat.r, beat.slot) \in Message(head)
    BY <2>1 DEF Msg, Message
  <2>3. /\ UNCHANGED <<head, feed, row, last, acct, tx, cold, outbox, srow, engine>>
        /\ Publish(Msg("balance", beat.r, beat.slot))
        /\ repaired' = FALSE /\ beat' \in BeatAt(head)
    BY <1>2 DEF BeatPublish, chain, cache, slave, BeatAt
  <2> QED  BY <1>0, <2>2, <2>3, DirectStep
<1> QED  BY <1>1, <1>2 DEF BeatStep

\* The publish workers, and a restart of market-data.
LEMMA PublishStep ==
  ASSUME IInv, (\E i \in 1 .. Len(outbox) : Worker(i)) \/ MasterRestart
  PROVE  IInv'
<1>0. Types /\ head \in Nat /\ outbox \in Seq(Message(head)) /\ Len(outbox) \in Nat
  BY ChainOK DEF IInv, Types
<1>1. ASSUME NEW i \in 1 .. Len(outbox), Worker(i) PROVE IInv'
  <2>1. outbox[i] \in Message(head)
    BY <1>0
  <2> DEFINE a == SubSeq(outbox, 1, i - 1)
             b == SubSeq(outbox, i + 1, Len(outbox))
  <2>2. a \in Seq(Message(head)) /\ b \in Seq(Message(head))
    BY <1>0
  <2>3. /\ UNCHANGED <<head, feed, row, last, acct, tx, cold, beat, srow, engine>>
        /\ UNCHANGED <<durable, repaired>>
        /\ stream' = outbox[i] /\ behind' = TRUE /\ unread' = TRUE
        /\ outbox' = a \o b
    BY <1>1 DEF Worker, Publish, chain, cache, threads, slave
  <2>4. outbox' \in Seq(Message(head))
    BY <2>2, <2>3
  <2>5. Types'
    BY <1>0, <2>1, <2>3, <2>4 DEF Types
  <2>6. ASSUME repaired PROVE Delivered'
    <3>0. Waiting \/ Delivered
      BY <2>6 DEF IInv, Repair
    <3>1. Len(outbox) = 1 /\ i = 1
      <4>1. outbox # << >>
        BY <1>0
      <4>2. Waiting
        BY <3>0, <4>1 DEF Delivered
      <4> QED  BY <4>2 DEF Waiting
    <3>2. Waiting
      BY <1>0, <3>0, <3>1 DEF Delivered
    <3>3. outbox' = << >>
      <4>1. a = << >> /\ b = << >>
        BY <1>0, <3>1
      <4> QED  BY <2>3, <4>1
    <3> QED  BY <2>3, <3>1, <3>2, <3>3 DEF Waiting, Delivered
  <2> QED  BY <2>3, <2>5, <2>6 DEF IInv, RowOrNone, Repair, Pair
<1>2. CASE MasterRestart
  <2>1. /\ UNCHANGED <<head, stream, srow, engine>>
        /\ row' = NoRow /\ last' = [l \in Legs |-> 0] /\ acct' = Idle /\ cold' = Idle
        /\ beat' = Idle /\ tx' = [t \in TxThreads |-> Idle] /\ feed' = {} /\ outbox' = << >>
        /\ repaired' = FALSE
    BY <1>2 DEF MasterRestart, chain, slave
  <2>2. Types'
    BY <1>0, <2>1, NoRowTyped DEF Types, AcctAt, TxAt, ColdAt, BeatAt
  <2> QED  BY <2>1, <2>2 DEF IInv, RowOrNone, Repair
<1> QED  BY <1>1, <1>2

\* The engine.
LEMMA EngineStep ==
  ASSUME IInv, Consumer \/ EngineRestart
  PROVE  IInv'
<1>0. /\ Types /\ head \in Nat /\ srow \in Row(head) /\ stream \in Message(head)
      /\ srow.seen \in Nat /\ stream.slot \in Nat
      /\ \A m \in Message(head) : m.slot \in Nat
  BY ChainOK DEF IInv, Types, Row, Message
<1>1. /\ UNCHANGED <<head, feed, row, last, acct, tx, cold, beat, outbox, stream, repaired>>
  BY DEF Consumer, Bootstrap, CreateConsumer, SlaveApply, SlaveAck, EngineRestart,
         chain, master, cache, threads
<1>2. ASSUME srow' \in Row(head) PROVE Types'
  BY <1>0, <1>1, <1>2 DEF Types
<1>3. ASSUME repaired, Waiting PROVE outbox[1].slot \in Nat
  <2>1. Len(outbox) = 1 /\ outbox \in Seq(Message(head))
    BY <1>0, <1>3 DEF Types, Waiting
  <2>2. outbox[1] \in Message(head)
    BY <2>1
  <2> QED  BY <1>0, <2>2
<1>4. CASE Bootstrap \/ SlaveApply
  <2>1. srow' = apply_pool_cache_update(srow, stream) /\ behind' = FALSE /\ durable' = durable
    BY <1>4 DEF Bootstrap, SlaveApply
  <2>2. /\ srow' \in Row(head) /\ (srow'.on \/ srow' = srow)
        /\ srow'.seen <= srow.seen \/ srow'.seen <= stream.slot
        /\ srow'.seen \in Nat
    <3>1. /\ srow' \in Row(head) /\ (srow'.on \/ srow' = srow)
          /\ srow'.seen <= srow.seen \/ srow'.seen <= stream.slot
      BY <1>0, <2>1, ApplyRow
    <3> QED  BY <1>0, <3>1 DEF Row
  <2>3. ASSUME repaired, Waiting PROVE Waiting'
    <3>1. srow'.seen <= outbox[1].slot
      BY <1>0, <1>3, <2>2, <2>3 DEF Waiting
    <3> QED  BY <1>1, <2>3, <3>1 DEF Waiting
  <2>4. ASSUME repaired, Delivered PROVE Delivered'
    <3>1. Pair(stream.r) /\ stream.kind # "none" /\ srow.seen <= stream.slot
      BY <2>4 DEF IInv, Repair, Delivered, Pair
    <3>2. srow'.r = stream.r /\ srow'.seen <= stream.slot
      BY <1>0, <2>1, <3>1, ApplyPair
    <3> QED  BY <1>1, <2>1, <2>4, <3>2 DEF Delivered
  <2> QED  BY <1>1, <1>2, <2>1, <2>2, <2>3, <2>4 DEF IInv, RowOrNone, Repair, Pair
<1>5. CASE CreateConsumer
  <2>1. /\ srow' = srow /\ behind' = behind /\ durable' = TRUE
        /\ unread' = (durable /\ unread) /\ engine = "booted"
    BY <1>5 DEF CreateConsumer
  <2>2. repaired /\ Waiting => Waiting'
    BY <1>1, <2>1 DEF Waiting
  <2>3. repaired /\ Delivered => Delivered'
    BY <1>1, <2>1 DEF IInv, Repair, Delivered
  <2> QED  BY <1>0, <1>1, <1>2, <2>1, <2>2, <2>3 DEF IInv, RowOrNone, Repair, Pair
<1>6. CASE SlaveAck
  <2>1. /\ srow' = srow /\ behind' = behind /\ durable' = durable
        /\ unread' = behind /\ engine = "applied"
    BY <1>6 DEF SlaveAck
  <2>2. repaired /\ Waiting => Waiting'
    BY <1>1, <2>1 DEF Waiting
  <2>3. repaired /\ Delivered => Delivered'
    BY <1>1, <2>1 DEF Delivered
  <2> QED  BY <1>0, <1>1, <1>2, <2>1, <2>2, <2>3 DEF IInv, RowOrNone, Repair, Pair
<1>7. CASE EngineRestart
  <2>1. /\ srow' = NoRow /\ engine' = "down" /\ behind' = behind /\ unread' = unread
        /\ durable' = durable
    BY <1>7 DEF EngineRestart, consumer
  <2>2. srow' \in Row(head) /\ srow'.seen = 0
    BY <1>0, <2>1, NoRowTyped DEF NoRow
  <2>3. repaired /\ Waiting => Waiting'
    BY <1>1, <1>3, <2>2 DEF Waiting
  <2>4. repaired /\ Delivered => Delivered'
    BY <1>0, <1>1, <2>1, <2>2 DEF Delivered
  <2> QED  BY <1>1, <1>2, <2>1, <2>2, <2>3, <2>4 DEF IInv, RowOrNone, Repair, Pair
<1> QED  BY <1>4, <1>5, <1>6, <1>7 DEF Consumer

\* Every step keeps the invariant.
LEMMA NextIInv == IInv /\ [Next]_vars => IInv'
<1> SUFFICES ASSUME IInv, [Next]_vars PROVE IInv'
  OBVIOUS
<1>1. CASE UNCHANGED vars
  <2>1. /\ UNCHANGED <<head, feed, row, last, acct, tx, cold, beat, outbox, stream, srow, engine>>
        /\ UNCHANGED <<behind, durable, unread, repaired>>
    BY <1>1 DEF vars, chain, master, cache, threads, slave, consumer
  <2>2. Types'
    BY <2>1 DEF IInv, Types
  <2> QED  BY <2>1, <2>2, QuietRepair DEF IInv
<1>2. CASE Next
  BY <1>2, FeedStep, ThreadStep, RebuildStep, TxThreadStep, ColdPathStep, BeatThreadStep,
     PublishStep, EngineStep, Zenon DEF Next
<1> QED  BY <1>1, <1>2

-----------------------------------------------------------------------------
\* While the engine runs its row changes only through apply_pool_cache_update.
LEMMA SlaveSteps ==
  ASSUME IInv, [Next]_vars, engine' # "down"
  PROVE  srow' = srow \/ srow' = apply_pool_cache_update(srow, stream)
  BY DEF Next, Thread, TxStep, ColdStep, BeatStep, Consumer, vars, slave, GeyserSlot, DropJob,
         VaultTick, AccountUpdate, TickPublish, AccountCommit, AccountPublish,
         MembershipRebuild, TxRead, TxPrepare, TxCommit, TxPublish, ColdFetch, ColdPrepare,
         ColdCommit, ColdPublish, BeatRead, BeatStamp, BeatPublish, Worker, Bootstrap,
         CreateConsumer, SlaveApply, SlaveAck, MasterRestart, EngineRestart

\* The engine's watermark never goes back while it runs.
THEOREM WatermarkKept == Spec => SeenKept
<1>1. IInv /\ [Next]_vars => [engine' # "down" => srow.seen' >= srow.seen]_vars
  <2> SUFFICES ASSUME IInv, [Next]_vars, engine' # "down"
               PROVE  srow'.seen >= srow.seen
    OBVIOUS
  <2>1. head \in Nat /\ srow \in Row(head) /\ stream \in Message(head) /\ srow.seen \in Nat
    BY ChainOK DEF IInv, Types, Row
  <2>2. apply_pool_cache_update(srow, stream) \in Row(head)
    BY <2>1, ApplyRow
  <2>3. CASE srow.on
    BY <2>1, <2>3, SlaveSteps, ApplyRow
  <2>4. CASE ~srow.on
    <3>1. srow.seen = 0
      BY <2>4 DEF IInv, RowOrNone, NoRow
    <3>2. srow' \in Row(head)
      BY <2>1, <2>2, SlaveSteps
    <3> QED  BY <2>1, <3>1, <3>2 DEF Row
  <2> QED  BY <2>3, <2>4
<1> QED  BY <1>1, InitIInv, NextIInv, PTL DEF Spec, SeenKept

\* Once the engine knows both reserves of a pool whose PoolDiscovered is
\* merged, no message takes one away from it while it runs.
THEOREM ReservesKept == Spec => PairKept
<1>1. IInv /\ [Next]_vars
        => [(dex \in Merging /\ Pair(srow.r) /\ engine' # "down") => Pair(srow.r')]_vars
  <2> SUFFICES ASSUME IInv, [Next]_vars, dex \in Merging, Pair(srow.r), engine' # "down"
               PROVE  Pair(srow'.r)
    OBVIOUS
  <2>1. head \in Nat /\ srow \in Row(head) /\ stream \in Message(head)
    BY ChainOK DEF IInv, Types
  <2>2. srow.on
    BY DEF IInv, RowOrNone, NoRow, Pair, Legs, Omitted
  <2> QED  BY <2>1, <2>2, SlaveSteps, ApplyRow
<1> QED  BY <1>1, InitIInv, NextIInv, PTL DEF Spec, PairKept

\* The publication of a newest vault tick gives the engine MASTER's reserves,
\* whatever was reordered, dropped, published twice or restarted before.
THEOREM TickRepairsEngine == Spec => []TickRepairs
<1>1. IInv => TickRepairs
  <2> SUFFICES ASSUME IInv, repaired, outbox = << >>, engine = "live", ~unread
               PROVE  srow.r = row.r
    BY DEF TickRepairs
  <2>1. Delivered
    BY DEF IInv, Repair, Waiting
  <2> QED  BY <2>1 DEF Delivered
<1> QED  BY <1>1, InitIInv, NextIInv, PTL DEF Spec

-----------------------------------------------------------------------------
(***************************************************************************)
(* TrackWorker.                                                            *)
(***************************************************************************)
\* The commands that are sent: a sync intent is a control command, a hot
\* command carries an update.
Commands ==
  {c \in Command : (c.kind \in SyncKinds => c.key = "control") /\ (c.kind = "hot" => c.arg \in Update)}

\* What the bot, NATS and the snapshot on disk supply.
Feeds ==
  /\ active \subseteq Pools /\ wire \subseteq Update /\ burst \in Seq(Update)
  /\ disk.pools \subseteq Pools /\ disk.mints \subseteq Mints
  /\ boot \in Seq({"restore", "push"})

\* A thread that is not idle has a command in hand.
Sending ==
  /\ out \in [Threads -> Commands \cup {None}]
  /\ at \in [Threads -> {"idle", "wrapped", "sent", "counted"}]
  /\ \A t \in Threads : at[t] # "idle" => out[t] \in Commands

\* The queue and the pending slots are within their caps.
CommandSlots ==
  /\ queue \in Seq(Commands) /\ Len(queue) <= QueueCap
  /\ pending \in Seq(Commands) /\ Len(pending) <= PendingCap
  /\ todo \in Seq(Commands)

Counters ==
  /\ issued \in [Keys -> Nat] /\ applied \in [Keys -> Nat]
  /\ depth \in Nat /\ inflight \in [0..2 -> Nat] /\ evicts \in Nat

Sets == pinned \subseteq Mints /\ hot \subseteq Pools /\ deferred \subseteq hot

WorkerInv == Feeds /\ Sending /\ CommandSlots /\ Counters /\ Sets

-----------------------------------------------------------------------------
(***************************************************************************)
(* Putting slots in order.  A strict total order of a finite set ranks its *)
(* members without gaps, so that for every place there is one member.      *)
(***************************************************************************)
StrictOn(R, K) ==
  /\ \A i \in K : <<i, i>> \notin R
  /\ \A i, j \in K : i # j => <<i, j>> \in R \/ <<j, i>> \in R
  /\ \A i, j, k \in K : <<i, j>> \in R /\ <<j, k>> \in R => <<i, k>> \in R

\* How many come before i.
Rank(K, R, i) == Cardinality({j \in K : <<j, i>> \in R})

\* Ranks grow with the order and stay below the number of members.
LEMMA RankGrows ==
  ASSUME NEW K, IsFiniteSet(K), NEW R, StrictOn(R, K), NEW i \in K, NEW j \in K
  PROVE  /\ Rank(K, R, i) \in 0 .. Cardinality(K) - 1
         /\ <<i, j>> \in R => Rank(K, R, i) < Rank(K, R, j)
<1> DEFINE P(k) == {x \in K : <<x, k>> \in R}
<1>1. ASSUME NEW k \in K PROVE /\ IsFiniteSet(P(k)) /\ Cardinality(P(k)) \in Nat
                               /\ P(k) \in SUBSET K /\ k \notin P(k)
  <2>1. P(k) \in SUBSET K /\ k \notin P(k)
    BY DEF StrictOn
  <2> HIDE DEF P
  <2> QED  BY <2>1, FS_Subset, FS_CardinalityType
<1>2. Cardinality(P(i)) < Cardinality(K)
  <2>1. P(i) # K /\ Cardinality(K) \in Nat
    BY <1>1, FS_CardinalityType
  <2> HIDE DEF P
  <2> QED  BY <1>1, <2>1, FS_Subset
<1>3. ASSUME <<i, j>> \in R PROVE Cardinality(P(i)) < Cardinality(P(j))
  <2>1. P(i) \in SUBSET P(j) /\ i \in P(j)
    BY <1>3 DEF StrictOn
  <2>2. P(i) # P(j)
    BY <1>1, <2>1
  <2> HIDE DEF P
  <2> QED  BY <1>1, <2>1, <2>2, FS_Subset
<1>4. Cardinality(K) \in Nat
  BY FS_CardinalityType
<1>5. Cardinality(P(i)) \in 0 .. Cardinality(K) - 1
  <2> HIDE DEF P
  <2> QED  BY <1>1, <1>2, <1>4
<1> QED  BY <1>3, <1>5 DEF Rank

\* Every place has a member.
LEMMA RankHit ==
  ASSUME NEW K, IsFiniteSet(K), NEW R, StrictOn(R, K), NEW n \in 1 .. Cardinality(K)
  PROVE  \E i \in K : Rank(K, R, i) = n - 1
<1> DEFINE N == Cardinality(K)
           T == 0 .. N - 1
           f == [i \in K |-> Rank(K, R, i)]
<1>1. N \in Nat
  BY FS_CardinalityType
<1>2. IsFiniteSet(T) /\ Cardinality(T) = N
  <2>1. 0 \in Int /\ N - 1 \in Int
    BY <1>1
  <2>2. IsFiniteSet(0 .. N - 1) /\ Cardinality(0 .. N - 1) = IF 0 > N - 1 THEN 0 ELSE N - 1 - 0 + 1
    <3> HIDE DEF N
    <3> QED  BY <2>1, FS_Interval
  <2> HIDE DEF N
  <2> QED  BY <1>1, <2>2
<1>3. \A i \in K : Rank(K, R, i) \in T
  BY RankGrows
<1>4. \A i, j \in K : i # j => Rank(K, R, i) # Rank(K, R, j)
  <2> SUFFICES ASSUME NEW i \in K, NEW j \in K, i # j PROVE Rank(K, R, i) # Rank(K, R, j)
    OBVIOUS
  <2>1. <<i, j>> \in R \/ <<j, i>> \in R
    BY DEF StrictOn
  <2>2. Rank(K, R, i) < Rank(K, R, j) \/ Rank(K, R, j) < Rank(K, R, i)
    BY <2>1, RankGrows
  <2>3. Rank(K, R, i) \in T /\ Rank(K, R, j) \in T
    BY <1>3
  <2> HIDE DEF N
  <2> QED  BY <1>1, <2>2, <2>3
<1>5. f \in Injection(K, T)
  <2>1. f \in [K -> T]
    BY <1>3
  <2>2. \A i, j \in K : f[i] = f[j] => i = j
    BY <1>4
  <2> HIDE DEF f, T
  <2> QED  BY <2>1, <2>2 DEF Injection, IsInjective
<1>6. f \in Surjection(K, T)
  <2> HIDE DEF f, T, N
  <2>1. N = Cardinality(K)
    BY DEF N
  <2> QED  BY <1>2, <1>5, <2>1, FS_Injection
<1>7. n - 1 \in T
  <2> HIDE DEF N
  <2>1. n \in 1 .. N
    BY DEF N
  <2> QED  BY <1>1, <2>1
<1>8. \E i \in K : f[i] = n - 1
  <2> HIDE DEF f, T
  <2> QED  BY <1>6, <1>7 DEF Surjection
<1> QED  BY <1>8

\* CommandSlots in order are slots, no more than there were.
LEMMA InOrderSeq ==
  ASSUME NEW S, NEW slots \in Seq(S), NEW K \in SUBSET DOMAIN slots, NEW R, StrictOn(R, K)
  PROVE  /\ InOrder(slots, K, R) \in Seq(S)
         /\ Len(InOrder(slots, K, R)) <= Len(slots)
         /\ \A n \in DOMAIN InOrder(slots, K, R) : \E i \in K : InOrder(slots, K, R)[n] = slots[i]
<1> DEFINE N == Cardinality(K)
           Who(n) == CHOOSE i \in K : Rank(K, R, i) = n - 1
           f == InOrder(slots, K, R)
<1>1. DOMAIN slots = 1 .. Len(slots) /\ Len(slots) \in Nat
  OBVIOUS
<1>2. IsFiniteSet(DOMAIN slots) /\ Cardinality(DOMAIN slots) = Len(slots)
  <2>1. /\ IsFiniteSet(1 .. Len(slots))
        /\ Cardinality(1 .. Len(slots)) = IF 1 > Len(slots) THEN 0 ELSE Len(slots) - 1 + 1
    BY <1>1, FS_Interval
  <2> QED  BY <1>1, <2>1
<1>3. IsFiniteSet(K) /\ N \in Nat /\ N <= Len(slots)
  BY <1>2, FS_Subset, FS_CardinalityType
<1>4. ASSUME NEW n \in 1 .. N PROVE Who(n) \in K
  <2>1. \E i \in K : Rank(K, R, i) = n - 1
    BY <1>3, RankHit
  <2> QED  BY <2>1
<1>5. f = [n \in 1 .. N |-> slots[Who(n)]]
  BY DEF InOrder, Rank
<1> HIDE DEF Who, f, N
<1>6. \A n \in 1 .. N : slots[Who(n)] \in S
  BY <1>1, <1>4
<1>7. f \in Seq(S) /\ Len(f) = N /\ DOMAIN f = 1 .. N
  BY <1>3, <1>5, <1>6
<1>8. \A n \in DOMAIN f : \E i \in K : f[n] = slots[i]
  BY <1>4, <1>5, <1>7
<1> QED  BY <1>3, <1>7, <1>8 DEF f

\* The order the slots were staged in.
LEMMA StagedStrict ==
  ASSUME NEW slots, DOMAIN slots \subseteq Nat, NEW K \in SUBSET DOMAIN slots
  PROVE  StrictOn(Staged(slots), K)
<1>1. \A i, j \in K : <<i, j>> \in Staged(slots) <=> i < j
  BY DEF Staged
<1> QED  BY <1>1 DEF StrictOn

\* A non-empty set of naturals has a least element.
LEMMA LeastOf ==
  ASSUME NEW T \in SUBSET Nat, T # {}
  PROVE  \E m \in T : \A n \in T : m <= n
<1> DEFINE R == OpToRel(<, Nat)
<1>1. IsWellFoundedOn(R, Nat)
  BY NatLessThanWellFounded
<1>2. PICK m \in T : \A n \in T : ~ (<<n, m>> \in R)
  <2> HIDE DEF R
  <2> QED  BY <1>1, WFMin
<1>3. \A n \in T : ~ (n < m)
  BY <1>2 DEF OpToRel
<1> QED  BY <1>3

\* The slot that opens the stream of slot i.
Opens(slots, m, i) ==
  m \in 1 .. i /\ OpensStream(slots, m) /\ StreamOf(slots[m]) = StreamOf(slots[i])

\* Every slot has one.
LEMMA OpensIs ==
  ASSUME NEW slots, NEW N \in Nat, DOMAIN slots = 1 .. N
  PROVE  \A i \in 1 .. N : \E m : Opens(slots, m, i)
<1> SUFFICES ASSUME NEW i \in 1 .. N PROVE \E m : Opens(slots, m, i)
  OBVIOUS
<1> DEFINE T == {n \in 1 .. i : StreamOf(slots[n]) = StreamOf(slots[i])}
<1>1. T \in SUBSET Nat /\ T # {}
  OBVIOUS
<1>2. PICK m \in T : \A n \in T : m <= n
  <2> HIDE DEF T
  <2> QED  BY <1>1, LeastOf
<1>3. m \in 1 .. i /\ StreamOf(slots[m]) = StreamOf(slots[i])
  OBVIOUS
<1>4. OpensStream(slots, m)
  <2> SUFFICES ASSUME NEW j \in 1 .. (m - 1), StreamOf(slots[j]) = StreamOf(slots[m]) PROVE FALSE
    BY DEF OpensStream
  <2>1. j \in T /\ ~ (m <= j)
    BY <1>3
  <2> QED  BY <1>2, <2>1
<1> QED  BY <1>3, <1>4 DEF Opens

\* Slots of one stream, and no others, have the same.
LEMMA OpensSame ==
  ASSUME NEW slots, NEW N \in Nat, DOMAIN slots = 1 .. N, NEW i \in 1 .. N, NEW j \in 1 .. N,
         NEW m, NEW n, Opens(slots, m, i), Opens(slots, n, j)
  PROVE  StreamOf(slots[i]) = StreamOf(slots[j]) <=> m = n
<1>1. /\ m \in 1 .. N /\ n \in 1 .. N
      /\ StreamOf(slots[m]) = StreamOf(slots[i]) /\ StreamOf(slots[n]) = StreamOf(slots[j])
  BY DEF Opens
<1>2. /\ \A k \in 1 .. (m - 1) : StreamOf(slots[k]) # StreamOf(slots[m])
      /\ \A k \in 1 .. (n - 1) : StreamOf(slots[k]) # StreamOf(slots[n])
  BY DEF Opens, OpensStream
<1>3. ASSUME StreamOf(slots[i]) = StreamOf(slots[j]), m # n PROVE FALSE
  <2>1. m \in 1 .. (n - 1) \/ n \in 1 .. (m - 1)
    BY <1>1, <1>3
  <2> QED  BY <1>1, <1>2, <1>3, <2>1
<1> QED  BY <1>1, <1>3

\* Streams are replayed in the order of the slots that open them.
LEMMA BeforeIs ==
  ASSUME NEW slots, NEW N \in Nat, DOMAIN slots = 1 .. N, NEW i \in 1 .. N, NEW j \in 1 .. N,
         NEW m, NEW n, Opens(slots, m, i), Opens(slots, n, j)
  PROVE  Before(slots, i, j) <=>
           \/ m < n
           \/ m = n /\ slots[i].rev < slots[j].rev
           \/ m = n /\ slots[i].rev = slots[j].rev /\ i < j
<1>1. StreamOf(slots[i]) = StreamOf(slots[j]) <=> m = n
  BY OpensSame
<1>2. m \in 1 .. N /\ n \in 1 .. N /\ m \in 1 .. i
  BY DEF Opens
<1>3. CASE m = n
  BY <1>1, <1>2, <1>3 DEF Before
<1>4. CASE m # n
  <2> DEFINE At(k) == /\ OpensStream(slots, k) /\ StreamOf(slots[k]) = StreamOf(slots[i])
                      /\ \A l \in 1 .. k : StreamOf(slots[l]) # StreamOf(slots[j])
  <2>1. Before(slots, i, j) <=> \E k \in 1 .. i : At(k)
    BY <1>1, <1>4 DEF Before
  <2>2. ASSUME NEW k \in 1 .. i, At(k) PROVE m < n
    <3>1. Opens(slots, k, i)
      BY <2>2 DEF Opens
    <3>2. k = m
      BY <3>1, OpensSame
    <3>3. StreamOf(slots[n]) = StreamOf(slots[j])
      BY DEF Opens
    <3>4. n \notin 1 .. m
      BY <2>2, <3>2, <3>3
    <3> QED  BY <1>2, <3>4
  <2>3. ASSUME m < n PROVE At(m)
    <3>1. OpensStream(slots, m) /\ StreamOf(slots[m]) = StreamOf(slots[i])
      BY DEF Opens
    <3>2. ASSUME NEW l \in 1 .. m PROVE StreamOf(slots[l]) # StreamOf(slots[j])
      <4>1. l \in 1 .. (n - 1)
        BY <1>2, <2>3
      <4> QED  BY <4>1 DEF Opens, OpensStream
    <3> QED  BY <3>1, <3>2
  <2> HIDE DEF At
  <2> QED  BY <1>2, <1>4, <2>1, <2>2, <2>3
<1> QED  BY <1>3, <1>4

\* The order of the replay is an order.
LEMMA ReplayedStrict ==
  ASSUME NEW slots \in Seq(Command), NEW K \in SUBSET DOMAIN slots
  PROVE  StrictOn(Replayed(slots), K)
<1> DEFINE N == Len(slots)
           F == [i \in 1 .. N |-> CHOOSE m : Opens(slots, m, i)]
           G == [i \in 1 .. N |-> slots[i].rev]
<1>1. N \in Nat /\ DOMAIN slots = 1 .. N
  OBVIOUS
<1>2. \A i \in 1 .. N : Opens(slots, F[i], i)
  BY <1>1, OpensIs
<1>3. \A i \in 1 .. N : F[i] \in Int /\ G[i] \in Int
  <2>1. \A i \in 1 .. N : slots[i] \in Command
    BY <1>1
  <2>2. \A i \in 1 .. N : slots[i].rev \in Int
    BY <2>1 DEF Command
  <2> HIDE DEF F
  <2> QED  BY <1>2, <2>2 DEF Opens
<1>4. \A i, j \in 1 .. N : Before(slots, i, j) <=>
           \/ F[i] < F[j]
           \/ F[i] = F[j] /\ G[i] < G[j]
           \/ F[i] = F[j] /\ G[i] = G[j] /\ i < j
  <2> SUFFICES ASSUME NEW i \in 1 .. N, NEW j \in 1 .. N
               PROVE  Before(slots, i, j) <=>
                        \/ F[i] < F[j]
                        \/ F[i] = F[j] /\ G[i] < G[j]
                        \/ F[i] = F[j] /\ G[i] = G[j] /\ i < j
    OBVIOUS
  <2>1. G[i] = slots[i].rev /\ G[j] = slots[j].rev
    OBVIOUS
  <2> HIDE DEF F, G, N
  <2> QED  BY <1>1, <1>2, <2>1, BeforeIs
<1>5. \A i, j \in K : <<i, j>> \in Replayed(slots) <=> Before(slots, i, j)
  BY DEF Replayed
<1> HIDE DEF F, G, N
<1>6. \A i \in K : i \in 1 .. N /\ i \in Int
  BY <1>1
<1>7. \A i \in K : <<i, i>> \notin Replayed(slots)
  BY <1>3, <1>4, <1>5, <1>6
<1>8. \A i, j \in K : i # j => <<i, j>> \in Replayed(slots) \/ <<j, i>> \in Replayed(slots)
  BY <1>3, <1>4, <1>5, <1>6
<1>9. \A i, j, k \in K : <<i, j>> \in Replayed(slots) /\ <<j, k>> \in Replayed(slots)
                          => <<i, k>> \in Replayed(slots)
  <2> SUFFICES ASSUME NEW i \in K, NEW j \in K, NEW k \in K, Before(slots, i, j), Before(slots, j, k)
               PROVE  Before(slots, i, k)
    BY <1>5
  <2>1. /\ F[i] < F[j] \/ (F[i] = F[j] /\ (G[i] < G[j] \/ (G[i] = G[j] /\ i < j)))
        /\ F[j] < F[k] \/ (F[j] = F[k] /\ (G[j] < G[k] \/ (G[j] = G[k] /\ j < k)))
    BY <1>4, <1>6
  <2>2. /\ F[i] \in Int /\ F[j] \in Int /\ F[k] \in Int
        /\ G[i] \in Int /\ G[j] \in Int /\ G[k] \in Int
        /\ i \in Int /\ j \in Int /\ k \in Int
    BY <1>3, <1>6
  <2>3. F[i] < F[k] \/ (F[i] = F[k] /\ (G[i] < G[k] \/ (G[i] = G[k] /\ i < k)))
    BY <2>1, <2>2
  <2> QED  BY <1>4, <1>6, <2>3
<1> QED  BY <1>7, <1>8, <1>9 DEF StrictOn

-----------------------------------------------------------------------------
(***************************************************************************)
(* BoundedProtocolStore.                                                   *)
(***************************************************************************)
\* The largest of finitely many revisions is one of them.
LEMMA MaxRevIn ==
  ASSUME NEW T \in SUBSET Nat, IsFiniteSet(T), T # {}
  PROVE  MaxRev(T) \in T
<1> DEFINE R == {r \in Nat \X Nat : r[1] < r[2]}
           N == Cardinality(T)
<1>1. \A i, j \in T : <<i, j>> \in R <=> i < j
  OBVIOUS
<1>2. StrictOn(R, T)
  <2> HIDE DEF R
  <2> QED  BY <1>1 DEF StrictOn
<1>3. N \in Nat /\ N # 0
  BY FS_CardinalityType, FS_EmptySet
<1> HIDE DEF R
<1>4. PICK m \in T : Rank(T, R, m) = N - 1
  <2>1. N \in 1 .. Cardinality(T)
    BY <1>3
  <2> QED  BY <1>2, <2>1, RankHit
<1>5. ASSUME NEW n \in T PROVE n <= m
  <2>1. CASE <<m, n>> \in R
    <3>1. Rank(T, R, n) \in 0 .. N - 1 /\ Rank(T, R, m) < Rank(T, R, n)
      BY <1>2, <2>1, RankGrows
    <3> HIDE DEF N
    <3> QED  BY <1>3, <1>4, <3>1
  <2>2. CASE <<m, n>> \notin R
    BY <1>1, <2>2
  <2> QED  BY <2>1, <2>2
<1> QED  BY <1>5 DEF MaxRev

\* Among sync intents there is a strongest one.
LEMMA StrongestIn ==
  ASSUME NEW ks \in SUBSET SyncKinds, ks # {}
  PROVE  Strongest(ks) \in ks
<1>1. Strength("debounced") = 0 /\ Strength("push") = 1 /\ Strength("config") = 2
  BY DEF Strength
<1>2. \E k \in ks : \A j \in ks : Strength(j) <= Strength(k)
  <2>1. \A k \in ks : k = "debounced" \/ k = "push" \/ k = "config"
    BY DEF SyncKinds
  <2> HIDE DEF Strength
  <2>2. CASE "config" \in ks
    BY <1>1, <2>1, <2>2
  <2>3. CASE "config" \notin ks /\ "push" \in ks
    BY <1>1, <2>1, <2>3
  <2>4. CASE "config" \notin ks /\ "push" \notin ks
    BY <1>1, <2>1, <2>4
  <2> QED  BY <2>2, <2>3, <2>4
<1> QED  BY <1>2 DEF Strongest

\* Merged updates are an update.
LEMMA MergedIs == ASSUME NEW us PROVE merge_momentum_active_pools_updates(us) \in Update
<1> DEFINE i == DOMAIN us
           on == {p \in Pools : \E n \in i : p \in us[n].on /\
                    \A k \in i : k > n => ~us[k].full /\ p \notin us[k].off}
           off == {p \in Pools : \E n \in i : p \in us[n].off /\
                     \A k \in i : k >= n => p \notin us[k].on}
<1>1. PICK full \in BOOLEAN : full = (\E n \in i : us[n].full)
  OBVIOUS
<1>2. on \in SUBSET Pools /\ off \in SUBSET Pools
  OBVIOUS
<1>3. merge_momentum_active_pools_updates(us) = [full |-> full, on |-> on, off |-> off]
  <2> HIDE DEF on, off
  <2>1. merge_momentum_active_pools_updates(us) = [full |-> (\E n \in i : us[n].full), on |-> on, off |-> off]
    BY DEF merge_momentum_active_pools_updates, on, off
  <2> QED  BY <1>1, <2>1, Zenon
<1> HIDE DEF on, off
<1> QED  BY <1>1, <1>2, <1>3 DEF Update

\* What a finite set is mapped to is finite.
LEMMA FiniteImage ==
  ASSUME NEW S, IsFiniteSet(S), NEW f
  PROVE  IsFiniteSet({f[x] : x \in S})
<1> DEFINE T == {f[x] : x \in S}
           g == [x \in S |-> f[x]]
<1>1. g \in [S -> T] /\ \A t \in T : \E x \in S : g[x] = t
  OBVIOUS
<1> HIDE DEF g, T
<1>2. g \in Surjection(S, T)
  BY <1>1 DEF Surjection
<1>3. IsFiniteSet(T)
  BY <1>2, FS_Surjection
<1> QED  BY <1>3 DEF T

\* What a staged command becomes is a command.
LEMMA CoalescedIs ==
  ASSUME NEW slots \in Seq(Commands), NEW c \in Commands
  PROVE  CoalesceCommand(slots, c) \in Commands
<1> DEFINE old == {i \in DOMAIN slots : Superseded(slots[i], c)}
           syncs == {slots[i] : i \in old} \cup {c}
           updates == Append(InOrder(slots, old, Staged(slots)), c)
           u == merge_momentum_active_pools_updates([n \in DOMAIN updates |-> updates[n].arg])
<1>0. DOMAIN slots = 1 .. Len(slots) /\ Len(slots) \in Nat /\ \A i \in DOMAIN slots : slots[i] \in Commands
  OBVIOUS
<1>1. CASE IsSync(c) /\ old # {}
  <2>1. \A i \in old : slots[i] \in Commands /\ IsSync(slots[i])
    <3>1. c.key = "control" /\ c.kind # "continue"
      BY <1>1 DEF Commands, IsSync, SyncKinds
    <3>2. \A i \in DOMAIN slots : Superseded(slots[i], c) <=> IsSync(slots[i])
      BY <1>1, <3>1, StreamsOK DEF Superseded
    <3> QED  BY <1>0, <3>2
  <2>2. \A s \in syncs : s \in Commands /\ IsSync(s)
    BY <1>1, <2>1
  <2>3. IsFiniteSet(syncs)
    <3>1. IsFiniteSet(old)
      <4>1. IsFiniteSet(DOMAIN slots)
        BY <1>0, FS_Interval
      <4>2. old \in SUBSET DOMAIN slots
        OBVIOUS
      <4> HIDE DEF old
      <4> QED  BY <4>1, <4>2, FS_Subset
    <3> HIDE DEF old
    <3>2. IsFiniteSet({slots[i] : i \in old})
      BY <3>1, FiniteImage
    <3> QED  BY <3>2, FS_AddElement
  <2> HIDE DEF syncs
  <2> DEFINE revs == {s.rev : s \in syncs}
             kinds == {s.kind : s \in syncs}
  <2>4. IsFiniteSet(revs)
    <3> DEFINE f == [s \in syncs |-> s.rev]
    <3>1. revs = {f[s] : s \in syncs}
      OBVIOUS
    <3> HIDE DEF f, revs
    <3> QED  BY <2>3, <3>1, FiniteImage
  <2>5. revs \in SUBSET Nat /\ kinds \in SUBSET SyncKinds
    BY <2>2 DEF Commands, Command, IsSync
  <2>6. revs # {} /\ kinds # {}
    BY DEF syncs
  <2> HIDE DEF revs, kinds
  <2>7. MaxRev(revs) \in Nat /\ Strongest(kinds) \in SyncKinds
    BY <2>4, <2>5, <2>6, MaxRevIn, StrongestIn
  <2>8. CoalesceCommand(slots, c) = Cmd("control", MaxRev(revs), Strongest(kinds), None)
    BY <1>1 DEF CoalesceCommand, revs, kinds, syncs, IsSync, SyncKinds
  <2>9. Strongest(kinds) \in Kinds /\ "control" \in Keys /\ Strongest(kinds) # "hot"
    BY <2>7 DEF Kinds, Keys, SyncKinds
  <2> QED  BY <2>7, <2>8, <2>9 DEF Cmd, Commands, Command
<1>2. CASE c.kind = "hot"
  <2> HIDE DEF updates
  <2>1. u \in Update
    BY MergedIs
  <2>2. CoalesceCommand(slots, c) = [c EXCEPT !.arg = u]
    BY <1>2 DEF CoalesceCommand, updates, IsSync, SyncKinds
  <2> HIDE DEF u
  <2> QED  BY <1>2, <2>1, <2>2 DEF Commands, Command, SyncKinds
<1>3. CASE c.kind # "hot" /\ ~ (IsSync(c) /\ old # {})
  <2>1. CoalesceCommand(slots, c) = c
    BY <1>3 DEF CoalesceCommand
  <2> QED  BY <2>1
<1> QED  BY <1>1, <1>2, <1>3

\* The pending slots never outgrow PendingCap.
LEMMA StageIs ==
  ASSUME NEW slots \in Seq(Commands), Len(slots) <= PendingCap, NEW c \in Commands
  PROVE  Stage(slots, c) \in Seq(Commands) /\ Len(Stage(slots, c)) <= PendingCap
<1> DEFINE rest == CoalesceSlots(slots, c)
           K == {i \in DOMAIN slots : ~Superseded(slots[i], c)}
           new == CoalesceCommand(slots, c)
<1>1. rest \in Seq(Commands) /\ Len(rest) <= Len(slots)
  <2>1. rest = InOrder(slots, K, Staged(slots))
    BY DEF CoalesceSlots
  <2>2. K \in SUBSET DOMAIN slots /\ DOMAIN slots \subseteq Nat
    OBVIOUS
  <2> HIDE DEF K, rest
  <2>3. StrictOn(Staged(slots), K)
    BY <2>2, StagedStrict
  <2> QED  BY <2>1, <2>2, <2>3, InOrderSeq
<1>2. new \in Commands
  BY CoalescedIs
<1>3. Stage(slots, c) = rest \/ Stage(slots, c) = Append(IF Len(rest) < PendingCap THEN rest ELSE Tail(rest), new)
  BY DEF Stage
<1> HIDE DEF rest, new, K
<1>4. PendingCap \in Nat /\ PendingCap # 0 /\ Len(slots) \in Nat /\ Len(rest) \in Nat
  BY <1>1, Caps
<1>5. CASE Len(rest) < PendingCap
  BY <1>1, <1>2, <1>3, <1>4, <1>5
<1>6. CASE ~ (Len(rest) < PendingCap)
  <2>1. rest # <<>>
    BY <1>4, <1>6
  <2>2. Tail(rest) \in Seq(Commands) /\ Len(Tail(rest)) = Len(rest) - 1
    BY <1>1, <2>1
  <2> QED  BY <1>1, <1>2, <1>3, <1>4, <1>6, <2>2
<1> QED  BY <1>5, <1>6

-----------------------------------------------------------------------------
(***************************************************************************)
(* The steps.                                                              *)
(***************************************************************************)
\* The pending slots as the invariant has them.
Pending == pending \in Seq(Commands) /\ Len(pending) <= PendingCap

\* Deduping a command stages it, renumbers a staged continue, or does nothing.
LEMMA DedupeKeeps ==
  ASSUME WorkerInv, NEW kind \in Kinds, Deduped(kind), DedupeEffect(kind)
  PROVE  Pending' /\ issued' \in [Keys -> Nat]
<1> DEFINE rev == issued["control"] + 1
<1>1. /\ Pending /\ issued \in [Keys -> Nat] /\ "control" \in Keys
      /\ DOMAIN pending = 1 .. Len(pending) /\ Len(pending) \in Nat
  BY DEF WorkerInv, CommandSlots, Counters, Keys, Pending
<1>2. rev \in Nat
  BY <1>1
<1>3. kind \in SyncKinds \/ kind = "continue"
  BY DEF Deduped
<1> DEFINE c == Cmd("control", rev, kind, None)
           moved == [i \in DOMAIN pending |->
                       IF pending[i].kind = "continue" THEN [pending[i] EXCEPT !.rev = rev] ELSE pending[i]]
<1>4. \/ UNCHANGED <<pending, issued>>
      \/ issued' = [issued EXCEPT !["control"] = rev] /\ kind = "continue" /\ pending' = moved
      \/ issued' = [issued EXCEPT !["control"] = rev] /\ kind # "continue" /\ pending' = Stage(pending, c)
  BY DEF DedupeEffect
<1>5. issued' \in [Keys -> Nat]
  <2> HIDE DEF rev, c, moved
  <2> QED  BY <1>1, <1>2, <1>4
<1>6. c \in Commands
  <2> HIDE DEF rev
  <2> QED  BY <1>1, <1>2, <1>3 DEF Cmd, Commands, Command, SyncKinds
<1>7. moved \in Seq(Commands) /\ Len(moved) = Len(pending)
  <2>1. ASSUME NEW i \in DOMAIN pending PROVE moved[i] \in Commands
    <3> HIDE DEF rev
    <3>1. pending[i] \in Commands
      BY <1>1 DEF Pending
    <3>2. [pending[i] EXCEPT !.rev = rev] \in Commands
      BY <1>2, <3>1 DEF Commands, Command
    <3> QED  BY <3>1, <3>2
  <2>2. DOMAIN moved = 1 .. Len(pending)
    BY <1>1
  <2>3. moved = [i \in 1 .. Len(pending) |-> moved[i]]
    BY <1>1
  <2> HIDE DEF moved
  <2> QED  BY <1>1, <2>1, <2>2, <2>3
<1> HIDE DEF c, moved, rev
<1>8. Pending'
  BY <1>1, <1>4, <1>6, <1>7, StageIs DEF Pending
<1> QED  BY <1>5, <1>8

\* Starting a send.
LEMMA BeginKeeps ==
  ASSUME WorkerInv, NEW t \in Threads, NEW kind \in Kinds, NEW m, NEW arg \in Update \cup {None},
         kind = "hot" => arg \in Update, kind \in {"pin", "unpin"} => m \in Mints,
         Begin(t, kind, m, arg)
  PROVE  Sending' /\ Pending' /\ Counters' /\ queue' = queue
<1> DEFINE k == KeyOf(kind, m)
           c == Cmd(k, issued[k] + 1, kind, arg)
<1>1. /\ Pending /\ Sending /\ Counters
      /\ UNCHANGED <<queue, depth, applied, inflight, evicts>> /\ at[t] = "idle"
  BY DEF WorkerInv, CommandSlots, Pending, Begin
<1>2. CASE Deduped(kind)
  <2>1. DedupeEffect(kind) /\ UNCHANGED <<out, at>>
    BY <1>2 DEF Begin, senders
  <2>2. Pending' /\ issued' \in [Keys -> Nat]
    BY <1>2, <2>1, DedupeKeeps
  <2> QED  BY <1>1, <2>1, <2>2 DEF Sending, Counters
<1>3. CASE ~Deduped(kind)
  <2>1. /\ issued' = [issued EXCEPT ![k] = @ + 1]
        /\ out' = [out EXCEPT ![t] = c]
        /\ at' = [at EXCEPT ![t] = "wrapped"]
        /\ pending' = pending
    BY <1>3 DEF Begin
  <2>2. k \in Keys /\ (kind \in SyncKinds => k = "control")
    BY DEF KeyOf, Keys, SyncKinds, Kinds
  <2> HIDE DEF k
  <2>3. issued[k] + 1 \in Nat
    BY <1>1, <2>2 DEF Counters
  <2>4. c \in Commands
    BY <2>2, <2>3 DEF Cmd, Commands, Command
  <2> HIDE DEF c
  <2>5. issued' \in [Keys -> Nat]
    BY <1>1, <2>1, <2>2, <2>3 DEF Counters
  <2>6. Sending'
    BY <1>1, <2>1, <2>4 DEF Sending
  <2> QED  BY <1>1, <2>1, <2>5, <2>6 DEF Pending, Counters
<1> QED  BY <1>2, <1>3

\* Applying a command.
LEMMA HandleKeeps ==
  ASSUME WorkerInv, NEW c \in Commands, Handle(c)
  PROVE  Pending' /\ applied' \in [Keys -> Nat] /\ Sets'
<1>1. Pending /\ applied \in [Keys -> Nat] /\ Sets /\ disk.pools \subseteq Pools /\ disk.mints \subseteq Mints
  BY DEF WorkerInv, CommandSlots, Counters, Pending, Feeds
<1>2. c.key \in Keys /\ c.rev \in Nat
  BY DEF Commands, Command
<1>3. ASSUME mark_applied(c) PROVE applied' \in [Keys -> Nat]
  BY <1>1, <1>2, <1>3 DEF mark_applied
<1>4. ASSUME NEW h, NEW d, Retry(h, d) PROVE deferred' \subseteq h
  BY <1>4 DEF Retry
<1>5. CASE ~is_applicable(c)
  BY <1>1, <1>5 DEF Handle, Pending, Sets
<1>6. CASE c.key \in Mints /\ Wallet(c)
  <2>1. hot' = hot /\ deferred' = deferred
    BY <1>6 DEF Wallet
  <2>2. CASE mark_applied(c) /\ pending' = pending
               /\ pinned' = IF c.kind = "pin" THEN pinned \cup {c.key} ELSE pinned \ {c.key}
    BY <1>1, <1>3, <1>6, <2>1, <2>2 DEF Sets, Pending
  <2>3. CASE Reject(c)
    <3>1. pending' = Stage(pending, c) /\ applied' = applied /\ pinned' = pinned
      BY <2>3 DEF Reject
    <3>2. Pending'
      BY <1>1, <3>1, StageIs DEF Pending
    <3> QED  BY <1>1, <2>1, <3>1, <3>2 DEF Sets
  <2> QED  BY <1>6, <2>2, <2>3 DEF Wallet
<1>7. CASE c.kind = "hot" /\ Hot(c)
  <2>1. c.arg \in Update /\ c.arg.on \subseteq Pools
    BY <1>7 DEF Commands, Update
  <2>2. /\ hot' = Applied(c.arg) /\ mark_applied(c) /\ pending' = pending /\ pinned' = pinned
        /\ \/ Retry(hot', deferred)
           \/ \E p \in c.arg.on \ (hot \ deferred) : deferred' = (deferred \cap hot') \cup {p}
    BY <1>7 DEF Hot
  <2>3. Applied(c.arg) \subseteq Pools /\ c.arg.on \subseteq Applied(c.arg)
    BY <1>1, <2>1 DEF Applied, Reconciled, Sets
  <2>4. deferred' \subseteq hot'
    BY <1>4, <2>2, <2>3
  <2> QED  BY <1>1, <1>3, <2>2, <2>3, <2>4 DEF Sets, Pending
<1>8. CASE SyncIntent(c)
  <2>1. mark_applied(c) /\ UNCHANGED <<pending, pinned, hot, deferred>>
    BY <1>8 DEF SyncIntent
  <2> QED  BY <1>1, <1>3, <2>1 DEF Sets, Pending
<1>9. CASE Restore(c)
  <2>1. /\ mark_applied(c) /\ UNCHANGED <<pending, deferred>>
        /\ hot' = hot \cup disk.pools /\ pinned' = pinned \cup disk.mints
    BY <1>9 DEF Restore
  <2> QED  BY <1>1, <1>3, <2>1 DEF Sets, Pending
<1>10. CASE RetryDeferred(c)
  <2>1. mark_applied(c) /\ UNCHANGED <<pending, pinned, hot>> /\ Retry(hot, deferred)
    BY <1>10 DEF RetryDeferred
  <2>2. deferred' \subseteq hot
    BY <1>4, <2>1
  <2> QED  BY <1>1, <1>3, <2>1, <2>2 DEF Sets, Pending
<1> QED  BY <1>5, <1>6, <1>7, <1>8, <1>9, <1>10 DEF Handle, Process

\* The commands the worker holds when it starts to replay.
LEMMA DrainKeeps ==
  ASSUME WorkerInv
  PROVE  InOrder(pending, {i \in DOMAIN pending : is_applicable(pending[i])}, Replayed(pending))
           \in Seq(Commands)
<1> DEFINE K == {i \in DOMAIN pending : is_applicable(pending[i])}
<1>1. pending \in Seq(Commands) /\ K \in SUBSET DOMAIN pending
  BY DEF WorkerInv, CommandSlots
<1>2. pending \in Seq(Command)
  BY <1>1 DEF Commands
<1> HIDE DEF K
<1>3. StrictOn(Replayed(pending), K)
  BY <1>1, <1>2, ReplayedStrict
<1>4. InOrder(pending, K, Replayed(pending)) \in Seq(Commands)
  BY <1>1, <1>3, InOrderSeq
<1> QED  BY <1>4 DEF K


\* The worker starts with empty queues.
LEMMA WorkerInitInv == WorkerInit => WorkerInv
<1> SUFFICES ASSUME WorkerInit PROVE WorkerInv
  OBVIOUS
<1>1. Feeds
  <2>1. disk = [pools |-> Pools, mints |-> Mints] \/ disk = [pools |-> {}, mints |-> {}]
    BY DEF WorkerInit
  <2>2. boot = <<"restore", "push">> \/ boot = <<"push">>
    BY DEF WorkerInit
  <2>3. boot \in Seq({"restore", "push"})
    <3> DEFINE S == {"restore", "push"}
    <3>1. "restore" \in S /\ "push" \in S
      OBVIOUS
    <3> HIDE DEF S
    <3>2. <<"push">> \in Seq(S) /\ <<"restore", "push">> \in Seq(S)
      BY <3>1
    <3>3. boot \in Seq(S)
      BY <2>2, <3>2, Zenon
    <3> QED  BY <3>3 DEF S
  <2>4. disk.pools \subseteq Pools /\ disk.mints \subseteq Mints
    BY <2>1
  <2> QED  BY <2>3, <2>4 DEF WorkerInit, Feeds
<1>2. Sending
  BY DEF WorkerInit, Sending
<1>3. CommandSlots
  BY Caps DEF WorkerInit, CommandSlots
<1>4. Counters /\ Sets
  BY DEF WorkerInit, Counters, Sets
<1> QED  BY <1>1, <1>2, <1>3, <1>4 DEF WorkerInv

\* Every step of a thread, of the bot and of the worker keeps the invariant.
LEMMA WorkerNextInv == WorkerInv /\ [WorkerNext]_workerVars => WorkerInv'
<1> SUFFICES ASSUME WorkerInv, [WorkerNext]_workerVars PROVE WorkerInv'
  OBVIOUS
<1> USE DEF bot, senders, store, worker, tracked, start
<1>0. Feeds /\ Sending /\ CommandSlots /\ Counters /\ Sets /\ Pending
  BY DEF WorkerInv, CommandSlots, Pending
<1>1. CASE UNCHANGED workerVars
  BY <1>0, <1>1 DEF workerVars, WorkerInv, Feeds, Sending, CommandSlots, Counters, Sets
<1>2. CASE Boot
  <2>1. /\ boot # <<>> /\ Begin("main", Head(boot), None, None) /\ boot' = Tail(boot)
        /\ UNCHANGED <<active, wire, burst, disk, todo, pinned, hot, deferred>>
    BY <1>2 DEF Boot
  <2>2. Head(boot) \in {"restore", "push"} /\ Tail(boot) \in Seq({"restore", "push"})
    BY <1>0, <2>1 DEF Feeds
  <2>3. Sending' /\ Pending' /\ Counters' /\ queue' = queue
    <3>1. Head(boot) \in Kinds /\ Head(boot) # "hot" /\ Head(boot) \notin {"pin", "unpin"} /\ "main" \in Threads
      BY <2>2 DEF Kinds, SyncKinds, Threads
    <3> QED  BY <2>1, <3>1, BeginKeeps
  <2>4. Feeds'
    BY <1>0, <2>1, <2>2 DEF Feeds
  <2> QED  BY <1>0, <2>1, <2>3, <2>4 DEF WorkerInv, CommandSlots, Sets, Pending
<1>3. CASE BootDone
  BY <1>0, <1>3 DEF BootDone, WorkerInv, Feeds, Sending, CommandSlots, Counters, Sets
<1>4. CASE WalletDemand
  <2>1. PICK m \in Mints : /\ Begin("md", IF wanted[m] THEN "unpin" ELSE "pin", m, None)
                           /\ UNCHANGED <<active, wire, burst, disk, boot, todo, pinned, hot, deferred>>
    BY <1>4 DEF WalletDemand
  <2>2. PICK kind \in {"pin", "unpin"} : Begin("md", kind, m, None)
    BY <2>1
  <2>3. Sending' /\ Pending' /\ Counters' /\ queue' = queue
    <3>1. kind \in Kinds /\ kind # "hot" /\ "md" \in Threads
      BY DEF Kinds, Threads
    <3> QED  BY <2>2, <3>1, BeginKeeps
  <2> QED  BY <1>0, <2>1, <2>3 DEF WorkerInv, Feeds, CommandSlots, Sets, Pending
<1>5. CASE IngestControl
  <2>1. PICK kind \in {"debounced", "config"} :
              /\ Begin("main", kind, None, None)
              /\ UNCHANGED <<active, wire, burst, disk, boot, todo, pinned, hot, deferred>>
    BY <1>5 DEF IngestControl
  <2>2. Sending' /\ Pending' /\ Counters' /\ queue' = queue
    <3>1. kind \in Kinds /\ kind # "hot" /\ kind \notin {"pin", "unpin"} /\ "main" \in Threads
      BY DEF Kinds, SyncKinds, Threads
    <3> QED  BY <2>1, <3>1, BeginKeeps
  <2> QED  BY <1>0, <2>1, <2>2 DEF WorkerInv, Feeds, CommandSlots, Sets, Pending
<1>6. CASE ActivityTick
  <2>1. /\ Begin("main", "retry", None, None)
        /\ UNCHANGED <<active, wire, burst, disk, boot, todo, pinned, hot, deferred>>
    BY <1>6 DEF ActivityTick
  <2>2. Sending' /\ Pending' /\ Counters' /\ queue' = queue
    <3>1. "retry" \in Kinds /\ "main" \in Threads
      BY DEF Kinds, Threads
    <3> QED  BY <2>1, <3>1, BeginKeeps
  <2> QED  BY <1>0, <2>1, <2>2 DEF WorkerInv, Feeds, CommandSlots, Sets, Pending
<1>7. CASE BotChange
  <2>1. PICK p \in Pools :
              /\ active' = (active \ {p}) \cup ({p} \ active)
              /\ wire' = wire \cup {[full |-> FALSE, on |-> {p} \ active, off |-> {p} \cap active]}
              /\ UNCHANGED <<burst, senders, queue, depth, store, worker, tracked, start>>
    BY <1>7 DEF BotChange
  <2>2. [full |-> FALSE, on |-> {p} \ active, off |-> {p} \cap active] \in Update
    BY DEF Update
  <2>3. Feeds'
    BY <1>0, <2>1, <2>2 DEF Feeds
  <2> QED  BY <1>0, <2>1, <2>3 DEF WorkerInv, Sending, CommandSlots, Counters, Sets
<1>8. CASE BotTick
  <2>1. /\ wire' = wire \cup {[full |-> TRUE, on |-> active, off |-> {}]}
        /\ UNCHANGED <<active, burst, senders, queue, depth, store, worker, tracked, start>>
    BY <1>8 DEF BotTick
  <2>2. [full |-> TRUE, on |-> active, off |-> {}] \in Update
    BY <1>0 DEF Update, Feeds
  <2>3. Feeds'
    BY <1>0, <2>1, <2>2 DEF Feeds
  <2> QED  BY <1>0, <2>1, <2>3 DEF WorkerInv, Sending, CommandSlots, Counters, Sets
<1>9. CASE Deliver
  <2>1. PICK u \in wire :
              /\ wire' = wire \ {u} /\ (burst' = Append(burst, u) \/ burst' = burst)
              /\ UNCHANGED <<active, senders, queue, depth, store, worker, tracked, start>>
    BY <1>9 DEF Deliver
  <2>2. u \in Update
    BY <1>0 DEF Feeds
  <2>3. Feeds'
    BY <1>0, <2>1, <2>2 DEF Feeds
  <2> QED  BY <1>0, <2>1, <2>3 DEF WorkerInv, Sending, CommandSlots, Counters, Sets
<1>10. CASE CoalesceBurst
  <2>1. /\ Begin("coalescer", "hot", None, merge_momentum_active_pools_updates(burst)) /\ burst' = <<>>
        /\ UNCHANGED <<active, wire, disk, boot, todo, pinned, hot, deferred>>
    BY <1>10 DEF CoalesceBurst
  <2>2. Sending' /\ Pending' /\ Counters' /\ queue' = queue
    <3>1. "hot" \in Kinds /\ "coalescer" \in Threads /\ merge_momentum_active_pools_updates(burst) \in Update
      BY MergedIs DEF Kinds, Threads
    <3> QED  BY <2>1, <3>1, BeginKeeps
  <2> QED  BY <1>0, <2>1, <2>2 DEF WorkerInv, Feeds, CommandSlots, Sets, Pending
<1>11. ASSUME NEW t \in Threads, TrySend(t) PROVE WorkerInv'
  <2>1. /\ at[t] = "wrapped" /\ out[t] \in Commands
        /\ UNCHANGED <<bot, depth, issued, applied, inflight, evicts, worker, tracked, start>>
    BY <1>0, <1>11 DEF TrySend, Sending
  <2>2. CASE QueueFull
    <3>1. /\ pending' = Stage(pending, out[t]) /\ queue' = queue
          /\ at' = [at EXCEPT ![t] = "idle"] /\ out' = [out EXCEPT ![t] = None]
      BY <1>11, <2>2 DEF TrySend
    <3>2. Pending'
      BY <1>0, <2>1, <3>1, StageIs DEF Pending
    <3>3. Sending'
      BY <1>0, <3>1 DEF Sending
    <3> QED  BY <1>0, <2>1, <3>1, <3>2, <3>3 DEF WorkerInv, Feeds, CommandSlots, Counters, Sets, Pending
  <2>3. CASE ~QueueFull
    <3>1. queue' = Append(queue, out[t]) /\ at' = [at EXCEPT ![t] = "sent"] /\ UNCHANGED <<pending, out>>
      BY <1>11, <2>3 DEF TrySend
    <3>2. queue' \in Seq(Commands) /\ Len(queue') <= QueueCap
      BY <1>0, <2>1, <2>3, <3>1, Caps DEF CommandSlots, QueueFull
    <3>3. Sending'
      BY <1>0, <2>1, <3>1 DEF Sending
    <3> QED  BY <1>0, <2>1, <3>1, <3>2, <3>3 DEF WorkerInv, Feeds, CommandSlots, Counters, Sets
  <2> QED  BY <2>2, <2>3
<1>12. ASSUME NEW t \in Threads, CountSlot(t) PROVE WorkerInv'
  <2>1. /\ at[t] = "sent" /\ depth' = depth + 1 /\ at' = [at EXCEPT ![t] = "counted"]
        /\ UNCHANGED <<bot, out, queue, store, worker, tracked, start>>
    BY <1>12 DEF CountSlot
  <2>2. Sending' /\ depth' \in Nat
    BY <1>0, <2>1 DEF Sending, Counters
  <2> QED  BY <1>0, <2>1, <2>2 DEF WorkerInv, Feeds, CommandSlots, Counters, Sets
<1>13. ASSUME NEW t \in Threads, note_inflight_enqueued(t) PROVE WorkerInv'
  <2>1. /\ at' = [at EXCEPT ![t] = "idle"] /\ out' = [out EXCEPT ![t] = None]
        /\ UNCHANGED <<bot, queue, depth, pending, issued, applied, worker, tracked, start>>
    BY <1>13 DEF note_inflight_enqueued
  <2>2. Sending'
    BY <1>0, <2>1 DEF Sending
  <2>3. inflight' \in [0 .. 2 -> Nat]
    BY <1>0, <1>13 DEF note_inflight_enqueued, Counters, IsSync, SyncKinds, Strength
  <2>4. evicts' \in Nat
    BY <1>0, <1>13 DEF note_inflight_enqueued, Counters
  <2> QED  BY <1>0, <2>1, <2>2, <2>3, <2>4 DEF WorkerInv, Feeds, CommandSlots, Counters, Sets
<1>14. CASE Receive
  <2> DEFINE c == Head(queue)
  <2>1. /\ queue # <<>> /\ queue' = Tail(queue) /\ on_dequeue(c) /\ Handle(c)
        /\ UNCHANGED <<bot, senders, issued, wpc, todo, wanted, synced, boot, phase, disk>>
    BY <1>14 DEF Receive
  <2>2. c \in Commands /\ queue' \in Seq(Commands) /\ Len(queue') <= QueueCap
    BY <1>0, <2>1, Caps DEF CommandSlots
  <2> HIDE DEF c
  <2>3. Pending' /\ applied' \in [Keys -> Nat] /\ Sets'
    BY <2>1, <2>2, HandleKeeps
  <2>4. depth' \in Nat /\ evicts' \in Nat
    BY <1>0, <2>1 DEF on_dequeue, Saturated, Counters
  <2>5. inflight' \in [0 .. 2 -> Nat]
    BY <1>0, <2>1 DEF on_dequeue, Saturated, Counters, IsSync, SyncKinds, Strength
  <2> QED  BY <1>0, <2>1, <2>2, <2>3, <2>4, <2>5 DEF WorkerInv, Feeds, Sending, CommandSlots, Counters, Pending
<1>15. CASE DrainPending
  <2>1. /\ todo' = InOrder(pending, {i \in DOMAIN pending : is_applicable(pending[i])}, Replayed(pending))
        /\ pending' = <<>>
        /\ UNCHANGED <<bot, senders, queue, depth, issued, applied, inflight, evicts, tracked, start>>
    BY <1>15 DEF DrainPending
  <2>2. todo' \in Seq(Commands)
    BY <2>1, DrainKeeps
  <2>3. pending' \in Seq(Commands) /\ Len(pending') <= PendingCap
    BY <2>1, Caps
  <2> QED  BY <1>0, <2>1, <2>2, <2>3 DEF WorkerInv, Feeds, Sending, CommandSlots, Counters, Sets
<1>16. CASE Replay
  <2> DEFINE c == Head(todo)
  <2>1. /\ todo # <<>> /\ todo' = Tail(todo) /\ Handle(c)
        /\ UNCHANGED <<bot, senders, queue, depth, issued, inflight, evicts, boot, disk>>
    BY <1>16 DEF Replay
  <2>2. c \in Commands /\ todo' \in Seq(Commands)
    BY <1>0, <2>1 DEF CommandSlots
  <2> HIDE DEF c
  <2>3. Pending' /\ applied' \in [Keys -> Nat] /\ Sets'
    BY <2>1, <2>2, HandleKeeps
  <2> QED  BY <1>0, <2>1, <2>2, <2>3 DEF WorkerInv, Feeds, Sending, CommandSlots, Counters, Pending
<1>17. CASE NotDue
  BY <1>0, <1>17 DEF NotDue, WorkerInv, Feeds, Sending, CommandSlots, Counters, Sets
<1>18. CASE Push
  <2>1. /\ UNCHANGED <<bot, senders, queue, depth, store, todo, pinned, hot, boot, disk>>
        /\ Retry(hot, deferred) \/ deferred' = deferred \cap hot
    BY <1>18 DEF Push
  <2>2. deferred' \subseteq hot
    BY <2>1 DEF Retry
  <2> QED  BY <1>0, <2>1, <2>2 DEF WorkerInv, Feeds, Sending, CommandSlots, Counters, Sets
<1>19. CASE SendContinue
  <2>1. /\ Begin("worker", "continue", None, None)
        /\ UNCHANGED <<active, wire, burst, disk, boot, todo, pinned, hot, deferred>>
    BY <1>19 DEF SendContinue
  <2>2. Sending' /\ Pending' /\ Counters' /\ queue' = queue
    <3>1. "continue" \in Kinds /\ "worker" \in Threads
      BY DEF Kinds, Threads
    <3> QED  BY <2>1, <3>1, BeginKeeps
  <2> QED  BY <1>0, <2>1, <2>2 DEF WorkerInv, Feeds, CommandSlots, Sets, Pending
<1>20. CASE DeadlinePasses
  BY <1>0, <1>20 DEF DeadlinePasses, WorkerInv, Feeds, Sending, CommandSlots, Counters, Sets
<1> QED  BY <1>1, <1>2, <1>3, <1>4, <1>5, <1>6, <1>7, <1>8, <1>9, <1>10, <1>11, <1>12, <1>13,
            <1>14, <1>15, <1>16, <1>17, <1>18, <1>19, <1>20 DEF WorkerNext, Send, WorkerStep

\* Every variable of the track worker's protocol keeps its type: the command
\* queue and the pending slots stay within their caps, no unsigned counter
\* drops below zero although the worker may lower it before the sender has
\* raised it, and a deferred pin is always of a pool that is still hot.
THEOREM WorkerTypeCorrect == WorkerSpec => []TypeOK
<1>1. WorkerInv => TypeOK
  <2> SUFFICES ASSUME WorkerInv PROVE TypeOK
    OBVIOUS
  <2>1. Commands \subseteq Command
    BY DEF Commands
  <2>2. queue \in Seq(Command) /\ pending \in Seq(Command) /\ todo \in Seq(Command)
    BY <2>1 DEF WorkerInv, CommandSlots
  <2>3. \A t \in Threads : out[t] \in Command \cup {None}
    BY <2>1 DEF WorkerInv, Sending
  <2> QED  BY <2>2, <2>3 DEF TypeOK, WorkerInv, Feeds, CommandSlots, Counters, Sets
<1> QED  BY <1>1, WorkerInitInv, WorkerNextInv, PTL DEF WorkerSpec
=============================================================================
