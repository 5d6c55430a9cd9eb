----------------------- MODULE MomentumPositionsProofs -----------------------
(* Theorems about MomentumPositions, for every number of BUYs, every set of   *)
(* SELL ids and every bound on the faults.                                    *)
EXTENDS MomentumPositions, TLAPS

Jobs == Buys \cup Sells
Statuses == {"confirmed", "failed", "timeout"}
BuyResults ==
    [id : Nat, side : {"buy"}, kind : {"probe", "scale_in"}, status : Statuses, fill : {None, Fill}]
SellResults ==
    [id : SellIds \cup {Liquidation}, side : {"sell"}, kind : {None}, status : Statuses,
     fill : {None} \cup (Nat \ {0})]

Types ==
    /\ pos \in Positions \cup {None}
    /\ pending \in SUBSET Jobs /\ orders \in SUBSET Jobs
    /\ queue \in Seq(Jobs) /\ posting \in Jobs \cup {None}
    /\ results \in SUBSET (BuyResults \cup SellResults)
    /\ recovered \in SUBSET Nat /\ next \in Nat
    /\ hint \in Nat \cup {None} /\ auth \in Nat \cup {None}
    /\ exits \in [Tasks -> Nat]
    /\ chain \in Nat /\ was \in Nat /\ bought \in Nat /\ faults \in Nat

IsBuy(x) == x.side = "buy"
Unfilled == {"probe_pending", "scale_pending"}

\* A result that will still open or enlarge the position when it is handled.
Live(r) == IsBuy(r) /\ r.status = "confirmed" /\ r.fill # None /\ r.id \notin recovered

\* A BUY that is not settled yet is the latest one, and the tracker waits for
\* it: no other BUY is made before.
Latest(x) == x.id = next - 1 /\ x.id \notin recovered /\ tracker \in Unfilled
OneBuy ==
    /\ \A x \in pending : IsBuy(x) => Latest(x)
    /\ \A x \in orders : IsBuy(x) => Latest(x)
    /\ \A i \in 1 .. Len(queue) : IsBuy(queue[i]) => Latest(queue[i])
    /\ \A r \in results : Live(r) => Latest(r)
    /\ \A r \in results : IsBuy(r) => r.id < next
    /\ \A id \in recovered : id < next

\* It is in one place: queued, ordered or answered.
NoResult == \A r \in results : IsBuy(r) => r.id # next - 1
OnePlace ==
    /\ \A x, y \in pending : IsBuy(x) /\ IsBuy(y) => x = y
    /\ \A x, y \in orders : IsBuy(x) /\ IsBuy(y) => x = y
    /\ \A i, j \in 1 .. Len(queue) : IsBuy(queue[i]) /\ IsBuy(queue[j]) => i = j
    /\ \A r, s \in results : IsBuy(r) /\ IsBuy(s) /\ r.id = s.id => r = s
    /\ \A i \in 1 .. Len(queue) : IsBuy(queue[i]) => (\A x \in orders : ~IsBuy(x)) /\ NoResult
    /\ \A x \in orders : IsBuy(x) => NoResult
    /\ posting # None /\ IsBuy(posting) => posting \in orders

\* The fills that are still to come.
Credit == IF \E r \in results : Live(r) THEN Fill ELSE 0

\* The pending-BUY entry, which keeps wallet snapshots from opening a
\* position, does not cover a BUY that the engine has or has answered.
Uncovered ==
    \/ \E o \in orders : IsBuy(o) /\ o # posting /\ o.id # entry
    \/ \E r \in results : Live(r) /\ r.id # entry

Ledger ==
    /\ chain <= bought /\ was <= bought /\ Credit <= bought
    /\ \A r \in results : r.id = Liquidation => r.status = "confirmed"
    /\ \A r \in results : ~IsBuy(r) /\ r.status = "confirmed" => r.fill # None /\ chain < bought

\* Only a fault leaves a BUY uncovered;
Covered == faults = 0 => ~Uncovered

\* while that is the only fault, a position does not vanish unless something
\* was sold;
Watched == faults = 0 \/ (faults = 1 /\ Uncovered)
Unsold == Watched /\ pos = None /\ chain = bought => bought <= Credit

\* and a position has room for the fill to come, or is the snapshot of that
\* very fill.
Room == pos.amt + Credit <= bought
Snapped == /\ pos.src = "WalletSnapshot" /\ pos.amt = Fill /\ Fill <= bought
           /\ \A p \in pending : ~IsBuy(p)
Roomy == faults <= 1 /\ pos # None => Room \/ Snapped

FreshIsLive == pos # None /\ pos.fresh => pos.src = "Live"

IInv == Types /\ OneBuy /\ OnePlace /\ Ledger /\ Covered /\ Unsold /\ Roomy /\ FreshIsLive

-----------------------------------------------------------------------------
(* Positions.                                                                *)

\* None is told from everything that is stored.
LEMMA NoneIs == None \notin Positions /\ None \notin Jobs /\ None \notin Nat
  BY MomentumConstants DEF Jobs

\* q is p with other flags; it is fresh only if p is.
Keeps(p, q) == q \in Positions /\ q.amt = p.amt /\ q.src = p.src /\ (q.fresh => p.fresh)

\* The flags of a position can be set one by one.
LEMMA Flags ==
    ASSUME NEW p \in Positions, NEW b \in BOOLEAN, NEW n \in Nat
    PROVE  /\ Keeps(p, p)
           /\ Keeps(p, [p EXCEPT !.latched = b])
           /\ Keeps(p, [p EXCEPT !.latched = FALSE, !.cooling = b])
           /\ Keeps(p, [p EXCEPT !.fresh = FALSE, !.cooling = FALSE])
           /\ LET q == [p EXCEPT !.amt = n, !.latched = b] IN
              q \in Positions /\ q.amt = n /\ q.src = p.src /\ (q.fresh => p.fresh)
           /\ LET q == [p EXCEPT !.src = "Live"] IN
              q \in Positions /\ q.amt = p.amt /\ q.src = "Live"
  BY DEF Keeps, Positions

\* A new position has the size and the source it is made with.
LEMMA PositionIs ==
    ASSUME NEW n \in Nat, NEW src \in {"Live", "WalletSnapshot"}
    PROVE  /\ Position(n, src) \in Positions /\ Position(n, src).amt = n /\ Position(n, src).src = src
           /\ Position(n, src).fresh => src = "Live"
  BY DEF Position, Positions

\* open_position adds the fill to a position or makes a new one.
LEMMA OpenIs ==
    ASSUME NEW p \in Positions \cup {None}, NEW n \in Nat
    PROVE  LET q == open_position(p, n) IN
           /\ q \in Positions
           /\ p = None => q.amt = n /\ q.src = "Live"
           /\ p # None => q.amt = p.amt + n /\ q.src = p.src /\ (q.fresh => p.fresh)
<1>1. CASE p = None
  BY <1>1, PositionIs DEF open_position
<1>2. CASE p # None
  <2>1. p \in Positions /\ p.amt \in Nat
    BY <1>2 DEF Positions
  <2>2. open_position(p, n) = [p EXCEPT !.amt = p.amt + n, !.latched = FALSE]
    BY <1>2, <2>1 DEF open_position, Positions
  <2>3. p.amt + n \in Nat /\ FALSE \in BOOLEAN
    BY <2>1
  <2>4. LET q == [p EXCEPT !.amt = p.amt + n, !.latched = FALSE] IN
        q \in Positions /\ q.amt = p.amt + n /\ q.src = p.src /\ (q.fresh => p.fresh)
    BY <2>1, <2>3, Flags
  <2> QED  BY <1>2, <2>2, <2>4
<1> QED  BY <1>1, <1>2

\* Setting and clearing the latch.
Same(p, q) == (p = None /\ q = None) \/ (p # None /\ q # None /\ Keeps(p, q))

\* mark_exit_generated and the unlatching change flags only.
LEMMA LatchIs ==
    ASSUME NEW p \in Positions \cup {None}, NEW b \in BOOLEAN
    PROVE  Same(p, p) /\ Same(p, mark_exit_generated(p)) /\ Same(p, Unlatched(p, b))
<1>1. CASE p = None
  BY <1>1 DEF Same, mark_exit_generated, Unlatched
<1>2. CASE p # None
  <2>1. p \in Positions
    BY <1>2
  <2>2. Keeps(p, p) /\ Keeps(p, mark_exit_generated(p))
    BY <1>2, <2>1, Flags DEF mark_exit_generated
  <2>3. PICK c \in BOOLEAN : c = (p.cooling \/ b)
    OBVIOUS
  <2>4. Unlatched(p, b) = [p EXCEPT !.latched = FALSE, !.cooling = c]
    BY <1>2, <2>1, <2>3 DEF Unlatched, Positions
  <2>5. Keeps(p, p) /\ Keeps(p, mark_exit_generated(p)) /\ Keeps(p, Unlatched(p, b))
    <3>1. Keeps(p, [p EXCEPT !.latched = FALSE, !.cooling = c])
      BY <2>1, Flags
    <3> QED  BY <2>2, <2>4, <3>1, Zenon
  <2>6. \A q : Keeps(p, q) => q # None
    BY NoneIs DEF Keeps
  <2> QED  BY <1>2, <2>5, <2>6 DEF Same
<1> QED  BY <1>1, <1>2

-----------------------------------------------------------------------------
(* Steps that do not move a BUY.                                             *)

\* The part of the invariant that is about money.
Money == Ledger /\ Covered /\ Unsold /\ Roomy

\* How a step may treat the position when no fill and no sale is booked: keep
\* it, or close it although nothing is there or something was sold, or by a
\* fault.
Closes == pos # None /\ pos' = None /\ (faults' = faults + 1 \/ chain = 0 \/ chain < bought)

\* Such a step keeps the part about money, if it uncovers no BUY and changes
\* neither the credit nor the wallet.
LEMMA MoneyKept ==
    ASSUME IInv, Types',
           faults' = faults \/ faults' = faults + 1,
           UNCHANGED <<chain, was, bought>>, Credit' = Credit,
           Uncovered' => Uncovered,
           (\A p \in pending : ~IsBuy(p)) => (\A p \in pending' : ~IsBuy(p)),
           \A r \in results' : r \in results,
           Same(pos, pos') \/ Closes
    PROVE  Money'
<1> USE DEF IInv
<1>0. chain \in Nat /\ bought \in Nat /\ faults \in Nat /\ Credit \in Nat
  BY DEF Types, Credit, Fill
<1>1. Ledger'
  BY DEF Ledger
<1>2. Covered'
  BY <1>0 DEF Covered
<1>3. Watched' => Watched /\ faults' = faults
  BY <1>0 DEF Watched, Covered
<1>4. Unsold'
  <2> SUFFICES ASSUME Watched', pos' = None, chain = bought PROVE bought <= Credit
    BY DEF Unsold
  <2>1. CASE pos = None
    BY <1>3, <2>1 DEF Unsold
  <2>2. CASE Closes
    BY <1>0, <1>3, <2>2 DEF Closes
  <2> QED  BY <2>1, <2>2 DEF Same
<1>5. Roomy'
  <2> SUFFICES ASSUME faults' <= 1, pos' # None PROVE (Room \/ Snapped)'
    BY DEF Roomy
  <2>1. faults <= 1 /\ pos # None /\ pos'.amt = pos.amt /\ pos'.src = pos.src
    BY <1>0 DEF Same, Keeps, Closes
  <2>2. Room \/ Snapped
    BY <2>1 DEF Roomy
  <2> QED  BY <2>1, <2>2 DEF Room, Snapped
<1> QED  BY <1>1, <1>2, <1>4, <1>5 DEF Money

\* A step that keeps or closes the position makes no snapshot fresh.
LEMMA FreshKept ==
    ASSUME IInv, Same(pos, pos') \/ pos' = None
    PROVE  FreshIsLive'
  BY DEF IInv, FreshIsLive, Same, Keeps

\* Nothing of a BUY moves.
flow == <<tracker, pending, queue, posting, orders, results, recovered, next, entry>>

\* What the invariant says about BUYs on their way is kept.
LEMMA FlowKept ==
    ASSUME IInv, UNCHANGED flow
    PROVE  OneBuy' /\ OnePlace' /\ Credit' = Credit /\ Uncovered' = Uncovered
<1>1. \A x : Live(x)' = Live(x)
  BY DEF flow, Live, IsBuy
<1>2. OneBuy'
  BY <1>1 DEF IInv, flow, OneBuy, Latest
<1>3. OnePlace'
  BY DEF IInv, flow, OnePlace, NoResult
<1>4. Credit' = Credit
  BY <1>1 DEF flow, Credit
<1>5. Uncovered' = Uncovered
  BY <1>1 DEF flow, Uncovered
<1> QED  BY <1>2, <1>3, <1>4, <1>5

\* Such a step keeps the invariant if it books no fill and no sale.
LEMMA QuietStep ==
    ASSUME IInv, Types', UNCHANGED flow, UNCHANGED <<chain, was, bought>>,
           faults' = faults \/ faults' = faults + 1,
           Same(pos, pos') \/ Closes
    PROVE  IInv'
<1>1. OneBuy' /\ OnePlace' /\ Credit' = Credit /\ Uncovered' = Uncovered
  BY FlowKept
<1>2. Money'
  <2>1. /\ (\A p \in pending : ~IsBuy(p)) => (\A p \in pending' : ~IsBuy(p))
        /\ \A r \in results' : r \in results
    BY DEF flow
  <2> QED  BY <1>1, <2>1, MoneyKept
<1>3. FreshIsLive'
  BY FreshKept DEF Closes
<1> QED  BY <1>1, <1>2, <1>3 DEF IInv, Money

\* A balance that reaches the bot is a number, and the wallet's own unless it
\* is late, which is a fault.
LEMMA SeenIs ==
    ASSUME IInv, NEW b, Seen(b)
    PROVE  /\ b \in Nat /\ b <= bought /\ (faults' = faults \/ faults' = faults + 1) /\ faults' \in Nat
           /\ faults' # faults + 1 => b = chain /\ faults' = faults
  BY DEF IInv, Types, Ledger, Seen, Fault

\* A record of the authority bucket closes a position; with an outdated balance
\* that is the one fault.
LEMMA AuthorityStep ==
    ASSUME IInv, NEW a \in {None, chain, was}, NEW exec \in BOOLEAN, AuthorityUpdate(a, exec)
    PROVE  IInv'
<1> DEFINE b == IF a = None THEN 0 ELSE a
<1>1. Seen(b)
  BY DEF AuthorityUpdate
<1>2. /\ faults' = faults \/ faults' = faults + 1
      /\ faults' # faults + 1 => b = chain
      /\ faults' \in Nat
  <2> HIDE DEF b
  <2> QED  BY <1>1, SeenIs
<1>3. a \in Nat \cup {None}
  BY DEF IInv, Types
<1>4. UNCHANGED flow /\ UNCHANGED <<chain, was, bought>> /\ auth' = a /\ UNCHANGED <<hint, exits>>
  BY DEF AuthorityUpdate, flow, tasks, world
<1>5. pos' = pos \/ (pos # None /\ pos' = None /\ authority_signals_closed(a))
  BY DEF AuthorityUpdate
<1>6. authority_signals_closed(a) => b = 0
  BY DEF authority_signals_closed
<1>7. pos \in Positions \cup {None}
  BY DEF IInv, Types
<1>8. Same(pos, pos') \/ Closes
  <2>1. CASE pos' = pos
    BY <1>7, <2>1, LatchIs
  <2>2. CASE pos' # pos
    BY <1>2, <1>5, <1>6, <2>2 DEF Closes
  <2> QED  BY <2>1, <2>2
<1>9. Types'
  BY <1>2, <1>3, <1>4, <1>5 DEF IInv, Types, flow
<1> QED  BY <1>2, <1>4, <1>8, <1>9, QuietStep

\* The scans and the passing of time.
LEMMA ScanStep ==
    ASSUME IInv, SpawnedScanEmpty \/ reconcile_timed_exits \/ \E t \in Tasks : GenerateExitFails(t)
    PROVE  IInv'
<1>1. pos \in Positions \cup {None} /\ faults \in Nat /\ (pos # None => pos.amt \in Nat)
  BY DEF IInv, Types, Positions
<1>2. UNCHANGED bot
  BY DEF SpawnedScanEmpty, reconcile_timed_exits, GenerateExitFails
<1>3. UNCHANGED flow /\ UNCHANGED <<chain, was, bought>> /\ pos' = pos /\ UNCHANGED <<hint, auth>>
  BY <1>2 DEF bot, flow, world, SpawnedScanEmpty, reconcile_timed_exits, GenerateExitFails
<1>4. (faults' = faults \/ faults' = faults + 1) /\ faults' \in Nat
  BY <1>1 DEF SpawnedScanEmpty, reconcile_timed_exits, GenerateExitFails, Fault
<1>5. exits' \in [Tasks -> Nat]
  BY <1>1 DEF IInv, Types, SpawnedScanEmpty, reconcile_timed_exits, GenerateExitFails
<1>6. Types'
  BY <1>3, <1>4, <1>5 DEF IInv, Types, flow
<1>7. Same(pos, pos')
  BY <1>1, <1>3, LatchIs
<1> QED  BY <1>3, <1>4, <1>6, <1>7, QuietStep

\* Ninety seconds pass.
LEMMA TimeStep ==
    ASSUME IInv, TimePasses
    PROVE  IInv'
<1>1. pos \in Positions \cup {None} /\ faults \in Nat
  BY DEF IInv, Types
<1>2. UNCHANGED flow /\ UNCHANGED <<chain, was, bought, faults>> /\ UNCHANGED <<hint, auth, exits>>
  BY DEF TimePasses, flow, tasks, world
<1>3. Same(pos, pos')
  <2>1. CASE pos = None
    BY <2>1 DEF TimePasses, Same
  <2>2. CASE pos # None
    <3>1. Keeps(pos, [pos EXCEPT !.fresh = FALSE, !.cooling = FALSE])
      BY <1>1, <2>2, Flags
    <3>2. pos' = [pos EXCEPT !.fresh = FALSE, !.cooling = FALSE]
      BY <2>2 DEF TimePasses
    <3>3. Keeps(pos, pos')
      BY <3>1, <3>2, Zenon
    <3> QED  BY <2>2, <3>3, NoneIs DEF Same, Keeps
  <2> QED  BY <2>1, <2>2
<1>4. Types'
  BY <1>2, <1>3 DEF IInv, Types, flow, Same, Keeps
<1> QED  BY <1>1, <1>2, <1>3, <1>4, QuietStep

\* The completion list of the wallet scan.
LEMMA CompleteStep ==
    ASSUME IInv, NEW b, WalletSnapshotComplete(b)
    PROVE  IInv'
<1>1. Seen(b)
  BY DEF WalletSnapshotComplete
<1>2. /\ faults' = faults \/ faults' = faults + 1
      /\ faults' # faults + 1 => b = chain
      /\ faults' \in Nat
  BY <1>1, SeenIs
<1>3. UNCHANGED flow /\ UNCHANGED <<chain, was, bought>> /\ UNCHANGED <<hint, auth, exits>>
  BY DEF WalletSnapshotComplete, flow, tasks, world
<1>4. pos' = pos \/ (pos # None /\ pos' = None /\ b = 0)
  BY DEF WalletSnapshotComplete
<1>5. pos \in Positions \cup {None}
  BY DEF IInv, Types
<1>6. Same(pos, pos') \/ Closes
  <2>1. CASE pos' = pos
    BY <1>5, <2>1, LatchIs
  <2>2. CASE pos' # pos
    BY <1>2, <1>4, <2>2 DEF Closes
  <2> QED  BY <2>1, <2>2
<1>7. Types'
  BY <1>2, <1>3, <1>4 DEF IInv, Types, flow
<1> QED  BY <1>2, <1>3, <1>6, <1>7, QuietStep

\* A wallet snapshot opens a position only when no BUY is pending or entered:
\* a fill still to come is then one that a single fault has left uncovered.
LEMMA SnapshotStep ==
    ASSUME IInv, NEW b, WalletSnapshot(b)
    PROVE  IInv'
<1>1. Seen(b)
  BY DEF WalletSnapshot
<1>2. /\ b \in Nat /\ b <= bought /\ (faults' = faults \/ faults' = faults + 1)
      /\ faults' # faults + 1 => b = chain
      /\ faults' \in Nat
  BY <1>1, SeenIs
<1>3. UNCHANGED flow /\ UNCHANGED <<chain, was, bought>> /\ UNCHANGED <<auth, exits>>
      /\ hint' \in Nat \cup {None}
  BY <1>2 DEF WalletSnapshot, flow, tasks, world
<1>4. pos \in Positions \cup {None}
  BY DEF IInv, Types
<1>5. CASE pos' = pos \/ (pos # None /\ pos' = None /\ b = 0)
  <2>1. Same(pos, pos') \/ Closes
    <3>1. CASE pos' = pos
      BY <1>4, <3>1, LatchIs
    <3>2. CASE pos' # pos
      BY <1>2, <1>5, <3>2 DEF Closes
    <3> QED  BY <3>1, <3>2
  <2>2. Types'
    BY <1>2, <1>3, <1>5 DEF IInv, Types, flow
  <2> QED  BY <1>2, <1>3, <2>1, <2>2, QuietStep
<1>6. CASE b # 0 /\ pos = None /\ ~pending_buy_blocks_reconcile /\ pos' = Position(b, "WalletSnapshot")
  <2>1. pos' \in Positions /\ pos'.amt = b /\ pos'.src = "WalletSnapshot" /\ ~pos'.fresh /\ pos' # None
    BY <1>2, <1>6, PositionIs, NoneIs
  <2>2. Types'
    BY <1>2, <1>3, <2>1 DEF IInv, Types, flow
  <2>3. OneBuy' /\ OnePlace' /\ Credit' = Credit /\ Uncovered' = Uncovered
    BY <1>3, FlowKept
  <2>4. Ledger' /\ Covered'
    BY <1>2, <1>3, <2>3 DEF IInv, Types, Ledger, Covered, flow
  <2>5. Unsold' /\ FreshIsLive'
    BY <2>1 DEF Unsold, FreshIsLive
  <2>6. entry = None /\ \A p \in pending : ~IsBuy(p)
    BY <1>6 DEF pending_buy_blocks_reconcile, IsBuy
  <2>7. Credit = 0 \/ (Credit = Fill /\ Uncovered)
    <3>1. ASSUME NEW r \in results, Live(r) PROVE r.id # entry
      BY <2>6, <3>1, NoneIs DEF IInv, Types, Live, IsBuy, BuyResults, SellResults
    <3> QED  BY <3>1 DEF Credit, Uncovered
  <2>8. Roomy'
    <3> SUFFICES ASSUME faults' <= 1 PROVE (Room \/ Snapped)'
      BY DEF Roomy
    <3>1. CASE Credit = 0
      BY <1>2, <1>3, <2>1, <2>3, <3>1 DEF Room, IInv, Types
    <3>2. CASE Credit = Fill /\ Uncovered
      <4>1. faults = 1 /\ b = chain
        BY <1>2, <3>2 DEF IInv, Types, Covered
      <4>2. chain = bought => bought <= Fill
        BY <1>6, <3>2, <4>1 DEF IInv, Unsold, Watched
      <4>3. chain \in Nat /\ bought \in Nat /\ chain <= bought
        BY DEF IInv, Types, Ledger
      <4>4. b + Fill <= bought \/ (b = Fill /\ Fill <= bought)
        BY <1>2, <1>6, <4>1, <4>2, <4>3 DEF Fill
      <4> QED  BY <1>3, <2>1, <2>3, <2>6, <3>2, <4>4 DEF Room, Snapped, flow
    <3> QED  BY <2>7, <3>1, <3>2
  <2> QED  BY <2>2, <2>3, <2>4, <2>5, <2>8 DEF IInv
<1> QED  BY <1>5, <1>6 DEF WalletSnapshot

-----------------------------------------------------------------------------
(* The bot's own steps for a BUY and for an exit.                            *)

\* The publish channel.
LEMMA AppendIs ==
    ASSUME NEW q \in Seq(Jobs), NEW j \in Jobs
    PROVE  /\ Append(q, j) \in Seq(Jobs) /\ Len(Append(q, j)) = Len(q) + 1 /\ Len(q) \in Nat
           /\ \A i \in 1 .. Len(q) : Append(q, j)[i] = q[i]
           /\ Append(q, j)[Len(q) + 1] = j
  OBVIOUS

\* Its head and what is behind it.
LEMMA TailIs ==
    ASSUME NEW q \in Seq(Jobs), q # <<>>
    PROVE  /\ Head(q) \in Jobs /\ Head(q) = q[1] /\ 1 \in 1 .. Len(q)
           /\ Tail(q) \in Seq(Jobs)
           /\ \A i \in 1 .. Len(Tail(q)) : i + 1 \in 1 .. Len(q) /\ i + 1 # 1 /\ Tail(q)[i] = q[i + 1]
  OBVIOUS

\* While the tracker waits for nothing, no BUY is on its way.
LEMMA NoBuy ==
    ASSUME IInv, tracker \notin Unfilled
    PROVE  /\ \A x \in pending : ~IsBuy(x)
           /\ \A x \in orders : ~IsBuy(x)
           /\ \A i \in 1 .. Len(queue) : ~IsBuy(queue[i])
           /\ \A r \in results : ~Live(r)
  BY DEF IInv, OneBuy, Latest

\* The window of a scale-in ends, a tracker is cleaned up.
LEMMA TrackerStep ==
    ASSUME IInv, ScaleInWindowExpired \/ CleanupTracker
    PROVE  IInv'
<1>1. tracker \notin Unfilled
  BY DEF ScaleInWindowExpired, CleanupTracker, Unfilled
<1>2. UNCHANGED <<pos, pending, queue, posting, orders, results, recovered, next, entry>>
      /\ UNCHANGED <<chain, was, bought, faults>> /\ UNCHANGED <<hint, auth, exits>>
  BY DEF ScaleInWindowExpired, CleanupTracker, tasks, world
<1>3. \A x : Live(x)' = Live(x)
  BY <1>2 DEF Live, IsBuy
<1>4. Types'
  BY <1>2 DEF IInv, Types
<1>5. OneBuy'
  BY <1>1, <1>2, <1>3, NoBuy DEF IInv, OneBuy
<1>6. OnePlace'
  BY <1>2 DEF IInv, OnePlace, NoResult
<1>7. Credit' = Credit /\ Uncovered' = Uncovered
  BY <1>2, <1>3 DEF Credit, Uncovered
<1>8. pos \in Positions \cup {None}
  BY DEF IInv, Types
<1>9. Same(pos, pos')
  BY <1>2, <1>8, LatchIs
<1>10. Money'
  BY <1>2, <1>4, <1>7, <1>9, MoneyKept
<1> QED  BY <1>4, <1>5, <1>6, <1>9, <1>10, FreshKept DEF IInv, Money

\* A new BUY, the only one.
LEMMA BuyStep ==
    ASSUME IInv, ProbeBuy \/ ScaleIn
    PROVE  IInv'
<1>1. tracker \notin Unfilled
  BY DEF ProbeBuy, ScaleIn, Unfilled
<1>2. PICK kind \in {"probe", "scale_in"}, waiting \in Unfilled : Buy(kind, waiting)
  BY DEF ProbeBuy, ScaleIn, Unfilled
<1> DEFINE j == Job(next, "buy", kind, 0)
<1>3. /\ pending' = pending \cup {j} /\ queue' = Append(queue, j) /\ next' = next + 1
      /\ tracker' = waiting
      /\ UNCHANGED <<pos, posting, orders, results, recovered, entry>>
      /\ UNCHANGED <<chain, was, bought, faults>> /\ UNCHANGED <<hint, auth, exits>>
  BY <1>2 DEF Buy, world
<1>4. next \in Nat /\ queue \in Seq(Jobs) /\ pending \in SUBSET Jobs
  BY DEF IInv, Types
<1>5. j \in Jobs /\ j.id = next /\ IsBuy(j)
  BY <1>4 DEF Job, Jobs, Buys, IsBuy
<1> HIDE DEF j
<1>6. /\ Append(queue, j) \in Seq(Jobs) /\ Len(Append(queue, j)) = Len(queue) + 1 /\ Len(queue) \in Nat
      /\ \A i \in 1 .. Len(queue) : Append(queue, j)[i] = queue[i]
      /\ Append(queue, j)[Len(queue) + 1] = j
  BY <1>4, <1>5, AppendIs
<1>7. /\ \A x \in pending : ~IsBuy(x)
      /\ \A x \in orders : ~IsBuy(x)
      /\ \A i \in 1 .. Len(queue) : ~IsBuy(queue[i])
      /\ \A r \in results : ~Live(r)
  BY <1>1, NoBuy
<1>8. \A i \in 1 .. Len(queue') : (queue'[i] = j /\ i = Len(queue) + 1) \/ ~IsBuy(queue'[i])
  <2> SUFFICES ASSUME NEW i \in 1 .. Len(queue') PROVE (queue'[i] = j /\ i = Len(queue) + 1) \/ ~IsBuy(queue'[i])
    OBVIOUS
  <2>1. i \in 1 .. Len(queue) \/ i = Len(queue) + 1
    BY <1>3, <1>6
  <2> QED  BY <1>3, <1>6, <1>7, <2>1
<1>9. Types'
  BY <1>3, <1>4, <1>5, <1>6 DEF IInv, Types
<1>10. \A x : Live(x)' = Live(x)
  BY <1>3 DEF Live, IsBuy
<1>11. next \notin recovered /\ next' - 1 = next /\ \A r \in results : IsBuy(r) => r.id < next
  BY <1>3, <1>4 DEF IInv, OneBuy
<1>12. j.id = next' - 1 /\ j.id \notin recovered' /\ tracker' \in Unfilled
  BY <1>2, <1>3, <1>5, <1>11
<1>13. OneBuy'
  <2>1. \A x \in pending' : IsBuy(x) => Latest(x)'
    BY <1>3, <1>7, <1>12 DEF Latest
  <2>2. \A x \in orders' : IsBuy(x) => Latest(x)'
    BY <1>3, <1>7
  <2>3. \A i \in 1 .. Len(queue') : IsBuy(queue'[i]) => Latest(queue[i])'
    BY <1>8, <1>12 DEF Latest
  <2>4. \A r \in results' : Live(r)' => Latest(r)'
    BY <1>3, <1>7, <1>10
  <2>5. \A r \in results' : IsBuy(r) => r.id < next'
    BY <1>3, <1>4, <1>11 DEF IInv, Types, BuyResults, SellResults, IsBuy
  <2>6. \A id \in recovered' : id < next'
    BY <1>3, <1>4 DEF IInv, OneBuy, Types
  <2> QED  BY <2>1, <2>2, <2>3, <2>4, <2>5, <2>6 DEF OneBuy
<1>14. NoResult'
  <2>1. \A r \in results : IsBuy(r) => r.id # next
    BY <1>4, <1>11 DEF IInv, Types, BuyResults, SellResults, IsBuy
  <2> QED  BY <1>3, <1>11, <2>1 DEF NoResult
<1>15. OnePlace'
  <2>1. \A x, y \in pending' : IsBuy(x) /\ IsBuy(y) => x = y
    BY <1>3, <1>7
  <2>2. \A i, k \in 1 .. Len(queue') : IsBuy(queue'[i]) /\ IsBuy(queue'[k]) => i = k
    BY <1>8
  <2>3. \A i \in 1 .. Len(queue') : IsBuy(queue'[i]) => (\A x \in orders' : ~IsBuy(x)) /\ NoResult'
    BY <1>3, <1>7, <1>14
  <2> QED  BY <1>3, <1>14, <2>1, <2>2, <2>3 DEF IInv, OnePlace
<1>16. Credit' = Credit /\ Uncovered' = Uncovered
  BY <1>3, <1>10 DEF Credit, Uncovered
<1>17. pos \in Positions \cup {None} /\ faults \in Nat /\ chain \in Nat /\ bought \in Nat /\ Credit = 0
  BY <1>7 DEF IInv, Types, Credit
<1>18. Same(pos, pos')
  BY <1>3, <1>17, LatchIs
<1>19. Ledger' /\ Covered' /\ Unsold'
  BY <1>3, <1>16 DEF IInv, Ledger, Covered, Unsold, Watched
<1>20. Roomy'
  <2> SUFFICES ASSUME faults <= 1, pos # None PROVE Room'
    BY <1>3 DEF Roomy
  <2>1. Room \/ Snapped
    BY DEF IInv, Roomy
  <2> QED  BY <1>3, <1>16, <1>17, <2>1 DEF Room, Snapped, Fill
<1> QED  BY <1>9, <1>13, <1>15, <1>18, <1>19, <1>20, FreshKept DEF IInv

\* A step that adds no BUY and moves none: what it adds to the queue, the
\* orders or the results is a SELL's.
QueueThin(q, new) ==
    /\ new \in Seq(Jobs)
    /\ \E d \in {0, 1} : \A i \in 1 .. Len(new) :
         IsBuy(new[i]) => i + d \in 1 .. Len(q) /\ new[i] = q[i + d]

\* Keeping the queue, taking its head and appending a SELL are such steps.
LEMMA QueuesThin ==
    ASSUME NEW q \in Seq(Jobs)
    PROVE  /\ QueueThin(q, q)
           /\ q # <<>> => QueueThin(q, Tail(q))
           /\ \A j \in Jobs : ~IsBuy(j) => QueueThin(q, Append(q, j))
<1>1. QueueThin(q, q)
  <2>1. \A i \in 1 .. Len(q) : i + 0 \in 1 .. Len(q) /\ q[i] = q[i + 0]
    OBVIOUS
  <2> QED  BY <2>1 DEF QueueThin
<1>2. ASSUME q # <<>> PROVE QueueThin(q, Tail(q))
  BY <1>2, TailIs DEF QueueThin
<1>3. ASSUME NEW j \in Jobs, ~IsBuy(j) PROVE QueueThin(q, Append(q, j))
  <2>1. /\ Append(q, j) \in Seq(Jobs) /\ Len(Append(q, j)) = Len(q) + 1 /\ Len(q) \in Nat
        /\ \A i \in 1 .. Len(q) : Append(q, j)[i] = q[i]
        /\ Append(q, j)[Len(q) + 1] = j
    BY AppendIs
  <2>2. ASSUME NEW i \in 1 .. Len(Append(q, j)), IsBuy(Append(q, j)[i])
        PROVE  i + 0 \in 1 .. Len(q) /\ Append(q, j)[i] = q[i + 0]
    <3>1. i \in 1 .. Len(q)
      BY <1>3, <2>1, <2>2
    <3> QED  BY <2>1, <3>1
  <2> QED  BY <2>1, <2>2 DEF QueueThin
<1> QED  BY <1>1, <1>2, <1>3

Thin ==
    /\ UNCHANGED <<tracker, recovered, next>>
    /\ QueueThin(queue, queue')
    /\ \A x \in pending' : IsBuy(x) => x \in pending
    /\ \A x \in orders' : IsBuy(x) => x \in orders
    /\ \A r \in results' : IsBuy(r) => r \in results
    /\ \A r \in results : Live(r) => r \in results'
    /\ posting' # None /\ IsBuy(posting') => posting' \in orders'

\* The latest BUY stays the only one, in one place, and the credit is the same.
LEMMA ThinFlow ==
    ASSUME IInv, Thin
    PROVE  OneBuy' /\ OnePlace' /\ Credit' = Credit
<1> USE DEF Thin
<1>1. \A x : Live(x)' = Live(x)
  BY DEF Live, IsBuy
<1>2. PICK d \in {0, 1} : \A i \in 1 .. Len(queue') :
         IsBuy(queue'[i]) => i + d \in 1 .. Len(queue) /\ queue'[i] = queue[i + d]
  BY DEF QueueThin
<1>3. OneBuy'
  <2>1. \A i \in 1 .. Len(queue') : IsBuy(queue'[i]) => Latest(queue'[i])
    BY <1>2 DEF IInv, OneBuy
  <2>2. \A r \in results' : Live(r)' => Latest(r)
    BY <1>1 DEF IInv, OneBuy, Live
  <2>3. \A r \in results' : IsBuy(r) => r.id < next
    BY DEF IInv, OneBuy
  <2>4. \A x \in pending' : IsBuy(x) => Latest(x)
    BY DEF IInv, OneBuy
  <2>5. \A x \in orders' : IsBuy(x) => Latest(x)
    BY DEF IInv, OneBuy
  <2> QED  BY <2>1, <2>2, <2>3, <2>4, <2>5 DEF IInv, OneBuy, Latest
<1>4. NoResult => NoResult'
  BY DEF NoResult
<1>5. OnePlace'
  <2>1. \A i, j \in 1 .. Len(queue') : IsBuy(queue'[i]) /\ IsBuy(queue'[j]) => i = j
    <3> SUFFICES ASSUME NEW i \in 1 .. Len(queue'), NEW j \in 1 .. Len(queue'),
                        IsBuy(queue'[i]), IsBuy(queue'[j])
                 PROVE  i = j
      OBVIOUS
    <3>1. i + d = j + d
      BY <1>2 DEF IInv, OnePlace
    <3> QED  BY <3>1
  <2>2. \A i \in 1 .. Len(queue') : IsBuy(queue'[i]) => (\A x \in orders' : ~IsBuy(x)) /\ NoResult'
    BY <1>2, <1>4 DEF IInv, OnePlace
  <2>3. \A x, y \in pending' : IsBuy(x) /\ IsBuy(y) => x = y
    BY DEF IInv, OnePlace
  <2>4. \A x, y \in orders' : IsBuy(x) /\ IsBuy(y) => x = y
    BY DEF IInv, OnePlace
  <2>5. \A r, s \in results' : IsBuy(r) /\ IsBuy(s) /\ r.id = s.id => r = s
    BY DEF IInv, OnePlace
  <2>6. \A x \in orders' : IsBuy(x) => NoResult'
    BY <1>4 DEF IInv, OnePlace
  <2> QED  BY <2>1, <2>2, <2>3, <2>4, <2>5, <2>6 DEF OnePlace
<1>6. Credit' = Credit
  BY <1>1 DEF Credit, Live
<1> QED  BY <1>3, <1>5, <1>6

\* A BUY is uncovered after such a step only if it was before.
LEMMA ThinCover ==
    ASSUME IInv, Thin, entry' = entry,
           \A x \in orders' : IsBuy(x) /\ x # posting' => x # posting
    PROVE  Uncovered' => Uncovered
<1>1. \A x : Live(x)' = Live(x)
  BY DEF Thin, Live, IsBuy
<1>2. ASSUME NEW x \in orders', IsBuy(x), x # posting', x.id # entry' PROVE Uncovered
  BY <1>2 DEF Thin, Uncovered
<1>3. ASSUME NEW r \in results', Live(r)', r.id # entry' PROVE Uncovered
  BY <1>1, <1>3 DEF Thin, Uncovered, Live
<1> QED  BY <1>2, <1>3 DEF Uncovered

\* A step that moves no BUY and leaves entry and money alone.
LEMMA ThinStep ==
    ASSUME IInv, Types', Thin, UNCHANGED <<entry, chain, was, bought>>,
           \A x \in orders' : IsBuy(x) /\ x # posting' => x # posting,
           \A r \in results' : r \in results,
           faults' = faults \/ faults' = faults + 1,
           Same(pos, pos') \/ Closes
    PROVE  IInv'
<1>1. OneBuy' /\ OnePlace' /\ Credit' = Credit
  BY ThinFlow
<1>2. Uncovered' => Uncovered
  BY ThinCover
<1>3. (\A p \in pending : ~IsBuy(p)) => (\A p \in pending' : ~IsBuy(p))
  BY DEF Thin
<1>4. Money'
  BY <1>1, <1>2, <1>3, MoneyKept
<1>5. FreshIsLive'
  BY FreshKept DEF Closes
<1> QED  BY <1>1, <1>4, <1>5 DEF IInv, Money

\* An exit cancels the pending BUYs; the jobs and orders stay.
LEMMA ExitScanStep ==
    ASSUME IInv, NEW t \in Tasks, NEW hard \in BOOLEAN, check_for_exits(t, hard)
    PROVE  IInv'
<1>1. pos \in Positions \cup {None} /\ pos # None /\ pos.amt \in Nat /\ queue \in Seq(Jobs)
  BY DEF IInv, Types, Positions, check_for_exits
<1>2. /\ pending' = {p \in pending : ~IsBuy(p)} /\ exits' = [exits EXCEPT ![t] = pos.amt]
      /\ UNCHANGED <<tracker, pos, entry, recovered, hint, auth, queue, posting, next>>
      /\ UNCHANGED <<orders, results>> /\ UNCHANGED <<chain, was, bought, faults>>
  BY DEF check_for_exits, world, IsBuy
<1>3. Types'
  BY <1>1, <1>2 DEF IInv, Types
<1>4. QueueThin(queue, queue')
  BY <1>1, <1>2, QueuesThin
<1>5. Thin
  BY <1>2, <1>4 DEF IInv, OnePlace, Thin
<1>6. Same(pos, pos')
  BY <1>1, <1>2, LatchIs
<1> QED  BY <1>2, <1>3, <1>5, <1>6, ThinStep

\* The amount of an exit is a number.
LEMMA ExitAmount ==
    ASSUME IInv, NEW n \in Nat
    PROVE  resolve_exit_token_amount_raw(n) \in Nat
<1>1. pos \in Positions \cup {None} /\ auth \in Nat \cup {None} /\ hint \in Nat \cup {None}
  BY DEF IInv, Types
<1>2. pos # None => pos.amt \in Nat
  BY <1>1 DEF Positions
<1> QED  BY <1>1, <1>2 DEF resolve_exit_token_amount_raw, larger

\* An exit is sized, registered and queued, or given up.
LEMMA GenerateExitStep ==
    ASSUME IInv, NEW t \in Tasks, GenerateExit(t)
    PROVE  IInv'
<1> DEFINE amt == resolve_exit_token_amount_raw(exits[t])
           job == Job(CHOOSE s \in FreeSellIds : TRUE, "sell", None, amt)
<1>1. pos \in Positions \cup {None} /\ queue \in Seq(Jobs) /\ exits \in [Tasks -> Nat]
  BY DEF IInv, Types
<1>2. amt \in Nat
  BY <1>1, ExitAmount
<1> HIDE DEF amt
<1>3. /\ UNCHANGED <<tracker, entry, recovered, hint, auth, posting, next>>
      /\ UNCHANGED <<orders, results>> /\ UNCHANGED <<chain, was, bought, faults>>
      /\ exits' = [exits EXCEPT ![t] = 0]
  BY DEF GenerateExit, world
<1>4. exits' \in [Tasks -> Nat]
  BY <1>1, <1>3
<1>5. CASE UNCHANGED <<pending, pos, queue>>
  <2>1. Types'
    BY <1>1, <1>3, <1>4, <1>5 DEF IInv, Types
  <2>2. QueueThin(queue, queue')
    BY <1>1, <1>5, QueuesThin
  <2>3. Thin
    BY <1>3, <1>5, <2>2 DEF IInv, OnePlace, Thin
  <2>4. Same(pos, pos')
    BY <1>1, <1>5, LatchIs
  <2> QED  BY <1>3, <2>1, <2>3, <2>4, ThinStep
<1>6. CASE /\ amt # 0 /\ FreeSellIds # {} /\ pending' = pending \cup {job}
           /\ queue' = Append(queue, job) /\ pos' = mark_exit_generated(pos)
  <2>1. (CHOOSE s \in FreeSellIds : TRUE) \in SellIds
    BY <1>6 DEF FreeSellIds
  <2>2. job \in Jobs /\ ~IsBuy(job)
    BY <1>2, <1>6, <2>1 DEF Job, Jobs, Sells, IsBuy
  <2> HIDE DEF job
  <2>3. QueueThin(queue, queue')
    BY <1>1, <1>6, <2>2, QueuesThin
  <2>4. Same(pos, pos')
    BY <1>1, <1>6, LatchIs
  <2>5. pos' \in Positions \cup {None}
    BY <1>1, <2>4 DEF Same, Keeps
  <2>6. Types'
    BY <1>3, <1>4, <1>6, <2>2, <2>3, <2>5 DEF IInv, Types, QueueThin
  <2>7. Thin
    BY <1>3, <1>6, <2>2, <2>3 DEF IInv, OnePlace, Thin
  <2> QED  BY <1>3, <2>4, <2>6, <2>7, ThinStep
<1> QED  BY <1>5, <1>6 DEF GenerateExit, amt

\* When the last BUY has left the bot and the engine, whatever the tracker
\* does next is allowed.
LEMMA AllGone ==
    ASSUME (\A x \in pending : ~IsBuy(x))', (\A x \in orders : ~IsBuy(x))',
           (\A i \in 1 .. Len(queue) : ~IsBuy(queue[i]))', (\A r \in results : ~Live(r))',
           (\A r \in results : IsBuy(r) => r.id < next)', (\A id \in recovered : id < next)',
           (\A r, s \in results : IsBuy(r) /\ IsBuy(s) /\ r.id = s.id => r = s)',
           (posting # None => ~IsBuy(posting))'
    PROVE  OneBuy' /\ OnePlace' /\ Credit' = 0 /\ ~Uncovered'
  BY DEF OneBuy, OnePlace, Credit, Uncovered

\* A BUY at the head of the channel is the only one and nowhere else but in
\* pending_intents.
LEMMA HeadBuy ==
    ASSUME IInv, queue # <<>>, IsBuy(Head(queue))
    PROVE  /\ Head(queue).id = next - 1
           /\ \A x \in orders : ~IsBuy(x)
           /\ \A r \in results : ~Live(r)
           /\ \A i \in 1 .. Len(Tail(queue)) : ~IsBuy(Tail(queue)[i])
           /\ \A x \in pending : IsBuy(x) => x.id = Head(queue).id
           /\ NoResult /\ Latest(Head(queue))
           /\ posting # None => ~IsBuy(posting)
<1>1. queue \in Seq(Jobs)
  BY DEF IInv, Types
<1>2. /\ Head(queue) \in Jobs /\ Head(queue) = queue[1] /\ 1 \in 1 .. Len(queue)
      /\ Tail(queue) \in Seq(Jobs)
      /\ \A i \in 1 .. Len(Tail(queue)) : i + 1 \in 1 .. Len(queue) /\ i + 1 # 1 /\ Tail(queue)[i] = queue[i + 1]
  BY <1>1, TailIs
<1>3. Latest(Head(queue)) /\ Head(queue).id = next - 1
  BY <1>2 DEF IInv, OneBuy, Latest
<1>4. (\A x \in orders : ~IsBuy(x)) /\ NoResult
  BY <1>2 DEF IInv, OnePlace
<1>5. \A r \in results : ~Live(r)
  BY <1>4 DEF IInv, OneBuy, Latest, NoResult, Live
<1>6. \A i \in 1 .. Len(Tail(queue)) : ~IsBuy(Tail(queue)[i])
  BY <1>2 DEF IInv, OnePlace
<1>7. \A x \in pending : IsBuy(x) => x.id = Head(queue).id
  BY <1>3 DEF IInv, OneBuy, Latest
<1>8. posting # None => ~IsBuy(posting)
  BY <1>4 DEF IInv, OnePlace
<1> QED  BY <1>3, <1>4, <1>5, <1>6, <1>7, <1>8

\* A BUY leaves the channel unpublished: it is gone.
LEMMA BuyDropped ==
    ASSUME IInv, queue # <<>>, IsBuy(Head(queue)), queue' = Tail(queue),
           pending' \in SUBSET pending, \A x \in pending' : x.id # Head(queue).id,
           UNCHANGED <<pos, entry, recovered, hint, auth, exits, posting, next>>,
           UNCHANGED <<orders, results>>, UNCHANGED <<chain, was, bought>>,
           faults' = faults \/ faults' = faults + 1
    PROVE  IInv'
<1>1. /\ \A x \in orders : ~IsBuy(x)
      /\ \A r \in results : ~Live(r)
      /\ \A i \in 1 .. Len(Tail(queue)) : ~IsBuy(Tail(queue)[i])
      /\ \A x \in pending : IsBuy(x) => x.id = Head(queue).id
      /\ posting # None => ~IsBuy(posting)
  BY HeadBuy
<1>2. queue \in Seq(Jobs) /\ Tail(queue) \in Seq(Jobs) /\ pos \in Positions \cup {None}
  BY TailIs DEF IInv, Types
<1>3. Types'
  BY <1>2 DEF IInv, Types
<1>4. \A r \in results' : ~Live(r)'
  BY <1>1 DEF Live
<1>5. \A x \in pending' : ~IsBuy(x)
  BY <1>1
<1>6. OneBuy' /\ OnePlace' /\ Credit' = 0 /\ ~Uncovered'
  BY <1>1, <1>4, <1>5, AllGone DEF IInv, OneBuy, OnePlace
<1>7. Credit = 0
  BY <1>1 DEF Credit
<1>8. Same(pos, pos')
  BY <1>2, LatchIs
<1>9. Money'
  BY <1>3, <1>5, <1>6, <1>7, <1>8, MoneyKept
<1> QED  BY <1>3, <1>6, <1>8, <1>9, FreshKept DEF IInv, Money

\* The worker drops a BUY that an exit cancelled.
LEMMA DropStep ==
    ASSUME IInv, DropCancelledBuy
    PROVE  IInv'
<1>1. /\ queue # <<>> /\ IsBuy(Head(queue)) /\ queue' = Tail(queue) /\ pending' = pending
      /\ \A x \in pending : x.id # Head(queue).id
      /\ UNCHANGED <<pos, entry, recovered, hint, auth, exits, posting, next>>
      /\ UNCHANGED <<orders, results>> /\ UNCHANGED <<chain, was, bought, faults>>
  BY DEF DropCancelledBuy, Waiting, IsBuy, world
<1> QED  BY <1>1, BuyDropped

\* A publication fails: the BUY is unwound, or the SELL rolled back.
LEMMA PublishFailsStep ==
    ASSUME IInv, PublishFails
    PROVE  IInv'
<1>1. /\ queue # <<>> /\ queue' = Tail(queue) /\ pending' = {p \in pending : p.id # Head(queue).id}
      /\ UNCHANGED <<entry, recovered, hint, auth, exits, posting, next>>
      /\ UNCHANGED <<orders, results>> /\ UNCHANGED <<chain, was, bought>>
      /\ faults' = faults + 1
  BY DEF PublishFails, WithoutId, Fault, world
<1>2. pos \in Positions \cup {None} /\ queue \in Seq(Jobs)
  BY DEF IInv, Types
<1>3. CASE IsBuy(Head(queue))
  <2>1. pos' = pos
    BY <1>3 DEF PublishFails, IsBuy
  <2> QED  BY <1>1, <1>3, <2>1, BuyDropped
<1>4. CASE ~IsBuy(Head(queue))
  <2>1. tracker' = tracker /\ pos' = Unlatched(pos, FALSE)
    BY <1>4 DEF PublishFails, IsBuy
  <2>2. QueueThin(queue, queue')
    BY <1>1, <1>2, QueuesThin
  <2>3. Same(pos, pos')
    BY <1>2, <2>1, LatchIs
  <2>4. pos' \in Positions \cup {None}
    BY <2>3 DEF Same, Keeps
  <2>5. Types'
    BY <1>1, <2>2, <2>4 DEF IInv, Types, QueueThin
  <2>6. Thin
    BY <1>1, <2>1, <2>2 DEF IInv, OnePlace, Thin
  <2> QED  BY <1>1, <2>3, <2>5, <2>6, ThinStep
<1> QED  BY <1>3, <1>4

\* The worker publishes a job: the BUY moves from the channel to the engine.
LEMMA PublishStep ==
    ASSUME IInv, Publish
    PROVE  IInv'
<1> DEFINE j == Head(queue)
<1>1. /\ queue # <<>> /\ queue' = Tail(queue) /\ posting = None /\ posting' = j
      /\ orders' = orders \cup {j}
      /\ UNCHANGED <<tracker, pos, pending, entry, recovered, hint, auth, exits, next>>
      /\ UNCHANGED results /\ UNCHANGED <<chain, was, bought, faults>>
  BY DEF Publish, bot
<1>2. pos \in Positions \cup {None} /\ queue \in Seq(Jobs)
  BY DEF IInv, Types
<1>3. j \in Jobs /\ Tail(queue) \in Seq(Jobs)
  BY <1>1, <1>2, TailIs
<1>4. Types'
  BY <1>1, <1>3 DEF IInv, Types
<1>5. Same(pos, pos')
  BY <1>1, <1>2, LatchIs
<1>6. CASE IsBuy(j)
  <2>1. /\ \A x \in orders : ~IsBuy(x)
        /\ \A r \in results : ~Live(r)
        /\ \A i \in 1 .. Len(Tail(queue)) : ~IsBuy(Tail(queue)[i])
        /\ NoResult /\ Latest(j)
    BY <1>1, <1>6, HeadBuy
  <2> HIDE DEF j
  <2>2. \A x : Live(x)' = Live(x)
    BY <1>1 DEF Live, IsBuy
  <2>3. OneBuy'
    <3>1. \A x \in orders' : IsBuy(x) => Latest(x)
      BY <1>1, <2>1
    <3> QED  BY <1>1, <2>1, <2>2, <3>1 DEF IInv, OneBuy, Latest
  <2>4. OnePlace'
    <3>1. NoResult'
      BY <1>1, <2>1 DEF NoResult
    <3>2. \A x, y \in orders' : IsBuy(x) /\ IsBuy(y) => x = y
      BY <1>1, <2>1
    <3> QED  BY <1>1, <2>1, <3>1, <3>2 DEF IInv, OnePlace
  <2>5. Credit' = Credit /\ ~Uncovered'
    BY <1>1, <2>1, <2>2 DEF Credit, Uncovered
  <2>6. Money'
    BY <1>1, <1>4, <1>5, <2>5, MoneyKept
  <2> QED  BY <1>4, <1>5, <2>3, <2>4, <2>6, FreshKept DEF IInv, Money
<1>7. CASE ~IsBuy(j)
  <2>1. QueueThin(queue, queue')
    BY <1>1, <1>2, QueuesThin
  <2>2. Thin
    BY <1>1, <1>7, <2>1 DEF Thin
  <2>3. \A x \in orders' : IsBuy(x) /\ x # posting' => x # posting
    BY <1>1, <1>4, NoneIs DEF Types
  <2> QED  BY <1>1, <1>4, <1>5, <2>2, <2>3, ThinStep
<1> QED  BY <1>6, <1>7

\* The worker books what it published: from here on the entry covers the BUY.
LEMMA BookStep ==
    ASSUME IInv, BookPublished
    PROVE  IInv'
<1>1. /\ posting # None /\ posting' = None
      /\ UNCHANGED <<tracker, pending, recovered, hint, auth, exits, queue, next>>
      /\ UNCHANGED <<orders, results>> /\ UNCHANGED <<chain, was, bought, faults>>
      /\ entry' = IF IsBuy(posting) THEN posting.id ELSE entry
      /\ pos' = pos \/ pos' = mark_exit_generated(pos)
  BY DEF BookPublished, IsBuy, world
<1>2. pos \in Positions \cup {None} /\ queue \in Seq(Jobs)
  BY DEF IInv, Types
<1>3. Same(pos, pos')
  BY <1>1, <1>2, LatchIs
<1>4. pos' \in Positions \cup {None}
  BY <1>3 DEF Same, Keeps
<1>5. Types'
  BY <1>1, <1>4 DEF IInv, Types
<1>6. QueueThin(queue, queue')
  BY <1>1, <1>2, QueuesThin
<1>7. Thin
  BY <1>1, <1>6 DEF Thin
<1>8. OneBuy' /\ OnePlace' /\ Credit' = Credit
  BY <1>7, ThinFlow
<1>9. Uncovered' => Uncovered
  <2>1. \A x : Live(x)' = Live(x)
    BY <1>1 DEF Live, IsBuy
  <2>2. CASE IsBuy(posting)
    <3>1. posting \in orders /\ posting.id = next - 1 /\ entry' = next - 1
      BY <1>1, <2>2 DEF IInv, OnePlace, OneBuy, Latest
    <3>2. \A x \in orders : IsBuy(x) => x.id = next - 1
      BY DEF IInv, OneBuy, Latest
    <3>3. \A r \in results : Live(r) => r.id = next - 1
      BY DEF IInv, OneBuy, Latest
    <3> QED  BY <1>1, <2>1, <3>1, <3>2, <3>3 DEF Uncovered
  <2>3. CASE ~IsBuy(posting)
    BY <1>1, <2>1, <2>3 DEF Uncovered
  <2> QED  BY <2>2, <2>3
<1>10. Money'
  BY <1>1, <1>3, <1>5, <1>8, <1>9, MoneyKept
<1> QED  BY <1>3, <1>5, <1>8, <1>10, FreshKept DEF IInv, Money

\* cleanup_stale_pending is the fault that may leave a BUY uncovered.
LEMMA StaleStep ==
    ASSUME IInv, NEW p \in pending, CleanupStale(p)
    PROVE  IInv'
<1>1. /\ pending' = pending \ {p} /\ faults' = faults + 1
      /\ UNCHANGED <<tracker, pos, recovered, hint, auth, queue, posting, next, exits>>
      /\ UNCHANGED <<orders, results>> /\ UNCHANGED <<chain, was, bought>>
  BY DEF CleanupStale, Fault, tasks, world
<1>2. pos \in Positions \cup {None} /\ queue \in Seq(Jobs) /\ faults \in Nat
  BY DEF IInv, Types
<1>3. Types'
  BY <1>1, <1>2 DEF IInv, Types
<1>4. QueueThin(queue, queue')
  BY <1>1, <1>2, QueuesThin
<1>5. Thin
  BY <1>1, <1>4 DEF IInv, OnePlace, Thin
<1>6. OneBuy' /\ OnePlace' /\ Credit' = Credit
  BY <1>5, ThinFlow
<1>7. Ledger' /\ Covered'
  BY <1>1, <1>2, <1>6 DEF IInv, Ledger, Covered
<1>8. Unsold'
  <2>1. Watched' => Watched
    BY <1>1, <1>2 DEF Watched
  <2> QED  BY <1>1, <1>6, <2>1 DEF IInv, Unsold
<1>9. Roomy'
  BY <1>1, <1>2, <1>6 DEF IInv, Roomy, Room, Snapped
<1>10. Same(pos, pos')
  BY <1>1, <1>2, LatchIs
<1> QED  BY <1>3, <1>6, <1>7, <1>8, <1>9, <1>10, FreshKept DEF IInv

-----------------------------------------------------------------------------
(* The engine.                                                               *)

\* The answer to an order.
LEMMA ResultIs ==
    ASSUME IInv, NEW o \in orders, NEW landed \in BOOLEAN, NEW status \in Statuses,
           NEW fill \in {None, Fill, o.amt}, Execute(o, landed, status, fill)
    PROVE  LET r == Result(o, status, fill) IN
           /\ r \in BuyResults \cup SellResults /\ r.id = o.id /\ r.side = o.side
           /\ r.status = status /\ r.fill = fill /\ r.id # Liquidation
           /\ ~IsBuy(o) => o.amt \in Nat \ {0} /\ (status = "confirmed" => fill # None)
           /\ IsBuy(o) => o.id \in Nat /\ fill \in {None, Fill}
<1>1. o \in Jobs
  BY DEF IInv, Types
<1>2. CASE o \in Buys
  <2>1. /\ o.id \in Nat /\ o.side = "buy" /\ o.kind \in {"probe", "scale_in"}
        /\ fill \in {None, Fill} /\ o.id # Liquidation
    BY <1>2, MomentumConstants DEF Buys, Execute
  <2> QED  BY <2>1 DEF Result, BuyResults, IsBuy
<1>3. CASE o \in Sells
  <2>1. /\ o.id \in SellIds /\ o.side = "sell" /\ o.kind = None /\ o.amt \in Nat \ {0}
        /\ fill \in {None, o.amt} /\ o.id # Liquidation /\ o.amt # None
        /\ (status = "confirmed" => fill # None)
    BY <1>3, MomentumConstants DEF Sells, Execute
  <2> QED  BY <2>1 DEF Result, SellResults, IsBuy
<1> QED  BY <1>1, <1>2, <1>3 DEF Jobs

\* A SELL is answered.
LEMMA ExecuteSell ==
    ASSUME IInv, NEW o \in orders, NEW landed \in BOOLEAN, NEW status \in Statuses,
           NEW fill \in {None, Fill, o.amt}, Execute(o, landed, status, fill), ~IsBuy(o)
    PROVE  IInv'
<1> DEFINE r == Result(o, status, fill)
<1>1. /\ r \in BuyResults \cup SellResults /\ r.side = o.side /\ r.status = status /\ r.fill = fill
      /\ r.id # Liquidation /\ o.amt \in Nat \ {0} /\ (status = "confirmed" => fill # None)
  BY ResultIs
<1>2. /\ orders' = orders \ {o} /\ results' = results \cup {r} /\ bought' = bought
      /\ landed => o.amt <= chain /\ chain' = chain - o.amt /\ was' = chain
      /\ ~landed => chain' = chain /\ was' = was
      /\ status = "confirmed" => landed
      /\ faults' = faults \/ faults' = faults + 1
      /\ UNCHANGED bot /\ UNCHANGED tasks
  BY DEF Execute, IsBuy, Fault
<1> HIDE DEF r
<1>3. /\ UNCHANGED <<tracker, pos, pending, entry, recovered, hint, auth>>
      /\ UNCHANGED <<exits, queue, posting, next>>
  BY <1>2 DEF bot, tasks
<1>4. /\ pos \in Positions \cup {None} /\ queue \in Seq(Jobs) /\ faults \in Nat
      /\ chain \in Nat /\ was \in Nat /\ bought \in Nat /\ chain <= bought /\ was <= bought
  BY DEF IInv, Types, Ledger
<1>5. chain' \in Nat /\ was' \in Nat /\ faults' \in Nat
  BY <1>1, <1>2, <1>4
<1>6. Types'
  BY <1>1, <1>2, <1>3, <1>5 DEF IInv, Types
<1>7. QueueThin(queue, queue')
  BY <1>3, <1>4, QueuesThin
<1>8. ~IsBuy(r)
  BY <1>1 DEF IsBuy
<1>9. posting # None /\ IsBuy(posting) => posting \in orders'
  BY <1>2 DEF IInv, OnePlace
<1>10. Thin
  BY <1>2, <1>3, <1>7, <1>8, <1>9 DEF Thin
<1>11. OneBuy' /\ OnePlace' /\ Credit' = Credit
  BY <1>10, ThinFlow
<1>12. Uncovered' => Uncovered
  BY <1>3, <1>10, ThinCover
<1>13. chain' <= chain /\ (status = "confirmed" => chain' < bought) /\ (chain' = bought => chain' = chain)
  BY <1>1, <1>2, <1>4
<1>14. Ledger'
  <2>1. chain' <= bought' /\ was' <= bought' /\ Credit' <= bought'
    BY <1>2, <1>4, <1>5, <1>11, <1>13 DEF IInv, Ledger
  <2>2. \A s \in results' : s.id = Liquidation => s.status = "confirmed"
    BY <1>1, <1>2 DEF IInv, Ledger
  <2>3. ASSUME NEW s \in results', ~IsBuy(s), s.status = "confirmed"
        PROVE  s.fill # None /\ chain' < bought'
    <3>1. CASE s = r
      BY <1>1, <1>2, <1>13, <2>3, <3>1
    <3>2. CASE s \in results
      BY <1>2, <1>4, <1>5, <1>13, <2>3, <3>2 DEF IInv, Ledger
    <3> QED  BY <1>2, <3>1, <3>2
  <2> QED  BY <2>1, <2>2, <2>3 DEF Ledger
<1>15. Covered' /\ (Watched' => Watched)
  BY <1>2, <1>4, <1>12 DEF IInv, Covered, Watched
<1>16. Unsold'
  BY <1>2, <1>3, <1>11, <1>13, <1>15 DEF IInv, Unsold
<1>17. Roomy'
  BY <1>2, <1>3, <1>4, <1>11 DEF IInv, Roomy, Room, Snapped
<1>18. FreshIsLive'
  BY <1>3 DEF IInv, FreshIsLive
<1> QED  BY <1>6, <1>11, <1>14, <1>15, <1>16, <1>17, <1>18 DEF IInv

\* A BUY is answered: what it filled is credit from here on.
LEMMA ExecuteBuy ==
    ASSUME IInv, NEW o \in orders, NEW landed \in BOOLEAN, NEW status \in Statuses,
           NEW fill \in {None, Fill, o.amt}, Execute(o, landed, status, fill), IsBuy(o)
    PROVE  IInv'
<1> DEFINE r == Result(o, status, fill)
           filled == status = "confirmed" /\ fill # None
<1>1. /\ r \in BuyResults \cup SellResults /\ r.id = o.id /\ r.side = o.side /\ r.status = status
      /\ r.fill = fill /\ r.id # Liquidation /\ o.id \in Nat
  BY ResultIs
<1>2. /\ orders' = orders \ {o} /\ results' = results \cup {r} /\ posting # o
      /\ landed => chain' = chain + Fill /\ was' = chain /\ bought' = bought + Fill
      /\ ~landed => chain' = chain /\ was' = was /\ bought' = bought
      /\ filled => landed /\ faults' = faults
      /\ ~filled => faults' = faults + 1
      /\ UNCHANGED bot /\ UNCHANGED tasks
  BY DEF Execute, IsBuy, Fault
<1> HIDE DEF r
<1>3. /\ UNCHANGED <<tracker, pos, pending, entry, recovered, hint, auth>>
      /\ UNCHANGED <<exits, queue, posting, next>>
  BY <1>2 DEF bot, tasks
<1>4. /\ pos \in Positions \cup {None} /\ (pos # None => pos.amt \in Nat) /\ faults \in Nat
      /\ chain \in Nat /\ was \in Nat /\ bought \in Nat /\ chain <= bought /\ was <= bought /\ next \in Nat
  BY DEF IInv, Types, Ledger, Positions
<1>5. Types'
  <2>1. chain' \in Nat /\ was' \in Nat /\ bought' \in Nat /\ faults' \in Nat
    BY <1>2, <1>4 DEF Fill
  <2> QED  BY <1>1, <1>2, <1>3, <2>1 DEF IInv, Types
<1>6. Latest(o) /\ NoResult
  BY DEF IInv, OneBuy, OnePlace
<1>7. r.id = next - 1 /\ r.id \notin recovered /\ tracker \in Unfilled /\ IsBuy(r)
  BY <1>1, <1>6 DEF Latest, IsBuy
<1>8. \A s \in results : ~Live(s)
  BY <1>6 DEF IInv, OneBuy, Latest, NoResult, Live
<1>9. Credit = 0
  BY <1>8 DEF Credit
<1>10. \A x \in orders' : ~IsBuy(x)
  BY <1>2 DEF IInv, OnePlace
<1>11. posting # None => ~IsBuy(posting)
  BY <1>2 DEF IInv, OnePlace
<1>12. \A i \in 1 .. Len(queue) : ~IsBuy(queue[i])
  BY DEF IInv, OnePlace
<1>13. \A s : Live(s)' = Live(s)
  BY <1>3 DEF Live, IsBuy
<1>14. Live(r) <=> filled
  BY <1>1, <1>7 DEF Live
<1> HIDE DEF filled
<1>15. OneBuy'
  <2>1. \A s \in results' : IsBuy(s) => s.id < next
    BY <1>2, <1>4, <1>7 DEF IInv, OneBuy
  <2>2. \A s \in results' : Live(s) => Latest(s)
    BY <1>2, <1>7, <1>8 DEF Latest
  <2> QED  BY <1>3, <1>10, <1>12, <1>13, <2>1, <2>2 DEF IInv, OneBuy, Latest
<1>16. OnePlace'
  <2>1. \A s, t \in results' : IsBuy(s) /\ IsBuy(t) /\ s.id = t.id => s = t
    BY <1>2, <1>6, <1>7 DEF IInv, OnePlace, NoResult
  <2> QED  BY <1>3, <1>10, <1>11, <1>12, <2>1 DEF IInv, OnePlace
<1>17. Credit' = IF filled THEN Fill ELSE 0
  BY <1>2, <1>8, <1>13, <1>14 DEF Credit
<1>18. Uncovered' => Uncovered
  <2>1. ASSUME NEW s \in results', Live(s)', s.id # entry' PROVE Uncovered
    <3>1. s = r
      BY <1>2, <1>8, <1>13, <2>1
    <3> QED  BY <1>1, <1>2, <1>3, <2>1, <3>1 DEF Uncovered
  <2> QED  BY <1>10, <2>1 DEF Uncovered
<1>19. Ledger'
  <2>1. chain' <= bought' /\ was' <= bought' /\ Credit' <= bought'
    BY <1>2, <1>4, <1>17 DEF Fill
  <2>2. \A s \in results' : s.id = Liquidation => s.status = "confirmed"
    BY <1>1, <1>2 DEF IInv, Ledger
  <2>3. chain < bought => chain' < bought'
    BY <1>2, <1>4 DEF Fill
  <2>4. \A s \in results' : ~IsBuy(s) /\ s.status = "confirmed" => s.fill # None /\ chain' < bought'
    BY <1>2, <1>7, <2>3 DEF IInv, Ledger
  <2> QED  BY <2>1, <2>2, <2>4 DEF Ledger
<1>20. Covered' /\ (Watched' => Watched /\ filled)
  BY <1>2, <1>4, <1>18 DEF IInv, Covered, Watched
<1>21. Unsold'
  <2> SUFFICES ASSUME Watched', pos' = None, chain' = bought' PROVE bought' <= Credit'
    BY DEF Unsold
  <2>1. chain = bought /\ landed
    BY <1>2, <1>4, <1>20 DEF Fill
  <2>2. bought <= 0
    BY <1>3, <1>9, <1>20, <2>1 DEF IInv, Unsold
  <2> QED  BY <1>2, <1>4, <1>17, <1>20, <2>1, <2>2 DEF Fill
<1>22. Roomy'
  <2> SUFFICES ASSUME faults' <= 1, pos' # None PROVE Room'
    BY DEF Roomy
  <2>1. pos # None /\ pos.amt <= bought
    BY <1>2, <1>3, <1>4, <1>9 DEF IInv, Roomy, Room, Snapped
  <2>2. pos.amt + Credit' <= bought'
    BY <1>2, <1>4, <1>17, <2>1 DEF Fill
  <2> QED  BY <1>3, <2>2 DEF Room
<1>23. FreshIsLive'
  BY <1>3 DEF IInv, FreshIsLive
<1> QED  BY <1>5, <1>15, <1>16, <1>19, <1>20, <1>21, <1>22, <1>23 DEF IInv

\* Somebody else empties the wallet.
LEMMA ForeignStep ==
    ASSUME IInv, NEW liquidation \in BOOLEAN, ForeignSale(liquidation)
    PROVE  IInv'
<1> DEFINE r == Result(Job(Liquidation, "sell", None, chain), "confirmed", chain)
<1>1. /\ chain > 0 /\ chain' = 0 /\ was' = chain /\ faults' = faults + 1
      /\ results' = results \cup {r} \/ results' = results
      /\ UNCHANGED bot /\ UNCHANGED tasks /\ UNCHANGED <<orders, bought>>
  BY DEF ForeignSale, Fault
<1>2. /\ pos \in Positions \cup {None} /\ queue \in Seq(Jobs) /\ faults \in Nat
      /\ chain \in Nat /\ bought \in Nat /\ chain <= bought
  BY DEF IInv, Types, Ledger
<1>3. r \in SellResults /\ ~IsBuy(r) /\ r.fill # None /\ r.status = "confirmed"
  BY <1>1, <1>2, NoneIs DEF Result, Job, SellResults, IsBuy, Statuses
<1> HIDE DEF r
<1>4. /\ UNCHANGED <<tracker, pos, pending, entry, recovered, hint, auth>>
      /\ UNCHANGED <<exits, queue, posting, next>>
  BY <1>1 DEF bot, tasks
<1>5. Types'
  BY <1>1, <1>2, <1>3, <1>4 DEF IInv, Types
<1>6. QueueThin(queue, queue')
  BY <1>2, <1>4, QueuesThin
<1>7. Thin
  BY <1>1, <1>3, <1>4, <1>6 DEF IInv, OnePlace, Thin
<1>8. OneBuy' /\ OnePlace' /\ Credit' = Credit
  BY <1>7, ThinFlow
<1>9. Uncovered' => Uncovered
  BY <1>1, <1>4, <1>7, ThinCover
<1>10. Ledger'
  <2>1. chain' <= bought' /\ was' <= bought' /\ Credit' <= bought' /\ chain' < bought'
    BY <1>1, <1>2, <1>8 DEF IInv, Ledger
  <2>2. \A s \in results' : s.id = Liquidation => s.status = "confirmed"
    BY <1>1, <1>3 DEF IInv, Ledger
  <2>3. \A s \in results' : ~IsBuy(s) /\ s.status = "confirmed" => s.fill # None
    BY <1>1, <1>3 DEF IInv, Ledger
  <2> QED  BY <2>1, <2>2, <2>3 DEF Ledger
<1>11. Covered' /\ ~Watched'
  BY <1>1, <1>2, <1>9 DEF IInv, Covered, Watched
<1>12. Unsold'
  BY <1>11 DEF Unsold
<1>13. Roomy'
  BY <1>1, <1>2, <1>4, <1>8 DEF IInv, Roomy, Room, Snapped
<1>14. FreshIsLive'
  BY <1>4 DEF IInv, FreshIsLive
<1> QED  BY <1>5, <1>8, <1>10, <1>11, <1>12, <1>13, <1>14 DEF IInv

-----------------------------------------------------------------------------
(* handle_execution_result.                                                  *)

\* What every branch shares: the result goes, or stays for a redelivery.
Taken(r) ==
    /\ UNCHANGED <<exits, queue, posting, next>> /\ UNCHANGED <<chain, was, orders, bought>>
    /\ \/ results' = results /\ faults' = faults + 1
       \/ results' = results \ {r} /\ faults' = faults

\* No result is added by handling one.
LEMMA TakenIs ==
    ASSUME IInv, NEW r \in results, Taken(r)
    PROVE  /\ faults' \in Nat /\ (faults' = faults \/ faults' = faults + 1)
           /\ results' \in SUBSET results
  BY DEF IInv, Types, Taken

\* The answer to the latest BUY is there: the BUY is nowhere else.
LEMMA Answered ==
    ASSUME IInv, NEW r \in results, IsBuy(r), r.id = next - 1
    PROVE  /\ \A x \in orders : ~IsBuy(x)
           /\ \A i \in 1 .. Len(queue) : ~IsBuy(queue[i])
           /\ posting # None => ~IsBuy(posting)
           /\ \A s \in results : Live(s) => s = r
<1>1. ~NoResult
  BY DEF NoResult
<1>2. (\A x \in orders : ~IsBuy(x)) /\ (\A i \in 1 .. Len(queue) : ~IsBuy(queue[i]))
  BY <1>1 DEF IInv, OnePlace
<1>3. posting # None => ~IsBuy(posting)
  BY <1>2 DEF IInv, OnePlace
<1>4. \A s \in results : Live(s) => s = r
  BY DEF IInv, OneBuy, Latest, OnePlace, Live
<1> QED  BY <1>2, <1>3, <1>4

\* Handling it settles the BUY.
LEMMA Settled ==
    ASSUME IInv, NEW r \in results, Taken(r), IsBuy(r), r.id = next - 1,
           \A x \in pending' : ~IsBuy(x),
           (recovered' = recovered /\ ~Live(r)) \/ recovered' = recovered \cup {r.id}
    PROVE  OneBuy' /\ OnePlace' /\ Credit' = 0 /\ ~Uncovered'
<1>1. /\ \A x \in orders : ~IsBuy(x)
      /\ \A i \in 1 .. Len(queue) : ~IsBuy(queue[i])
      /\ posting # None => ~IsBuy(posting)
      /\ \A s \in results : Live(s) => s = r
  BY Answered
<1>2. results' \in SUBSET results
  BY TakenIs
<1>3. \A s \in results' : ~Live(s)'
  BY <1>1, <1>2 DEF Live
<1>4. \A s \in results' : IsBuy(s) => s.id < next
  BY <1>2 DEF IInv, OneBuy
<1>5. \A id \in recovered' : id < next
  BY DEF IInv, OneBuy
<1>6. \A s, t \in results' : IsBuy(s) /\ IsBuy(t) /\ s.id = t.id => s = t
  BY <1>2 DEF IInv, OnePlace
<1>7. UNCHANGED <<exits, queue, posting, next>> /\ UNCHANGED orders
  BY DEF Taken
<1> QED  BY <1>1, <1>3, <1>4, <1>5, <1>6, <1>7, AllGone

\* A fill is booked; the position that takes it has room for it, is new, or
\* is the snapshot of it.
LEMMA FillBooked ==
    ASSUME IInv, NEW r \in results, Taken(r), Live(r),
           \A x \in pending' : ~IsBuy(x), pending' \in SUBSET pending,
           recovered' = recovered \cup {r.id},
           hint' \in Nat \cup {None}, auth' = auth,
           \/ pos' = open_position(pos, Fill) /\ (pos # None /\ faults <= 1 => Room)
           \/ pos # None /\ pos' = [pos EXCEPT !.src = "Live"]
    PROVE  IInv'
<1>1. IsBuy(r) /\ r.id = next - 1 /\ r.id \in Nat
  BY DEF IInv, OneBuy, Latest, Live, Types, BuyResults, SellResults, IsBuy
<1>2. OneBuy' /\ OnePlace' /\ Credit' = 0 /\ ~Uncovered'
  BY <1>1, Settled
<1>3. /\ faults' \in Nat /\ (faults' = faults \/ faults' = faults + 1) /\ results' \in SUBSET results
      /\ UNCHANGED <<exits, queue, posting, next>> /\ UNCHANGED <<chain, was, orders, bought>>
  BY TakenIs DEF Taken
<1>4. Credit = Fill /\ Fill <= bought
  BY DEF IInv, Ledger, Credit
<1>5. /\ pos \in Positions \cup {None} /\ faults \in Nat /\ bought \in Nat
      /\ pos # None => pos.amt \in Nat
  BY DEF IInv, Types, Positions
<1>6. /\ pos' \in Positions /\ (pos'.fresh => pos'.src = "Live")
      /\ pos'.amt \in Nat /\ (faults <= 1 => pos'.amt <= bought)
  <2>1. CASE pos' = open_position(pos, Fill) /\ pos = None
    <3>1. pos' \in Positions /\ pos'.amt = Fill /\ pos'.src = "Live"
      BY <1>5, <2>1, OpenIs DEF Fill
    <3> QED  BY <1>4, <3>1 DEF Fill
  <2>2. CASE pos' = open_position(pos, Fill) /\ pos # None /\ (faults <= 1 => Room)
    <3>1. pos' \in Positions /\ pos'.amt = pos.amt + Fill /\ pos'.src = pos.src /\ (pos'.fresh => pos.fresh)
      BY <1>5, <2>2, OpenIs DEF Fill
    <3>2. pos.fresh => pos.src = "Live"
      BY <2>2 DEF IInv, FreshIsLive
    <3>3. pos'.fresh => pos'.src = "Live"
      BY <3>1, <3>2
    <3>4. pos'.amt \in Nat /\ (faults <= 1 => pos'.amt <= bought)
      BY <1>4, <1>5, <2>2, <3>1 DEF Room, Fill
    <3> QED  BY <3>1, <3>3, <3>4
  <2>3. CASE pos # None /\ pos' = [pos EXCEPT !.src = "Live"]
    <3>1. pos' \in Positions /\ pos'.amt = pos.amt /\ pos'.src = "Live"
      BY <1>5, <2>3, Flags
    <3>2. faults <= 1 => pos.amt <= bought
      BY <1>4, <1>5, <2>3 DEF IInv, Roomy, Room, Snapped, Fill
    <3> QED  BY <1>5, <2>3, <3>1, <3>2
  <2> QED  BY <2>1, <2>2, <2>3
<1>7. pos' # None
  BY <1>6, NoneIs
<1>8. Types'
  BY <1>1, <1>3, <1>6 DEF IInv, Types
<1>9. Ledger'
  BY <1>2, <1>3, <1>5 DEF IInv, Ledger
<1>10. Covered' /\ Unsold' /\ FreshIsLive'
  BY <1>2, <1>6, <1>7 DEF Covered, Unsold, FreshIsLive
<1>11. Roomy'
  <2> SUFFICES ASSUME faults' <= 1 PROVE Room'
    BY DEF Roomy
  <2>1. faults <= 1
    BY <1>3, <1>5
  <2> QED  BY <1>2, <1>3, <1>5, <1>6, <2>1 DEF Room
<1> QED  BY <1>2, <1>8, <1>9, <1>10, <1>11 DEF IInv

\* A result that moves no BUY and books no fill.
LEMMA SellBooked ==
    ASSUME IInv, NEW r \in results, Taken(r), ~Live(r),
           pending' \in SUBSET pending, UNCHANGED <<tracker, entry, recovered>>,
           hint' \in Nat \cup {None}, auth' \in Nat \cup {None},
           Same(pos, pos') \/ Closes
    PROVE  IInv'
<1>1. /\ faults' \in Nat /\ (faults' = faults \/ faults' = faults + 1) /\ results' \in SUBSET results
      /\ UNCHANGED <<exits, queue, posting, next>> /\ UNCHANGED <<chain, was, orders, bought>>
      /\ \A s \in results : Live(s) => s \in results'
  BY TakenIs DEF Taken
<1>2. pos \in Positions \cup {None} /\ queue \in Seq(Jobs)
  BY DEF IInv, Types
<1>3. pos' \in Positions \cup {None}
  BY DEF Same, Keeps, Closes
<1>4. Types'
  BY <1>1, <1>3 DEF IInv, Types
<1>5. QueueThin(queue, queue')
  BY <1>1, <1>2, QueuesThin
<1>6. Thin
  BY <1>1, <1>5 DEF IInv, OnePlace, Thin
<1> QED  BY <1>1, <1>4, <1>6, ThinStep

\* A result and the intent that waits for it are of one side.
LEMMA SidesMatch ==
    ASSUME IInv, NEW r \in results, NEW p \in pending, p.id = r.id
    PROVE  /\ IsBuy(p) => r \in BuyResults /\ IsBuy(r) /\ r.id = next - 1 /\ r.id \notin recovered
           /\ ~IsBuy(p) => r \in SellResults /\ ~IsBuy(r)
<1>1. p \in Jobs /\ r \in BuyResults \cup SellResults
  BY DEF IInv, Types
<1>2. (SellIds \cup {Liquidation}) \cap Nat = {}
  BY MomentumConstants
<1>3. ASSUME IsBuy(p) PROVE r \in BuyResults /\ IsBuy(r)
  <2>1. p \in Buys /\ p.id \in Nat
    BY <1>1, <1>3 DEF Jobs, Buys, Sells, IsBuy
  <2>2. r \notin SellResults
    BY <1>2, <2>1 DEF SellResults
  <2> QED  BY <1>1, <2>2 DEF BuyResults, IsBuy
<1>4. IsBuy(p) => r.id = next - 1 /\ r.id \notin recovered
  BY DEF IInv, OneBuy, Latest
<1>5. ASSUME ~IsBuy(p) PROVE r \in SellResults /\ ~IsBuy(r)
  <2>1. p \in Sells /\ p.id \in SellIds
    BY <1>1, <1>5 DEF Jobs, Buys, Sells, IsBuy
  <2>2. r \notin BuyResults
    BY <1>2, <2>1 DEF BuyResults
  <2> QED  BY <1>1, <2>2 DEF SellResults, IsBuy
<1> QED  BY <1>3, <1>4, <1>5

\* A BUY that is still pending is answered.  Its position is not the snapshot
\* of its fill, so there is room for the fill.
LEMMA PendingBuy ==
    ASSUME IInv, NEW r \in results, Taken(r), NEW p \in pending, p.id = r.id, IsBuy(p),
           PendingResult(r, p)
    PROVE  IInv'
<1>1. r \in BuyResults /\ IsBuy(r) /\ r.id = next - 1 /\ r.id \notin recovered
  BY SidesMatch
<1>2. pending' = pending \ {p} /\ pending' \in SUBSET pending
  BY DEF PendingResult
<1>3. \A x \in pending' : ~IsBuy(x)
  BY <1>2 DEF IInv, OnePlace
<1>4. CASE r.status = "confirmed" /\ r.fill # None
  <2>1. Live(r) /\ r.fill = Fill
    BY <1>1, <1>4 DEF Live, BuyResults
  <2>2. BuyConfirmed(r, p)
    BY <1>4 DEF PendingResult, IsBuy
  <2>3. /\ recovered' = recovered \cup {r.id} /\ pos' = open_position(pos, Fill)
        /\ hint' = Fill /\ auth' = auth
    BY <1>4, <2>1, <2>2 DEF BuyConfirmed
  <2>4. pos # None /\ faults <= 1 => Room
    BY DEF IInv, Roomy, Snapped
  <2>5. hint' \in Nat \cup {None}
    BY <2>3 DEF Fill
  <2> QED  BY <1>2, <1>3, <2>1, <2>3, <2>4, <2>5, FillBooked
<1>5. CASE ~(r.status = "confirmed" /\ r.fill # None)
  <2>1. UNCHANGED <<pos, recovered, hint, auth>>
    BY <1>5 DEF PendingResult, BuyConfirmed, IsBuy
  <2>2. ~Live(r)
    BY <1>5 DEF Live
  <2>3. OneBuy' /\ OnePlace' /\ Credit' = 0 /\ ~Uncovered'
    BY <1>1, <1>3, <2>1, <2>2, Settled
  <2>4. Credit = 0
    BY <1>1, <2>2, Answered DEF Credit
  <2>5. /\ faults' \in Nat /\ (faults' = faults \/ faults' = faults + 1) /\ results' \in SUBSET results
        /\ UNCHANGED <<exits, queue, posting, next>> /\ UNCHANGED <<chain, was, orders, bought>>
    BY TakenIs DEF Taken
  <2>6. Types'
    BY <1>2, <2>1, <2>5 DEF IInv, Types
  <2>7. Same(pos, pos')
    BY <2>1, LatchIs DEF IInv, Types
  <2>8. Money'
    BY <1>3, <2>3, <2>4, <2>5, <2>6, <2>7, MoneyKept
  <2> QED  BY <2>3, <2>6, <2>7, <2>8, FreshKept DEF IInv, Money
<1> QED  BY <1>4, <1>5

\* A part of the position is sold.
LEMMA PartlySold ==
    ASSUME IInv, NEW r \in results, Taken(r), ~IsBuy(r), NEW n \in Nat, n > 0,
           pos # None, n < pos.amt, pos' = [pos EXCEPT !.amt = @ - n, !.latched = FALSE],
           pending' \in SUBSET pending, UNCHANGED <<tracker, entry, recovered>>,
           hint' \in Nat \cup {None}, auth' = auth
    PROVE  IInv'
<1>1. /\ faults' \in Nat /\ (faults' = faults \/ faults' = faults + 1) /\ results' \in SUBSET results
      /\ UNCHANGED <<exits, queue, posting, next>> /\ UNCHANGED <<chain, was, orders, bought>>
      /\ \A s \in results : Live(s) => s \in results'
  BY TakenIs DEF Taken, Live
<1>2. /\ pos \in Positions /\ pos.amt \in Nat /\ queue \in Seq(Jobs)
      /\ chain \in Nat /\ bought \in Nat /\ faults \in Nat /\ Credit \in Nat
  BY DEF IInv, Types, Positions, Credit, Fill
<1>3. PICK m \in Nat : m = pos.amt - n
  BY <1>2
<1>4. pos' = [pos EXCEPT !.amt = m, !.latched = FALSE]
  BY <1>2, <1>3 DEF Positions
<1>5. pos' \in Positions /\ pos'.amt = m /\ pos'.src = pos.src /\ (pos'.fresh => pos.fresh)
  <2>1. FALSE \in BOOLEAN /\ m \in Nat
    OBVIOUS
  <2>2. LET q == [pos EXCEPT !.amt = m, !.latched = FALSE] IN
        q \in Positions /\ q.amt = m /\ q.src = pos.src /\ (q.fresh => pos.fresh)
    BY <1>2, <2>1, Flags
  <2> QED  BY <1>4, <2>2
<1>6. pos' # None
  BY <1>5, NoneIs
<1>7. Types'
  BY <1>1, <1>5 DEF IInv, Types
<1>8. QueueThin(queue, queue')
  BY <1>1, <1>2, QueuesThin
<1>9. Thin
  BY <1>1, <1>8 DEF IInv, OnePlace, Thin
<1>10. OneBuy' /\ OnePlace' /\ Credit' = Credit
  BY <1>9, ThinFlow
<1>11. Uncovered' => Uncovered
  BY <1>1, <1>9, ThinCover
<1>12. Ledger'
  BY <1>1, <1>10 DEF IInv, Ledger
<1>13. Covered' /\ Unsold'
  BY <1>1, <1>2, <1>6, <1>11 DEF IInv, Covered, Unsold
<1>14. Roomy'
  <2> SUFFICES ASSUME faults' <= 1 PROVE Room'
    BY DEF Roomy
  <2>1. faults <= 1
    BY <1>1, <1>2
  <2>2. Room \/ Snapped
    BY <2>1 DEF IInv, Roomy
  <2>3. Room
    BY <1>2, <2>2 DEF Snapped, Fill
  <2>4. m + Credit <= bought
    BY <1>2, <1>3, <2>3 DEF Room
  <2> QED  BY <1>1, <1>5, <1>10, <2>4 DEF Room
<1>15. FreshIsLive'
  BY <1>5 DEF IInv, FreshIsLive
<1> QED  BY <1>7, <1>10, <1>12, <1>13, <1>14, <1>15 DEF IInv

\* A SELL that is still pending is answered.
LEMMA PendingSell ==
    ASSUME IInv, NEW r \in results, Taken(r), NEW p \in pending, p.id = r.id, ~IsBuy(p),
           PendingResult(r, p)
    PROVE  IInv'
<1>1. r \in SellResults /\ ~IsBuy(r) /\ ~Live(r)
  BY SidesMatch DEF Live
<1>2. pending' \in SUBSET pending /\ UNCHANGED <<tracker, entry, recovered>>
  BY DEF PendingResult, IsBuy
<1>3. pos \in Positions \cup {None} /\ (pos # None => pos.amt \in Nat)
  BY DEF IInv, Types, Positions
<1>4. CASE r.status # "confirmed"
  <2>1. pos' = Unlatched(pos, TRUE) /\ UNCHANGED <<hint, auth>>
    BY <1>4 DEF PendingResult, IsBuy
  <2>2. Same(pos, pos')
    BY <1>3, <2>1, LatchIs
  <2>3. hint' \in Nat \cup {None} /\ auth' \in Nat \cup {None}
    BY <2>1 DEF IInv, Types
  <2> QED  BY <1>1, <1>2, <2>2, <2>3, SellBooked
<1>5. CASE r.status = "confirmed"
  <2>1. SellConfirmed(r)
    BY <1>5 DEF PendingResult, IsBuy
  <2>2. r.fill \in Nat /\ r.fill > 0 /\ chain < bought
    BY <1>1, <1>5 DEF IInv, Ledger, SellResults
  <2>3. CASE pos # None /\ r.fill < pos.amt
    <3>1. /\ pos' = [pos EXCEPT !.amt = @ - r.fill, !.latched = FALSE]
          /\ hint' = pos.amt - r.fill /\ auth' = auth
      BY <2>1, <2>3 DEF SellConfirmed
    <3>2. hint' \in Nat \cup {None}
      BY <1>3, <2>2, <2>3, <3>1
    <3> QED  BY <1>1, <1>2, <2>2, <2>3, <3>1, <3>2, PartlySold
  <2>4. CASE ~(pos # None /\ r.fill < pos.amt)
    <3>1. pos' = None /\ hint' = None /\ auth' = 0
      BY <2>1, <2>4 DEF SellConfirmed
    <3>2. Same(pos, pos') \/ Closes
      BY <2>2, <3>1 DEF Same, Closes
    <3>3. hint' \in Nat \cup {None} /\ auth' \in Nat \cup {None}
      BY <3>1
    <3> QED  BY <1>1, <1>2, <3>2, <3>3, SellBooked
  <2> QED  BY <2>3, <2>4
<1> QED  BY <1>4, <1>5

\* A BUY's result comes when the bot no longer waits for it, and has not been
\* applied: the snapshot of its fill is recognised, any other position has
\* room for it.
LEMMA OrphanFill ==
    ASSUME IInv, NEW r \in results, Taken(r), Live(r), ~Waiting(r.id), OrphanBuy(r)
    PROVE  IInv'
<1>1. r.id = next - 1 /\ r.id \notin recovered /\ r.fill = Fill
  BY DEF IInv, OneBuy, Latest, Live, Types, BuyResults, SellResults, IsBuy
<1>2. \A x \in pending : ~IsBuy(x)
  BY <1>1 DEF IInv, OneBuy, Latest, Waiting
<1>3. /\ pos' = IF pos # None /\ pos.src = "WalletSnapshot" /\ pos.amt = Fill
                THEN [pos EXCEPT !.src = "Live"] ELSE open_position(pos, Fill)
      /\ recovered' = recovered \cup {r.id} /\ UNCHANGED <<pending, hint, auth>>
  BY <1>1 DEF OrphanBuy
<1>4. hint' \in Nat \cup {None} /\ pending' \in SUBSET pending /\ \A x \in pending' : ~IsBuy(x)
  BY <1>2, <1>3 DEF IInv, Types
<1>5. \/ pos' = open_position(pos, Fill) /\ (pos # None /\ faults <= 1 => Room)
      \/ pos # None /\ pos' = [pos EXCEPT !.src = "Live"]
  <2>1. CASE pos # None /\ pos.src = "WalletSnapshot" /\ pos.amt = Fill
    BY <1>3, <2>1
  <2>2. CASE ~(pos # None /\ pos.src = "WalletSnapshot" /\ pos.amt = Fill)
    <3>1. pos' = open_position(pos, Fill)
      BY <1>3, <2>2
    <3>2. pos # None /\ faults <= 1 => Room
      BY <2>2 DEF IInv, Roomy, Snapped
    <3> QED  BY <3>1, <3>2
  <2> QED  BY <2>1, <2>2
<1> QED  BY <1>3, <1>4, <1>5, FillBooked

\* A BUY's result without a fill ends its pending-BUY entry and nothing else.
LEMMA OrphanUnread ==
    ASSUME IInv, NEW r \in results, Taken(r), IsBuy(r), r.fill = None,
           entry' = Drop(entry, r.id), UNCHANGED <<tracker, pos, pending, recovered, hint, auth>>
    PROVE  IInv'
<1>1. /\ faults' \in Nat /\ (faults' = faults \/ faults' = faults + 1) /\ results' \in SUBSET results
      /\ UNCHANGED <<exits, queue, posting, next>> /\ UNCHANGED <<chain, was, orders, bought>>
      /\ \A s \in results : Live(s) => s \in results'
  BY TakenIs DEF Taken, Live
<1>2. pos \in Positions \cup {None} /\ queue \in Seq(Jobs)
  BY DEF IInv, Types
<1>3. Types'
  BY <1>1 DEF IInv, Types
<1>4. QueueThin(queue, queue')
  BY <1>1, <1>2, QueuesThin
<1>5. Thin
  BY <1>1, <1>4 DEF IInv, OnePlace, Thin
<1>6. OneBuy' /\ OnePlace' /\ Credit' = Credit
  BY <1>5, ThinFlow
<1>7. \A s : Live(s)' = Live(s)
  BY DEF Live, IsBuy
<1>8. Uncovered' => Uncovered
  <2>1. CASE r.id = next - 1
    <3>1. \A s \in results : ~Live(s)
      BY <2>1, Answered DEF Live
    <3>2. \A x \in orders : ~IsBuy(x)
      BY <2>1, Answered
    <3> QED  BY <1>1, <1>7, <3>1, <3>2 DEF Uncovered
  <2>2. CASE r.id # next - 1
    <3>1. ASSUME NEW x \in orders', IsBuy(x), x # posting', x.id # entry' PROVE Uncovered
      <4>1. x \in orders /\ x # posting /\ x.id = next - 1
        BY <1>1, <3>1 DEF IInv, OneBuy, Latest
      <4>2. x.id # entry
        BY <2>2, <3>1, <4>1 DEF Drop
      <4> QED  BY <3>1, <4>1, <4>2 DEF Uncovered
    <3>2. ASSUME NEW s \in results', Live(s)', s.id # entry' PROVE Uncovered
      <4>1. s \in results /\ Live(s) /\ s.id = next - 1
        BY <1>1, <1>7, <3>2 DEF IInv, OneBuy, Latest
      <4>2. s.id # entry
        BY <2>2, <3>2, <4>1 DEF Drop
      <4> QED  BY <4>1, <4>2 DEF Uncovered
    <3> QED  BY <3>1, <3>2 DEF Uncovered
  <2> QED  BY <2>1, <2>2
<1>9. Same(pos, pos')
  BY <1>2, LatchIs
<1>10. Money'
  BY <1>1, <1>3, <1>6, <1>8, <1>9, MoneyKept
<1> QED  BY <1>3, <1>6, <1>9, <1>10, FreshKept DEF IInv, Money

\* The results of intents the bot no longer waits for.
LEMMA OrphanStep ==
    ASSUME IInv, NEW r \in results, Taken(r), ~Waiting(r.id), OrphanResult(r)
    PROVE  IInv'
<1>1. /\ pos \in Positions \cup {None} /\ r \in BuyResults \cup SellResults
      /\ hint \in Nat \cup {None} /\ auth \in Nat \cup {None} /\ 0 \in Nat \cup {None}
  BY DEF IInv, Types
<1>2. Same(pos, pos) /\ Same(pos, Unlatched(pos, TRUE))
  BY <1>1, LatchIs
<1>3. r.id = Liquidation => r.status = "confirmed" /\ ~IsBuy(r) /\ chain < bought
  <2>1. r.id = Liquidation => r.status = "confirmed"
    BY DEF IInv, Ledger
  <2>2. r.id = Liquidation => ~IsBuy(r)
    BY <1>1, MomentumConstants DEF BuyResults, SellResults, IsBuy
  <2> QED  BY <2>1, <2>2 DEF IInv, Ledger
<1>4. CASE r.id = Liquidation /\ pos # None
  <2>1. pos' = None /\ auth' = 0 /\ UNCHANGED <<tracker, pending, entry, recovered, hint>>
    BY <1>3, <1>4 DEF OrphanResult, IsBuy
  <2>2. Closes /\ ~Live(r) /\ pending' \in SUBSET pending
    BY <1>3, <1>4, <2>1 DEF Closes, Live
  <2> QED  BY <1>1, <2>1, <2>2, SellBooked
<1>5. CASE ~(r.id = Liquidation /\ pos # None) /\ r.side = "buy" /\ r.status = "confirmed" /\ r.fill # None
  <2>1. OrphanBuy(r)
    BY <1>5 DEF OrphanResult
  <2>2. CASE r.id \in recovered
    <3>1. UNCHANGED <<tracker, pos, pending, entry, recovered, hint, auth>>
      BY <2>1, <2>2 DEF OrphanBuy
    <3>2. ~Live(r) /\ pending' \in SUBSET pending /\ Same(pos, pos')
      BY <1>2, <2>2, <3>1 DEF Live
    <3> QED  BY <1>1, <3>1, <3>2, SellBooked
  <2>3. CASE r.id \notin recovered
    <3>1. Live(r)
      BY <1>5, <2>3 DEF Live, IsBuy
    <3> QED  BY <2>1, <3>1, OrphanFill
  <2> QED  BY <2>2, <2>3
<1>6. CASE ~(r.id = Liquidation /\ pos # None) /\ r.side = "buy" /\ r.status = "confirmed" /\ r.fill = None
  <2>1. entry' = Drop(entry, r.id) /\ UNCHANGED <<tracker, pos, pending, recovered, hint, auth>>
    BY <1>6 DEF OrphanResult
  <2> QED  BY <1>6, <2>1, OrphanUnread DEF IsBuy
<1>7. CASE ~(r.id = Liquidation /\ pos # None) /\ r.side = "sell" /\ r.status # "confirmed"
  <2>1. pos' = Unlatched(pos, TRUE) /\ UNCHANGED <<tracker, pending, entry, recovered, hint, auth>>
    BY <1>7 DEF OrphanResult
  <2>2. ~Live(r) /\ pending' \in SUBSET pending /\ Same(pos, pos')
    BY <1>2, <1>7, <2>1 DEF Live
  <2> QED  BY <1>1, <2>1, <2>2, SellBooked
<1>8. CASE /\ ~(r.id = Liquidation /\ pos # None) /\ ~(r.side = "buy" /\ r.status = "confirmed")
           /\ ~(r.side = "sell" /\ r.status # "confirmed")
  <2>1. UNCHANGED <<tracker, pos, pending, entry, recovered, hint, auth>>
    BY <1>8 DEF OrphanResult
  <2>2. ~Live(r) /\ pending' \in SUBSET pending /\ Same(pos, pos')
    BY <1>2, <1>8, <2>1 DEF Live, IsBuy
  <2> QED  BY <1>1, <2>1, <2>2, SellBooked
<1> QED  BY <1>4, <1>5, <1>6, <1>7, <1>8

\* handle_execution_result, first or repeated.
LEMMA HandleStep ==
    ASSUME IInv, NEW r \in results, NEW again \in BOOLEAN, HandleResult(r, again)
    PROVE  IInv'
<1>1. Taken(r)
  BY DEF HandleResult, Taken, Fault
<1>2. CASE Waiting(r.id)
  <2> DEFINE p == CHOOSE p \in pending : p.id = r.id
  <2>1. p \in pending /\ p.id = r.id
    BY <1>2 DEF Waiting
  <2>2. PendingResult(r, p)
    BY <1>2 DEF HandleResult
  <2> HIDE DEF p
  <2> QED  BY <1>1, <2>1, <2>2, PendingBuy, PendingSell
<1>3. CASE ~Waiting(r.id)
  BY <1>1, <1>3, OrphanStep DEF HandleResult
<1> QED  BY <1>2, <1>3

-----------------------------------------------------------------------------
(* The theorems.                                                             *)

\* Nothing is bought, waited for or held at the start.
LEMMA InitIInv == Init => IInv
<1> SUFFICES ASSUME Init PROVE IInv
  OBVIOUS
<1> USE DEF Init
<1>1. Types
  BY DEF Types
<1>2. Len(queue) = 0 /\ posting = None
  OBVIOUS
<1>3. OneBuy /\ OnePlace
  BY <1>2 DEF OneBuy, OnePlace
<1>4. Credit = 0 /\ ~Uncovered
  BY DEF Credit, Uncovered
<1>5. Ledger /\ Covered /\ Unsold /\ Roomy /\ FreshIsLive
  BY <1>4 DEF Ledger, Covered, Unsold, Roomy, FreshIsLive
<1> QED  BY <1>1, <1>3, <1>5 DEF IInv

\* Every step keeps the invariant.
LEMMA NextIInv == IInv /\ [Next]_vars => IInv'
<1> SUFFICES ASSUME IInv, [Next]_vars PROVE IInv'
  OBVIOUS
<1>1. CASE UNCHANGED vars
  <2>1. /\ UNCHANGED flow /\ UNCHANGED <<chain, was, bought, faults>> /\ UNCHANGED <<hint, auth, exits>>
        /\ pos' = pos
    BY <1>1 DEF vars, bot, tasks, world, flow
  <2>2. Types'
    BY <2>1 DEF IInv, Types, flow
  <2>3. Same(pos, pos')
    BY <2>1, LatchIs DEF IInv, Types
  <2> QED  BY <2>1, <2>2, <2>3, QuietStep
<1>2. CASE ProbeBuy \/ ScaleIn
  BY <1>2, BuyStep
<1>3. CASE ScaleInWindowExpired \/ CleanupTracker
  BY <1>3, TrackerStep
<1>4. CASE Work
  BY <1>4, DropStep, PublishStep, BookStep DEF Work
<1>5. CASE PublishFails
  BY <1>5, PublishFailsStep
<1>6. CASE Exit
  BY <1>6, ExitScanStep, ScanStep DEF Exit
<1>7. CASE \E t \in Tasks : GenerateExit(t) \/ GenerateExitFails(t)
  BY <1>7, GenerateExitStep, ScanStep
<1>8. CASE Handle \/ \E r \in results : HandleResult(r, TRUE)
  BY <1>8, HandleStep DEF Handle
<1>9. CASE \E p \in pending : CleanupStale(p)
  BY <1>9, StaleStep
<1>10. CASE Feeds
  BY <1>10, AuthorityStep, SnapshotStep, CompleteStep DEF Feeds
<1>11. CASE TimePasses
  BY <1>11, TimeStep
<1>12. CASE Engine
  BY <1>12, ExecuteBuy, ExecuteSell DEF Engine, Statuses
<1>13. CASE \E liquidation \in BOOLEAN : ForeignSale(liquidation)
  BY <1>13, ForeignStep
<1> QED  BY <1>1, <1>2, <1>3, <1>4, <1>5, <1>6, <1>7, <1>8, <1>9, <1>10, <1>11, <1>12, <1>13 DEF Next

\* The invariant holds in every reachable state.
LEMMA Inductive == Spec => []IInv
<1>1. Init => IInv
  BY InitIInv
<1>2. IInv /\ [Next]_vars => IInv'
  BY NextIInv
<1> QED  BY <1>1, <1>2, PTL DEF Spec

\* NeverDoubleFilled: with at most one failure, lost answer, redelivery, late
\* balance or foreign sale, the position handle_execution_result and the wallet
\* snapshots build is never larger than what was bought, whatever the order in
\* which a fill's result, its redelivery and the balance that shows it arrive.
THEOREM NeverDoubleFilled == Spec => []NoDoubleFill
<1>1. IInv => NoDoubleFill
  <2> SUFFICES ASSUME IInv, pos # None, faults <= 1 PROVE pos.amt <= bought
    BY DEF NoDoubleFill
  <2>1. pos.amt \in Nat /\ bought \in Nat /\ Credit \in Nat
    BY DEF IInv, Types, Positions, Credit, Fill
  <2>2. Room \/ Snapped
    BY DEF IInv, Roomy
  <2> QED  BY <2>1, <2>2 DEF Room, Snapped
<1> QED  BY <1>1, Inductive, PTL

\* What the steps do to a fresh position: the position vanishes only with a
\* confirmed sale, or with an authority record of a sale.
Protected == pos' # None \/ sold' \/ auth' = 0

\* Opening, latching and unlatching keep a position.
LEMMA NotClosed ==
    ASSUME pos \in Positions, NEW b \in BOOLEAN
    PROVE  /\ open_position(pos, Fill) # None /\ mark_exit_generated(pos) # None
           /\ Unlatched(pos, b) # None /\ [pos EXCEPT !.fresh = FALSE, !.cooling = FALSE] # None
           /\ [pos EXCEPT !.src = "Live"] # None
           /\ \A n \in Nat : [pos EXCEPT !.amt = n, !.latched = FALSE] # None
<1>1. pos # None
  BY NoneIs
<1>2. open_position(pos, Fill) # None
  <2>1. Fill \in Nat /\ pos \in Positions \cup {None}
    BY DEF Fill
  <2>2. open_position(pos, Fill) \in Positions
    BY <2>1, OpenIs
  <2> QED  BY <2>2, NoneIs
<1>3. mark_exit_generated(pos) # None /\ Unlatched(pos, b) # None
  BY <1>1, LatchIs DEF Same
<1>4. [pos EXCEPT !.fresh = FALSE, !.cooling = FALSE] # None /\ [pos EXCEPT !.src = "Live"] # None
  <2>1. Keeps(pos, [pos EXCEPT !.fresh = FALSE, !.cooling = FALSE])
    BY Flags
  <2>2. 0 \in Nat
    OBVIOUS
  <2>3. LET q == [pos EXCEPT !.src = "Live"] IN q \in Positions
    BY <2>2, Flags
  <2> QED  BY <2>1, <2>3, NoneIs DEF Keeps
<1>5. ASSUME NEW n \in Nat PROVE [pos EXCEPT !.amt = n, !.latched = FALSE] # None
  <2>1. FALSE \in BOOLEAN
    OBVIOUS
  <2>2. LET q == [pos EXCEPT !.amt = n, !.latched = FALSE] IN q \in Positions
    BY <2>1, Flags
  <2> QED  BY <2>2, NoneIs
<1> QED  BY <1>2, <1>3, <1>4, <1>5

\* The result of an intent closes a position only as a confirmed SELL.
LEMMA HandleProtects ==
    ASSUME IInv, pos # None, NEW r \in results, NEW again \in BOOLEAN, HandleResult(r, again)
    PROVE  Protected
<1>1. pos \in Positions /\ pos.amt \in Nat /\ TRUE \in BOOLEAN /\ r \in BuyResults \cup SellResults
  BY DEF IInv, Types, Positions
<1>2. /\ open_position(pos, Fill) # None /\ Unlatched(pos, TRUE) # None
      /\ [pos EXCEPT !.src = "Live"] # None
      /\ \A n \in Nat : [pos EXCEPT !.amt = n, !.latched = FALSE] # None
  BY <1>1, NotClosed
<1>3. CASE Waiting(r.id)
  <2> DEFINE p == CHOOSE p \in pending : p.id = r.id
  <2>1. p \in pending /\ p.id = r.id
    BY <1>3 DEF Waiting
  <2>2. PendingResult(r, p)
    BY <1>3 DEF HandleResult
  <2> HIDE DEF p
  <2>3. CASE IsBuy(p)
    <3>1. r.fill # None => r.fill = Fill
      BY <2>1, <2>3, SidesMatch DEF BuyResults
    <3>2. pos' = pos \/ pos' = open_position(pos, Fill)
      BY <2>2, <2>3, <3>1 DEF PendingResult, BuyConfirmed, IsBuy
    <3> QED  BY <1>2, <3>2 DEF Protected
  <2>4. CASE ~IsBuy(p) /\ r.status # "confirmed"
    BY <1>2, <2>2, <2>4 DEF PendingResult, IsBuy, Protected
  <2>5. CASE ~IsBuy(p) /\ r.status = "confirmed"
    <3>1. SellConfirmed(r)
      BY <2>2, <2>5 DEF PendingResult, IsBuy
    <3>2. r.fill \in Nat
      BY <2>1, <2>5, SidesMatch DEF IInv, Ledger, SellResults
    <3>3. CASE r.fill < pos.amt
      <4>1. pos' = [pos EXCEPT !.amt = @ - r.fill, !.latched = FALSE]
        BY <3>1, <3>3 DEF SellConfirmed
      <4>2. PICK n \in Nat : n = pos.amt - r.fill
        BY <1>1, <3>2, <3>3
      <4>3. pos' = [pos EXCEPT !.amt = n, !.latched = FALSE]
        BY <1>1, <4>1, <4>2 DEF Positions
      <4> QED  BY <1>2, <4>3 DEF Protected
    <3>4. CASE ~(r.fill < pos.amt)
      BY <3>1, <3>4 DEF SellConfirmed, Protected
    <3> QED  BY <3>3, <3>4
  <2> QED  BY <2>3, <2>4, <2>5
<1>4. CASE ~Waiting(r.id)
  <2>1. OrphanResult(r)
    BY <1>4 DEF HandleResult
  <2>2. CASE r.side = "buy" /\ r.status = "confirmed"
    <3>1. (r.fill # None => r.fill = Fill) /\ r.id # Liquidation
      BY <1>1, <2>2, MomentumConstants DEF BuyResults, SellResults
    <3>2. pos' = pos \/ pos' = open_position(pos, Fill) \/ pos' = [pos EXCEPT !.src = "Live"]
      BY <2>1, <2>2, <3>1 DEF OrphanResult, OrphanBuy
    <3> QED  BY <1>2, <3>2 DEF Protected
  <2>3. CASE ~(r.side = "buy" /\ r.status = "confirmed") /\ r.id = Liquidation
    <3>1. r.status = "confirmed"
      BY <2>3 DEF IInv, Ledger
    <3> QED  BY <2>1, <2>3, <3>1 DEF OrphanResult, Protected
  <2>4. CASE ~(r.side = "buy" /\ r.status = "confirmed") /\ r.id # Liquidation
    <3>1. pos' = pos \/ pos' = Unlatched(pos, TRUE)
      BY <2>1, <2>4 DEF OrphanResult
    <3> QED  BY <1>2, <3>1 DEF Protected
  <2> QED  BY <2>2, <2>3, <2>4
<1> QED  BY <1>3, <1>4

\* No step closes a fresh position without a sale.
LEMMA NextProtects ==
    ASSUME IInv, Next, pos # None, pos.fresh
    PROVE  Protected
<1>1. pos \in Positions /\ FALSE \in BOOLEAN /\ pos.src = "Live"
  BY DEF IInv, Types, FreshIsLive
<1>2. /\ mark_exit_generated(pos) # None /\ Unlatched(pos, FALSE) # None
      /\ [pos EXCEPT !.fresh = FALSE, !.cooling = FALSE] # None
  BY <1>1, NotClosed
<1>3. CASE ProbeBuy \/ ScaleIn \/ ScaleInWindowExpired \/ CleanupTracker
  BY <1>3 DEF ProbeBuy, ScaleIn, Buy, ScaleInWindowExpired, CleanupTracker, Protected
<1>4. CASE Work
  BY <1>2, <1>4 DEF Work, DropCancelledBuy, Publish, BookPublished, bot, Protected
<1>5. CASE PublishFails
  BY <1>2, <1>5 DEF PublishFails, Protected
<1>6. CASE Exit
  BY <1>6 DEF Exit, check_for_exits, reconcile_timed_exits, SpawnedScanEmpty, bot, Protected
<1>7. CASE \E t \in Tasks : GenerateExit(t) \/ GenerateExitFails(t)
  <2>1. PICK t \in Tasks : GenerateExit(t) \/ GenerateExitFails(t)
    BY <1>7
  <2>2. pos' = pos \/ pos' = mark_exit_generated(pos)
    BY <2>1 DEF GenerateExit, GenerateExitFails, bot
  <2> QED  BY <1>2, <2>2 DEF Protected
<1>8. CASE Handle \/ \E r \in results : HandleResult(r, TRUE)
  BY <1>8, HandleProtects DEF Handle
<1>9. CASE \E p \in pending : CleanupStale(p)
  BY <1>9 DEF CleanupStale, Protected
<1>10. CASE Feeds
  <2>1. ASSUME NEW a, NEW exec \in BOOLEAN, AuthorityUpdate(a, exec) PROVE Protected
    BY <2>1 DEF AuthorityUpdate, Protected
  <2>2. ASSUME NEW b, WalletSnapshot(b) PROVE Protected
    BY <1>1, <2>2 DEF WalletSnapshot, Protected
  <2>3. ASSUME NEW b, WalletSnapshotComplete(b) PROVE Protected
    BY <2>3 DEF WalletSnapshotComplete, Protected
  <2> QED  BY <1>10, <2>1, <2>2, <2>3 DEF Feeds
<1>11. CASE TimePasses
  BY <1>2, <1>11 DEF TimePasses, Protected
<1>12. CASE Engine
  BY <1>12 DEF Engine, Execute, bot, Protected
<1>13. CASE \E liquidation \in BOOLEAN : ForeignSale(liquidation)
  BY <1>13 DEF ForeignSale, bot, Protected
<1> QED  BY <1>3, <1>4, <1>5, <1>6, <1>7, <1>8, <1>9, <1>10, <1>11, <1>12, <1>13 DEF Next

\* GraceAlwaysProtects: whatever fails, is late or comes again, a position
\* younger than GHOST_CLEANUP_GRACE_SECS is closed only by a confirmed SELL, a
\* liquidation or an authority record of an execution; no balance read before
\* the BUY closes it.  A fresh position is never one a wallet snapshot opened,
\* which is what the invariant adds.
THEOREM GraceAlwaysProtects == Spec => GraceProtects
<1>1. ASSUME IInv, [Next]_vars
      PROVE  [(pos # None /\ pos.fresh /\ pos' = None) => (sold' \/ auth' = 0)]_vars
  BY <1>1, NextProtects DEF Protected
<1> QED  BY <1>1, Inductive, PTL DEF Spec, GraceProtects

=============================================================================
