---------------------------- MODULE CapitalLocks ----------------------------
(***************************************************************************)
(* The capital half of the execution engine's LockManager                  *)
(* (src/src/storage/locks.rs): the free native-SOL, WSOL and token         *)
(* balances, and the reservations ("capital locks") taken out of them.     *)
(*                                                                         *)
(* A step is one critical section of the parking_lot locks: try_lock_      *)
(* capital reads wsol_initialized before it takes any lock, and            *)
(* add_available_token_balance reads and writes under two separate locks,  *)
(* so each of these is two steps that other callers interleave with.       *)
(* Wall-clock time is abstract: "overdue" says that the lock has outlived  *)
(* its TTL.  "No lock" is a record whose phase is None, so that the map    *)
(* capital_locks is a total function.                                      *)
(***************************************************************************)
EXTENDS Integers, FiniteSets

CONSTANTS
    Intents,     \* intent ids that may hold a capital lock
    Mints,       \* token mints
    Sol,         \* Sol[i]: lamports intent i asks for (0 for a SELL)
    Tokens,      \* Tokens[i][m]: raw units of m intent i asks for (0 for a BUY)
    InitialSol,  \* argument of LockManager::new
    MaxLamports, \* bound: SOL and WSOL balances the wallet feed reports
    MaxUnits,    \* bound: token balances the wallet feed reports
    MaxFill      \* bound: a confirmed BUY fill is 1..MaxFill (0: no fills)

ASSUME IntentsFinite == IsFiniteSet(Intents)
ASSUME SolType       == Sol \in [Intents -> Nat]
ASSUME TokensType    == Tokens \in [Intents -> [Mints -> Nat]]
ASSUME BoundsType    == InitialSol \in Nat /\ MaxLamports \in Nat
                        /\ MaxUnits \in Nat /\ MaxFill \in Nat

VARIABLES
    available_sol,     \* native lamports not locked
    available_wsol,    \* WSOL lamports not locked
    wsol_initialized,  \* a WSOL balance was seen at least once
    available_tokens,  \* [Mints -> Nat], a missing entry reads as 0
    capital_locks,     \* [Intents -> lock record]
    trying,            \* local state of try_lock_capital between its two steps
    adding,            \* local state of add_available_token_balance
    chain_sol,         \* history: last native balance the wallet feed reported
    chain_wsol,        \* history: last WSOL balance the wallet feed reported
    base_sol,          \* history: native lamports locked at that report
    base_wsol          \* history: WSOL lamports locked at that report

balances == <<available_sol, available_wsol, available_tokens>>
reports  == <<chain_sol, chain_wsol, base_sol, base_wsol>>
vars     == <<balances, wsol_initialized, capital_locks, trying, adding, reports>>

Phases == {"None", "PreSend", "InFlight"}

NoLock == [phase |-> "None", sol_lamports |-> 0, reserves_trading_wsol |-> FALSE,
           tokens |-> [m \in Mints |-> 0],
           token_position_total_at_lock |-> [m \in Mints |-> 0],
           overdue |-> FALSE]

CapitalLock == [phase : Phases, sol_lamports : Nat, reserves_trading_wsol : BOOLEAN,
                tokens : [Mints -> Nat],
                token_position_total_at_lock : [Mints -> Nat],
                overdue : BOOLEAN]

NoAdd == [mint |-> "none", new_total |-> 0]

-----------------------------------------------------------------------------
(***************************************************************************)
(* Sums over locks.  Sum(f) counts one element per unit of every f[i],     *)
(* which makes it a cardinality that proofs can split.                     *)
(***************************************************************************)
Units(f) == UNION {{i} \X (1 .. f[i]) : i \in Intents}
Sum(f)   == Cardinality(Units(f))

NativeOf(locks) == [i \in Intents |->
    IF locks[i].reserves_trading_wsol THEN 0 ELSE locks[i].sol_lamports]
WsolOf(locks)   == [i \in Intents |->
    IF locks[i].reserves_trading_wsol THEN locks[i].sol_lamports ELSE 0]
TokensOf(locks, m) == [i \in Intents |-> locks[i].tokens[m]]

\* f restricted to the intents of S, 0 elsewhere.
Only(f, S) == [i \in Intents |-> IF i \in S THEN f[i] ELSE 0]

sum_locked_native_sol   == Sum(NativeOf(capital_locks))
sum_locked_wsol_trading == Sum(WsolOf(capital_locks))
sum_locked_tokens(m)    == Sum(TokensOf(capital_locks, m))

total_native_sol    == available_sol + sum_locked_native_sol
total_wsol_lamports == available_wsol + sum_locked_wsol_trading
total_tokens(m)     == available_tokens[m] + sum_locked_tokens(m)

saturating_sub(a, b) == IF a >= b THEN a - b ELSE 0
Larger(a, b) == IF a >= b THEN a ELSE b

contains_key(i) == capital_locks[i].phase # "None"

-----------------------------------------------------------------------------
Init ==
    /\ available_sol = InitialSol
    /\ available_wsol = 0
    /\ wsol_initialized = FALSE
    /\ available_tokens = [m \in Mints |-> 0]
    /\ capital_locks = [i \in Intents |-> NoLock]
    /\ trying = [i \in Intents |-> "idle"]
    /\ adding = [i \in Intents |-> NoAdd]
    /\ chain_sol = InitialSol /\ base_sol = 0
    /\ chain_wsol = 0 /\ base_wsol = 0

-----------------------------------------------------------------------------
(***************************************************************************)
(* Wallet feed.  The capital_locks read lock is held across the sum and    *)
(* the write, so each update is one step.                                  *)
(***************************************************************************)
ReportSol(v) ==
    /\ available_sol' = saturating_sub(v, sum_locked_native_sol)
    /\ chain_sol' = v
    /\ base_sol' = sum_locked_native_sol

\* Seeded defect: the report is stored without subtracting active locks.
ReportWsolUnreserved(v) ==
    /\ available_wsol' = v
    /\ wsol_initialized' = TRUE
    /\ chain_wsol' = v
    /\ base_wsol' = sum_locked_wsol_trading

ReportWsol(v) ==
    /\ available_wsol' = saturating_sub(v, sum_locked_wsol_trading)
    /\ wsol_initialized' = TRUE
    /\ chain_wsol' = v
    /\ base_wsol' = sum_locked_wsol_trading

update_native_sol_only(v) ==
    /\ ReportSol(v)
    /\ UNCHANGED <<available_wsol, wsol_initialized, available_tokens,
                   capital_locks, trying, adding, chain_wsol, base_wsol>>

update_wsol_only(v) ==
    /\ ReportWsol(v)
    /\ UNCHANGED <<available_sol, available_tokens, capital_locks, trying,
                   adding, chain_sol, base_sol>>

\* update_wallet_balances(sol, Some(wsol)); with None it is update_native_sol_only.
update_wallet_balances(v, w) ==
    /\ ReportSol(v)
    /\ ReportWsol(w)
    /\ UNCHANGED <<available_tokens, capital_locks, trying, adding>>

set_available_token_balance(m, v) ==
    /\ available_tokens' =
         [available_tokens EXCEPT ![m] = saturating_sub(v, sum_locked_tokens(m))]
    /\ UNCHANGED <<available_sol, available_wsol, wsol_initialized,
                   capital_locks, trying, adding, reports>>

\* The available_tokens.remove(mint) of clear_token_wallet_presence.
remove_available_tokens(m) ==
    /\ available_tokens' = [available_tokens EXCEPT ![m] = 0]
    /\ UNCHANGED <<available_sol, available_wsol, wsol_initialized,
                   capital_locks, trying, adding, reports>>

\* add_available_token_balance, first critical section: read the current total.
add_available_token_balance_read(i, m, fill) ==
    /\ adding[i] = NoAdd
    /\ available_tokens[m] + fill <= MaxUnits + MaxFill
    /\ adding' = [adding EXCEPT ![i] =
         [mint |-> m, new_total |-> available_tokens[m] + fill]]
    /\ UNCHANGED <<balances, wsol_initialized, capital_locks, trying, reports>>

\* Second critical section: write what was computed from the value read before.
add_available_token_balance_write(i) ==
    /\ adding[i] # NoAdd
    /\ available_tokens' =
         [available_tokens EXCEPT ![adding[i].mint] = adding[i].new_total]
    /\ adding' = [adding EXCEPT ![i] = NoAdd]
    /\ UNCHANGED <<available_sol, available_wsol, wsol_initialized,
                   capital_locks, trying, reports>>

-----------------------------------------------------------------------------
(***************************************************************************)
(* Releasing a set S of locks: lamports go back to the bucket recorded in  *)
(* the lock; tokens go back too unless the intent is a confirmed SELL.     *)
(***************************************************************************)
\* Seeded defect: the refunded bucket is chosen from the flag at release time.
ReleaseSetByFlag(S, restore_tokens) ==
    LET refund == Sum(Only(NativeOf(capital_locks), S)) + Sum(Only(WsolOf(capital_locks), S))
    IN /\ capital_locks' = [i \in Intents |-> IF i \in S THEN NoLock ELSE capital_locks[i]]
       /\ available_sol' = available_sol + (IF wsol_initialized THEN 0 ELSE refund)
       /\ available_wsol' = available_wsol + (IF wsol_initialized THEN refund ELSE 0)
       /\ available_tokens' = [m \in Mints |-> available_tokens[m] +
            (IF restore_tokens THEN Sum(Only(TokensOf(capital_locks, m), S)) ELSE 0)]

ReleaseSet(S, restore_tokens) ==
    /\ capital_locks' = [i \in Intents |-> IF i \in S THEN NoLock ELSE capital_locks[i]]
    /\ available_sol' = available_sol + Sum(Only(NativeOf(capital_locks), S))
    /\ available_wsol' = available_wsol + Sum(Only(WsolOf(capital_locks), S))
    /\ available_tokens' = [m \in Mints |-> available_tokens[m] +
         (IF restore_tokens THEN Sum(Only(TokensOf(capital_locks, m), S)) ELSE 0)]

release_capital_lock(i, restore_tokens) ==
    /\ ReleaseSet({i}, restore_tokens)
    /\ UNCHANGED <<wsol_initialized, trying, adding, reports>>

release_locks(i) == release_capital_lock(i, TRUE)

release_locks_after_confirmed_sell(i) == release_capital_lock(i, FALSE)

\* Seeded defect: expiry forgets the phase of the lock.
ExpiredAnyPhase == {i \in Intents :
                      capital_locks[i].phase # "None" /\ capital_locks[i].overdue}

\* Pre-send locks that outlived their TTL; in-flight reservations never do.
Expired == {i \in Intents :
              capital_locks[i].phase = "PreSend" /\ capital_locks[i].overdue}

\* Seeded defect: expiry refunds lamports but not tokens.
cleanup_expired_lamports_only ==
    /\ ReleaseSet(Expired, FALSE)
    /\ UNCHANGED <<wsol_initialized, trying, adding, reports>>

cleanup_expired ==
    /\ ReleaseSet(Expired, TRUE)
    /\ UNCHANGED <<wsol_initialized, trying, adding, reports>>

-----------------------------------------------------------------------------
(***************************************************************************)
(* Acquiring.                                                              *)
(***************************************************************************)
is_empty(tokens) == \A m \in Mints : tokens[m] = 0

\* First step: cleanup_expired, then the bucket is chosen from the flag.
try_lock_capital_begin(i) ==
    /\ trying[i] = "idle"
    /\ ReleaseSet(Expired, TRUE)
    /\ trying' = [trying EXCEPT ![i] =
         IF is_empty(Tokens[i]) /\ Sol[i] > 0 /\ wsol_initialized THEN "wsol" ELSE "sol"]
    /\ UNCHANGED <<wsol_initialized, adding, reports>>

\* Seeded defect: only the native balance is checked, whatever is reserved.
SufficientNative(i) == available_sol >= Sol[i]

Sufficient(i) ==
    /\ trying[i] = "wsol" => available_wsol >= Sol[i]
    /\ trying[i] = "sol" /\ Sol[i] > 0 => available_sol >= Sol[i]
    /\ \A m \in Mints : available_tokens[m] >= Tokens[i][m]

LockResult(i) ==
    CASE contains_key(i)                    -> "Conflict"
      [] ~contains_key(i) /\ ~Sufficient(i) -> "InsufficientCapital"
      [] ~contains_key(i) /\ Sufficient(i)  -> "Acquired"

\* Second step, Acquired: all four maps are write-locked.
try_lock_capital_acquire(i) ==
    /\ trying[i] # "idle"
    /\ LockResult(i) = "Acquired"
    /\ available_wsol' = available_wsol - (IF trying[i] = "wsol" THEN Sol[i] ELSE 0)
    /\ available_sol' = available_sol - (IF trying[i] = "sol" THEN Sol[i] ELSE 0)
    /\ available_tokens' = [m \in Mints |-> available_tokens[m] - Tokens[i][m]]
    /\ capital_locks' = [capital_locks EXCEPT ![i] =
         [phase |-> "PreSend", sol_lamports |-> Sol[i],
          reserves_trading_wsol |-> (trying[i] = "wsol"), tokens |-> Tokens[i],
          token_position_total_at_lock |->
            [m \in Mints |-> IF Tokens[i][m] > 0 THEN available_tokens[m] ELSE 0],
          overdue |-> FALSE]]
    /\ trying' = [trying EXCEPT ![i] = "idle"]
    /\ UNCHANGED <<wsol_initialized, adding, reports>>

\* Second step, Conflict or InsufficientCapital: nothing changes.
try_lock_capital_fail(i) ==
    /\ trying[i] # "idle"
    /\ LockResult(i) # "Acquired"
    /\ trying' = [trying EXCEPT ![i] = "idle"]
    /\ UNCHANGED <<balances, wsol_initialized, capital_locks, adding, reports>>

-----------------------------------------------------------------------------
(***************************************************************************)
(* Life of a lock.                                                         *)
(***************************************************************************)
renew_capital_lock_ttl(i) ==
    /\ capital_locks[i].phase = "PreSend"
    /\ capital_locks' = [capital_locks EXCEPT ![i].overdue = FALSE]
    /\ UNCHANGED <<balances, wsol_initialized, trying, adding, reports>>

promote_capital_lock_to_in_flight(i) ==
    /\ contains_key(i)
    /\ capital_locks' = [capital_locks EXCEPT ![i].phase = "InFlight"]
    /\ UNCHANGED <<balances, wsol_initialized, trying, adding, reports>>

\* Time passes: created_at + ttl of i's lock lies in the past from now on.
TtlElapses(i) ==
    /\ contains_key(i)
    /\ ~capital_locks[i].overdue
    /\ capital_locks' = [capital_locks EXCEPT ![i].overdue = TRUE]
    /\ UNCHANGED <<balances, wsol_initialized, trying, adding, reports>>

-----------------------------------------------------------------------------
WalletFeed ==
    \/ \E v \in 0 .. MaxLamports : update_native_sol_only(v)
    \/ \E v \in 0 .. MaxLamports : update_wsol_only(v)
    \/ \E v, w \in 0 .. MaxLamports : update_wallet_balances(v, w)
    \/ \E m \in Mints, v \in 0 .. MaxUnits : set_available_token_balance(m, v)

Caller(i) ==
    \/ try_lock_capital_begin(i)
    \/ try_lock_capital_acquire(i)
    \/ try_lock_capital_fail(i)
    \/ renew_capital_lock_ttl(i)
    \/ promote_capital_lock_to_in_flight(i)
    \/ release_locks(i)
    \/ release_locks_after_confirmed_sell(i)
    \/ \E m \in Mints, fill \in 1 .. MaxFill : add_available_token_balance_read(i, m, fill)
    \/ add_available_token_balance_write(i)
    \/ TtlElapses(i)

Next ==
    \/ WalletFeed
    \/ cleanup_expired
    \/ \E m \in Mints : remove_available_tokens(m)
    \/ \E i \in Intents : Caller(i)

Spec == Init /\ [][Next]_vars

-----------------------------------------------------------------------------
(***************************************************************************)
(* Correctness.                                                            *)
(***************************************************************************)

\* Every balance is a natural number: the unchecked u64 subtractions of
\* try_lock_capital never wrap, whatever expired or was reported in between.
TypeOK ==
    /\ available_sol \in Nat /\ available_wsol \in Nat
    /\ wsol_initialized \in BOOLEAN
    /\ available_tokens \in [Mints -> Nat]
    /\ capital_locks \in [Intents -> CapitalLock]
    /\ trying \in [Intents -> {"idle", "sol", "wsol"}]
    /\ adding \in [Intents -> [mint : Mints, new_total : Nat] \cup {NoAdd}]
    /\ chain_sol \in Nat /\ chain_wsol \in Nat
    /\ base_sol \in Nat /\ base_wsol \in Nat

\* A missing map entry holds nothing (what the total function encodes).
AbsentIsNoLock == \A i \in Intents :
                    capital_locks[i].phase = "None" => capital_locks[i] = NoLock

\* Conservation of native SOL (I-20): free plus reserved lamports are exactly
\* what the wallet feed last reported, or what was reserved at that report if
\* that was more.  No interleaving of lock, release, expiry, renewal and
\* promotion creates or loses a lamport, also when wsol_initialized flips
\* while a native reservation is open.
NativeBooks == total_native_sol = Larger(chain_sol, base_sol)

\* Conservation of WSOL (I-20), the same law for the trading bucket.
WsolBooks == total_wsol_lamports = Larger(chain_wsol, base_wsol)

\* The inductive invariant behind the two conservation laws.
IInv == TypeOK /\ AbsentIsNoLock /\ NativeBooks /\ WsolBooks

\* An in-flight reservation (TX sent, confirmation pending) ends only when its
\* own intent releases it at a terminal outcome: no TTL, clean-up or wallet
\* report gives the capital to somebody else.
InFlightImmune ==
    [][\A i \in Intents :
         capital_locks[i].phase = "InFlight" /\ capital_locks'[i] # capital_locks[i]
           => \/ capital_locks'[i] = [capital_locks[i] EXCEPT !.overdue = TRUE]
              \/ release_locks(i)
              \/ release_locks_after_confirmed_sell(i)]_vars

\* Reserving, expiring, renewing, promoting and releasing move tokens between
\* "available" and "locked" only; the sum changes when the wallet or a fill
\* says so, or when a confirmed SELL has spent the locked amount.
TokensLeaveOnlyWhenSold ==
    [][\A m \in Mints :
         total_tokens(m)' # total_tokens(m)
           => \/ \E v \in 0 .. MaxUnits : set_available_token_balance(m, v)
              \/ remove_available_tokens(m)
              \/ \E i \in Intents : add_available_token_balance_write(i)
              \/ \E i \in Intents : release_locks_after_confirmed_sell(i)]_vars
=============================================================================
