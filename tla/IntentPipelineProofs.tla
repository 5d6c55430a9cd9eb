------------------------ MODULE IntentPipelineProofs ------------------------
(***************************************************************************)
(* Proofs about IntentPipeline: no exit of process_intent leaks a          *)
(* reservation, a transaction in flight keeps its own, and when everything *)
(* has settled the books show what the wallet holds.                       *)
(*                                                                         *)
(* The books come from CapitalLocksProofs: the pipeline changes the        *)
(* LockManager only through its operations, so the conservation law proved *)
(* there for every sequence of operations holds here.                      *)
(***************************************************************************)
EXTENDS IntentPipeline, FiniteSetTheorems, TLAPS

CapP == INSTANCE CapitalLocksProofs WITH InitialSol <- 0, MaxLamports <- 0, MaxFill <- MaxUnits

Labels == Idle \cup PreSend \cup PostSend
          \cup {"reject", "gates", "expire", "pools", "capital", "abort"}
Outcomes == {"none", "Confirmed", "FailedConfirmed", "Sent", "Rejected", "Expired"}
Reports == [slot : Nat, amount : Nat]

Types ==
    /\ world \in Worlds
    /\ pc \in [Tasks -> Labels] /\ outcome \in [Tasks -> Outcomes]
    /\ submitted \subseteq Tasks
    /\ wallet \in [Accounts -> Nat]
    /\ feed \in [Accounts -> Seq(Reports)]

\* The LockManager's own invariant: types, no lock without a phase, and the
\* two conservation laws.
Books == CapP!IInv

\* From the moment a task has tried to reserve until it has released, it is
\* on its way to a release of its intent's locks.
Obliged == {"plan", "send", "sending", "promote", "abort"} \cup PostSend
Owed ==
    ~PublishFails =>
      \A i \in Intents :
        capital_locks[i] # Cap!NoLock => \E t \in Tasks : IntentOf[t] = i /\ pc[t] \in Obliged

\* While the TTL covers planning and t is the only delivery of its intent, the
\* reservation t took is there: not overdue before the send, immune after it.
Planning == {"plan", "send", "sending", "promote"}
Flying(t) == pc[t] = "confirm" \/ (pc[t] \in PostSend /\ outcome[t] # "Rejected")
Alone(t) == TtlCovers /\ \A u \in Tasks : IntentOf[u] = IntentOf[t] => u = t
Reserved(t) ==
    LET l == capital_locks[IntentOf[t]]
    IN  /\ pc[t] \in Planning => l.phase = "PreSend" /\ ~l.overdue /\ l.tokens = Tokens[IntentOf[t]]
        /\ Flying(t) => l.phase = "InFlight" /\ l.tokens = Tokens[IntentOf[t]]
Kept == \A t \in Tasks : Alone(t) => Reserved(t)

\* The last report on its way, or the last one applied, is the wallet's WSOL.
Fed == LET f == feed["WSOL"]
       IN  IF f = <<>> THEN chain_wsol = wallet["WSOL"]
           ELSE f[Len(f)].amount = wallet["WSOL"]

IInv == Types /\ Books /\ Owed /\ Kept /\ Fed

-----------------------------------------------------------------------------
(***************************************************************************)
(* The LockManager.  Cap and CapP are two instances of the same definitions. *)
(***************************************************************************)
\* The assumptions of CapitalLocks, for this instance.
LEMMA CapAssumptions ==
    /\ CapP!IsFiniteSet(Intents) /\ Sol \in [Intents -> Nat]
    /\ Tokens \in [Intents -> [Mints -> Nat]] /\ MaxUnits \in Nat /\ 0 \in Nat
BY PipelineType DEF PipelineType, CapP!IsFiniteSet, IsFiniteSet

\* Cardinality means the same in both instances.
LEMMA CardinalitySame ==
    ASSUME NEW S
    PROVE  CapP!Cardinality(S) = Cap!Cardinality(S) /\ CapP!Cardinality(S) = Cardinality(S)
BY DEF CapP!Cardinality, Cap!Cardinality, Cardinality, CapP!IsFiniteSet, Cap!IsFiniteSet,
       IsFiniteSet

\* So does the sum over the locks.
LEMMA SumSame ==
    ASSUME NEW f
    PROVE  CapP!Sum(f) = Cap!Sum(f)
BY CardinalitySame DEF CapP!Sum, Cap!Sum, CapP!Units, Cap!Units

\* Every operation of the LockManager the pipeline calls.
LockStep ==
    \/ UNCHANGED locks
    \/ \E v \in Nat : Cap!update_wsol_only(v)
    \/ \E m \in Mints, v \in Nat : Cap!set_available_token_balance(m, v)
    \/ \E m \in Mints : Cap!remove_available_tokens(m)
    \/ Cap!cleanup_expired
    \/ \E i \in Intents, m \in Mints, n \in Nat : Cap!add_available_token_balance_read(i, m, n)
    \/ \E i \in Intents :
         \/ Cap!try_lock_capital_begin(i)
         \/ Cap!try_lock_capital_acquire(i)
         \/ Cap!try_lock_capital_fail(i)
         \/ Cap!renew_capital_lock_ttl(i)
         \/ Cap!promote_capital_lock_to_in_flight(i)
         \/ Cap!release_locks(i)
         \/ Cap!release_locks_after_confirmed_sell(i)
         \/ Cap!add_available_token_balance_write(i)
         \/ Cap!TtlElapses(i)

\* ... releasing a set of locks,
LEMMA ReleaseSame ==
    ASSUME NEW S, NEW r
    PROVE  Cap!ReleaseSet(S, r) => CapP!ReleaseSet(S, r)
BY SumSame DEF Cap!ReleaseSet, CapP!ReleaseSet, Cap!NoLock, CapP!NoLock, Cap!Only, CapP!Only,
   Cap!WsolOf, CapP!WsolOf, Cap!NativeOf, CapP!NativeOf, Cap!TokensOf, CapP!TokensOf

\* ... the set of expired locks,
LEMMA ExpirySame == Cap!Expired = CapP!Expired
BY DEF Cap!Expired, CapP!Expired

\* ... and every operation on the lock of one intent.
LEMMA CallsSame ==
    ASSUME NEW i \in Intents
    PROVE  /\ Cap!try_lock_capital_begin(i) => CapP!try_lock_capital_begin(i)
           /\ Cap!try_lock_capital_acquire(i) => CapP!try_lock_capital_acquire(i)
           /\ Cap!try_lock_capital_fail(i) => CapP!try_lock_capital_fail(i)
           /\ Cap!renew_capital_lock_ttl(i) => CapP!renew_capital_lock_ttl(i)
           /\ Cap!promote_capital_lock_to_in_flight(i) => CapP!promote_capital_lock_to_in_flight(i)
           /\ Cap!release_locks(i) => CapP!release_locks(i)
           /\ Cap!release_locks_after_confirmed_sell(i) => CapP!release_locks_after_confirmed_sell(i)
           /\ Cap!add_available_token_balance_write(i) => CapP!add_available_token_balance_write(i)
           /\ Cap!TtlElapses(i) => CapP!TtlElapses(i)
<1>1. Cap!try_lock_capital_begin(i) => CapP!try_lock_capital_begin(i)
  BY ReleaseSame, ExpirySame DEF Cap!try_lock_capital_begin, CapP!try_lock_capital_begin,
     Cap!is_empty, CapP!is_empty, Cap!reports, CapP!reports
<1>2. Cap!try_lock_capital_acquire(i) => CapP!try_lock_capital_acquire(i)
  BY DEF Cap!try_lock_capital_acquire, CapP!try_lock_capital_acquire, Cap!LockResult,
     CapP!LockResult, Cap!Sufficient, CapP!Sufficient, Cap!contains_key, CapP!contains_key,
     Cap!reports, CapP!reports
<1>3. Cap!try_lock_capital_fail(i) => CapP!try_lock_capital_fail(i)
  BY DEF Cap!try_lock_capital_fail, CapP!try_lock_capital_fail, Cap!LockResult,
     CapP!LockResult, Cap!Sufficient, CapP!Sufficient, Cap!contains_key, CapP!contains_key,
     Cap!balances, CapP!balances, Cap!reports, CapP!reports
<1>4. /\ Cap!renew_capital_lock_ttl(i) => CapP!renew_capital_lock_ttl(i)
      /\ Cap!promote_capital_lock_to_in_flight(i) => CapP!promote_capital_lock_to_in_flight(i)
      /\ Cap!TtlElapses(i) => CapP!TtlElapses(i)
  BY DEF Cap!renew_capital_lock_ttl, CapP!renew_capital_lock_ttl,
     Cap!promote_capital_lock_to_in_flight, CapP!promote_capital_lock_to_in_flight,
     Cap!TtlElapses, CapP!TtlElapses, Cap!contains_key, CapP!contains_key,
     Cap!balances, CapP!balances, Cap!reports, CapP!reports
<1>5. /\ Cap!release_locks(i) => CapP!release_locks(i)
      /\ Cap!release_locks_after_confirmed_sell(i) => CapP!release_locks_after_confirmed_sell(i)
  BY ReleaseSame DEF Cap!release_locks, CapP!release_locks,
     Cap!release_locks_after_confirmed_sell, CapP!release_locks_after_confirmed_sell,
     Cap!release_capital_lock, CapP!release_capital_lock,
     Cap!reports, CapP!reports
<1>6. Cap!add_available_token_balance_write(i) => CapP!add_available_token_balance_write(i)
  BY DEF Cap!add_available_token_balance_write, CapP!add_available_token_balance_write,
     Cap!NoAdd, CapP!NoAdd, Cap!reports, CapP!reports
<1> QED  BY <1>1, <1>2, <1>3, <1>4, <1>5, <1>6

\* A step that leaves locks, lamports and reports alone keeps the books.
LEMMA BooksUntouched ==
    ASSUME Books, CapP!TypeOK',
           UNCHANGED <<available_sol, available_wsol, capital_locks,
                       chain_sol, chain_wsol, base_sol, base_wsol>>
    PROVE  Books'
BY DEF Books, CapP!IInv, CapP!AbsentIsNoLock, CapP!NativeBooks, CapP!WsolBooks,
   CapP!total_native_sol, CapP!total_wsol_lamports, CapP!sum_locked_native_sol,
   CapP!sum_locked_wsol_trading, CapP!Larger, CapP!NoLock

\* A call of the LockManager keeps the books.
LEMMA LockStepBooks == Books /\ LockStep => Books'
<1> SUFFICES ASSUME Books, LockStep PROVE Books'
  OBVIOUS
<1>0. CapP!IInv /\ CapP!TypeOK
  BY DEF Books, CapP!IInv
<1>1. CASE UNCHANGED locks
  <2>1. CapP!TypeOK'
    BY <1>0, <1>1 DEF locks, CapP!TypeOK
  <2> QED  BY <1>1, <2>1, BooksUntouched DEF locks
<1>2. ASSUME NEW v \in Nat, Cap!update_wsol_only(v) PROVE Books'
  <2>1. CapP!ReportWsol(v) /\ UNCHANGED capital_locks
    BY <1>2, SumSame DEF Cap!update_wsol_only, Cap!ReportWsol, CapP!ReportWsol,
       Cap!saturating_sub, CapP!saturating_sub, Cap!sum_locked_wsol_trading,
       CapP!sum_locked_wsol_trading, Cap!WsolOf, CapP!WsolOf
  <2>2. CapP!WsolBooks' /\ available_wsol' \in Nat /\ chain_wsol' \in Nat /\ base_wsol' \in Nat
    BY <1>0, <2>1, CapAssumptions, CapP!ReportWsolStep
  <2>3. UNCHANGED <<available_sol, available_tokens, capital_locks, trying, adding,
                    chain_sol, base_sol>> /\ wsol_initialized' = TRUE
    BY <1>2 DEF Cap!update_wsol_only, Cap!ReportWsol
  <2>4. CapP!TypeOK'
    BY <1>0, <2>2, <2>3 DEF CapP!TypeOK
  <2>5. CapP!AbsentIsNoLock' /\ CapP!NativeBooks'
    BY <1>0, <2>3 DEF CapP!IInv, CapP!AbsentIsNoLock, CapP!NativeBooks, CapP!total_native_sol,
       CapP!sum_locked_native_sol, CapP!Larger, CapP!NoLock
  <2> QED  BY <2>2, <2>4, <2>5 DEF Books, CapP!IInv
<1>3. ASSUME NEW m \in Mints, NEW v \in Nat, Cap!set_available_token_balance(m, v) PROVE Books'
  <2> DEFINE a == Cap!saturating_sub(v, Cap!sum_locked_tokens(m))
  <2>1. CapP!sum_locked_tokens(m) \in Nat
    BY <1>0, CapAssumptions, CapP!SumsTyped
  <2>2. Cap!sum_locked_tokens(m) = CapP!sum_locked_tokens(m)
    BY SumSame DEF Cap!sum_locked_tokens, CapP!sum_locked_tokens, Cap!TokensOf, CapP!TokensOf
  <2>3. a \in Nat
    BY <2>1, <2>2 DEF Cap!saturating_sub
  <2>4. /\ available_tokens' = [available_tokens EXCEPT ![m] = a]
        /\ UNCHANGED <<available_sol, available_wsol, wsol_initialized, capital_locks, trying,
                       adding, chain_sol, chain_wsol, base_sol, base_wsol>>
    BY <1>3 DEF Cap!set_available_token_balance, Cap!reports
  <2> HIDE DEF a
  <2>5. CapP!TypeOK'
    BY <1>0, <2>3, <2>4 DEF CapP!TypeOK
  <2> QED  BY <2>4, <2>5, BooksUntouched
<1>4. ASSUME NEW i \in Intents, NEW m \in Mints, NEW n \in Nat,
             Cap!add_available_token_balance_read(i, m, n)
      PROVE  Books'
  <2>1. /\ adding' = [adding EXCEPT ![i] = [mint |-> m, new_total |-> available_tokens[m] + n]]
        /\ UNCHANGED <<available_sol, available_wsol, available_tokens, wsol_initialized,
                       capital_locks, trying, chain_sol, chain_wsol, base_sol, base_wsol>>
    BY <1>4 DEF Cap!add_available_token_balance_read, Cap!balances, Cap!reports
  <2>2. [mint |-> m, new_total |-> available_tokens[m] + n] \in [mint : Mints, new_total : Nat]
    BY <1>0 DEF CapP!TypeOK
  <2>3. CapP!TypeOK'
    BY <1>0, <2>1, <2>2 DEF CapP!TypeOK
  <2> QED  BY <2>1, <2>3, BooksUntouched
<1>5. ASSUME CapP!Next PROVE Books'
  BY <1>0, <1>5, CapAssumptions, CapP!NextIInv DEF Books
<1>6. CASE Cap!cleanup_expired
  BY <1>5, <1>6, ReleaseSame, ExpirySame
  DEF Cap!cleanup_expired, CapP!cleanup_expired, CapP!Next, Cap!reports, CapP!reports
<1>7. ASSUME NEW m \in Mints, Cap!remove_available_tokens(m) PROVE Books'
  BY <1>5, <1>7
  DEF Cap!remove_available_tokens, CapP!remove_available_tokens, CapP!Next, Cap!reports, CapP!reports
<1>8. ASSUME NEW i \in Intents,
             \/ Cap!try_lock_capital_begin(i)
             \/ Cap!try_lock_capital_acquire(i)
             \/ Cap!try_lock_capital_fail(i)
             \/ Cap!renew_capital_lock_ttl(i)
             \/ Cap!promote_capital_lock_to_in_flight(i)
             \/ Cap!release_locks(i)
             \/ Cap!release_locks_after_confirmed_sell(i)
             \/ Cap!add_available_token_balance_write(i)
             \/ Cap!TtlElapses(i)
      PROVE  Books'
  <2>1. CapP!Caller(i)
    BY <1>8, CallsSame DEF CapP!Caller
  <2> QED  BY <1>5, <2>1 DEF CapP!Next
<1> QED  BY <1>1, <1>2, <1>3, <1>4, <1>6, <1>7, <1>8 DEF LockStep

-----------------------------------------------------------------------------
(***************************************************************************)
(* What a step of the pipeline does, for the parts of the invariant.       *)
(***************************************************************************)
LEMMA WorldTyped ==
    ASSUME Types
    PROVE  /\ IntentOf \in [Tasks -> Intents]
           /\ TtlCovers \in BOOLEAN /\ PublishFails \in BOOLEAN
BY PipelineType DEF Types, IntentOf, TtlCovers, PublishFails

\* A lock is left alone, or it was overdue before the send and is given back.
Spared(i) == \/ capital_locks'[i] = capital_locks[i]
             \/ i \in Cap!Expired /\ capital_locks'[i] = Cap!NoLock

\* The steps of a task, by what they do to the locks.  Those that leave the
\* locks alone:
Quiet(t) ==
    \/ Deliver(t) \/ Admit(t)
    \/ \E verdict \in {"expire", "reject", "pools"} : Gates(t, verdict)
    \/ \E verdict \in {"abort", "capital"} : LockPools(t, verdict)
    \/ \E verdict \in {"abort", "send"} : PlanAndSimulate(t, verdict)
    \/ SendGate(t) \/ SendDisabled(t) \/ Submit(t) \/ SendOk(t) \/ SendErr(t)
    \/ \E o \in {"Confirmed", "FailedConfirmed", "Sent", "Rejected"} : Confirm(t, o)
    \/ Record(t) \/ RecordFails(t)
    \/ \E m \in Mints, known \in BOOLEAN : AccountBuy(t, m, known)
    \/ Reject(t) \/ Expire(t)

\* Every step of a task is a call of the LockManager, or none.
LEMMA TaskLocks ==
    ASSUME Types, NEW t \in Tasks, Deliver(t) \/ Task(t)
    PROVE  LockStep
<1>0. IntentOf[t] \in Intents
  BY WorldTyped
<1>1. CASE Quiet(t)
  <2>1. UNCHANGED locks
    BY <1>1 DEF Quiet, Deliver, Admit, Gates, LockPools, PlanAndSimulate, SendGate, SendDisabled,
       Submit, SendOk, SendErr, Confirm, Record, RecordFails, AccountBuy, Reject, Expire
  <2> QED  BY <2>1 DEF LockStep
<1>2. CASE LockCapitalBegin(t) \/ LockCapitalAcquire(t) \/ LockCapitalFail(t) \/ AddWrite(t)
  BY <1>0, <1>2 DEF LockCapitalBegin, LockCapitalAcquire, LockCapitalFail, AddWrite, LockStep
<1>3. ASSUME NEW renew \in BOOLEAN, Recover(t, renew) PROVE LockStep
  BY <1>0, <1>3 DEF Recover, LockStep
<1>4. CASE Promote(t)
  BY <1>0, <1>4 DEF Promote, LockStep
<1>5. ASSUME NEW m \in Mints, NEW known \in BOOLEAN, AccountSell(t, m, known) PROVE LockStep
  BY <1>5 DEF AccountSell, LockStep
<1>6. ASSUME NEW m \in Mints, AddRead(t, m) PROVE LockStep
  <2>1. Fill[IntentOf[t]][m] \in Nat
    BY <1>0, PipelineType
  <2>2. Cap!add_available_token_balance_read(IntentOf[t], m, Fill[IntentOf[t]][m])
    BY <1>6 DEF AddRead
  <2> QED  BY <1>0, <2>1, <2>2 DEF LockStep
<1>7. CASE Release(t) \/ Abort(t)
  BY <1>0, <1>7 DEF Release, Abort, LockStep
<1> QED  BY <1>1, <1>2, <1>3, <1>4, <1>5, <1>6, <1>7 DEF Task, Quiet

\* A snapshot that is applied is a report of a natural amount.
LEMMA SnapshotLocks ==
    ASSUME Types, NEW a \in Accounts, NEW k \in 1 .. Len(feed[a]), Snapshot(a, k)
    PROVE  /\ LockStep /\ feed[a][k] \in Reports
           /\ capital_locks' = capital_locks
           /\ a = "WSOL" => chain_wsol' = feed[a][k].amount
           /\ a # "WSOL" => chain_wsol' = chain_wsol
<1> DEFINE s == feed[a][k]
<1>0. s \in Reports
  BY DEF Types
<1>1. s.amount \in Nat
  BY <1>0 DEF Reports
<1>2. Apply(a, s)
  BY DEF Snapshot
<1> HIDE DEF s
<1>3. CASE a = "WSOL"
  <2>1. Cap!update_wsol_only(s.amount)
    BY <1>2, <1>3 DEF Apply
  <2>2. capital_locks' = capital_locks /\ chain_wsol' = s.amount
    BY <2>1 DEF Cap!update_wsol_only, Cap!ReportWsol
  <2>3. LockStep
    BY <1>1, <2>1 DEF LockStep
  <2> QED  BY <1>0, <1>3, <2>2, <2>3 DEF s
<1>4. CASE a # "WSOL" /\ Stale(a, s)
  <2>1. UNCHANGED locks
    BY <1>2, <1>4 DEF Apply
  <2>2. capital_locks' = capital_locks /\ chain_wsol' = chain_wsol
    BY <2>1 DEF locks
  <2>3. LockStep
    BY <2>1 DEF LockStep
  <2> QED  BY <1>0, <1>4, <2>2, <2>3 DEF s
<1>5. CASE a # "WSOL" /\ ~Stale(a, s)
  <2>1. Cap!set_available_token_balance(a, s.amount)
    BY <1>2, <1>5 DEF Apply
  <2>2. capital_locks' = capital_locks /\ chain_wsol' = chain_wsol
    BY <2>1 DEF Cap!set_available_token_balance, Cap!reports
  <2>3. a \in Mints
    BY <1>5 DEF Accounts
  <2>4. LockStep
    BY <1>1, <2>1, <2>3 DEF LockStep
  <2> QED  BY <1>0, <1>5, <2>2, <2>4 DEF s
<1> QED  BY <1>3, <1>4, <1>5

\* Every step of the system calls the LockManager at most once.
LEMMA NextLocks == Types /\ Next => LockStep
<1> SUFFICES ASSUME Types, Next PROVE LockStep
  OBVIOUS
<1>1. ASSUME NEW t \in Tasks, LandOk(t) \/ LandErr(t) PROVE LockStep
  BY <1>1 DEF LandOk, LandErr, LockStep
<1>2. ASSUME NEW i \in Intents, LockTtlElapses(i) PROVE LockStep
  BY <1>2 DEF LockTtlElapses, LockStep
<1>3. CASE PeriodicCleanup
  BY <1>3 DEF PeriodicCleanup, LockStep
<1> QED  BY <1>1, <1>2, <1>3, TaskLocks, SnapshotLocks DEF Next

\* A step of a task moves that task only, and touches only the lock of its own
\* intent or expired ones.
LEMMA TaskFrame ==
    ASSUME Types, Books, NEW t \in Tasks, Deliver(t) \/ Task(t)
    PROVE  /\ \E l \in Labels : pc' = [pc EXCEPT ![t] = l]
           /\ \E o \in Outcomes : outcome' = [outcome EXCEPT ![t] = o]
           /\ submitted' \subseteq Tasks
           /\ UNCHANGED <<wallet, feed, chain_wsol>>
           /\ \A i \in Intents \ {IntentOf[t]} : Spared(i)
<1>0. /\ pc \in [Tasks -> Labels] /\ outcome \in [Tasks -> Outcomes] /\ submitted \subseteq Tasks
      /\ IntentOf[t] \in Intents /\ pc[t] \in Labels
      /\ capital_locks \in [Intents -> CapP!CapitalLock]
  BY WorldTyped DEF Types, Books, CapP!IInv, CapP!TypeOK
<1>a. /\ pc = [pc EXCEPT ![t] = pc[t]] /\ outcome = [outcome EXCEPT ![t] = outcome[t]]
      /\ outcome[t] \in Outcomes
  BY <1>0
<1>1. CASE Quiet(t)
  <2>1. \E l \in Labels : pc' = [pc EXCEPT ![t] = l]
    BY <1>1 DEF Quiet, Deliver, Admit, Gates, LockPools, PlanAndSimulate, SendGate, SendDisabled,
       Submit, SendOk, SendErr, Confirm, Record, RecordFails, AccountBuy, Reject, Expire,
       Goto, Labels, Idle, PreSend, PostSend
  <2>2. \E o \in Outcomes : outcome' = [outcome EXCEPT ![t] = o]
    BY <1>1, <1>a DEF Quiet, Deliver, Admit, Gates, LockPools, PlanAndSimulate, SendGate,
       SendDisabled, Submit, SendOk, SendErr, Confirm, Record, RecordFails, AccountBuy,
       Reject, Expire, progress, Outcomes
  <2>3. submitted' \subseteq Tasks /\ UNCHANGED <<wallet, feed, chain_wsol, capital_locks>>
    BY <1>0, <1>1 DEF Quiet, Deliver, Admit, Gates, LockPools, PlanAndSimulate, SendGate,
       SendDisabled, Submit, SendOk, SendErr, Confirm, Record, RecordFails, AccountBuy,
       Reject, Expire, progress, outside, locks
  <2> QED  BY <2>1, <2>2, <2>3 DEF Spared
<1>2. CASE LockCapitalBegin(t)
  <2>1. capital_locks' = [i \in Intents |-> IF i \in Cap!Expired THEN Cap!NoLock
                                            ELSE capital_locks[i]]
        /\ UNCHANGED chain_wsol
    BY <1>2 DEF LockCapitalBegin, Cap!try_lock_capital_begin, Cap!ReleaseSet, Cap!reports
  <2>2. UNCHANGED <<outcome, submitted, wallet, feed>> /\ pc' = [pc EXCEPT ![t] = "locking"]
    BY <1>2 DEF LockCapitalBegin, progress, outside, Goto
  <2>3. "locking" \in Labels
    BY DEF Labels, PreSend
  <2> QED  BY <1>0, <1>a, <2>1, <2>2, <2>3 DEF Spared
<1>3. CASE LockCapitalAcquire(t)
  <2>1. /\ \A i \in Intents \ {IntentOf[t]} : capital_locks'[i] = capital_locks[i]
        /\ UNCHANGED chain_wsol
    BY <1>0, <1>3 DEF LockCapitalAcquire, Cap!try_lock_capital_acquire, Cap!reports
  <2>2. UNCHANGED <<outcome, submitted, wallet, feed>> /\ pc' = [pc EXCEPT ![t] = "plan"]
    BY <1>3 DEF LockCapitalAcquire, progress, outside, Goto
  <2>3. "plan" \in Labels
    BY DEF Labels, PreSend
  <2> QED  BY <1>0, <1>a, <2>1, <2>2, <2>3 DEF Spared
<1>4. CASE LockCapitalFail(t)
  <2>1. UNCHANGED <<capital_locks, chain_wsol>>
    BY <1>4 DEF LockCapitalFail, Cap!try_lock_capital_fail, Cap!reports
  <2>2. UNCHANGED <<outcome, submitted, wallet, feed>> /\ pc' = [pc EXCEPT ![t] = "abort"]
    BY <1>4 DEF LockCapitalFail, progress, outside, Goto
  <2>3. "abort" \in Labels
    BY DEF Labels
  <2> QED  BY <1>0, <1>a, <2>1, <2>2, <2>3 DEF Spared
<1>5. ASSUME NEW renew \in BOOLEAN, Recover(t, renew)
      PROVE  /\ UNCHANGED <<pc, outcome, submitted, wallet, feed, chain_wsol>>
             /\ \A i \in Intents \ {IntentOf[t]} : Spared(i)
  <2>1. UNCHANGED <<pc, outcome, submitted, wallet, feed>>
    BY <1>5 DEF Recover, outside
  <2>2. Cap!renew_capital_lock_ttl(IntentOf[t]) \/ UNCHANGED locks
    BY <1>5 DEF Recover
  <2>3. /\ UNCHANGED chain_wsol
        /\ \A i \in Intents \ {IntentOf[t]} : capital_locks'[i] = capital_locks[i]
    BY <1>0, <2>2 DEF Cap!renew_capital_lock_ttl, Cap!reports, locks
  <2> QED  BY <2>1, <2>3 DEF Spared
<1>6. CASE Promote(t)
  <2>1. UNCHANGED <<outcome, submitted, wallet, feed>> /\ pc' = [pc EXCEPT ![t] = "confirm"]
    BY <1>6 DEF Promote, progress, outside, Goto
  <2>2. Cap!promote_capital_lock_to_in_flight(IntentOf[t]) \/ UNCHANGED locks
    BY <1>6 DEF Promote
  <2>3. /\ UNCHANGED chain_wsol
        /\ \A i \in Intents \ {IntentOf[t]} : capital_locks'[i] = capital_locks[i]
    BY <1>0, <2>2 DEF Cap!promote_capital_lock_to_in_flight, Cap!reports, locks
  <2>4. "confirm" \in Labels
    BY DEF Labels, PostSend
  <2> QED  BY <1>0, <1>a, <2>1, <2>3, <2>4 DEF Spared
<1>7. ASSUME NEW m \in Mints, NEW known \in BOOLEAN, AccountSell(t, m, known)
      PROVE  /\ pc' = [pc EXCEPT ![t] = "release"]
             /\ UNCHANGED <<outcome, submitted, wallet, feed, chain_wsol, capital_locks>>
  <2>1. pc' = [pc EXCEPT ![t] = "release"] /\ UNCHANGED <<outcome, submitted, wallet, feed>>
    BY <1>7 DEF AccountSell, progress, Goto
  <2>2. Cap!remove_available_tokens(m) \/ UNCHANGED locks
    BY <1>7 DEF AccountSell
  <2>3. UNCHANGED <<chain_wsol, capital_locks>>
    BY <2>2 DEF Cap!remove_available_tokens, Cap!reports, locks
  <2> QED  BY <2>1, <2>3
<1>8. ASSUME NEW m \in Mints, AddRead(t, m)
      PROVE  /\ pc' = [pc EXCEPT ![t] = "adding"]
             /\ UNCHANGED <<outcome, submitted, wallet, feed, chain_wsol, capital_locks>>
  BY <1>8 DEF AddRead, Goto, progress, outside, Cap!add_available_token_balance_read, Cap!reports
<1>9. ASSUME AddWrite(t)
      PROVE  /\ pc' = [pc EXCEPT ![t] = "release"]
             /\ UNCHANGED <<outcome, submitted, wallet, feed, chain_wsol, capital_locks>>
  BY <1>9 DEF AddWrite, Goto, progress, outside, Cap!add_available_token_balance_write, Cap!reports
<1>10. ASSUME Release(t) \/ Abort(t)
       PROVE  /\ pc' = [pc EXCEPT ![t] = "done"] \/ pc' = [pc EXCEPT ![t] = "reject"]
              /\ UNCHANGED <<outcome, submitted, wallet, feed, chain_wsol>>
              /\ \A i \in Intents \ {IntentOf[t]} : capital_locks'[i] = capital_locks[i]
  <2>1. /\ pc' = [pc EXCEPT ![t] = "done"] \/ pc' = [pc EXCEPT ![t] = "reject"]
        /\ UNCHANGED <<outcome, submitted, wallet, feed>>
    BY <1>10 DEF Release, Abort, Goto, progress, outside
  <2>2. \E r \in BOOLEAN : Cap!release_capital_lock(IntentOf[t], r)
    BY <1>10 DEF Release, Abort, Cap!release_locks, Cap!release_locks_after_confirmed_sell
  <2>3. /\ capital_locks' = [i \in Intents |-> IF i \in {IntentOf[t]} THEN Cap!NoLock
                                               ELSE capital_locks[i]]
        /\ UNCHANGED chain_wsol
    BY <2>2 DEF Cap!release_capital_lock, Cap!ReleaseSet, Cap!reports
  <2> QED  BY <2>1, <2>3
<1>b. {"release", "adding", "done", "reject"} \subseteq Labels
  BY DEF Labels, PostSend, Idle
<1> QED  BY <1>0, <1>a, <1>b, <1>1, <1>2, <1>3, <1>4, <1>5, <1>6, <1>7, <1>8, <1>9, <1>10
         DEF Task, Quiet, Spared

-----------------------------------------------------------------------------
(***************************************************************************)
(* No leak: a task that leaves the obliged part of its path releases.      *)
(***************************************************************************)
LEMMA TaskOwed ==
    ASSUME Types, Books, NEW t \in Tasks, Deliver(t) \/ Task(t)
    PROVE  \/ pc'[t] \in Obliged
           \/ capital_locks'[IntentOf[t]] = Cap!NoLock
           \/ pc[t] \notin Obliged /\ Spared(IntentOf[t])
           \/ PublishFails
<1>0. /\ pc \in [Tasks -> Labels] /\ IntentOf[t] \in Intents
      /\ capital_locks \in [Intents -> CapP!CapitalLock]
  BY WorldTyped DEF Types, Books, CapP!IInv, CapP!TypeOK
<1>1. CASE Quiet(t)
  <2>1. capital_locks' = capital_locks
    BY <1>1 DEF Quiet, Deliver, Admit, Gates, LockPools, PlanAndSimulate, SendGate, SendDisabled,
       Submit, SendOk, SendErr, Confirm, Record, RecordFails, AccountBuy, Reject, Expire, locks
  <2>2. pc'[t] \in Obliged \/ pc[t] \notin Obliged \/ PublishFails
    BY <1>0, <1>1 DEF Quiet, Deliver, Admit, Gates, LockPools, PlanAndSimulate, SendGate,
       SendDisabled, Submit, SendOk, SendErr, Confirm, Record, RecordFails, AccountBuy,
       Reject, Expire, Goto, At, Obliged, PostSend
  <2> QED  BY <2>1, <2>2 DEF Spared
<1>2. CASE LockCapitalBegin(t)
  <2>1. capital_locks' = [i \in Intents |-> IF i \in Cap!Expired THEN Cap!NoLock
                                            ELSE capital_locks[i]]
    BY <1>2 DEF LockCapitalBegin, Cap!try_lock_capital_begin, Cap!ReleaseSet
  <2>2. pc[t] \notin Obliged
    BY <1>2 DEF LockCapitalBegin, At, Obliged, PostSend
  <2> QED  BY <1>0, <2>1, <2>2 DEF Spared
<1>3. CASE \/ LockCapitalAcquire(t) \/ LockCapitalFail(t) \/ Promote(t) \/ AddWrite(t)
           \/ \E renew \in BOOLEAN : Recover(t, renew)
           \/ \E m \in Mints, known \in BOOLEAN : AccountSell(t, m, known)
           \/ \E m \in Mints : AddRead(t, m)
  BY <1>0, <1>3 DEF LockCapitalAcquire, LockCapitalFail, Promote, AddWrite, Recover, AccountSell,
     AddRead, Goto, At, Obliged, PostSend
<1>4. CASE Release(t) \/ Abort(t)
  <2>1. \E r \in BOOLEAN : Cap!release_capital_lock(IntentOf[t], r)
    BY <1>4 DEF Release, Abort, Cap!release_locks, Cap!release_locks_after_confirmed_sell
  <2>2. capital_locks' = [i \in Intents |-> IF i \in {IntentOf[t]} THEN Cap!NoLock
                                            ELSE capital_locks[i]]
    BY <2>1 DEF Cap!release_capital_lock, Cap!ReleaseSet
  <2> QED  BY <1>0, <2>2
<1> QED  BY <1>1, <1>2, <1>3, <1>4 DEF Task, Quiet

\* A step that moves no task and gives no lock to an intent without one.
LEMMA OwedUnmoved ==
    ASSUME Owed, world' = world, pc' = pc,
           \A i \in Intents : capital_locks[i] = Cap!NoLock => capital_locks'[i] = Cap!NoLock
    PROVE  Owed'
BY DEF Owed, PublishFails, IntentOf, Cap!NoLock

\* Every step leaves each reservation with a task that will release it.
LEMMA NextOwed == Types /\ Books /\ Owed /\ [Next]_vars => Owed'
<1> SUFFICES ASSUME Types, Books, Owed, [Next]_vars PROVE Owed'
  OBVIOUS
<1>0. /\ world' = world /\ IntentOf \in [Tasks -> Intents] /\ IntentOf' = IntentOf
      /\ PublishFails' = PublishFails /\ Cap!NoLock' = Cap!NoLock
      /\ pc \in [Tasks -> Labels] /\ capital_locks \in [Intents -> CapP!CapitalLock]
  BY WorldTyped DEF Next, vars, IntentOf, PublishFails, Cap!NoLock, Types, Books, CapP!IInv,
     CapP!TypeOK
<1>1. ASSUME NEW t \in Tasks, Deliver(t) \/ Task(t) PROVE Owed'
  <2> SUFFICES ASSUME ~PublishFails, NEW i \in Intents, capital_locks'[i] # Cap!NoLock
               PROVE  \E u \in Tasks : IntentOf[u] = i /\ pc'[u] \in Obliged
    BY <1>0 DEF Owed
  <2>1. \A u \in Tasks : u # t => pc'[u] = pc[u]
    BY <1>0, <1>1, TaskFrame
  <2>2. CASE i # IntentOf[t]
    <3>1. Spared(i)
      BY <1>1, <2>2, TaskFrame
    <3>2. capital_locks[i] # Cap!NoLock
      BY <3>1 DEF Spared
    <3>3. PICK u \in Tasks : IntentOf[u] = i /\ pc[u] \in Obliged
      BY <3>2 DEF Owed
    <3> QED  BY <2>1, <2>2, <3>3
  <2>3. CASE i = IntentOf[t]
    <3>1. CASE pc'[t] \in Obliged
      BY <2>3, <3>1
    <3>2. CASE pc'[t] \notin Obliged
      <4>1. pc[t] \notin Obliged /\ Spared(i)
        BY <1>1, <2>3, <3>2, TaskOwed
      <4>2. capital_locks[i] # Cap!NoLock
        BY <4>1 DEF Spared
      <4>3. PICK u \in Tasks : IntentOf[u] = i /\ pc[u] \in Obliged
        BY <4>2 DEF Owed
      <4> QED  BY <2>1, <4>1, <4>3
    <3> QED  BY <3>1, <3>2
  <2> QED  BY <2>2, <2>3
<1>2. ASSUME NEW t \in Tasks, LandOk(t) \/ LandErr(t) PROVE Owed'
  BY <1>0, <1>2, OwedUnmoved DEF LandOk, LandErr, locks
<1>3. ASSUME NEW i \in Intents, LockTtlElapses(i) PROVE Owed'
  <2>1. /\ pc' = pc /\ capital_locks[i].phase # "None"
        /\ capital_locks' = [capital_locks EXCEPT ![i].overdue = TRUE]
    BY <1>3 DEF LockTtlElapses, Cap!TtlElapses, Cap!contains_key
  <2>2. \A j \in Intents : capital_locks[j] = Cap!NoLock => capital_locks'[j] = Cap!NoLock
    <3>1. Cap!NoLock.phase = "None"
      BY DEF Cap!NoLock
    <3>2. \A j \in Intents : j # i => capital_locks'[j] = capital_locks[j]
      BY <1>0, <2>1
    <3> QED  BY <2>1, <3>1, <3>2
  <2> QED  BY <1>0, <2>1, <2>2, OwedUnmoved
<1>4. CASE PeriodicCleanup
  BY <1>0, <1>4, OwedUnmoved DEF PeriodicCleanup, Cap!cleanup_expired, Cap!ReleaseSet
<1>5. ASSUME NEW a \in Accounts, NEW k \in 1 .. Len(feed[a]), Snapshot(a, k) PROVE Owed'
  <2>1. capital_locks' = capital_locks
    BY <1>5, SnapshotLocks
  <2>2. pc' = pc
    BY <1>5 DEF Snapshot
  <2> QED  BY <1>0, <2>1, <2>2, OwedUnmoved
<1>6. CASE UNCHANGED vars
  BY <1>0, <1>6, OwedUnmoved DEF vars, locks
<1> QED  BY <1>1, <1>2, <1>3, <1>4, <1>5, <1>6 DEF Next

-----------------------------------------------------------------------------
(***************************************************************************)
(* The reservation of a transaction in flight.                             *)
(***************************************************************************)
\* A reservation of a task that does not move is not overdue before the send
\* and in flight after it, so no clean-up takes it.
LEMMA SparedKept ==
    ASSUME NEW t \in Tasks, Reserved(t), world' = world,
           pc'[t] = pc[t], outcome'[t] = outcome[t], Spared(IntentOf[t])
    PROVE  Reserved(t)'
<1>1. IntentOf' = IntentOf
  BY DEF IntentOf
<1>2. CASE capital_locks'[IntentOf[t]] = capital_locks[IntentOf[t]]
  BY <1>1, <1>2 DEF Reserved, Flying
<1>3. CASE IntentOf[t] \in Cap!Expired
  BY <1>1, <1>3 DEF Reserved, Flying, Cap!Expired
<1> QED  BY <1>2, <1>3 DEF Spared

\* A task keeps its own reservation through its own steps.
LEMMA TaskKept ==
    ASSUME Types, Books, NEW t \in Tasks, Deliver(t) \/ Task(t), world' = world, Reserved(t)
    PROVE  Reserved(t)'
<1>0. /\ pc \in [Tasks -> Labels] /\ outcome \in [Tasks -> Outcomes] /\ IntentOf[t] \in Intents
      /\ capital_locks \in [Intents -> CapP!CapitalLock] /\ IntentOf' = IntentOf
  BY WorldTyped DEF Types, Books, CapP!IInv, CapP!TypeOK, IntentOf
<1> DEFINE i == IntentOf[t]
<1>a. ASSUME capital_locks'[i] = capital_locks[i],
             pc'[t] \in Planning => pc[t] \in Planning, Flying(t)' => Flying(t)
      PROVE  Reserved(t)'
  BY <1>0, <1>a DEF Reserved
<1>b. ASSUME pc'[t] \notin Planning \cup PostSend PROVE Reserved(t)'
  BY <1>b DEF Reserved, Flying, PostSend
<1>1. CASE Quiet(t)
  <2>1. capital_locks' = capital_locks
    BY <1>1 DEF Quiet, Deliver, Admit, Gates, LockPools, PlanAndSimulate, SendGate, SendDisabled,
       Submit, SendOk, SendErr, Confirm, Record, RecordFails, AccountBuy, Reject, Expire, locks
  <2>2. pc'[t] \in Planning => pc[t] \in Planning
    BY <1>0, <1>1 DEF Quiet, Deliver, Admit, Gates, LockPools, PlanAndSimulate, SendGate,
       SendDisabled, Submit, SendOk, SendErr, Confirm, Record, RecordFails, AccountBuy,
       Reject, Expire, Goto, At, Planning
  <2>3. Flying(t)' => Flying(t)
    BY <1>0, <1>1 DEF Quiet, Deliver, Admit, Gates, LockPools, PlanAndSimulate, SendGate,
       SendDisabled, Submit, SendOk, SendErr, Confirm, Record, RecordFails, AccountBuy,
       Reject, Expire, Goto, At, Flying, PostSend, progress
  <2> QED  BY <1>a, <2>1, <2>2, <2>3
<1>2. CASE LockCapitalBegin(t) \/ LockCapitalFail(t) \/ Release(t) \/ Abort(t)
  <2>1. pc'[t] \notin Planning \cup PostSend
    BY <1>0, <1>2 DEF LockCapitalBegin, LockCapitalFail, Release, Abort, Goto, Planning, PostSend
  <2> QED  BY <1>b, <2>1
<1>3. CASE LockCapitalAcquire(t)
  <2>1. /\ capital_locks'[i].phase = "PreSend" /\ ~capital_locks'[i].overdue
        /\ capital_locks'[i].tokens = Tokens[i]
    BY <1>0, <1>3 DEF LockCapitalAcquire, Cap!try_lock_capital_acquire
  <2>2. pc'[t] = "plan"
    BY <1>0, <1>3 DEF LockCapitalAcquire, Goto
  <2>3. ~Flying(t)'
    BY <2>2 DEF Flying, PostSend
  <2> QED  BY <1>0, <2>1, <2>2, <2>3 DEF Reserved, Planning
<1>4. ASSUME NEW renew \in BOOLEAN, Recover(t, renew) PROVE Reserved(t)'
  <2>1. pc[t] = "plan" /\ UNCHANGED <<pc, outcome>>
    BY <1>4 DEF Recover, At
  <2>2. Cap!renew_capital_lock_ttl(i) \/ UNCHANGED locks
    BY <1>4 DEF Recover
  <2>3. CASE UNCHANGED locks
    BY <1>a, <2>1, <2>3 DEF locks, Flying
  <2>4. CASE Cap!renew_capital_lock_ttl(i)
    <3>1. /\ capital_locks'[i].phase = capital_locks[i].phase /\ ~capital_locks'[i].overdue
          /\ capital_locks'[i].tokens = capital_locks[i].tokens
      BY <1>0, <2>4 DEF Cap!renew_capital_lock_ttl, CapP!CapitalLock
    <3> QED  BY <1>0, <2>1, <3>1 DEF Reserved, Flying, PostSend
  <2> QED  BY <2>2, <2>3, <2>4
<1>5. CASE Promote(t)
  <2>1. pc[t] = "promote" /\ pc'[t] = "confirm"
    BY <1>0, <1>5 DEF Promote, At, Goto
  <2>2. capital_locks[i].phase = "PreSend" /\ capital_locks[i].tokens = Tokens[i]
    BY <2>1 DEF Reserved, Planning
  <2>3. capital_locks' = [capital_locks EXCEPT ![i].phase = "InFlight"]
    BY <1>5, <2>2 DEF Promote, Cap!contains_key, Cap!promote_capital_lock_to_in_flight
  <2>4. capital_locks'[i].phase = "InFlight" /\ capital_locks'[i].tokens = Tokens[i]
    BY <1>0, <2>2, <2>3 DEF CapP!CapitalLock
  <2> QED  BY <1>0, <2>1, <2>4 DEF Reserved, Planning
<1>6. CASE \/ \E m \in Mints, known \in BOOLEAN : AccountSell(t, m, known)
           \/ \E m \in Mints : AddRead(t, m)
           \/ AddWrite(t)
  <2>1. pc[t] \in {"account", "add", "adding"} /\ pc'[t] \in {"adding", "release"}
        /\ outcome' = outcome
    BY <1>0, <1>6 DEF AccountSell, AddRead, AddWrite, At, Goto, progress
  <2>2. capital_locks' = capital_locks
    BY <1>6 DEF AccountSell, AddRead, AddWrite, Cap!remove_available_tokens,
       Cap!add_available_token_balance_read, Cap!add_available_token_balance_write, locks
  <2> QED  BY <1>a, <2>1, <2>2 DEF Flying, PostSend, Planning
<1> QED  BY <1>1, <1>2, <1>3, <1>4, <1>5, <1>6 DEF Task, Quiet

\* No step takes the reservation of a task that is alone.
LEMMA NextKept == Types /\ Books /\ Kept /\ [Next]_vars => Kept'
<1> SUFFICES ASSUME Types, Books, Kept, [Next]_vars, NEW t \in Tasks, Alone(t)' PROVE Reserved(t)'
  BY DEF Kept
<1>0. /\ world' = world /\ IntentOf \in [Tasks -> Intents] /\ IntentOf' = IntentOf
      /\ TtlCovers' = TtlCovers
      /\ pc \in [Tasks -> Labels] /\ outcome \in [Tasks -> Outcomes]
      /\ capital_locks \in [Intents -> CapP!CapitalLock]
  BY WorldTyped DEF Next, vars, IntentOf, TtlCovers, Types, Books, CapP!IInv, CapP!TypeOK
<1>a. Alone(t) /\ Reserved(t)
  BY <1>0 DEF Alone, Kept
<1>b. IntentOf[t] \in Intents
  BY <1>0
<1>1. ASSUME NEW u \in Tasks, Deliver(u) \/ Task(u) PROVE Reserved(t)'
  <2>1. CASE u = t
    BY <1>0, <1>1, <1>a, <2>1, TaskKept
  <2>2. CASE u # t
    <3>1. IntentOf[t] \in Intents \ {IntentOf[u]}
      BY <1>a, <1>b, <2>2 DEF Alone
    <3>2. Spared(IntentOf[t]) /\ pc'[t] = pc[t] /\ outcome'[t] = outcome[t]
      BY <1>0, <1>1, <2>2, <3>1, TaskFrame
    <3> QED  BY <1>0, <1>a, <3>2, SparedKept
  <2> QED  BY <2>1, <2>2
<1>2. ASSUME NEW u \in Tasks, LandOk(u) \/ LandErr(u) PROVE Reserved(t)'
  <2>1. UNCHANGED <<capital_locks, pc, outcome>>
    BY <1>2 DEF LandOk, LandErr, locks, progress
  <2> QED  BY <1>0, <1>a, <2>1, SparedKept DEF Spared
<1>3. ASSUME NEW i \in Intents, LockTtlElapses(i) PROVE Reserved(t)'
  <2>1. /\ UNCHANGED <<pc, outcome>>
        /\ capital_locks' = [capital_locks EXCEPT ![i].overdue = TRUE]
        /\ TtlCovers => \A u \in CopiesOf(i) : pc[u] \notin PreSend
    BY <1>3 DEF LockTtlElapses, Cap!TtlElapses, progress
  <2>2. CASE IntentOf[t] # i
    BY <1>0, <1>a, <1>b, <2>1, <2>2, SparedKept DEF Spared
  <2>3. CASE IntentOf[t] = i
    <3>1. pc[t] \notin Planning
      BY <1>a, <2>1, <2>3 DEF Alone, CopiesOf, Planning, PreSend
    <3>2. /\ capital_locks'[i].phase = capital_locks[i].phase
          /\ capital_locks'[i].tokens = capital_locks[i].tokens
      BY <1>0, <2>1 DEF CapP!CapitalLock
    <3> QED  BY <1>0, <1>a, <2>1, <2>3, <3>1, <3>2 DEF Reserved, Flying
  <2> QED  BY <2>2, <2>3
<1>4. CASE PeriodicCleanup
  <2>1. UNCHANGED <<pc, outcome>> /\ Spared(IntentOf[t])
    BY <1>4, <1>b DEF PeriodicCleanup, Cap!cleanup_expired, Cap!ReleaseSet, progress, Spared
  <2> QED  BY <1>0, <1>a, <2>1, SparedKept
<1>5. ASSUME NEW a \in Accounts, NEW k \in 1 .. Len(feed[a]), Snapshot(a, k) PROVE Reserved(t)'
  <2>1. capital_locks' = capital_locks
    BY <1>5, SnapshotLocks
  <2>2. UNCHANGED <<pc, outcome>>
    BY <1>5 DEF Snapshot, progress
  <2> QED  BY <1>0, <1>a, <2>1, <2>2, SparedKept DEF Spared
<1>6. CASE UNCHANGED vars
  <2>1. UNCHANGED <<capital_locks, pc, outcome>>
    BY <1>6 DEF vars, locks, progress
  <2> QED  BY <1>0, <1>a, <2>1, SparedKept DEF Spared
<1> QED  BY <1>1, <1>2, <1>3, <1>4, <1>5, <1>6 DEF Next

-----------------------------------------------------------------------------
(***************************************************************************)
(* Types and the wallet feed.                                              *)
(***************************************************************************)
LEMMA LandTyped ==
    ASSUME Types, NEW t \in Tasks, LandOk(t)
    PROVE  wallet' \in [Accounts -> Nat] /\ feed' \in [Accounts -> Seq(Reports)]
<1> DEFINE i == IntentOf[t]
<1>0. /\ i \in Intents /\ wallet \in [Accounts -> Nat] /\ feed \in [Accounts -> Seq(Reports)]
  BY WorldTyped DEF Types
<1>1. /\ \A a \in Accounts : wallet[a] >= Spent(i, a)
      /\ wallet' = [a \in Accounts |-> wallet[a] + Delta(i, a)]
      /\ feed' = [a \in Accounts |-> IF Delta(i, a) = 0 THEN feed[a]
             ELSE Append(feed[a], [slot |-> NextSlot, amount |-> wallet'[a]])]
  BY DEF LandOk
<1>2. \A a \in Accounts : wallet[a] + Delta(i, a) \in Nat
  <2> SUFFICES ASSUME NEW a \in Accounts PROVE wallet[a] + Delta(i, a) \in Nat
    OBVIOUS
  <2>1. wallet[a] \in Nat /\ wallet[a] >= Spent(i, a)
    BY <1>0, <1>1
  <2>2. CASE a = "WSOL"
    <3>1. Proceeds[i] \in Nat /\ Sol[i] \in Nat
      BY <1>0, PipelineType
    <3> QED  BY <2>1, <2>2, <3>1 DEF Delta, Spent
  <2>3. CASE a # "WSOL"
    <3>1. a \in Mints
      BY <2>3 DEF Accounts
    <3>2. Fill[i][a] \in Nat /\ Tokens[i][a] \in Nat
      BY <1>0, <3>1, PipelineType
    <3> QED  BY <2>1, <2>3, <3>2 DEF Delta, Spent
  <2> QED  BY <2>2, <2>3
<1>3. wallet' \in [Accounts -> Nat]
  BY <1>1, <1>2
<1>4. NextSlot \in Nat
  <2>1. IsFiniteSet({u \in Tasks : landed[u] # "no"})
    BY PipelineType, FS_Subset
  <2>2. Cardinality({u \in Tasks : landed[u] # "no"}) \in Nat
    BY <2>1, FS_CardinalityType
  <2> QED  BY <2>2 DEF NextSlot
<1>5. \A a \in Accounts : [slot |-> NextSlot, amount |-> wallet'[a]] \in Reports
  BY <1>3, <1>4 DEF Reports
<1>6. \A a \in Accounts : Append(feed[a], [slot |-> NextSlot, amount |-> wallet'[a]]) \in Seq(Reports)
  BY <1>0, <1>5
<1> QED  BY <1>0, <1>1, <1>3, <1>6

\* Every step keeps the types.
LEMMA NextTypes == Types /\ Books /\ [Next]_vars => Types'
<1> SUFFICES ASSUME Types, Books, [Next]_vars PROVE Types'
  OBVIOUS
<1>0. world' = world
  BY DEF Next, vars
<1>1. ASSUME NEW t \in Tasks, Deliver(t) \/ Task(t) PROVE Types'
  <2>1. PICK l \in Labels : pc' = [pc EXCEPT ![t] = l]
    BY <1>1, TaskFrame
  <2>2. PICK o \in Outcomes : outcome' = [outcome EXCEPT ![t] = o]
    BY <1>1, TaskFrame
  <2>3. submitted' \subseteq Tasks /\ UNCHANGED <<wallet, feed>>
    BY <1>1, TaskFrame
  <2>4. pc' \in [Tasks -> Labels] /\ outcome' \in [Tasks -> Outcomes]
    BY <2>1, <2>2 DEF Types
  <2> QED  BY <1>0, <2>3, <2>4 DEF Types, Accounts
<1>2. ASSUME NEW t \in Tasks, LandOk(t) PROVE Types'
  <2>1. wallet' \in [Accounts -> Nat] /\ feed' \in [Accounts -> Seq(Reports)]
    BY <1>2, LandTyped
  <2>2. UNCHANGED <<pc, outcome, submitted>>
    BY <1>2 DEF LandOk, progress
  <2> QED  BY <1>0, <2>1, <2>2 DEF Types
<1>3. CASE \/ \E t \in Tasks : LandErr(t)
           \/ \E i \in Intents : LockTtlElapses(i)
           \/ PeriodicCleanup
           \/ UNCHANGED vars
  <2>1. UNCHANGED <<pc, outcome, submitted, wallet, feed>>
    BY <1>3 DEF LandErr, LockTtlElapses, PeriodicCleanup, vars, progress, outside
  <2> QED  BY <1>0, <2>1 DEF Types
<1>4. ASSUME NEW a \in Accounts, NEW k \in 1 .. Len(feed[a]), Snapshot(a, k) PROVE Types'
  <2>1. UNCHANGED <<pc, outcome, submitted, wallet>>
        /\ feed' = [feed EXCEPT ![a] = SubSeq(feed[a], k + 1, Len(feed[a]))]
    BY <1>4 DEF Snapshot, progress
  <2>2. feed[a] \in Seq(Reports)
    BY DEF Types
  <2>3. SubSeq(feed[a], k + 1, Len(feed[a])) \in Seq(Reports)
    BY <2>2
  <2>4. feed' \in [Accounts -> Seq(Reports)]
    BY <2>1, <2>3 DEF Types
  <2> QED  BY <1>0, <2>1, <2>4 DEF Types
<1> QED  BY <1>1, <1>2, <1>3, <1>4 DEF Next

\* The last element of a sequence after an append and after a cut.
LEMMA LastOfAppend ==
    ASSUME NEW S, NEW f \in Seq(S), NEW r \in S
    PROVE  Append(f, r) # <<>> /\ Append(f, r)[Len(Append(f, r))] = r
<1>1. Len(Append(f, r)) = Len(f) + 1 /\ Append(f, r)[Len(f) + 1] = r /\ Len(f) \in Nat
  OBVIOUS
<1>2. Append(f, r) # <<>>
  BY <1>1
<1> QED  BY <1>1, <1>2

\* Dropping a prefix that is not everything keeps the last element.
LEMMA LastOfRest ==
    ASSUME NEW S, NEW f \in Seq(S), NEW k \in 1 .. Len(f), k # Len(f)
    PROVE  /\ SubSeq(f, k + 1, Len(f)) # <<>>
           /\ SubSeq(f, k + 1, Len(f))[Len(SubSeq(f, k + 1, Len(f)))] = f[Len(f)]
<1> DEFINE g == SubSeq(f, k + 1, Len(f))
<1>1. Len(f) \in Nat /\ k \in Nat /\ 1 <= k /\ k < Len(f)
  OBVIOUS
<1>2. /\ g \in Seq(S) /\ Len(g) = Len(f) - k
      /\ \A j \in 1 .. Len(f) - k : g[j] = f[(k + 1) + j - 1]
  BY <1>1
<1> HIDE DEF g
<1>3. /\ Len(g) # 0 /\ Len(g) \in 1 .. Len(f) - k
      /\ (k + 1) + Len(g) - 1 = Len(f)
  BY <1>1, <1>2
<1>4. g # <<>> /\ g[Len(g)] = f[Len(f)]
  BY <1>2, <1>3
<1> QED  BY <1>4 DEF g

\* Every step keeps the feed's last word equal to the wallet.
LEMMA NextFed == Types /\ Books /\ Fed /\ [Next]_vars => Fed'
<1> SUFFICES ASSUME Types, Books, Fed, [Next]_vars PROVE Fed'
  OBVIOUS
<1>0. /\ "WSOL" \in Accounts /\ feed \in [Accounts -> Seq(Reports)]
      /\ feed["WSOL"] \in Seq(Reports)
  BY DEF Accounts, Types
<1>a. ASSUME feed'["WSOL"] = feed["WSOL"], wallet'["WSOL"] = wallet["WSOL"],
             chain_wsol' = chain_wsol
      PROVE  Fed'
  BY <1>a DEF Fed
<1>1. ASSUME NEW t \in Tasks, Deliver(t) \/ Task(t) PROVE Fed'
  <2>1. UNCHANGED <<wallet, feed, chain_wsol>>
    BY <1>1, TaskFrame
  <2> QED  BY <1>a, <2>1
<1>2. ASSUME NEW t \in Tasks, LandOk(t) PROVE Fed'
  <2> DEFINE i == IntentOf[t]
             r == [slot |-> NextSlot, amount |-> wallet'["WSOL"]]
  <2>1. /\ wallet'["WSOL"] = wallet["WSOL"] + Delta(i, "WSOL")
        /\ feed'["WSOL"] = IF Delta(i, "WSOL") = 0 THEN feed["WSOL"]
                           ELSE Append(feed["WSOL"], r)
        /\ chain_wsol' = chain_wsol
    BY <1>0, <1>2 DEF LandOk, locks
  <2>2. CASE Delta(i, "WSOL") = 0
    <3>1. wallet["WSOL"] \in Nat
      BY <1>0 DEF Types
    <3> QED  BY <1>a, <2>1, <2>2, <3>1
  <2>3. CASE Delta(i, "WSOL") # 0
    <3>1. r \in Reports
      <4>1. /\ feed' \in [Accounts -> Seq(Reports)]
        BY <1>2, LandTyped
      <4>2. feed'["WSOL"] \in Seq(Reports) /\ feed'["WSOL"] = Append(feed["WSOL"], r)
        BY <1>0, <2>1, <2>3, <4>1
      <4>3. feed'["WSOL"][Len(feed["WSOL"]) + 1] = r
            /\ Len(feed'["WSOL"]) = Len(feed["WSOL"]) + 1
        BY <1>0, <4>2
      <4> QED  BY <1>0, <4>2, <4>3
    <3>2. r.amount = wallet'["WSOL"]
      OBVIOUS
    <3> HIDE DEF r
    <3>3. /\ feed'["WSOL"] = Append(feed["WSOL"], r)
          /\ feed'["WSOL"] # <<>> /\ feed'["WSOL"][Len(feed'["WSOL"])] = r
      BY <1>0, <2>1, <2>3, <3>1, LastOfAppend
    <3> QED  BY <3>2, <3>3 DEF Fed
  <2> QED  BY <2>2, <2>3
<1>3. CASE \/ \E t \in Tasks : LandErr(t)
           \/ \E i \in Intents : LockTtlElapses(i)
           \/ PeriodicCleanup
           \/ UNCHANGED vars
  <2>1. UNCHANGED <<wallet, feed, chain_wsol>>
    BY <1>3 DEF LandErr, LockTtlElapses, PeriodicCleanup, vars, outside, locks,
       Cap!TtlElapses, Cap!cleanup_expired, Cap!reports
  <2> QED  BY <1>a, <2>1
<1>4. ASSUME NEW a \in Accounts, NEW k \in 1 .. Len(feed[a]), Snapshot(a, k) PROVE Fed'
  <2>1. /\ wallet' = wallet
        /\ feed' = [feed EXCEPT ![a] = SubSeq(feed[a], k + 1, Len(feed[a]))]
    BY <1>4 DEF Snapshot
  <2>2. CASE a # "WSOL"
    <3>1. chain_wsol' = chain_wsol
      BY <1>4, <2>2, SnapshotLocks
    <3> QED  BY <1>0, <1>a, <2>1, <2>2, <3>1
  <2>3. CASE a = "WSOL"
    <3> DEFINE f == feed["WSOL"]
               g == SubSeq(f, k + 1, Len(f))
    <3>1. chain_wsol' = f[k].amount
      BY <1>4, <2>3, SnapshotLocks
    <3>2. f \in Seq(Reports) /\ k \in 1 .. Len(f) /\ feed'["WSOL"] = g
      BY <1>0, <2>1, <2>3
    <3>3. f[Len(f)].amount = wallet["WSOL"]
      <4>1. f # <<>>
        BY <3>2
      <4> QED  BY <4>1 DEF Fed
    <3> HIDE DEF f
    <3>4. CASE k = Len(f)
      <4>1. g = <<>>
        BY <3>2, <3>4
      <4> QED  BY <2>1, <3>1, <3>2, <3>3, <3>4, <4>1 DEF Fed
    <3>5. CASE k # Len(f)
      <4>1. g # <<>> /\ g[Len(g)] = f[Len(f)]
        BY <3>2, <3>5, LastOfRest
      <4> HIDE DEF g
      <4> QED  BY <2>1, <3>2, <3>3, <4>1 DEF Fed
    <3> QED  BY <3>4, <3>5
  <2> QED  BY <2>2, <2>3
<1> QED  BY <1>1, <1>2, <1>3, <1>4 DEF Next

-----------------------------------------------------------------------------
\* The books balance when the engine starts.
LEMMA InitBooks == Init => Books
<1> SUFFICES ASSUME Init PROVE Books
  OBVIOUS
<1>0. /\ InitialWsol \in Nat /\ InitialTokens \in [Mints -> Nat]
      /\ capital_locks = [i \in Intents |-> CapP!NoLock]
      /\ adding = [i \in Intents |-> CapP!NoAdd]
  BY PipelineType DEF Init, Cap!NoLock, CapP!NoLock, Cap!NoAdd, CapP!NoAdd
<1>1. CapP!TypeOK
  <2>1. CapP!NoLock \in CapP!CapitalLock
    BY DEF CapP!CapitalLock, CapP!NoLock, CapP!Phases
  <2> QED  BY <1>0, <2>1 DEF Init, CapP!TypeOK
<1>2. CapP!AbsentIsNoLock
  BY <1>0 DEF CapP!AbsentIsNoLock
<1> DEFINE zero == [i \in Intents |-> 0]
<1>3. CapP!NativeOf(capital_locks) = zero /\ CapP!WsolOf(capital_locks) = zero
  BY <1>0 DEF CapP!NativeOf, CapP!WsolOf, CapP!NoLock
<1>4. CapP!Sum(zero) = 0
  <2>1. \A i \in Intents : {i} \X (1 .. zero[i]) = {}
    OBVIOUS
  <2>2. CapP!Units(zero) = {}
    BY <2>1 DEF CapP!Units
  <2> QED  BY <2>2, CardinalitySame, FS_EmptySet DEF CapP!Sum
<1>5. CapP!NativeBooks
  BY <1>3, <1>4 DEF Init, CapP!NativeBooks, CapP!total_native_sol, CapP!sum_locked_native_sol,
     CapP!Larger
<1>6. CapP!WsolBooks
  BY <1>0, <1>3, <1>4 DEF Init, CapP!WsolBooks, CapP!total_wsol_lamports,
     CapP!sum_locked_wsol_trading, CapP!Larger
<1> QED  BY <1>1, <1>2, <1>5, <1>6 DEF Books, CapP!IInv

\* Initially the invariant holds.
LEMMA InitIInv == Init => IInv
<1> SUFFICES ASSUME Init PROVE IInv
  OBVIOUS
<1>1. Types
  <2>1. "upstream" \in Labels /\ "none" \in Outcomes
    BY DEF Labels, Idle, Outcomes
  <2>2. wallet \in [Accounts -> Nat]
    BY PipelineType DEF Init, Accounts
  <2>3. feed \in [Accounts -> Seq(Reports)]
    BY DEF Init
  <2> QED  BY <2>1, <2>2, <2>3 DEF Init, Types
<1>2. Owed
  BY DEF Init, Owed
<1>3. Kept
  BY DEF Init, Kept, Reserved, Flying, Planning, PostSend
<1>4. Fed
  BY DEF Init, Fed, Accounts
<1> QED  BY <1>1, <1>2, <1>3, <1>4, InitBooks DEF IInv

\* Every step keeps the invariant.
LEMMA NextIInv == IInv /\ [Next]_vars => IInv'
<1> SUFFICES ASSUME IInv, [Next]_vars PROVE IInv'
  OBVIOUS
<1>1. Types /\ Books /\ Owed /\ Kept /\ Fed
  BY DEF IInv
<1>2. Books'
  <2>1. LockStep
    BY <1>1, NextLocks DEF vars, LockStep
  <2> QED  BY <1>1, <2>1, LockStepBooks
<1> QED  BY <1>1, <1>2, NextTypes, NextOwed, NextKept, NextFed DEF IInv

\* For every set of intents, however often and however concurrently they are
\* delivered: once no delivery of an intent is being processed, no capital is
\* reserved for it, as long as records can be written.
THEOREM NoReservationLeaks == Spec => []NoLeakedReservation
<1>1. IInv => NoLeakedReservation
  <2> SUFFICES ASSUME IInv, ~PublishFails, NEW i \in Intents,
                      \A t \in CopiesOf(i) : pc[t] \in Idle
               PROVE  capital_locks[i] = Cap!NoLock
    BY DEF NoLeakedReservation
  <2>1. \A t \in Tasks : IntentOf[t] = i => pc[t] \notin Obliged
    BY DEF CopiesOf, Idle, Obliged, PostSend
  <2> QED  BY <2>1 DEF IInv, Owed
<1> QED  BY <1>1, InitIInv, NextIInv, PTL DEF Spec

\* For every set of intents: a transaction sent by the only delivery of its
\* intent keeps its whole reservation until it is accounted for, whatever the
\* clean-ups, the other tasks and the wallet reports do, if the TTL covers the
\* time until the send.
THEOREM InFlightKeepsCapital == Spec => []InFlightReserved
<1>1. IInv => InFlightReserved
  <2> SUFFICES ASSUME IInv, TtlCovers, NEW t \in submitted, pc[t] \in PostSend,
                      outcome[t] # "Rejected", CopiesOf(IntentOf[t]) = {t}
               PROVE  /\ capital_locks[IntentOf[t]].phase = "InFlight"
                      /\ capital_locks[IntentOf[t]].tokens = Tokens[IntentOf[t]]
    BY DEF InFlightReserved
  <2>1. t \in Tasks
    BY DEF IInv, Types
  <2>2. Alone(t)
    BY DEF Alone, CopiesOf
  <2>3. Reserved(t)
    BY <2>1, <2>2 DEF IInv, Kept
  <2> QED  BY <2>3 DEF Reserved, Flying
<1> QED  BY <1>1, InitIInv, NextIInv, PTL DEF Spec

\* For every set of intents, in every environment: when all deliveries have
\* ended and every report was applied, free and reserved WSOL are what the
\* wallet holds (unless the last report was below what was reserved then).
THEOREM BooksSettle == Spec => []SettledBooks
<1>1. IInv => SettledBooks
  <2> SUFFICES ASSUME IInv, Settled, base_wsol <= wallet["WSOL"]
               PROVE  Cap!total_wsol_lamports = wallet["WSOL"]
    BY DEF SettledBooks
  <2>1. chain_wsol = wallet["WSOL"]
    BY DEF IInv, Fed, Settled, Accounts
  <2>2. CapP!WsolBooks /\ base_wsol \in Nat /\ chain_wsol \in Nat
    BY DEF IInv, Books, CapP!IInv, CapP!TypeOK
  <2>3. CapP!total_wsol_lamports = wallet["WSOL"]
    BY <2>1, <2>2 DEF CapP!WsolBooks, CapP!Larger
  <2>4. CapP!total_wsol_lamports = Cap!total_wsol_lamports
    BY SumSame DEF CapP!total_wsol_lamports, Cap!total_wsol_lamports,
       CapP!sum_locked_wsol_trading, Cap!sum_locked_wsol_trading, CapP!WsolOf, Cap!WsolOf
  <2> QED  BY <2>3, <2>4
<1> QED  BY <1>1, InitIInv, NextIInv, PTL DEF Spec

\* The conservation laws of CapitalLocks hold in the running pipeline, for every
\* set of intents and deliveries, although it starts with a funded wallet and
\* not in CapitalLocks' initial state: no balance becomes negative, and free
\* plus reserved capital are what was reported, in both buckets.
THEOREM LedgerCarriesOver ==
    Spec => [](CapP!TypeOK /\ CapP!NativeBooks /\ CapP!WsolBooks)
<1>1. IInv => CapP!TypeOK /\ CapP!NativeBooks /\ CapP!WsolBooks
  BY DEF IInv, Books, CapP!IInv
<1> QED  BY <1>1, InitIInv, NextIInv, PTL DEF Spec
=============================================================================
