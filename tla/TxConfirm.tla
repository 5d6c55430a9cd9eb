------------------------------ MODULE TxConfirm ------------------------------
(***************************************************************************)
(* How the execution engine learns that a transaction landed               *)
(* (src/src/bin/execution_engine.rs).  market-data publishes               *)
(* WalletTxConfirmed on JetStream; the main loop dispatches it either to   *)
(* the oneshot channel of a registered waiter (pending_tx_confirms) or,    *)
(* when there is none yet, to an orphan buffer that a later registration   *)
(* consults.  Registration and dispatch run in different tasks and take    *)
(* the two maps' locks one at a time: every step is one critical section.  *)
(*                                                                         *)
(* A single-transaction waiter registers after the send; a bundle waiter   *)
(* registers before it and also polls Jito.  Deadlines may fire whenever a *)
(* waiter waits.                                                           *)
(***************************************************************************)
EXTENDS Integers

CONSTANTS
    Sigs,        \* signatures of the transactions sent
    Bundles,     \* those sent as a Jito bundle
    MaxDelivery  \* bound: deliveries of one confirm (JetStream is at-least-once)

ASSUME ConfirmType ==
    /\ Bundles \subseteq Sigs /\ MaxDelivery \in Nat
    /\ "none" \notin Sigs   \* the marker for "no confirm is being dispatched"

VARIABLES
    sent,        \* sent[s]: the transaction was handed to the network
    landed,      \* landed[s]: "no", "ok" or "err", what the chain says
    deliveries,  \* deliveries[s]: confirms of s dispatched so far
    pending,     \* keys of pending_tx_confirms
    orphan,      \* recent_orphan_tx_confirms: "none", "ok" or "err"
    channel,     \* value in the oneshot channel: "none", "ok" or "err"
    pc,          \* the waiter's task
    dispatch,    \* the main loop between its two critical sections
    outcome      \* "none", "Confirmed", "FailedConfirmed", "TimeoutSent"

confirmVars == <<sent, landed, deliveries, pending, orphan, channel, pc, dispatch, outcome>>

Nobody == [sig |-> "none"]

ConfirmInit ==
    /\ sent = [s \in Sigs |-> FALSE]
    /\ landed = [s \in Sigs |-> "no"]
    /\ deliveries = [s \in Sigs |-> 0]
    /\ pending = {}
    /\ orphan = [s \in Sigs |-> "none"]
    /\ channel = [s \in Sigs |-> "none"]
    /\ pc = [s \in Sigs |-> "unregistered"]
    /\ dispatch = Nobody
    /\ outcome = [s \in Sigs |-> "none"]

Goto(s, l) == pc' = [pc EXCEPT ![s] = l]

-----------------------------------------------------------------------------
(***************************************************************************)
(* Sending and landing.                                                    *)
(***************************************************************************)
Send(s) ==
    /\ ~sent[s]
    /\ pc[s] = IF s \in Bundles THEN "waiting" ELSE "unregistered"
    /\ sent' = [sent EXCEPT ![s] = TRUE]
    /\ UNCHANGED <<landed, deliveries, pending, orphan, channel, pc, dispatch, outcome>>

\* External: the transaction executes on chain, successfully or with an error.
Land(s, result) ==
    /\ sent[s] /\ landed[s] = "no"
    /\ landed' = [landed EXCEPT ![s] = result]
    /\ UNCHANGED <<sent, deliveries, pending, orphan, channel, pc, dispatch, outcome>>

-----------------------------------------------------------------------------
(***************************************************************************)
(* register_wallet_tx_confirm_waiter.                                      *)
(***************************************************************************)
RegisterCheck(s) ==
    /\ pc[s] = "unregistered"
    /\ s \notin Bundles => sent[s]
    /\ IF orphan[s] # "none"
       THEN /\ channel' = [channel EXCEPT ![s] = orphan[s]]
            /\ orphan' = [orphan EXCEPT ![s] = "none"]
            /\ Goto(s, "waiting")
       ELSE Goto(s, "insert") /\ UNCHANGED <<channel, orphan>>
    /\ UNCHANGED <<sent, landed, deliveries, pending, dispatch, outcome>>

RegisterInsert(s) ==
    /\ pc[s] = "insert"
    /\ pending' = pending \cup {s}
    /\ Goto(s, "check2")
    /\ UNCHANGED <<sent, landed, deliveries, orphan, channel, dispatch, outcome>>

\* Second orphan check: the write guard of the orphan map lives to the end of
\* the if-let, so taking the entry and feeding the channel is one step.
RegisterCheckAgain(s) ==
    /\ pc[s] = "check2"
    /\ IF orphan[s] # "none"
       THEN /\ orphan' = [orphan EXCEPT ![s] = "none"]
            /\ pending' = pending \ {s}
            /\ channel' = IF s \in pending THEN [channel EXCEPT ![s] = orphan[s]] ELSE channel
       ELSE UNCHANGED <<orphan, pending, channel>>
    /\ Goto(s, "waiting")
    /\ UNCHANGED <<sent, landed, deliveries, dispatch, outcome>>

-----------------------------------------------------------------------------
(***************************************************************************)
(* dispatch_wallet_tx_confirmed, in the main loop.                         *)
(***************************************************************************)
\* Seeded defect: the error of the confirm is dropped on the way.
Notify_ok(s) == "ok"

Notify(s) == landed[s]

DispatchPending(s) ==
    /\ dispatch = Nobody
    /\ landed[s] # "no" /\ deliveries[s] < MaxDelivery
    /\ deliveries' = [deliveries EXCEPT ![s] = @ + 1]
    /\ IF s \in pending
       THEN /\ pending' = pending \ {s}
            /\ channel' = [channel EXCEPT ![s] = Notify(s)]
            /\ UNCHANGED dispatch
       ELSE /\ dispatch' = [sig |-> s]
            /\ UNCHANGED <<pending, channel>>
    /\ UNCHANGED <<sent, landed, orphan, pc, outcome>>

DispatchOrphan(s) ==
    /\ dispatch.sig = s
    /\ orphan' = [orphan EXCEPT ![s] = Notify(s)]
    /\ dispatch' = Nobody
    /\ UNCHANGED <<sent, landed, deliveries, pending, channel, pc, outcome>>

\* The TTL (120 s) outlives every confirmation deadline: an entry goes stale
\* only once no task will register for it any more.
evict_stale_orphan_tx_confirms(s) ==
    /\ orphan[s] # "none" /\ pc[s] = "done"
    /\ orphan' = [orphan EXCEPT ![s] = "none"]
    /\ UNCHANGED <<sent, landed, deliveries, pending, channel, pc, dispatch, outcome>>

-----------------------------------------------------------------------------
(***************************************************************************)
(* confirm_via_jetstream and confirm_bundle_landing.                       *)
(***************************************************************************)
Waiting(s) == pc[s] = "waiting" /\ sent[s]

Verdict(result) == IF result = "ok" THEN "Confirmed" ELSE "FailedConfirmed"

\* The channel wins the select!; a bundle waiter returns without touching
\* pending (the dispatcher removed the entry before it sent).
Notified(s) ==
    /\ Waiting(s) /\ channel[s] # "none"
    /\ outcome' = [outcome EXCEPT ![s] = Verdict(channel[s])]
    /\ pending' = IF s \in Bundles THEN pending ELSE pending \ {s}
    /\ Goto(s, "done")
    /\ UNCHANGED <<sent, landed, deliveries, orphan, channel, dispatch>>

\* Seeded defect: the pending entry outlives the deadline.
DeadlineKept(s) ==
    /\ Waiting(s) /\ s \notin Bundles
    /\ outcome' = [outcome EXCEPT ![s] = "TimeoutSent"]
    /\ Goto(s, "done")
    /\ UNCHANGED <<sent, landed, deliveries, pending, orphan, channel, dispatch>>

\* Seeded defect: only a value in the channel ends the wait.
DeadlineMissing(s) == Waiting(s) /\ s \notin Bundles /\ channel[s] # "none" /\ Notified(s)

\* The deadline wins, possibly although the channel already holds a value.
Deadline(s) ==
    /\ Waiting(s) /\ s \notin Bundles
    /\ outcome' = [outcome EXCEPT ![s] = "TimeoutSent"]
    /\ pending' = pending \ {s}
    /\ Goto(s, "done")
    /\ UNCHANGED <<sent, landed, deliveries, orphan, channel, dispatch>>

\* wait_for_bundle, or the final poll after the deadline, sees the bundle
\* confirmed.  External: Jito executes a bundle atomically, so a confirmed one
\* succeeded (the code looks at the status before it looks at its error).
JitoStatus(s) ==
    /\ Waiting(s) /\ s \in Bundles /\ landed[s] = "ok"
    /\ outcome' = [outcome EXCEPT ![s] = "Confirmed"]
    /\ Goto(s, "done")
    /\ UNCHANGED <<sent, landed, deliveries, pending, orphan, channel, dispatch>>

\* wait_for_bundle fails with something other than a timeout (the status carries
\* an error, or the block engine cannot be asked), or the final poll does.
JitoError(s) ==
    /\ Waiting(s) /\ s \in Bundles
    /\ outcome' = [outcome EXCEPT ![s] = "FailedConfirmed"]
    /\ Goto(s, "done")
    /\ UNCHANGED <<sent, landed, deliveries, pending, orphan, channel, dispatch>>

BundleTimeout(s) ==
    /\ Waiting(s) /\ s \in Bundles
    /\ outcome' = [outcome EXCEPT ![s] = "TimeoutSent"]
    /\ pending' = pending \ {s}
    /\ Goto(s, "done")
    /\ UNCHANGED <<sent, landed, deliveries, orphan, channel, dispatch>>

-----------------------------------------------------------------------------
Waiter(s) ==
    \/ RegisterCheck(s) \/ RegisterInsert(s) \/ RegisterCheckAgain(s)
    \/ Notified(s) \/ Deadline(s)
    \/ JitoStatus(s) \/ JitoError(s) \/ BundleTimeout(s)

ConfirmNext ==
    \E s \in Sigs :
      \/ Send(s) \/ Waiter(s)
      \/ \E result \in {"ok", "err"} : Land(s, result)
      \/ DispatchPending(s) \/ DispatchOrphan(s)
      \/ evict_stale_orphan_tx_confirms(s)

Fairness == \A s \in Sigs : WF_confirmVars(Send(s)) /\ WF_confirmVars(Waiter(s)) /\ WF_confirmVars(DispatchOrphan(s))
ConfirmSpec == ConfirmInit /\ [][ConfirmNext]_confirmVars /\ Fairness

-----------------------------------------------------------------------------
(***************************************************************************)
(* Correctness.                                                            *)
(***************************************************************************)
\* Positions, fills and releases follow the outcome, so it must be true: an
\* intent is Confirmed only if its transaction succeeded on chain, and a
\* single transaction is FailedConfirmed only if it failed there, however the
\* confirm travelled (channel, orphan buffer, duplicate delivery, Jito).
OutcomeIsTrue ==
    \A s \in Sigs :
      /\ outcome[s] = "Confirmed" => landed[s] = "ok"
      /\ outcome[s] = "FailedConfirmed" /\ s \notin Bundles => landed[s] = "err"

\* A finished single-transaction waiter leaves no entry behind in
\* pending_tx_confirms, whichever of channel, deadline and late dispatch came
\* first (otherwise a late confirm would be swallowed by a dead channel).
NoStaleWaiter ==
    \A s \in Sigs \ Bundles : pc[s] = "done" => s \notin pending

\* Every registered intent reaches an outcome: a lost, late or stranded confirm
\* delays it at most to the deadline.
EveryTxDecided == \A s \in Sigs : sent[s] ~> outcome[s] # "none"
=============================================================================
