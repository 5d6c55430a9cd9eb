---------------------------- MODULE EngineRestart ----------------------------
(***************************************************************************)
(* What survives a crash of the execution engine                           *)
(* (src/src/bin/execution_engine.rs, StateSnapshot): the idempotency set   *)
(* and the kill switch live in memory and are saved to one JSON file every *)
(* minute, after every kill-switch request and on shutdown; intents are    *)
(* acknowledged to JetStream when they are enqueued, before they are       *)
(* processed.                                                              *)
(*                                                                         *)
(* std::fs::write truncates the file and then writes it: a crash or a disk *)
(* error in between leaves a file that does not parse, and load starts     *)
(* fresh from it.  The main loop saves and handles control requests, the   *)
(* intent tasks run beside it.  All intents are BUYs, and one delivery of  *)
(* an intent is processed at a time: two at once are IntentPipeline's      *)
(* subject.                                                                *)
(***************************************************************************)
EXTENDS Integers

CONSTANTS
    Intents,
    MaxSends     \* bound: deliveries of one intent that get as far as the send

ASSUME RestartType == MaxSends \in Nat

VARIABLES
    up,                  \* the process runs
    main,                \* main loop: "loop" or "writing" the snapshot
    pending,             \* the snapshot being written
    file,                \* execution_state.json: a snapshot, Absent or Torn
    kill_switch_active,
    processed_intents,
    stream,              \* [Intents -> "new", "delivered" or "acked"]
    task,                \* [Intents -> "none", "queued", "sending" or "sent"]
    sends,               \* [Intents -> number of transactions sent]
    ordered              \* history: "saved" when an active kill switch was saved and
                         \* not reset since, "lost" when a restart then found the file
                         \* torn, otherwise "no"

vars == <<up, main, pending, file, kill_switch_active, processed_intents,
          stream, task, sends, ordered>>

Snapshot(killed, processed) ==
    [tag |-> "snapshot", kill_switch_active |-> killed, processed_intents |-> processed]
Absent == [Snapshot(FALSE, {}) EXCEPT !.tag = "absent"]
Torn   == [Snapshot(FALSE, {}) EXCEPT !.tag = "torn"]

Init ==
    /\ up = TRUE /\ main = "loop" /\ pending = Absent /\ file = Absent
    /\ kill_switch_active = FALSE /\ processed_intents = {}
    /\ stream = [i \in Intents |-> "new"]
    /\ task = [i \in Intents |-> "none"]
    /\ sends = [i \in Intents |-> 0]
    /\ ordered = "no"

-----------------------------------------------------------------------------
(***************************************************************************)
(* The main loop: control requests and snapshots.                          *)
(***************************************************************************)
\* StateSnapshot::from_context, then the truncating open of fs::write.
BeginSave(killed) ==
    /\ pending' = Snapshot(killed, processed_intents)
    /\ file' = Torn
    /\ main' = "writing"

\* Seeded defect: the request is remembered but not saved.
KillSwitchUnsaved(active) ==
    /\ up /\ main = "loop"
    /\ kill_switch_active' = active
    /\ ordered' = IF active THEN "saved" ELSE "no"
    /\ UNCHANGED <<up, main, pending, file, processed_intents, stream, task, sends>>

\* ControlRequestKind::KillSwitch and ResetKillSwitch: set, persist at once.
KillSwitch(active) ==
    /\ up /\ main = "loop"
    /\ kill_switch_active' = active
    /\ ordered' = IF active THEN ordered ELSE "no"
    /\ BeginSave(active)
    /\ UNCHANGED <<up, processed_intents, stream, task, sends>>

\* Every 60 ticks, and on shutdown.
save_state ==
    /\ up /\ main = "loop"
    /\ BeginSave(kill_switch_active)
    /\ UNCHANGED <<up, kill_switch_active, processed_intents, stream, task, sends, ordered>>

SaveCompletes ==
    /\ up /\ main = "writing"
    /\ file' = pending /\ main' = "loop"
    /\ ordered' = IF pending.kill_switch_active THEN "saved" ELSE "no"
    /\ UNCHANGED <<up, pending, kill_switch_active, processed_intents, stream, task,
                   sends>>

\* The write fails: a warning is logged and the loop goes on.
SaveFails ==
    /\ up /\ main = "writing"
    /\ main' = "loop"
    /\ UNCHANGED <<up, pending, file, kill_switch_active, processed_intents, stream, task,
                   sends, ordered>>

-----------------------------------------------------------------------------
(***************************************************************************)
(* Intents: enqueue, acknowledge, check, send, mark.                       *)
(***************************************************************************)
\* An unacknowledged intent is delivered, again if the ack was lost.
Enqueue(i) ==
    /\ up /\ stream[i] # "acked" /\ task[i] = "none" /\ sends[i] < MaxSends
    /\ stream' = [stream EXCEPT ![i] = "delivered"]
    /\ task' = [task EXCEPT ![i] = "queued"]
    /\ UNCHANGED <<up, main, pending, file, kill_switch_active, processed_intents,
                   sends, ordered>>

Ack(i) ==
    /\ up /\ stream[i] = "delivered"
    /\ stream' = [stream EXCEPT ![i] = "acked"]
    /\ UNCHANGED <<up, main, pending, file, kill_switch_active, processed_intents,
                   task, sends, ordered>>

\* Idempotency and kill switch: duplicates and BUYs under an active kill
\* switch are rejected with a decision record.
Admitted(i) == i \notin processed_intents /\ ~kill_switch_active

process_intent(i) ==
    /\ up /\ task[i] = "queued"
    /\ task' = [task EXCEPT ![i] = IF Admitted(i) THEN "sending" ELSE "none"]
    /\ UNCHANGED <<up, main, pending, file, kill_switch_active, processed_intents,
                   stream, sends, ordered>>

Send(i) ==
    /\ up /\ task[i] = "sending"
    /\ sends' = [sends EXCEPT ![i] = @ + 1]
    /\ task' = [task EXCEPT ![i] = "sent"]
    /\ UNCHANGED <<up, main, pending, file, kill_switch_active, processed_intents,
                   stream, ordered>>

mark_processed(i) ==
    /\ up /\ task[i] = "sent"
    /\ processed_intents' = processed_intents \cup {i}
    /\ task' = [task EXCEPT ![i] = "none"]
    /\ UNCHANGED <<up, main, pending, file, kill_switch_active, stream, sends, ordered>>

-----------------------------------------------------------------------------
(***************************************************************************)
(* Crash and restart.                                                      *)
(***************************************************************************)
Crash ==
    /\ up
    /\ up' = FALSE
    /\ UNCHANGED <<main, pending, file, kill_switch_active, processed_intents, stream, task,
                   sends, ordered>>

\* Seeded defect: the idempotency store is not restored.
RestartForgets ==
    /\ ~up /\ up' = TRUE
    /\ main' = "loop" /\ pending' = Absent
    /\ kill_switch_active' = file.kill_switch_active
    /\ processed_intents' = {}
    /\ task' = [i \in Intents |-> "none"]
    /\ UNCHANGED <<file, stream, sends, ordered>>

\* StateSnapshot::load; an absent or unreadable file restores nothing.
Restart ==
    /\ ~up /\ up' = TRUE
    /\ main' = "loop" /\ pending' = Absent
    /\ kill_switch_active' = file.kill_switch_active
    /\ processed_intents' = file.processed_intents
    /\ task' = [i \in Intents |-> "none"]
    /\ ordered' = IF ordered = "saved" /\ file = Torn THEN "lost" ELSE ordered
    /\ UNCHANGED <<file, stream, sends>>

Next ==
    \/ \E active \in BOOLEAN : KillSwitch(active)
    \/ save_state \/ SaveCompletes \/ SaveFails
    \/ \E i \in Intents : \/ Enqueue(i) \/ Ack(i)
                          \/ process_intent(i) \/ Send(i) \/ mark_processed(i)
    \/ Crash \/ Restart

Spec == Init /\ [][Next]_vars

-----------------------------------------------------------------------------
(***************************************************************************)
(* Correctness.                                                            *)
(***************************************************************************)
\* Once an active kill switch has been saved, no BUY is admitted until it is
\* reset, also not after any number of crashes and restarts, as long as no
\* restart finds the state file cut off in the middle of a write.
KillSwitchHolds ==
    [][\A i \in Intents : task[i] = "queued" /\ task'[i] = "sending" => ordered # "saved"]_vars

\* An intent recorded in a complete snapshot is not sent again, whatever
\* crashes and redeliveries follow (execution_engine.rs:22 "Idempotency store
\* persisted and loaded").
SavedNeverResent ==
    [][\A i \in Intents : file.tag = "snapshot" /\ i \in file.processed_intents
         => sends'[i] = sends[i]]_vars
=============================================================================
