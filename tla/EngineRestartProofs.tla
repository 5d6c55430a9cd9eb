------------------------- MODULE EngineRestartProofs -------------------------
(* Theorems about EngineRestart, for every set of intents and any number of  *)
(* crashes, disk errors and redeliveries.                                    *)
EXTENDS EngineRestart, TLAPS

(***************************************************************************)
(* The inductive invariant.  What a restart reads must agree with what was *)
(* promised before it, so the invariant follows each promise through its   *)
(* three copies: in memory, in the snapshot being written, in the file.    *)
(***************************************************************************)
Snapshots == [tag : {"snapshot", "absent", "torn"}, kill_switch_active : BOOLEAN,
              processed_intents : SUBSET Intents]

TypeOK ==
    /\ up \in BOOLEAN /\ main \in {"loop", "writing"}
    /\ pending \in Snapshots /\ file \in Snapshots
    /\ kill_switch_active \in BOOLEAN /\ processed_intents \in SUBSET Intents
    /\ stream \in [Intents -> {"new", "delivered", "acked"}]
    /\ task \in [Intents -> {"none", "queued", "sending", "sent"}]
    /\ sends \in [Intents -> Nat]
    /\ ordered \in {"no", "saved", "lost"}

\* A saved kill switch is on in memory while the process runs, and in the file
\* unless a write was cut off; the snapshot being written agrees with memory.
KillSwitchCopies ==
    /\ ordered = "saved" => (up => kill_switch_active)
                            /\ (file = Torn \/ file.kill_switch_active)
    /\ up /\ main = "writing" => pending.kill_switch_active = kill_switch_active

\* While the process runs, memory knows every intent that the file or the
\* snapshot being written knows, and no such intent is on its way to a send.
IdempotencyCopies ==
    up => /\ file.processed_intents \subseteq processed_intents
          /\ main = "writing" => pending.processed_intents \subseteq processed_intents
          /\ \A i \in Intents : task[i] \in {"sending", "sent"} => i \notin processed_intents

IInv == TypeOK /\ KillSwitchCopies /\ IdempotencyCopies

\* The fields of the three kinds of file content.
LEMMA SnapshotFields ==
    /\ Torn \in Snapshots /\ Absent \in Snapshots
    /\ Torn.processed_intents = {} /\ Absent.processed_intents = {}
    /\ \A k \in BOOLEAN, p \in SUBSET Intents :
         /\ Snapshot(k, p) \in Snapshots
         /\ Snapshot(k, p).kill_switch_active = k
         /\ Snapshot(k, p).processed_intents = p
BY DEF Torn, Absent, Snapshot, Snapshots

\* The engine starts without a file and with the kill switch off.
LEMMA InitIInv == Init => IInv
<1> SUFFICES ASSUME Init PROVE IInv
  OBVIOUS
<1>1. TypeOK
  BY SnapshotFields DEF Init, TypeOK
<1>2. KillSwitchCopies
  BY DEF Init, KillSwitchCopies
<1>3. IdempotencyCopies
  BY SnapshotFields DEF Init, IdempotencyCopies
<1> QED  BY <1>1, <1>2, <1>3 DEF IInv

\* Starting a save, by a control request or the timer.
LEMMA BeginSaveIInv ==
    ASSUME IInv, NEW k \in BOOLEAN, up, BeginSave(k), kill_switch_active' = k,
           UNCHANGED <<up, processed_intents, stream, task, sends>>,
           ordered' \in {"no", "saved", "lost"}, ordered' = "saved" => k
    PROVE  IInv'
<1>1. pending' = Snapshot(k, processed_intents) /\ file' = Torn /\ main' = "writing"
  BY DEF BeginSave
<1>2. processed_intents \in SUBSET Intents
  BY DEF IInv, TypeOK
<1>3. /\ pending' \in Snapshots /\ pending'.kill_switch_active = k
      /\ pending'.processed_intents = processed_intents
      /\ file' \in Snapshots /\ file'.processed_intents = {}
  BY <1>1, <1>2, SnapshotFields
<1>4. TypeOK'
  BY <1>1, <1>3 DEF IInv, TypeOK
<1>5. KillSwitchCopies'
  BY <1>1, <1>3 DEF KillSwitchCopies, Torn, Snapshot
<1>6. IdempotencyCopies'
  BY <1>1, <1>3 DEF IInv, IdempotencyCopies
<1> QED  BY <1>4, <1>5, <1>6 DEF IInv

\* Every step keeps the inductive invariant.
LEMMA NextIInv == IInv /\ [Next]_vars => IInv'
<1> SUFFICES ASSUME IInv, [Next]_vars PROVE IInv'
  OBVIOUS
<1>0. TypeOK /\ KillSwitchCopies /\ IdempotencyCopies
  BY DEF IInv
<1>1. ASSUME NEW active \in BOOLEAN, KillSwitch(active) PROVE IInv'
  <2>1. ordered' \in {"no", "saved", "lost"} /\ (ordered' = "saved" => active)
    BY <1>0, <1>1 DEF KillSwitch, TypeOK
  <2> QED  BY <1>1, <2>1, BeginSaveIInv DEF KillSwitch
<1>2. CASE save_state
  <2>1. /\ kill_switch_active \in BOOLEAN /\ ordered' \in {"no", "saved", "lost"}
        /\ ordered' = "saved" => kill_switch_active
    BY <1>0, <1>2 DEF save_state, TypeOK, KillSwitchCopies
  <2> QED  BY <1>2, <2>1, BeginSaveIInv DEF save_state
<1>3. CASE SaveCompletes
  <2>1. TypeOK'
    BY <1>0, <1>3 DEF SaveCompletes, TypeOK
  <2>2. KillSwitchCopies'
    BY <1>0, <1>3 DEF SaveCompletes, KillSwitchCopies
  <2>3. IdempotencyCopies'
    BY <1>0, <1>3 DEF SaveCompletes, IdempotencyCopies
  <2> QED  BY <2>1, <2>2, <2>3 DEF IInv
<1>4. CASE SaveFails \/ Crash
  <2>1. TypeOK'
    BY <1>0, <1>4 DEF SaveFails, Crash, TypeOK
  <2>2. KillSwitchCopies'
    BY <1>0, <1>4 DEF SaveFails, Crash, KillSwitchCopies, Torn, Snapshot
  <2>3. IdempotencyCopies'
    BY <1>0, <1>4 DEF SaveFails, Crash, IdempotencyCopies
  <2> QED  BY <2>1, <2>2, <2>3 DEF IInv
<1>5. ASSUME NEW i \in Intents,
             Enqueue(i) \/ Ack(i) \/ process_intent(i) \/ Send(i) \/ mark_processed(i)
      PROVE  IInv'
  <2>1. TypeOK'
    BY <1>0, <1>5 DEF Enqueue, Ack, process_intent, Send, mark_processed, TypeOK
  <2>2. KillSwitchCopies'
    BY <1>0, <1>5 DEF Enqueue, Ack, process_intent, Send, mark_processed, KillSwitchCopies,
       Torn, Snapshot
  <2>3. IdempotencyCopies'
    <3>1. CASE Enqueue(i) \/ Ack(i) \/ Send(i)
      BY <1>0, <3>1 DEF Enqueue, Ack, Send, IdempotencyCopies, TypeOK
    <3>2. CASE process_intent(i)
      BY <1>0, <3>2 DEF process_intent, Admitted, IdempotencyCopies, TypeOK
    <3>3. CASE mark_processed(i)
      BY <1>0, <3>3 DEF mark_processed, IdempotencyCopies, TypeOK
    <3> QED  BY <1>5, <3>1, <3>2, <3>3
  <2> QED  BY <2>1, <2>2, <2>3 DEF IInv
<1>6. CASE Restart
  <2>1. TypeOK'
    BY <1>0, <1>6, SnapshotFields DEF Restart, TypeOK, Snapshots
  <2>2. KillSwitchCopies'
    BY <1>0, <1>6 DEF Restart, KillSwitchCopies, Torn, Snapshot
  <2>3. IdempotencyCopies'
    BY <1>0, <1>6 DEF Restart, IdempotencyCopies
  <2> QED  BY <2>1, <2>2, <2>3 DEF IInv
<1>7. CASE UNCHANGED vars
  <2>1. TypeOK' /\ IdempotencyCopies'
    BY <1>0, <1>7 DEF vars, TypeOK, IdempotencyCopies
  <2>2. KillSwitchCopies'
    BY <1>0, <1>7 DEF vars, KillSwitchCopies, Torn, Snapshot
  <2> QED  BY <2>1, <2>2 DEF IInv
<1> QED
  BY <1>1, <1>2, <1>3, <1>4, <1>5, <1>6, <1>7 DEF Next

\* For every set of intents: once an active kill switch has been saved, no BUY
\* is admitted until it is reset, across any number of crashes and restarts,
\* unless a restart found the state file torn.
THEOREM KillSwitchPersists == Spec => KillSwitchHolds
<1> DEFINE Step == \A i \in Intents :
             task[i] = "queued" /\ task'[i] = "sending" => ordered # "saved"
<1>1. IInv /\ [Next]_vars => [Step]_vars
  <2> SUFFICES ASSUME IInv, Next, NEW i \in Intents, task[i] = "queued", task'[i] = "sending"
               PROVE  ordered # "saved"
    BY DEF Step
  <2>0. task \in [Intents -> {"none", "queued", "sending", "sent"}]
    BY DEF IInv, TypeOK
  <2>1. CASE (\E active \in BOOLEAN : KillSwitch(active)) \/ save_state \/ SaveCompletes
             \/ SaveFails \/ Crash \/ Restart
    BY <2>1 DEF KillSwitch, save_state, SaveCompletes, SaveFails, Crash, Restart
  <2>2. ASSUME NEW j \in Intents, Enqueue(j) \/ Ack(j) \/ Send(j) \/ mark_processed(j)
        PROVE  FALSE
    BY <2>0, <2>2 DEF Enqueue, Ack, Send, mark_processed
  <2>3. ASSUME NEW j \in Intents, process_intent(j) PROVE ordered # "saved"
    <3>1. j = i /\ Admitted(j) /\ up
      BY <2>0, <2>3 DEF process_intent
    <3> QED  BY <3>1 DEF Admitted, IInv, KillSwitchCopies
  <2> QED  BY <2>1, <2>2, <2>3 DEF Next
<1>2. [][Step]_vars <=> KillSwitchHolds
  BY DEF KillSwitchHolds
<1> HIDE DEF Step
<1> QED  BY <1>1, <1>2, InitIInv, NextIInv, PTL DEF Spec

\* For every set of intents: an intent recorded in the snapshot on disk is
\* never sent again, whatever crashes, torn writes and redeliveries follow.
THEOREM SavedIsFinal == Spec => SavedNeverResent
<1> DEFINE Step == \A i \in Intents :
             file.tag = "snapshot" /\ i \in file.processed_intents => sends'[i] = sends[i]
<1>1. IInv /\ [Next]_vars => [Step]_vars
  <2> SUFFICES ASSUME IInv, Next, NEW i \in Intents, i \in file.processed_intents
               PROVE  sends'[i] = sends[i]
    BY DEF Step
  <2>0. sends \in [Intents -> Nat]
    BY DEF IInv, TypeOK
  <2>1. CASE (\E active \in BOOLEAN : KillSwitch(active)) \/ save_state \/ SaveCompletes
             \/ SaveFails \/ Crash \/ Restart
    BY <2>1 DEF KillSwitch, save_state, SaveCompletes, SaveFails, Crash, Restart
  <2>2. ASSUME NEW j \in Intents,
               Enqueue(j) \/ Ack(j) \/ process_intent(j) \/ mark_processed(j)
        PROVE  sends'[i] = sends[i]
    BY <2>2 DEF Enqueue, Ack, process_intent, mark_processed
  <2>3. ASSUME NEW j \in Intents, Send(j) PROVE sends'[i] = sends[i]
    <3>1. j \notin file.processed_intents
      BY <2>3 DEF Send, IInv, IdempotencyCopies
    <3> QED  BY <2>0, <2>3, <3>1 DEF Send
  <2> QED  BY <2>1, <2>2, <2>3 DEF Next
<1>2. [][Step]_vars <=> SavedNeverResent
  BY DEF SavedNeverResent
<1> HIDE DEF Step
<1> QED  BY <1>1, <1>2, InitIInv, NextIInv, PTL DEF Spec
=============================================================================
