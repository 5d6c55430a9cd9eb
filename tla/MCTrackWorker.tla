---------------------------- MODULE MCTrackWorker ----------------------------
(* TrackWorker on small instances: who acts how often in one behaviour. *)
EXTENDS TrackWorker

Row(w, k, c, t, f) == [wallet |-> w, control |-> k, changes |-> c, ticks |-> t, faults |-> f]

\* The wallet's demand against the control commands; the bot against each.
MCBudgets == {Row(2, 1, 0, 0, 1), Row(1, 0, 1, 1, 1), Row(0, 1, 1, 1, 1), Row(0, 0, 1, 1, 3)}

==============================================================================
