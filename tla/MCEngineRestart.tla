--------------------------- MODULE MCEngineRestart ---------------------------
(* EngineRestart for TLC: two intents, each delivered until sent twice.     *)
EXTENDS EngineRestart
=============================================================================
