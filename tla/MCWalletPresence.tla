-------------------------- MODULE MCWalletPresence --------------------------
(* WalletPresence for TLC: two slots, one token amount, both snapshot tasks. *)
EXTENDS WalletPresence
=============================================================================
