----------------------------- MODULE MCTxConfirm -----------------------------
(* TxConfirm for TLC: a single transaction and a bundle.                     *)
EXTENDS TxConfirm
=============================================================================
