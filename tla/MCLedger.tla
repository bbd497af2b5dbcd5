------------------------------ MODULE MCLedger -------------------------------
(* Ledger for TLC. *)
EXTENDS Ledger
==============================================================================
