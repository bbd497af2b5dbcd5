---------------------------- MODULE MCSubControl -----------------------------
(* SubControl for TLC.                                                     *)
EXTENDS SubControl
==============================================================================
