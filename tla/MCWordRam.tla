------------------------------ MODULE MCWordRam ------------------------------
(* WordRam for TLC: the constants are given in the cfg files.              *)
EXTENDS WordRam
==============================================================================
