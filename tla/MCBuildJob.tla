----------------------------- MODULE MCBuildJob -----------------------------
(* The build job for TLC: both kinds, two attempts, two faults.             *)
EXTENDS BuildJob
=============================================================================
