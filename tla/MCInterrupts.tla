---------------------------- MODULE MCInterrupts -----------------------------
(* Interrupts for TLC.                                                     *)
EXTENDS Interrupts

\* The drive and the CDC; without a BIOS nothing wakes main.
CdcProfile == [sources |-> {4, 5}, masks |-> {0, 4}, bios |-> FALSE]

\* Main's request, the timer and the ASIC; with a BIOS the VDP may wake main.
MainProfile == [sources |-> {1, 2, 3}, masks |-> {0, 2}, bios |-> TRUE]

MCProfiles == {CdcProfile, MainProfile}

\* The CDC alone.
HangProfiles == {[sources |-> {5}, masks |-> {0}, bios |-> FALSE]}
==============================================================================
