---------------------------- MODULE MCCodeViews -----------------------------
(* Three cells in two granules.  Of the overlays, the first two fill the    *)
(* same range and the third crosses its end; of the dynamic images, the     *)
(* second begins like the first.                                            *)
EXTENDS CodeViews, Sequences

MCOverlay(lo, hi, bytes, roots) ==
    [lo |-> lo, hi |-> hi, bytes |-> bytes, roots |-> roots, entries |-> lo .. hi - 1]

MCCandidates == <<
    MCOverlay(0, 2, [c \in 0 .. 1 |-> 0], {0}),
    MCOverlay(0, 2, [c \in 0 .. 1 |-> c], {0}),
    MCOverlay(1, 3, [c \in 1 .. 2 |-> 1], {1, 2})>>

MCImages == <<
    [length |-> 2, bytes |-> [o \in 0 .. 1 |-> o], bodies |-> {0}],
    [length |-> 3, bytes |-> [o \in 0 .. 2 |-> IF o = 1 THEN 1 ELSE 0], bodies |-> {0, 1, 2}]>>
=============================================================================
