------------------------------- MODULE HandOff -------------------------------
(***************************************************************************)
(* What the memory-mode register promises, without its bits: which of the  *)
(* two processors has each of the two banks of Word RAM, whether main has  *)
(* asked for the sub to have it, and whether the sub is held waiting for   *)
(* it.  One processor has both banks (2M mode) or each has one (1M mode).  *)
(***************************************************************************)
EXTENDS Naturals

VARIABLES
    owner,      \* owner[b] is the processor that has bank b
    requested,  \* main has asked and nobody has withdrawn it
    waiting     \* the sub is held on an access

vars == <<owner, requested, waiting>>

Banks      == {0, 1}
Whole(cpu) == [b \in Banks |-> cpu]
Split(b)   == [c \in Banks |-> IF c = b THEN "main" ELSE "sub"]

Init == owner = Whole("main") /\ requested = FALSE /\ waiting = FALSE

\* Main hands Word RAM over; a sub that waited for it runs again.
MainGives ==
    /\ owner = Whole("main")
    /\ owner' = Whole("sub") /\ requested' = TRUE /\ waiting' = FALSE

\* Main asks for a later hand-over while each processor has a bank.
MainAsks ==
    /\ owner \in {Split(0), Split(1)}
    /\ requested' = TRUE
    /\ UNCHANGED <<owner, waiting>>

\* The sub splits Word RAM, or swaps the banks; giving main bank 1 withdraws
\* the request.
SubSplits(b) ==
    /\ ~waiting
    /\ owner' = Split(b)
    /\ requested' = (requested /\ b = 0)
    /\ UNCHANGED waiting

\* The sub joins the banks and keeps them: only if main asked.
SubKeeps ==
    /\ ~waiting
    /\ owner \in {Split(0), Split(1)} /\ requested
    /\ owner' = Whole("sub")
    /\ UNCHANGED <<requested, waiting>>

\* The sub returns what it has.
SubReturns ==
    /\ ~waiting
    /\ owner # Whole("main")
    /\ owner' = Whole("main") /\ requested' = FALSE
    /\ UNCHANGED waiting

\* The sub touches Word RAM that main has.
SubWaits ==
    /\ ~waiting
    /\ owner = Whole("main")
    /\ waiting' = TRUE
    /\ UNCHANGED <<owner, requested>>

\* Main resets the sub out of its wait.
SubReset ==
    /\ waiting
    /\ waiting' = FALSE
    /\ UNCHANGED <<owner, requested>>

Next ==
    \/ MainGives \/ MainAsks
    \/ \E b \in Banks : SubSplits(b)
    \/ SubKeeps \/ SubReturns \/ SubWaits \/ SubReset

Spec == Init /\ [][Next]_vars
==============================================================================
