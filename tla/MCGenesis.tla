----------------------------- MODULE MCGenesis -----------------------------
(* The Genesis machine for TLC.                                             *)
EXTENDS Genesis

\* A driver that waits for the INT, one that latches a stop, and a short one that runs out
\* of its code.
Image(first, second) == [c \in Code |-> IF c = 0 THEN first ELSE second]
Registry == <<Image(Ei, Halt), Image(Inc, Bad), [c \in {0} |-> Inc]>>

\* Their bytes, mixed.
Sent == [c \in Cells |-> CASE c = 0 -> {Ei, Inc} [] c = 1 -> {Halt, Bad} [] OTHER -> {}]
=============================================================================
