----------------------------- MODULE MCDiscovery -----------------------------
(* Discovery for TLC: five words, each with a few instructions of its own, *)
(* chosen so that units overlap, loop, call and jump into one another.     *)
EXTENDS Discovery

Straight(k, len)     == [kind |-> k, len |-> len, target |-> Nowhere, needs |-> Nowhere]
Direct(k, t)         == [kind |-> k, len |-> 1, target |-> t, needs |-> Nowhere]
Computed(k, t, from) == [kind |-> k, len |-> 1, target |-> t, needs |-> from]

WordsAt ==
    (0 :> {Straight("plain", 1), Straight("plain", 2), Direct("jsr", 3), Direct("bcc", 3),
           Direct("bra", 2), Computed("jsra", 4, 2)}) @@
    (1 :> {Straight("plain", 1), Straight("plain", 2), Straight("rts", 1), Direct("bne", 4)}) @@
    (2 :> {Straight("plain", 1), Straight("rts", 1), Straight("operand", 1),
           Direct("jsr", 4), Computed("jmpa", 1, 4)}) @@
    (3 :> {Straight("plain", 1), Straight("rts", 1), Straight("illegal", 1), Direct("jmp", 1),
           Direct("bra", Nowhere)}) @@
    (4 :> {Straight("plain", 1), Straight("rts", 1), Straight("unsupported", 1), Direct("bra", 0)})

MCImages == {i \in [Addr -> UNION {WordsAt[a] : a \in Addr}] : \A a \in Addr : i[a] \in WordsAt[a]}
==============================================================================
