------------------------------ MODULE SoundCpu ------------------------------
(***************************************************************************)
(* What the follower stands for: a Z80 that runs along with the clock, one  *)
(* instruction after the other, and samples the INT line at each of them.   *)
(* Nobody ever sees it behind.                                             *)
(***************************************************************************)
EXTENDS Z80Machine

VARIABLES clock, z, bus

\* One instruction, interrupt response or halted cycle at its own time.
Beat(y, t) == Boundary(y, IntLevelAt(t + y.lead), y.lead + 1)

\* All of them that begin before the clock.
CatchUp(y, b, t) ==
    IF y.lead >= 0 THEN y
    ELSE Settle(Repeat(LAMBDA x : Beat(x, t), y, b, 0), b)

Init ==
    /\ clock = 0 /\ bus = BusPowerOn
    /\ z \in {PowerOn(p) : p \in Profiles}

TimePasses(ticks) ==
    /\ clock' = (clock + ticks) % Frame
    /\ bus' = bus
    /\ z' = CatchUp(Later(z, bus, ticks), bus, clock')

WriteBus(latch, set) ==
    /\ UNCHANGED clock
    /\ z.stop = None
    /\ LET w == BusWritten(z, bus, latch, set, clock) IN z' = w.z /\ bus' = w.bus

WriteRam(c, v) ==
    /\ UNCHANGED clock
    /\ z.stop = None /\ Granted(bus)
    /\ bus' = [bus EXCEPT !.written = @ \cup {c}]
    /\ z' = [z EXCEPT !.ram[c] = v]

Next ==
    \/ \E ticks \in 1 .. 2 * Frame : TimePasses(ticks)
    \/ \E latch \in {"requested", "released"}, set \in BOOLEAN : WriteBus(latch, set)
    \/ \E c \in Cells : \E v \in Contents(c) : WriteRam(c, v)

Spec == Init /\ [][Next]_<<clock, z, bus>>
=============================================================================
