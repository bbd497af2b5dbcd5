----------------------------- MODULE Z80Machine -----------------------------
(***************************************************************************)
(* The sound processor of the Genesis and of the Sega CD (z80_machine.c,    *)
(* z80_runtime.h, and the bus latches of runtime.c) as operators on its     *)
(* state.  It is a follower: the 68000 keeps the clock, and the Z80 is run  *)
(* up to it, in whole instructions, when somebody looks.                    *)
(*                                                                         *)
(* `clock' is the 68000's time within a frame, `z.lead' how far the Z80's   *)
(* own time is ahead of it (negative: behind), both in master ticks.        *)
(*                                                                         *)
(* A Z80 program is a few one-byte instructions in the first cells of the   *)
(* sound RAM; the last cell is its stack and mailbox.  The device ports and *)
(* the banked window are left out, but for an access that latches a stop.   *)
(***************************************************************************)
EXTENDS Integers, Sequences, FiniteSets, FiniteSetsExt

CONSTANTS
    Divider,      \* GENESIS_Z80_CLOCK_DIVIDER
    LineTicks,    \* GENESIS_NTSC_MASTER_TICKS_PER_LINE
    Lines,        \* GENESIS_NTSC_LINES_PER_FRAME
    OnsetLine,    \* GENESIS_NTSC_VBLANK_ONSET_LINE
    M1,           \* the clocks of a halted M1 cycle
    CodeSize,     \* the cells a program counter ranges over
    Images        \* the registry of compiled images: the written cells and their contents

Onset == OnsetLine * LineTicks
Frame == Lines * LineTicks

ASSUME Z80Assumption ==
    /\ {Divider, LineTicks, Lines, OnsetLine, M1, CodeSize} \subseteq Nat \ {0}
    /\ OnsetLine + 1 < Lines
    /\ Frame % Divider = 0

Code == 0 .. CodeSize - 1
Mailbox == CodeSize
Cells == Code \cup {Mailbox}

\* The instructions; the mailbox holds a count or a return address.
Inc == 0
Ei == 1
Halt == 2
Bad == 3
Contents(c) == IF c = Mailbox THEN Code ELSE Inc .. Bad

None == "none"

\* Which of the machine's options are set: the Genesis, a Sega CD program, the pass of
\* a Sega CD build that collects images.
Profiles == {"genesis", "segacd", "pass"}
IsolateViewStops(z) == z.profile # "genesis"
QuiesceUnknownImage(z) == z.profile = "pass"
RearmFaultedOnEpoch(z) == z.profile # "genesis"
AccumulateUntilEpoch(z) == z.profile # "genesis"

\* genesis_z80_machine_attach: in reset, nothing bound.  The sound RAM is zero-filled.
PowerOn(profile) ==
    [profile |-> profile, lead |-> 0, pc |-> 0, iff |-> FALSE, deferral |-> FALSE,
     halted |-> FALSE, ram |-> [c \in Cells |-> 0],
     bound |-> 0, last |-> 0, fault |-> FALSE, stop |-> None]
BusPowerOn == [requested |-> FALSE, released |-> FALSE, executed |-> FALSE, written |-> {}]

-----------------------------------------------------------------------------
(* Time.                                                                   *)

\* int_level_at: the INT line is high during the onset line only.
IntLevelAt(t) == t % Frame >= Onset /\ t % Frame < Onset + LineTicks

\* Mutant: the end of the pulse is not an edge.
NextIntEdge_OnsetOnly(t) ==
    LET phase == t % Frame
    IN  IF phase < Onset THEN Onset - phase ELSE Frame + Onset - phase

\* next_int_edge, as the distance from t.
NextIntEdge(t) ==
    LET phase == t % Frame
    IN  IF phase < Onset THEN Onset - phase
        ELSE IF phase < Onset + LineTicks THEN Onset + LineTicks - phase
        ELSE Frame + Onset - phase

\* ceil_to_z80_clock, as the distance from the clock.
ToZ80Clock(clock) == (-clock) % Divider

\* machine_runnable, with the fault that run_to asks for first.
Runnable(bus) == bus.released /\ ~ bus.requested
Running(z, bus) == Runnable(bus) /\ z.bound # 0 /\ ~ z.fault /\ z.stop = None

\* How far a Z80 that does not run is behind is never looked at, only whether it is.
Settle(z, bus) ==
    IF z.lead >= 0 \/ Running(z, bus) THEN z
    ELSE [z EXCEPT !.lead = (@ % Divider) - Divider]

\* The 68000's clock moves on.
Later(z, bus, ticks) == Settle([z EXCEPT !.lead = @ - ticks], bus)

-----------------------------------------------------------------------------
(* Execution.                                                              *)

After(z, clocks) == [z EXCEPT !.lead = @ + clocks * Divider]

\* What the instruction at the program counter does.
Effect(z) ==
    LET op == z.ram[z.pc]
        y == [z EXCEPT !.pc = (@ + 1) % CodeSize, !.deferral = FALSE]
    IN  CASE op = Inc -> After([y EXCEPT !.ram[Mailbox] = (@ + 1) % CodeSize], 1)
          [] op = Ei -> After([y EXCEPT !.iff = TRUE, !.deferral = TRUE], 1)
          [] op = Halt -> After([y EXCEPT !.halted = TRUE], 1)
          [] op = Bad -> After(y, 2)

\* run_to after a view stop or a code mismatch: the sound processor is isolated.
Isolated(z) == [z EXCEPT !.fault = TRUE, !.bound = 0]
ViewStopped(z) == IF IsolateViewStops(z) THEN Isolated(z) ELSE [z EXCEPT !.stop = "view"]

\* z80_accept_int in IM1 (the vector is the first cell).
AcceptInt(z) ==
    After([z EXCEPT !.iff = FALSE, !.halted = FALSE, !.deferral = FALSE,
                    !.ram[Mailbox] = z.pc, !.pc = 0], 2)

\* The owner of the program counter in the bound image, z80_live_guard and the
\* instruction; the guard precedes every effect.
Owner(z) ==
    IF z.pc \notin DOMAIN Images[z.bound] THEN [z EXCEPT !.stop = "no_owner"]
    ELSE IF z.ram[z.pc] # Images[z.bound][z.pc] THEN Isolated(z)
    ELSE IF z.ram[z.pc] = Bad THEN ViewStopped(Effect(z)) ELSE Effect(z)

\* z80_boundary with the INT line at `level' and the deadline at `end'.
Boundary(z, level, end) ==
    IF level /\ z.iff /\ ~ z.deferral THEN AcceptInt(z)
    ELSE IF z.halted THEN LET clocks == M1 * Divider
                          IN  [z EXCEPT !.lead = @ + clocks * ((end - @ + clocks - 1) \div clocks)]
    ELSE Owner(z)

\* F applied as long as the Z80 runs and is before `end'; each time it gets on by a clock
\* at least.
Repeat(F(_), z, bus, end) ==
    LET n == (end - z.lead + Divider - 1) \div Divider
        y[i \in 0 .. n] ==
            IF i = 0 THEN z
            ELSE LET x == y[i - 1]
                 IN  IF Running(x, bus) /\ x.lead < end THEN F(x) ELSE x
    IN  y[n]

\* z80_run: one segment, in which the INT line does not change.
Segment(z, bus, clock) ==
    LET now == clock + z.lead
        end == Min({z.lead + NextIntEdge(now), 0})
    IN  Repeat(LAMBDA x : Boundary(x, IntLevelAt(now), end), z, bus, end)

\* genesis_z80_machine_run_to.
RunTo(z, bus, clock) ==
    IF z.lead >= 0 THEN z
    ELSE Settle(Repeat(LAMBDA x : Segment(x, bus, clock), z, bus, 0), bus)

-----------------------------------------------------------------------------
(* The bus latches, the image epochs and the sound RAM.                    *)

\* activate_image: the written cells and their contents select a compiled image.
Activate(z, written) ==
    LET signature == [c \in written |-> z.ram[c]]
    IN  IF z.fault THEN z
        ELSE IF written = {} /\ z.last # 0 THEN [z EXCEPT !.bound = z.last]
        ELSE IF \E i \in DOMAIN Images : Images[i] = signature
             THEN LET i == CHOOSE i \in DOMAIN Images : Images[i] = signature
                  IN  [z EXCEPT !.bound = i, !.last = i]
        ELSE [z EXCEPT !.bound = 0,
                       !.stop = IF QuiesceUnknownImage(z) THEN @ ELSE "unknown_image"]

\* z80_reset at the release of /RESET, unless a fault is permanent.
ResetReleased(z, clock) ==
    IF z.fault /\ ~ RearmFaultedOnEpoch(z) THEN z
    ELSE [z EXCEPT !.pc = 0, !.iff = FALSE, !.deferral = FALSE, !.halted = FALSE,
                   !.lead = ToZ80Clock(clock)]

\* Mutant: the time spent held is made up.
Resumed_MakesUp(z, clock) == z

\* A Z80 that may run again goes on at the next Z80 clock.
Resumed(z, clock) ==
    IF ~ z.fault /\ z.lead < ToZ80Clock(clock) THEN [z EXCEPT !.lead = ToZ80Clock(clock)] ELSE z

\* genesis_z80_bus_write and hook_bus_event: one of the two latches is written.
BusWritten(z, bus, latch, set, clock) ==
    IF bus[latch] = set THEN [z |-> z, bus |-> bus]
    ELSE LET release == latch = "released" /\ set
             moved == [bus EXCEPT ![latch] = set, !.executed = @ /\ ~ release]
             transition == Runnable(moved) /\ ~ Runnable(bus)
             epoch == transition /\ ~ moved.executed
             reset == IF release THEN ResetReleased(z, clock) ELSE z
             armed == [reset EXCEPT !.fault = @ /\ ~ (epoch /\ RearmFaultedOnEpoch(z))]
             timed == IF transition THEN Resumed(armed, clock) ELSE armed
             after == [moved EXCEPT !.executed = @ \/ epoch,
                                    !.written = IF transition /\ (epoch \/ ~ AccumulateUntilEpoch(z))
                                                THEN {} ELSE @]
             bound == IF epoch THEN Activate(timed, bus.written) ELSE timed
         IN  [z |-> Settle(bound, after), bus |-> IF bound.stop = None THEN after ELSE moved]

\* genesis_z80_area_access and genesis_z80_epoch_note_ram_write.
Granted(bus) == bus.requested /\ bus.released
=============================================================================
