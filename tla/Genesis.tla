------------------------------ MODULE Genesis ------------------------------
(***************************************************************************)
(* The Genesis machine around its 68000 (runtime.c): the clock that each    *)
(* retired instruction moves on, the sound processor that follows it        *)
(* (module Z80Machine), the vertical and the horizontal interrupt of the    *)
(* VDP, and STOP, which waits for one of them.                              *)
(*                                                                         *)
(* An instruction of the 68000 is some accesses, at the present time, and   *)
(* then its retirement, which takes time.  The VDP's memories and picture,  *)
(* DMA, pads and save memory are left out.  The interrupt entry and the     *)
(* steps of a wait are steps of their own here; nothing comes between.      *)
(***************************************************************************)
EXTENDS Z80Machine

CONSTANTS
    CycleTicks,     \* GENESIS_M68K_CYCLE_MASTER_TICKS
    Cycles,         \* the cycles an instruction may take
    EntryCycles,    \* the cycles of an interrupt entry
    Quantum,        \* z80_sync_quantum
    Masks,          \* the interrupt masks a program loads
    HintEvery,      \* the values a program gives VDP register 10
    Uploads,        \* bound: the bytes a program writes to the cells of the sound RAM
    Programs        \* bound: what the program of a run is busy with

ASSUME GenesisAssumption ==
    /\ {CycleTicks, EntryCycles, Quantum} \subseteq Nat \ {0}
    /\ Cycles \subseteq Nat \ {0}
    /\ CycleTicks <= Frame /\ \A c \in Cycles \cup {EntryCycles} : c * CycleTicks <= 2 * Frame
    /\ Masks \subseteq 0 .. 7
    /\ HintEvery \subseteq Nat
    /\ Uploads \in [Cells -> SUBSET (Inc .. Bad)] /\ \A c \in Cells : Uploads[c] \subseteq Contents(c)
    /\ Programs \subseteq {"sound", "interrupts"}

VARIABLES
    program,     \* the sound processor or the interrupts
    rom,         \* the interrupt handlers the build found
    clock,       \* scheduler.master_ticks, within the frame
    unsynced,    \* master_ticks - z80_synced_ticks
    z, bus,      \* module Z80Machine
    vdp,         \* IE0, IE1 and register 10
    hint,        \* raster.hint_counter, raster.hint_pending
    vblank,      \* interrupt.vblank_pending
    cpu,         \* the mask of SR, m68k_interrupt.stopped
    at,          \* between instructions, charging an interrupt entry, in a wait
    steps,       \* the scanlines waited for
    ended        \* the diagnostic of the stop, or none

video == <<vdp, hint, vblank, cpu>>
vars == <<program, rom, clock, unsynced, z, bus, video, at, steps, ended>>

MaxSteps == 2 * Lines + 4

\* A horizontal interrupt without a handler is diagnosed in a strict build, else dropped.
Roms == [irq6 : {"present", "work_ram", "absent"}, hint : {"present", "diagnosed", "skipped"}]

-----------------------------------------------------------------------------
(* The scheduler.                                                          *)

\* genesis_raster_enter_line.
EnterLine(h, line) ==
    IF line < OnsetLine
    THEN IF h.counter = 0 THEN [counter |-> vdp.every, pending |-> TRUE]
         ELSE [h EXCEPT !.counter = @ - 1]
    ELSE IF line = OnsetLine THEN [h EXCEPT !.pending = @ \/ h.counter = 0]
    ELSE IF line = Lines - 1 THEN [h EXCEPT !.counter = vdp.every]
    ELSE h

\* genesis_raster_advance: every line that begins in the time that passes.
RasterAdvance(ticks) ==
    LET first == clock \div LineTicks
        n == (clock + ticks) \div LineTicks - first
        h[i \in 0 .. n] == IF i = 0 THEN hint ELSE EnterLine(h[i - 1], (first + i) % Lines)
    IN  h[n]

CrossesOnset(ticks) ==
    IF clock < Onset THEN clock + ticks >= Onset ELSE clock + ticks >= Onset + Frame

\* The level that is sampled, with the vertical interrupt first.
Level(v, h) == IF v THEN 6 ELSE IF h.pending /\ vdp.ie1 THEN 4 ELSE 0

Entered(level) ==
    /\ cpu' = [mask |-> level, stopped |-> FALSE]
    /\ at' = "charge"
    /\ UNCHANGED ended

\* Admission at a boundary: `v' and `h' are the requests, `Idle' what follows if none is
\* taken.
Admit(v, h, Idle) ==
    LET level == Level(v, h)
        Fails(diagnostic) == ended' = diagnostic /\ UNCHANGED <<cpu, at>> /\ vblank' = v /\ hint' = h
    IN  IF level <= cpu.mask THEN vblank' = v /\ hint' = h /\ Idle
        ELSE IF level = 4
        THEN IF rom.hint = "present" THEN Entered(4) /\ vblank' = v /\ hint' = [h EXCEPT !.pending = FALSE]
             ELSE IF rom.hint = "diagnosed" THEN Fails("hint_not_installed")
             ELSE vblank' = v /\ hint' = [h EXCEPT !.pending = FALSE] /\ Idle
        ELSE IF rom.irq6 = "present" THEN Entered(6) /\ vblank' = FALSE /\ hint' = h
             ELSE IF rom.irq6 = "work_ram" THEN Fails("irq6_in_work_ram")
             ELSE vblank' = v /\ hint' = h /\ Idle

\* genesis_irq6_scheduler_and_admit: the clock, the sound processor when a quantum has
\* passed, the scanlines, the onset of the vertical blank, the interrupts.
Scheduler(cycles, admit, Idle) ==
    LET ticks == cycles * CycleTicks
        due == unsynced + ticks >= Quantum
        late == Later(z, bus, ticks)
        v == vblank \/ (CrossesOnset(ticks) /\ vdp.ie0)
        h == RasterAdvance(ticks)
    IN  /\ clock' = (clock + ticks) % Frame
        /\ unsynced' = IF due THEN 0 ELSE unsynced + ticks
        /\ z' = IF due THEN RunTo(late, bus, clock') ELSE late
        /\ IF z'.stop # None THEN ended' = z'.stop /\ UNCHANGED <<hint, vblank, cpu, at>>
           ELSE IF admit THEN Admit(v, h, Idle)
           ELSE vblank' = v /\ hint' = h /\ Idle
        /\ UNCHANGED <<program, rom, bus, vdp>>

-----------------------------------------------------------------------------
(* The instructions of the 68000.                                          *)

Executes == ended = None /\ at = "run" /\ ~ cpu.stopped

\* genesis_z80_sync.
Synced == RunTo(z, bus, clock)

\* An access to the sound RAM, the bus latches or a sound chip: the Z80 first.
SoundAccess ==
    /\ Executes /\ program = "sound"
    /\ unsynced' = 0
    /\ UNCHANGED <<program, rom, clock, video, at, steps>>

\* A read, or a write to a chip.
LooksAtSound ==
    /\ SoundAccess
    /\ z' = Synced
    /\ ended' = z'.stop
    /\ UNCHANGED bus

WritesBus(latch, set) ==
    /\ SoundAccess
    /\ IF Synced.stop # None THEN z' = Synced /\ UNCHANGED bus
       ELSE LET w == BusWritten(Synced, bus, latch, set, clock) IN z' = w.z /\ bus' = w.bus
    /\ ended' = z'.stop

\* genesis_z80_area_access: only with the bus.
WritesSoundRam(c, v) ==
    /\ SoundAccess
    /\ IF Synced.stop = None /\ Granted(bus)
       THEN /\ z' = [Synced EXCEPT !.ram[c] = v]
            /\ bus' = [bus EXCEPT !.written = @ \cup {c}]
            /\ UNCHANGED ended
       ELSE /\ z' = Synced
            /\ ended' = IF Synced.stop # None THEN Synced.stop ELSE "area_without_bus"
            /\ UNCHANGED bus

\* The VDP registers, the mask of SR, STOP.
WritesVdp(r) ==
    /\ Executes /\ program = "interrupts"
    /\ vdp' = r
    /\ UNCHANGED <<program, rom, clock, unsynced, z, bus, hint, vblank, cpu, at, steps, ended>>

LoadsMask(mask, stop) ==
    /\ Executes /\ program = "interrupts"
    /\ cpu' = [mask |-> mask, stopped |-> stop]
    /\ UNCHANGED <<program, rom, clock, unsynced, z, bus, vdp, hint, vblank, at, steps, ended>>

\* genesis_runtime_retire_m68k_instruction.
Retire(cycles) ==
    /\ ended = None /\ at = "run"
    /\ Scheduler(cycles, TRUE, /\ at' = IF cpu.stopped THEN "wait" ELSE "run"
                               /\ UNCHANGED <<cpu, ended>>)
    /\ steps' = 0

\* The cost of the interrupt entry: nothing is admitted.
Charge ==
    /\ ended = None /\ at = "charge"
    /\ Scheduler(EntryCycles, FALSE, at' = "run" /\ UNCHANGED <<cpu, ended>>)
    /\ UNCHANGED steps

-----------------------------------------------------------------------------
(* genesis_m68k_wait_while_stopped.                                        *)

VblankSource == rom.irq6 # "absent" /\ (vblank \/ vdp.ie0)
HintSource == vdp.ie1 /\ rom.hint # "skipped"
HintWakes == HintSource /\ cpu.mask < 4

\* Mutant: a source with a handler is enough, whether enabled or not.
WakePossible_NotEnabled == (IF rom.irq6 # "absent" THEN 6 ELSE IF HintSource THEN 4 ELSE 0) > cpu.mask

\* segarecomp_m68k_stop_wake_possible.
WakePossible == (IF VblankSource THEN 6 ELSE IF HintSource THEN 4 ELSE 0) > cpu.mask

\* The cycles until the clock is `ticks' later, rounded up.
InCycles(ticks) == (ticks + CycleTicks - 1) \div CycleTicks

Waits == ended = None /\ at = "wait"
Ends(diagnostic) == ended' = diagnostic /\ UNCHANGED <<program, rom, clock, unsynced, z, bus, video, at, steps>>

NoWake == Waits /\ steps = 0 /\ ~ WakePossible /\ Ends("no_wake_source")

\* Mutant: one frame of scanlines.
LinesWaited_OneFrame == Lines

\* The bound of the loop over scanlines.
LinesWaited == MaxSteps

WaitLine ==
    /\ Waits /\ (steps = 0 => WakePossible) /\ HintWakes
    /\ IF steps < LinesWaited
       THEN /\ Scheduler(InCycles(LineTicks - (clock % LineTicks)), TRUE, UNCHANGED <<at, cpu, ended>>)
            /\ steps' = IF at' = "wait" THEN steps + 1 ELSE 0
       ELSE Ends("no_wake_source")

WaitOnset ==
    /\ Waits /\ WakePossible /\ ~ HintWakes
    /\ Scheduler(InCycles(IF clock < Onset THEN Onset - clock ELSE Onset + Frame - clock), TRUE,
                 ended' = "inconsistent" /\ UNCHANGED <<at, cpu>>)
    /\ UNCHANGED steps

-----------------------------------------------------------------------------
\* The state after the first retirement, in which line 0 has been entered.
Init ==
    /\ program \in Programs
    /\ \/ /\ program = "sound"
          /\ rom = [irq6 |-> "present", hint |-> "skipped"]
          /\ z \in {PowerOn(p) : p \in Profiles}
       \/ /\ program = "interrupts"
          /\ rom \in Roms
          /\ z = PowerOn("genesis")
    /\ bus = BusPowerOn /\ clock = 0 /\ unsynced = 0
    /\ vdp = [ie0 |-> FALSE, ie1 |-> FALSE, every |-> 0]
    /\ hint = [counter |-> 0, pending |-> TRUE]
    /\ vblank = FALSE
    /\ cpu = [mask |-> 7, stopped |-> FALSE]
    /\ at = "run" /\ steps = 0 /\ ended = None

Next ==
    \/ LooksAtSound
    \/ \E latch \in {"requested", "released"}, set \in BOOLEAN : WritesBus(latch, set)
    \/ \E c \in Cells : \E v \in Uploads[c] : WritesSoundRam(c, v)
    \/ \E r \in [ie0 : BOOLEAN, ie1 : BOOLEAN, every : HintEvery] : WritesVdp(r)
    \/ \E mask \in Masks, stop \in BOOLEAN : LoadsMask(mask, stop)
    \/ \E cycles \in Cycles : Retire(cycles)
    \/ Charge
    \/ NoWake \/ WaitLine \/ WaitOnset

Spec == Init /\ [][Next]_vars

-----------------------------------------------------------------------------
(* Properties.                                                             *)

\* A running Z80 is behind by no more than the time since it was last brought up to the
\* clock, after any sequence of holds, resets, faults and restarts: the time it was held is
\* not made up (hook_bus_event), and the quantum bounds the rest.
LagIsBounded == Running(z, bus) => z.lead >= -unsynced

\* The follower cannot be told from a Z80 that runs along with the clock: how often it is
\* synchronized, in how large pieces (runs, quanta, segments between INT edges, jumps of a
\* waiting 68000) and how a halted Z80 is accounted for changes no instruction, no interrupt
\* and no byte of sound RAM (contract section 10).  The 68000 never sees it behind.
S == INSTANCE SoundCpu
Follower == INSTANCE SoundCpu WITH z <- S!CatchUp(z, bus, clock)
ImplementsSoundCpu == Follower!Spec

\* A wait ends as stopped_without_wake_source only if no interrupt would ever come: not the
\* vertical one, and not the horizontal one, however the counter stood when the 68000
\* stopped.  An unserved vertical request hides the horizontal one for good.
WakelessIsFinal ==
    ended = "no_wake_source" =>
        /\ ~ (vdp.ie0 /\ rom.irq6 # "absent" /\ cpu.mask < 6)
        /\ ~ (HintWakes /\ vdp.every <= OnsetLine /\ ~ vblank)

\* "Unreachable by the wake condition above": the jump to the onset always ends the wait.
JumpWakes == ended # "inconsistent"
=============================================================================
