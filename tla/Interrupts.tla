----------------------------- MODULE Interrupts ------------------------------
(***************************************************************************)
(* The sub processor's interrupts, the STOP instruction and the decision   *)
(* that the machine is idle (scd_machine.c, with the sources in            *)
(* scd_gate_array.c, scd_devices.c, scd_gfx.c and scd_cd.c).               *)
(*                                                                         *)
(* A source sets a bit of ga.pending; the highest pending and enabled      *)
(* level above the sub's mask is accepted before its next instruction, or  *)
(* ends its STOP.  When neither processor can run, the scheduler asks      *)
(* whether any source could still wake one (scd_machine_idle).  If not,    *)
(* the run is over: that is the success result of a program.               *)
(*                                                                         *)
(* Device times are not modelled: an event that is armed may happen at any *)
(* moment.  A drive tick without HOCK and without DECEN changes nothing    *)
(* here and is left out: a drive that only plays or seeks delays the end   *)
(* of a run, and comes to the end of the disc.                             *)
(***************************************************************************)
EXTENDS Integers, CdcInt

CONSTANT
    Profiles \* the machines and programs: levels whose sources are used, masks, BIOS

ASSUME ProfilesAssumption ==
    \A p \in Profiles : p.sources \subseteq 1..5 /\ p.masks \subseteq 0..7 /\ p.bios \in BOOLEAN

VARIABLES
    profile,      \* the profile of this run, constant
    ie,           \* ga.interrupt_enable
    pending,      \* ga.pending
    ifl2,         \* ga.ifl2, the request flag main reads
    main_stopped, \* main is in STOP
    main_wake,    \* an enabled VDP level is above the mask it stopped with
    sub_stopped,  \* the sub is in STOP
    sub_mask,     \* the interrupt mask of its SR
    sub_halted,   \* ga.sub_halted
    sub_wait,     \* ga.sub_wait
    timer,        \* the timer is running
    gfx_busy,     \* a graphics operation is started
    hock,         \* the drive interrupt enable of $FF8037
    main_owns,    \* 2M mode and main has Word RAM: ASIC and 2M transfers halt
    cdc,          \* CdcInt
    ended         \* scd_machine_run has returned SCD_RUN_IDLE

ga   == <<ie, pending, ifl2>>
hold == <<sub_halted, sub_wait>>
cpus == <<main_stopped, main_wake, sub_stopped, sub_mask, hold>>
devs == <<timer, gfx_busy, hock, main_owns>>
vars == <<profile, ga, cpus, devs, cdc, ended>>

\* The levels whose sources the program uses, the interrupt masks it loads, and the
\* BIOS-image profile, in which the VDP may wake main.
Sources == profile.sources
Masks   == profile.masks
Bios    == profile.bios

Init ==
    /\ profile \in Profiles
    /\ ie = {} /\ pending = {} /\ ifl2 = FALSE
    /\ main_stopped = FALSE /\ main_wake = FALSE
    /\ sub_stopped = FALSE /\ sub_mask = 7
    /\ sub_halted = TRUE /\ sub_wait = FALSE
    /\ timer = FALSE /\ gfx_busy = FALSE /\ hock = FALSE /\ main_owns = TRUE
    /\ cdc = CdcQuiet
    /\ ended = FALSE

------------------------------------------------------------------------------
(* Levels.                                                                 *)

Highest(S) == IF S = {} THEN 0 ELSE CHOOSE l \in S : \A k \in S : k <= l

\* scd_sub_request_level.
RequestLevel == Highest(pending \cap ie)

\* Mutant: the decoder is forgotten.
CanRaise_NoDecoder(level) ==
    CASE level = 1 -> gfx_busy /\ ~main_owns
      [] level = 3 -> timer
      [] level = 4 -> hock
      [] level = 5 -> cdc.xfer \in {"RUNNING", "HALTED"} /\ "DTEI" \in cdc.ifctrl
      [] OTHER     -> FALSE

\* Mutant: the CDC counts whether or not it may drive its line.
CanRaise_NotEnabled(level) ==
    CASE level = 1 -> gfx_busy /\ ~main_owns
      [] level = 3 -> timer
      [] level = 4 -> hock
      [] level = 5 -> cdc.xfer \in {"RUNNING", "HALTED"} \/ cdc.decen
      [] OTHER     -> FALSE

\* scd_devices_can_raise; the caller has tested the enable bit.
CanRaise(level) ==
    CASE level = 1 -> gfx_busy /\ ~main_owns
      [] level = 3 -> timer
      [] level = 4 -> hock
      [] level = 5 -> \/ cdc.xfer \in {"RUNNING", "HALTED"} /\ "DTEI" \in cdc.ifctrl
                      \/ cdc.decen /\ "DECI" \in cdc.ifctrl
      [] OTHER     -> FALSE

\* scd_sub_max_wake_level.
MaxWakeLevel ==
    Highest({l \in ie : l \in pending \/ (l = 2 /\ ~main_stopped) \/ CanRaise(l)})

\* scd_sub_held.
SubHeld == sub_halted \/ sub_wait

\* scd_cpu_ready.
SubReady == ~SubHeld /\ (~sub_stopped \/ RequestLevel > sub_mask)
CpuReady == ~main_stopped \/ SubReady

\* scd_machine_idle.
Idle ==
    /\ main_stopped /\ ~main_wake
    /\ SubHeld \/ (sub_stopped /\ MaxWakeLevel <= sub_mask)

\* scd_devices_next_event has something armed.
CddActive  == hock \/ cdc.decen
EventArmed == \/ Bios \/ timer \/ (gfx_busy /\ ~main_owns)
              \/ CddActive \/ cdc.xfer = "RUNNING"

------------------------------------------------------------------------------
(* The scheduler and the devices.                                          *)

\* Neither processor can run: the run ends when nothing can wake one.
RunEnds ==
    /\ ~ended /\ ~CpuReady
    /\ Idle \/ ~EventArmed
    /\ ended' = TRUE
    /\ UNCHANGED <<profile, ga, cpus, devs, cdc>>

Raise(raised) == pending' = pending \cup raised

\* scd_timer_event: the request is dropped without IEN3.
TimerEvent ==
    /\ ~ended /\ timer
    /\ Raise({3} \cap ie)
    /\ UNCHANGED <<ie, ifl2, cpus, devs, cdc, profile, ended>>

\* scd_gfx_finish, at its event or at a sync.
GfxFinish ==
    /\ ~ended /\ gfx_busy /\ ~main_owns
    /\ gfx_busy' = FALSE
    /\ Raise({1} \cap ie)
    /\ UNCHANGED <<ie, ifl2, cpus, timer, hock, main_owns, cdc, profile, ended>>

\* scd_cdd_tick: a block is decoded; level 4 is pending even while IEN4 = 0.
CddTick ==
    /\ ~ended /\ CddActive
    /\ cdc' = Decode(cdc)
    /\ Raise((IF DecodeRaises(cdc) THEN {5} \cap ie ELSE {}) \cup (IF hock THEN {4} ELSE {}))
    /\ UNCHANGED <<ie, ifl2, cpus, devs, profile, ended>>

\* The tick that finds the end of the disc: no block is decoded.
CddTickAtEnd ==
    /\ ~ended /\ hock
    /\ Raise({4})
    /\ UNCHANGED <<ie, ifl2, cpus, devs, cdc, profile, ended>>

\* scd_cdc_dma_finish, at its event or at a sync.  The base tick of the transfer may
\* be a byte ahead of the clock, so it may be past the decoder period first.
DmaEnd(over) ==
    /\ ~ended /\ cdc.xfer = "RUNNING"
    /\ cdc' = TransferEnd(cdc, over)
    /\ Raise(IF TransferEndRaises(cdc, over) THEN {5} \cap ie ELSE {})
    /\ UNCHANGED <<ie, ifl2, cpus, devs, profile, ended>>

\* Time passes the end of the decoder active period.
DecoderPeriodEnds ==
    /\ ~ended /\ cdc.decoding
    /\ cdc' = [cdc EXCEPT !.decoding = FALSE]
    /\ UNCHANGED <<ga, cpus, devs, profile, ended>>

\* A VDP interrupt ends main's STOP.
MainWakes ==
    /\ ~ended /\ main_stopped /\ main_wake
    /\ main_stopped' = FALSE /\ main_wake' = FALSE
    /\ UNCHANGED <<ga, sub_stopped, sub_mask, hold, devs, cdc, profile, ended>>

\* Mutant: any acknowledge clears IFL2.
Acknowledge_AnyLevel(level) == ifl2' = FALSE

\* The acknowledge cycle of level 2 also clears main's request flag.
Acknowledge(level) == ifl2' = (ifl2 /\ level # 2)

\* scd_sub_accept_interrupt, at the boundary before an instruction or in STOP.
SubAccepts ==
    /\ ~ended /\ ~SubHeld
    /\ RequestLevel > sub_mask
    /\ pending' = pending \ {RequestLevel}
    /\ Acknowledge(RequestLevel)
    /\ sub_mask' = RequestLevel
    /\ sub_stopped' = FALSE
    /\ UNCHANGED <<ie, main_stopped, main_wake, hold, devs, cdc, profile, ended>>

------------------------------------------------------------------------------
(* Main.                                                                   *)

MainStep == ~ended /\ ~main_stopped

\* $A12000 bit 0 (scd_ga_ifl2): dropped without IEN2.
MainRequests ==
    /\ MainStep /\ 2 \in Sources
    /\ ifl2' = (ifl2 \/ 2 \in ie)
    /\ Raise({2} \cap ie)
    /\ UNCHANGED <<ie, cpus, devs, cdc, profile, ended>>

\* SBRQ and SRES without a reset (module SubControl).
MainHoldsSub(h) ==
    /\ MainStep
    /\ sub_halted' = h
    /\ UNCHANGED <<ga, main_stopped, main_wake, sub_stopped, sub_mask, sub_wait, devs, cdc,
                   profile, ended>>

\* SRES 0 -> 1: the sub starts at its reset vector, with the bus granted or not.
MainResetsSub(h) ==
    /\ MainStep
    /\ sub_halted' = h /\ sub_wait' = FALSE
    /\ sub_stopped' = FALSE /\ sub_mask' = 7
    /\ UNCHANGED <<ga, main_stopped, main_wake, devs, cdc, profile, ended>>

\* DMNA = 1 in 2M mode (module WordRam): a DTACK wait ends, a halted DMA resumes.
MainHandsOver ==
    /\ MainStep
    /\ main_owns' = FALSE
    /\ sub_wait' = FALSE
    /\ cdc' = [cdc EXCEPT !.xfer = IF @ = "HALTED" THEN "RUNNING" ELSE @]
    /\ UNCHANGED <<ga, main_stopped, main_wake, sub_stopped, sub_mask, sub_halted,
                   timer, gfx_busy, hock, profile, ended>>

\* STOP.
MainStops(wake) ==
    /\ MainStep
    /\ wake => Bios
    /\ main_stopped' = TRUE /\ main_wake' = wake
    /\ UNCHANGED <<ga, sub_stopped, sub_mask, hold, devs, cdc, profile, ended>>

\* The last word of a host transfer is fetched by the read before it: $A12008 by
\* main, $FF8008 by the sub.
HostReadEnds(over) ==
    /\ cdc.xfer = "HOST"
    /\ cdc' = TransferEnd(cdc, over)
    /\ Raise(IF TransferEndRaises(cdc, over) THEN {5} \cap ie ELSE {})
    /\ UNCHANGED <<ie, ifl2, cpus, devs, profile, ended>>

MainHostRead(over) == MainStep /\ HostReadEnds(over)

------------------------------------------------------------------------------
(* Sub: an instruction runs only when no interrupt is to be accepted.      *)

SubStep == ~ended /\ ~SubHeld /\ ~sub_stopped /\ RequestLevel <= sub_mask

\* STOP, and any other change of the mask.
SubSetsMask(mask, stops) ==
    /\ SubStep
    /\ sub_mask' = mask /\ sub_stopped' = stops
    /\ UNCHANGED <<ga, main_stopped, main_wake, hold, devs, cdc, profile, ended>>

\* An access to 2M Word RAM that main owns.
SubWaits ==
    /\ SubStep /\ main_owns
    /\ sub_wait' = TRUE
    /\ UNCHANGED <<ga, main_stopped, main_wake, sub_stopped, sub_mask, sub_halted, devs, cdc,
                   profile, ended>>

\* $FF8033 (scd_ga_interrupt_enable): clearing IEN1 drops a pending level 1.
SubEnables(levels) ==
    /\ SubStep
    /\ ie' = levels
    /\ pending' = IF 1 \in levels THEN pending ELSE pending \ {1}
    /\ UNCHANGED <<ifl2, cpus, devs, cdc, profile, ended>>

\* $FF8031 and $FF8037.
SubSetsTimer(on) ==
    /\ SubStep /\ 3 \in Sources
    /\ timer' = on
    /\ UNCHANGED <<ga, cpus, gfx_busy, hock, main_owns, cdc, profile, ended>>

SubSetsHock(on) ==
    /\ SubStep /\ 4 \in Sources
    /\ hock' = on
    /\ UNCHANGED <<ga, cpus, timer, gfx_busy, main_owns, cdc, profile, ended>>

\* $FF8066.
SubStartsGfx ==
    /\ SubStep /\ 1 \in Sources
    /\ gfx_busy' = TRUE
    /\ UNCHANGED <<ga, cpus, timer, hock, main_owns, cdc, profile, ended>>

\* The memory mode: a 2M writer halts when Word RAM goes to main; a bank writer,
\* and any writer when the sub takes 1M mode, goes on.
SubSetsMode(mainGets) ==
    /\ SubStep
    /\ main_owns' = mainGets
    /\ \/ UNCHANGED cdc
       \/ /\ mainGets /\ ~main_owns /\ cdc.xfer = "RUNNING"
          /\ cdc' = [cdc EXCEPT !.xfer = "HALTED"]
    /\ UNCHANGED <<ga, cpus, timer, gfx_busy, hock, profile, ended>>

\* scd_cdc_dma_init: the writer of a started transfer.  HOST fetches its first
\* word at once, which may be its last; overs is whether the base tick may be past
\* the decoder period.
SelectsWriter(xfer, overs) ==
    LET x == [cdc EXCEPT !.started = TRUE, !.xfer = xfer]
    IN  /\ xfer \in {"NONE", "HOST", IF main_owns THEN "HALTED" ELSE "RUNNING"}
        /\ \/ cdc' = x /\ UNCHANGED pending
           \/ \E over \in overs :
                /\ xfer = "HOST"
                /\ cdc' = TransferEnd(x, over)
                /\ Raise(IF TransferEndRaises(x, over) THEN {5} \cap ie ELSE {})

\* Register 6, DTRG: the base tick is now.
SubStartsTransfer(xfer) ==
    /\ SubStep /\ "DOUTEN" \in cdc.ifctrl
    /\ SelectsWriter(xfer, {~cdc.decoding})
    /\ UNCHANGED <<ie, ifl2, cpus, devs, profile, ended>>

\* $FF8004: a started transfer gets another writer, a word left over by an aborted
\* one is dropped.
SubSetsDestination(xfer) ==
    /\ SubStep /\ 5 \in Sources
    /\ IF cdc.started THEN SelectsWriter(xfer, BOOLEAN)
       ELSE cdc' = [cdc EXCEPT !.xfer = "NONE"] /\ UNCHANGED pending
    /\ UNCHANGED <<ie, ifl2, cpus, devs, profile, ended>>

\* Register 1.
SubWritesIfctrl(ifctrl) ==
    /\ SubStep /\ 5 \in Sources
    /\ cdc' = IfctrlWrite(cdc, ifctrl)
    /\ Raise(IF IfctrlRaises(cdc, ifctrl) THEN {5} \cap ie ELSE {})
    /\ UNCHANGED <<ie, ifl2, cpus, devs, profile, ended>>

\* Registers 7 (DTACK), 15 (a STAT3 read), 1 (an IFSTAT read) and 10 (CTRL0).
SubTouchesCdc ==
    /\ SubStep /\ 5 \in Sources
    /\ \/ cdc' = Withdraw(cdc, "DTEI")
       \/ cdc' = Withdraw(cdc, "DECI")
       \/ cdc' = PeriodCheck(cdc)
       \/ \E decen \in BOOLEAN : cdc' = Ctrl0Write(cdc, decen)
    /\ UNCHANGED <<ga, cpus, devs, profile, ended>>

\* Register 15, a write.
SubResetsCdc ==
    /\ SubStep /\ 5 \in Sources
    /\ cdc' = CdcReset(cdc)
    /\ pending' = pending \ {5}
    /\ UNCHANGED <<ie, ifl2, cpus, devs, profile, ended>>

SubHostRead(over) == SubStep /\ HostReadEnds(over)

\* $FF8001 with RES0 = 0: requests and sources go, main's view of IFL2 stays.
PeripheralReset ==
    /\ SubStep
    /\ ie' = {} /\ pending' = {}
    /\ timer' = FALSE /\ gfx_busy' = FALSE /\ hock' = FALSE
    /\ cdc' = CdcQuiet
    /\ UNCHANGED <<ifl2, cpus, main_owns, profile, ended>>

------------------------------------------------------------------------------

DeviceNext ==
    \/ TimerEvent \/ GfxFinish \/ CddTick \/ CddTickAtEnd \/ DecoderPeriodEnds \/ MainWakes
    \/ \E over \in BOOLEAN : DmaEnd(over)

MainNext ==
    \/ MainRequests
    \/ \E h \in BOOLEAN : MainHoldsSub(h) \/ MainResetsSub(h) \/ MainStops(h)
    \/ MainHandsOver
    \/ \E over \in BOOLEAN : MainHostRead(over)

SubNext ==
    \/ \E mask \in Masks, stops \in BOOLEAN : SubSetsMask(mask, stops)
    \/ SubWaits
    \/ \E levels \in SUBSET Sources : SubEnables(levels)
    \/ \E on \in BOOLEAN : SubSetsTimer(on) \/ SubSetsHock(on) \/ SubSetsMode(on)
    \/ SubStartsGfx
    \/ \E xfer \in Xfers : SubStartsTransfer(xfer) \/ SubSetsDestination(xfer)
    \/ \E ifctrl \in SUBSET Ifctrl : SubWritesIfctrl(ifctrl)
    \/ SubTouchesCdc
    \/ SubResetsCdc
    \/ \E over \in BOOLEAN : SubHostRead(over)
    \/ PeripheralReset

Next == RunEnds \/ DeviceNext \/ SubAccepts \/ MainNext \/ SubNext

\* The scheduler is one loop that always takes the earliest of the next device
\* event and the next instruction, and every armed event has a finite tick: an
\* event that stays armed happens.  Nothing is assumed of the programs.
Fairness ==
    /\ WF_vars(RunEnds) /\ WF_vars(SubAccepts)
    /\ WF_vars(TimerEvent) /\ WF_vars(GfxFinish) /\ WF_vars(CddTick)
    /\ WF_vars(\E over \in BOOLEAN : DmaEnd(over))

Spec == Init /\ [][Next]_vars
FairSpec == Spec /\ Fairness

------------------------------------------------------------------------------
(* Properties.                                                             *)

\* The state has its types (fields of ScdGateArray, ScdCpu, ScdCdc), a DMA
\* writer belongs to a started transfer, and that has its data output enabled.
TypeOK ==
    /\ profile \in Profiles
    /\ ie \subseteq 1..5 /\ pending \subseteq 1..5 /\ ifl2 \in BOOLEAN
    /\ main_stopped \in BOOLEAN /\ main_wake \in BOOLEAN
    /\ sub_stopped \in BOOLEAN /\ sub_mask \in 0..7
    /\ sub_halted \in BOOLEAN /\ sub_wait \in BOOLEAN
    /\ timer \in BOOLEAN /\ gfx_busy \in BOOLEAN /\ hock \in BOOLEAN /\ main_owns \in BOOLEAN
    /\ cdc \in CdcIntType
    /\ cdc.xfer \in {"RUNNING", "HALTED"} => cdc.started
    /\ cdc.started => "DOUTEN" \in cdc.ifctrl
    /\ ended \in BOOLEAN

\* The /INT line is what the flags and their enables say, through the lazy end of
\* the decoder period and every way a flag comes and goes: no handler forgets one
\* of the two (cdc.irq and cdc.ifstat are updated in eight places).
LineFollowsFlags == cdc.irq = cdc.asserted \cap cdc.ifctrl

\* Main's request flag is up while its request is pending: main never reads that a
\* request was served which was not, and the sub accepting another level in the
\* meantime does not change that (scd_sub_accept_interrupt).
Ifl2IsVisible == 2 \in pending => ifl2

\* Idle is final: once the scheduler could report it, no device event that is
\* still armed makes a processor runnable or the verdict wrong.  A run that
\* reports success has not cut off an interrupt that was about to come.
IdleIsFinal == [][ Idle /\ ~CpuReady => Idle' /\ ~CpuReady' ]_vars

BothStopped == main_stopped /\ ~main_wake /\ sub_stopped

\* When both processors are in STOP the machine does not run on for ever: the sub
\* is woken or the run ends, unless IEN5 is set with a CDC request already on the
\* line or a halted transfer (StopResolves is the case without the exception).
StopResolvesOutsideCdc ==
    BothStopped /\ (5 \in ie => cdc.irq = {} /\ cdc.xfer # "HALTED")
        ~> (ended \/ ~sub_stopped)

------------------------------------------------------------------------------
(* What the documentation says and the code does not do.                   *)

\* Contract section 11: "Success is idle: both processors are stopped (or the sub
\* is halted or waiting for Word RAM) and no enabled source can wake either".
StopResolves == BothStopped ~> (ended \/ ~sub_stopped)
==============================================================================
