----------------------------- MODULE SubControl ------------------------------
(***************************************************************************)
(* How main holds, resets and releases the sub processor, and what that    *)
(* makes of PRG RAM (scd_ga_reset_control of scd_gate_array.c, the         *)
(* runnable epoch of scd_bios.c, the PRG-RAM window of scd_machine.c).     *)
(*                                                                         *)
(* $A12001 holds SRES (0: the sub is in reset) and SBRQ (1: main wants the *)
(* sub's bus).  The sub is kept from running by three independent things:  *)
(* its HALT input, a withheld DTACK (module WordRam) and its own STOP      *)
(* instruction.  Main sees PRG RAM through a window that follows the SBRQ  *)
(* bit as it reads back, but only when one of the three changes.           *)
(*                                                                         *)
(* In the BIOS-image profile a reset is only armed by SRES: the reset      *)
(* vectors are taken at the first moment the sub could run, from a PRG RAM *)
(* image that must be an admitted one.                                     *)
(***************************************************************************)

CONSTANTS
    PrgImages, \* what PRG RAM may hold
    Admitted,  \* the epoch images of the program (ScdAuthentic.sub_images)
    NoImage    \* no reset vector has been taken

ASSUME AdmittedAssumption == Admitted \subseteq PrgImages
ASSUME NoImageAssumption  == NoImage \notin PrgImages

VARIABLES
    profile,      \* "synthetic", "bios", or "materialize": bios with m->materialize
    sres, sbrq,   \* ga.ctl, as it reads back
    sub_halted,   \* ga.sub_halted
    stopped,      \* the sub's irq.stopped
    sub_wait,     \* ga.sub_wait
    prg_window,   \* ga.prg_window
    sub_pristine, \* reset, and not yet runnable (BIOS-image profile)
    prg_ram,      \* the image in PRG RAM
    entry,        \* the image the sub's SSP and PC were taken from
    stop_class    \* m->stop.stop_class

control == <<sres, sbrq, sub_halted, prg_window, sub_pristine>>
control_vars == <<profile, control, stopped, sub_wait, prg_ram, entry, stop_class>>

Profiles    == {"synthetic", "bios", "materialize"}
StopClasses == {"NONE", "MATERIALIZED_IMAGE_UNVERIFIED", "MATERIALIZATION_CAPTURED"}

\* The power-on state of scd_machine_init and scd_machine_init_bios.
PowerOn ==
    /\ profile \in Profiles
    /\ sres = FALSE /\ sbrq = TRUE
    /\ sub_halted = TRUE /\ prg_window = TRUE /\ sub_pristine = FALSE
    /\ stopped = FALSE /\ sub_wait = FALSE
    /\ prg_ram \in PrgImages
    /\ entry = NoImage
    /\ stop_class = "NONE"

NotStopped == stop_class = "NONE"
SubHeld == sub_halted \/ sub_wait

------------------------------------------------------------------------------
(* Main.                                                                   *)

Hold == <<stopped, sub_halted, sub_wait>>

\* Mutant: the readback is the bit as written.
ReadbackSbrq_AsWritten(vSres, vSbrq) == sbrq' = (vSbrq \/ ~vSres)

\* What SBRQ reads back after a write: held in reset it reads 1, and a sub that
\* is in STOP hides the request.
ReadbackSbrq(vSres, vSbrq) == sbrq' = ((vSbrq \/ ~vSres) /\ ~stopped')

\* The window follows the readback when the state the sub is held in changes.
WindowFollows == prg_window' = IF Hold' # Hold THEN sbrq' ELSE prg_window

\* Mutant: the image is verified when the reset is armed, not when the sub can run.
EpochNow_AtArming(rise) == rise

\* Mutant: only a reset without a bus request is an epoch, not a later release.
EpochNow_NotAtRelease(rise) == rise /\ ~sub_halted'

\* The sub has been reset and can run for the first time since.
EpochNow(rise) == (rise \/ sub_pristine) /\ ~sub_halted'

\* scd_sub_runnable_epoch.
RunnableEpoch ==
    IF prg_ram \in Admitted
    THEN entry' = prg_ram /\ UNCHANGED stop_class
    ELSE /\ stop_class' = IF profile = "materialize" THEN "MATERIALIZATION_CAPTURED"
                                                     ELSE "MATERIALIZED_IMAGE_UNVERIFIED"
         /\ UNCHANGED entry

\* A write of SRES and SBRQ (scd_ga_reset_control).
ResetControl(vSres, vSbrq) ==
    LET rise == vSres /\ ~sres
    IN  /\ NotStopped
        /\ stopped'  = (stopped /\ ~rise)
        /\ sub_wait' = (sub_wait /\ ~rise)
        /\ sub_halted' = (vSbrq \/ ~vSres)
        /\ sres' = vSres
        /\ ReadbackSbrq(vSres, vSbrq)
        /\ WindowFollows
        /\ IF profile = "synthetic"
           THEN /\ entry' = IF rise THEN prg_ram ELSE entry
                /\ UNCHANGED <<sub_pristine, stop_class>>
           ELSE IF EpochNow(rise)
                THEN sub_pristine' = FALSE /\ RunnableEpoch
                ELSE sub_pristine' = (rise \/ sub_pristine) /\ UNCHANGED <<entry, stop_class>>
        /\ UNCHANGED <<profile, prg_ram>>

\* A store to $020000-$03FFFF: dropped without the window (scd_main_bus).
MainWritesPrg ==
    /\ NotStopped
    /\ prg_window
    /\ prg_ram' \in PrgImages
    /\ UNCHANGED <<profile, control, stopped, sub_wait, entry, stop_class>>

\* DMNA = 1: the DTACK wait ends (scd_word_ram_resume_sub).
MainHandsOver ==
    /\ NotStopped
    /\ sub_wait' = FALSE
    /\ UNCHANGED <<profile, control, stopped, prg_ram, entry, stop_class>>

------------------------------------------------------------------------------
(* Sub.  The scheduler gives it an instruction only when it is not held    *)
(* (scd_cpu_ready).                                                        *)

SubRuns == NotStopped /\ ~SubHeld /\ ~stopped

\* An instruction, with the stores to PRG RAM the write protection lets through.
SubInstruction ==
    /\ SubRuns
    /\ prg_ram' \in PrgImages
    /\ UNCHANGED <<profile, control, stopped, sub_wait, entry, stop_class>>

\* A STOP instruction (scd_enter_stop).
SubEntersStop ==
    /\ SubRuns
    /\ stopped' = TRUE
    /\ UNCHANGED <<profile, control, sub_wait, prg_ram, entry, stop_class>>

\* An access to 2M Word RAM that main owns: the instruction is abandoned, what it
\* has stored stays (scd_machine_run).
SubWaits ==
    /\ SubRuns
    /\ prg_ram' \in PrgImages
    /\ sub_wait' = TRUE
    /\ UNCHANGED <<profile, control, stopped, entry, stop_class>>

\* An accepted interrupt ends STOP and stacks its frame in PRG RAM.
SubAcceptsInterrupt ==
    /\ NotStopped /\ ~SubHeld
    /\ stopped' = FALSE
    /\ prg_ram' \in PrgImages
    /\ UNCHANGED <<profile, control, sub_wait, entry, stop_class>>

ControlNext ==
    \/ \E vSres, vSbrq \in BOOLEAN : ResetControl(vSres, vSbrq)
    \/ MainWritesPrg
    \/ MainHandsOver
    \/ SubInstruction
    \/ SubEntersStop
    \/ SubWaits
    \/ SubAcceptsInterrupt

ControlSpec == PowerOn /\ [][ControlNext]_control_vars

------------------------------------------------------------------------------
(* Properties.                                                             *)

\* The state has its types (the fields of ScdGateArray and ScdCpu modelled).
TypeOK ==
    /\ profile \in Profiles
    /\ sres \in BOOLEAN /\ sbrq \in BOOLEAN
    /\ sub_halted \in BOOLEAN /\ stopped \in BOOLEAN /\ sub_wait \in BOOLEAN
    /\ prg_window \in BOOLEAN /\ sub_pristine \in BOOLEAN
    /\ prg_ram \in PrgImages
    /\ entry \in (IF profile = "synthetic" THEN PrgImages ELSE Admitted) \cup {NoImage}
    /\ stop_class \in StopClasses

\* Main never shares PRG RAM with a sub that can run, whatever order of requests,
\* resets, waits and STOPs led here: an open window means the HALT input is held
\* (the conditional update at the end of scd_ga_reset_control).
WindowIsExclusive == prg_window => sub_halted

\* A grant main reads is a grant it has: SBRQ reads 1 exactly while the window is
\* open and the sub is halted outside STOP.  The window is updated only when the
\* sub's hold state changes, the readback on every write: they never drift apart.
GrantIsReal == /\ sbrq = prg_window
               /\ prg_window = (sub_halted /\ ~stopped)

\* In the BIOS-image profile a sub that can run took its reset vectors from an
\* admitted image, and its latest reset is not still waiting to be taken; in the
\* synthetic profile it has been through a reset (scd_sub_runnable_epoch).
RunsVerifiedEntry ==
    NotStopped /\ ~sub_halted =>
        IF profile = "synthetic" THEN entry # NoImage
                                 ELSE entry \in Admitted /\ ~sub_pristine

\* In the BIOS-image profile the reset vectors are fetched only when main cannot
\* change PRG RAM under them: at a step after which the window is closed, and from
\* the image that is in PRG RAM at that step and not the one at the SRES write.
VectorsFromOwnBus ==
    [][ profile # "synthetic" /\ entry' # entry =>
            ~prg_window' /\ entry' = prg_ram' ]_control_vars

------------------------------------------------------------------------------
(* The inductive invariant of the proofs.                                  *)

\* A sub out of reset has its vectors, or is still pristine.
ResetLeavesEntry ==
    NotStopped /\ sres =>
        IF profile = "synthetic" THEN entry # NoImage
                                 ELSE sub_pristine \/ entry \in Admitted

IInv == TypeOK /\ GrantIsReal /\ RunsVerifiedEntry /\ ResetLeavesEntry

==============================================================================
