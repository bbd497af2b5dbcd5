------------------------------- MODULE WordRam -------------------------------
(***************************************************************************)
(* Who may use the Sega CD's 256 KiB Word RAM, and what happens to those   *)
(* that may not (scd_word_ram.c, with the CDC transfer of scd_cd.c and the *)
(* graphics operation of scd_gfx.c that work in it).                       *)
(*                                                                         *)
(* The memory-mode register is the bits MODE (1M), RET and DMNA plus the   *)
(* internal request latch dmna_int.  In 2M mode RET = 1 maps all of Word   *)
(* RAM to main and RET = 0 to the sub; in 1M mode main has bank RET and    *)
(* the sub the other one.  A sub access to 2M Word RAM that main owns gets *)
(* no DTACK: the sub waits, and only main can end the wait.                *)
(*                                                                         *)
(* One action per bus access or device event.  The processors run here     *)
(* without the halts of the reset control (module SubControl), which only  *)
(* removes behaviours.                                                     *)
(***************************************************************************)
EXTENDS LazyWriters

CONSTANTS
    Destinations,  \* the CDC destinations the sub may select, within 0..7
    DbcValues,     \* the byte counts the sub may program
    LineCounts,    \* the line counts the sub may program for the ASIC
    MaxWords       \* bound: words a transfer may have moved when DBC is rewritten

ASSUME DestinationsAssumption == Destinations \subseteq 0..7
ASSUME DbcValuesAssumption    == DbcValues \subseteq 0..(MaxDbc - 1)
ASSUME LineCountsAssumption   == LineCounts \subseteq Nat
ASSUME MaxWordsAssumption     == MaxWords \in Nat

VARIABLES
    mode1M,   \* SCD_MODE_1M of ga.mode
    ret,      \* SCD_MODE_RET
    dmna,     \* SCD_MODE_DMNA, as the processors read it
    dmna_int, \* ga.dmna_int, the request latch
    sub_wait, \* ga.sub_wait: the sub is held on a withheld DTACK
    cdc,      \* the transfer (LazyWriters)
    gfx,      \* the graphics operation (LazyWriters)
    stop      \* m->stop.stop_class: the typed stop that ended the run

mode == <<mode1M, ret, dmna, dmna_int>>
vars == <<mode1M, ret, dmna, dmna_int, sub_wait, cdc, gfx, stop>>

MainOwns2M == ~mode1M /\ ret = 1
SubOwns2M  == ~mode1M /\ ret = 0

StopClasses == {"NONE", "OPEN_BUS_READ", "CELL_IMAGE", "DOT_IMAGE",
                "CDC_DESTINATION", "GFX_REGISTER"}

Bit == {0, 1}

Init ==
    /\ mode1M = FALSE /\ ret = 1 /\ dmna = 0 /\ dmna_int = 0
    /\ sub_wait = FALSE
    /\ cdc = CdcPowerOn
    /\ gfx = GfxIdle
    /\ stop = "NONE"

------------------------------------------------------------------------------
(* Time and the scheduler's rule: a device event that is due is processed  *)
(* before any instruction.                                                 *)

SyncedCdc == DmaSync(cdc, mode1M)
SyncedGfx == GfxSync(gfx, mode1M, ret)

EventDue == DmaDue(cdc) \/ GfxDue(gfx, mode1M, ret)

Running == stop = "NONE"
CpuStep == Running /\ ~EventDue
SubStep == CpuStep /\ ~sub_wait

\* scd_cd_observe: both writers are brought up to the present instruction.
Observe == cdc' = SyncedCdc /\ gfx' = SyncedGfx

Older(age) == IF age < AgeCap THEN age + 1 ELSE age

\* One tick passes.  The age of a transfer that is not started, and of an idle
\* ASIC, is never read again and stays 0.
Tick ==
    /\ CpuStep
    /\ cdc' = IF cdc.started THEN [cdc EXCEPT !.age = Older(@)] ELSE cdc
    /\ gfx' = IF gfx.busy THEN [gfx EXCEPT !.age = Older(@)] ELSE gfx
    /\ <<cdc', gfx'>> # <<cdc, gfx>>
    /\ UNCHANGED <<mode, sub_wait, stop>>

\* How long ago the completion of the transfer was due.  The scheduler sets
\* m->now back to that tick and brings the ASIC up to it.
Overdue == IF DmaDue(cdc) THEN cdc.age - DmaCompletion(cdc) ELSE 0

GfxSyncedAt(late) ==
    LET then == [gfx EXCEPT !.age = @ - late]
        g    == GfxSync(then, mode1M, ret)
    IN  IF g = then THEN gfx
        ELSE [g EXCEPT !.age = IF g.busy THEN @ + late ELSE @]

\* scd_devices_advance: at the event of either writer, or of any other device
\* (drive, timer, video), which syncs the two in passing.
DevicesAdvance ==
    /\ Running
    /\ cdc' = SyncedCdc
    /\ gfx' = GfxSyncedAt(Overdue)
    /\ UNCHANGED <<mode, sub_wait, stop>>

------------------------------------------------------------------------------
(* Main.                                                                   *)

\* Mutant: the hand-over forgets the waiting sub.
ResumeSub_Dropped == UNCHANGED sub_wait

\* scd_word_ram_resume_sub.
ResumeSub == sub_wait' = FALSE

\* $A12003 (scd_word_ram_main_mode_write): the DMNA bit of the value written.
MainModeWrite(bit) ==
    /\ CpuStep
    /\ gfx' = SyncedGfx
    /\ \/ /\ mode1M
          /\ IF bit = 1 THEN dmna_int' = 1 /\ UNCHANGED dmna
                        ELSE dmna' = 1 /\ UNCHANGED dmna_int
          /\ cdc' = SyncedCdc
          /\ UNCHANGED <<mode1M, ret, sub_wait>>
       \/ /\ ~mode1M /\ bit = 1
          /\ dmna_int' = 1 /\ ret' = 0 /\ dmna' = 1
          /\ ResumeSub
          /\ cdc' = DmaResume2M(SyncedCdc)
          /\ UNCHANGED mode1M
       \/ /\ ~mode1M /\ bit = 0
          /\ cdc' = SyncedCdc
          /\ UNCHANGED <<mode, sub_wait>>
    /\ UNCHANGED stop

\* $200000-$23FFFF (scd_word_ram_access, main side); upper is the half that
\* holds the cell image in 1M mode.
MainWordRamAccess(upper, isWrite) ==
    /\ CpuStep
    /\ Observe
    /\ stop' = IF SubOwns2M /\ ~isWrite THEN "OPEN_BUS_READ"
               ELSE IF mode1M /\ upper THEN "CELL_IMAGE" ELSE "NONE"
    /\ UNCHANGED <<mode, sub_wait>>

\* $A12008 word: the host data of destination 2.
MainHostRead ==
    /\ CpuStep
    /\ cdc' = HostRead(SyncedCdc, 2)
    /\ UNCHANGED <<mode, sub_wait, gfx, stop>>

\* The CDC status, DMA address and register reads: an observation of the
\* transfer and nothing else here.
CdcRead ==
    /\ CpuStep
    /\ cdc' = SyncedCdc
    /\ UNCHANGED <<mode, sub_wait, gfx, stop>>

\* SRES 0 -> 1 (scd_ga_reset_control): every stop level of the sub clears,
\* the DTACK wait too.
MainResetsSub ==
    /\ CpuStep
    /\ sub_wait' = FALSE
    /\ UNCHANGED <<mode, cdc, gfx, stop>>

------------------------------------------------------------------------------
(* Sub: the memory mode and Word RAM.                                      *)

\* RET or MODE changes and the value asks for 1M: the banks follow RET at once.
SubSelects1M(v1M, vRet) ==
    /\ v1M /\ (~mode1M \/ vRet # ret)
    /\ mode1M' = TRUE /\ ret' = vRet /\ dmna' = 0
    /\ dmna_int' = IF vRet = 1 THEN 0 ELSE dmna_int
    /\ cdc' = SyncedCdc

\* 1M -> 2M with a latched request: the sub keeps 2M Word RAM.
SubKeeps2M(v1M, vRet) ==
    /\ ~v1M /\ mode1M /\ dmna_int = 1 /\ vRet = 0
    /\ mode1M' = FALSE /\ ret' = 0 /\ dmna' = 1
    /\ cdc' = SyncedCdc
    /\ UNCHANGED dmna_int

\* Mutant: the transfer is halted where it was last synced to.
SubReturns2M_NotSynced(v1M, vRet) ==
    /\ ~v1M
    /\ \/ mode1M /\ ~(dmna_int = 1 /\ vRet = 0)
       \/ ~mode1M /\ vRet = 1 /\ ret = 0
    /\ mode1M' = FALSE /\ ret' = 1 /\ dmna' = 0 /\ dmna_int' = 0
    /\ cdc' = IF cdc.dma_state = "RUNNING" /\ cdc.dma_target = "2M"
              THEN [cdc EXCEPT !.dma_state = "HALTED"] ELSE cdc

\* 2M with RET = 1, or 1M -> 2M without a request: Word RAM goes to main and
\* a CDC transfer into 2M Word RAM halts.
SubReturns2M(v1M, vRet) ==
    /\ ~v1M
    /\ \/ mode1M /\ ~(dmna_int = 1 /\ vRet = 0)
       \/ ~mode1M /\ vRet = 1 /\ ret = 0
    /\ mode1M' = FALSE /\ ret' = 1 /\ dmna' = 0 /\ dmna_int' = 0
    /\ cdc' = DmaHalt2M(SyncedCdc, mode1M)

\* Mutant: RET is stored with the priority bits.
SubStoresPriority_TakesRet(v1M, vRet) ==
    /\ v1M = mode1M
    /\ vRet = ret \/ (~v1M /\ vRet = 0)
    /\ ret' = vRet
    /\ cdc' = SyncedCdc
    /\ UNCHANGED <<mode1M, dmna, dmna_int>>

\* No change of RET or MODE, or the sub asks for 2M Word RAM that main owns:
\* only the priority bits are stored.
SubStoresPriority(v1M, vRet) ==
    /\ v1M = mode1M
    /\ vRet = ret \/ (~v1M /\ vRet = 0)
    /\ cdc' = SyncedCdc
    /\ UNCHANGED mode

\* $FF8002/$FF8003 byte (scd_word_ram_sub_mode_write).
SubModeWrite(v1M, vRet) ==
    /\ SubStep
    /\ gfx' = SyncedGfx
    /\ \/ SubSelects1M(v1M, vRet)
       \/ SubKeeps2M(v1M, vRet)
       \/ SubReturns2M(v1M, vRet)
       \/ SubStoresPriority(v1M, vRet)
    /\ UNCHANGED <<sub_wait, stop>>

\* $080000-$0BFFFF (area "2M") and $0C0000-$0DFFFF (area "1M"): the sub side of
\* scd_word_ram_access.  The abandoned instruction and sub_wait = 1 are the
\* scheduler's (scd_machine_run).
SubWordRamAccess(area, isWrite) ==
    /\ SubStep
    /\ Observe
    /\ sub_wait' = (area = "2M" /\ MainOwns2M)
    /\ stop' = IF area = "2M" /\ mode1M THEN "DOT_IMAGE"
               ELSE IF area = "1M" /\ ~mode1M /\ ~isWrite THEN "OPEN_BUS_READ"
               ELSE "NONE"
    /\ UNCHANGED mode

------------------------------------------------------------------------------
(* Sub: the CDC registers.  Every access first syncs the transfer.         *)

StopIfUnsupported(x) == stop' = IF Unsupported(x) THEN "CDC_DESTINATION" ELSE "NONE"

\* $FF8004 (scd_cdc_mode_write): re-selects the writer of a started transfer.
CdcModeWrite(destination) ==
    /\ SubStep
    /\ LET x == [SyncedCdc EXCEPT !.destination = destination,
                                  !.edt = FALSE, !.dsr = FALSE]
       IN  cdc' = DmaInit(x, mode1M, ret) /\ StopIfUnsupported(x)
    /\ UNCHANGED <<mode, sub_wait, gfx>>

\* Register 6, DTRG (scd_cdc_register_write).
CdcStart ==
    /\ SubStep
    /\ cdc.douten
    /\ LET x == [SyncedCdc EXCEPT !.started = TRUE, !.edt = FALSE, !.dsr = FALSE,
                                  !.age = 0, !.done = [p \in Places |-> 0]]
       IN  cdc' = DmaInit(x, mode1M, ret) /\ StopIfUnsupported(x)
    /\ UNCHANGED <<mode, sub_wait, gfx>>

\* Register 1, IFCTRL: DOUTEN = 0 aborts a transfer; what was moved stays.
CdcIfctrlWrite(douten) ==
    /\ SubStep
    /\ cdc' = IF douten THEN [SyncedCdc EXCEPT !.douten = TRUE]
              ELSE [SyncedCdc EXCEPT !.douten = FALSE, !.started = FALSE,
                                     !.dma_state = "NONE", !.age = 0]
    /\ UNCHANGED <<mode, sub_wait, gfx, stop>>

WordsMoved(x) == x.done["2M"] + x.done["bank0"] + x.done["bank1"] + x.done["lost"]

\* Registers 2 and 3, DBC: also while a transfer runs.
CdcDbcWrite(dbc) ==
    /\ SubStep
    /\ WordsMoved(SyncedCdc) <= MaxWords
    /\ cdc' = [SyncedCdc EXCEPT !.dbc = dbc]
    /\ UNCHANGED <<mode, sub_wait, gfx, stop>>

\* Register 15, the CDC reset.
CdcRegisterReset ==
    /\ SubStep
    /\ cdc' = CdcReset(SyncedCdc)
    /\ UNCHANGED <<mode, sub_wait, gfx, stop>>

\* $FF8008 word: the host data of destination 3.
SubHostRead ==
    /\ SubStep
    /\ cdc' = HostRead(SyncedCdc, 3)
    /\ UNCHANGED <<mode, sub_wait, gfx, stop>>

------------------------------------------------------------------------------
(* Sub: the graphics ASIC and the peripheral reset.                        *)

\* $FF8066 (scd_gfx_start); a 1M-mode start is a typed stop.
GfxStart ==
    /\ SubStep
    /\ IF mode1M
       THEN gfx' = SyncedGfx /\ stop' = "GFX_REGISTER"
       ELSE gfx' = [SyncedGfx EXCEPT !.busy = TRUE, !.age = 0] /\ UNCHANGED stop
    /\ UNCHANGED <<mode, sub_wait, cdc>>

\* $FF8064: the live line counter, idle or running.
GfxLinesWrite(n) ==
    /\ SubStep
    /\ gfx' = [SyncedGfx EXCEPT !.lines = n]
    /\ UNCHANGED <<mode, sub_wait, cdc, stop>>

\* $FF8058 and $FF8065: the busy flag and the live counter.
GfxRead ==
    /\ SubStep
    /\ gfx' = SyncedGfx
    /\ UNCHANGED <<mode, sub_wait, cdc, stop>>

\* $FF8001 with RES0 = 0 (scd_peripheral_reset).  Nothing is synced first.
PeripheralReset ==
    /\ SubStep
    /\ cdc' = [CdcReset(cdc) EXCEPT !.destination = 0, !.edt = FALSE, !.dsr = FALSE]
    /\ gfx' = GfxIdle
    /\ UNCHANGED <<mode, sub_wait, stop>>

------------------------------------------------------------------------------

MainNext ==
    \/ \E bit \in Bit : MainModeWrite(bit)
    \/ \E upper, isWrite \in BOOLEAN : MainWordRamAccess(upper, isWrite)
    \/ MainHostRead
    \/ CdcRead
    \/ MainResetsSub

SubNext ==
    \/ \E v1M \in BOOLEAN, vRet \in Bit : SubModeWrite(v1M, vRet)
    \/ \E area \in {"2M", "1M"}, isWrite \in BOOLEAN : SubWordRamAccess(area, isWrite)
    \/ \E d \in Destinations : CdcModeWrite(d)
    \/ CdcStart
    \/ \E douten \in BOOLEAN : CdcIfctrlWrite(douten)
    \/ \E n \in DbcValues : CdcDbcWrite(n)
    \/ CdcRegisterReset
    \/ SubHostRead
    \/ GfxStart
    \/ \E n \in LineCounts : GfxLinesWrite(n)
    \/ GfxRead
    \/ PeripheralReset

Next == Tick \/ DevicesAdvance \/ MainNext \/ SubNext

Spec == Init /\ [][Next]_vars

------------------------------------------------------------------------------
(* Properties.                                                             *)

\* The state has its types (the fields of ScdGateArray, ScdCdc and ScdGfx that
\* are modelled).
TypeOK ==
    /\ mode1M \in BOOLEAN
    /\ ret \in Bit /\ dmna \in Bit /\ dmna_int \in Bit
    /\ sub_wait \in BOOLEAN
    /\ cdc \in CdcType
    /\ gfx \in GfxType
    /\ stop \in StopClasses

\* A sub that waits for DTACK waits for 2M Word RAM that main owns: the only
\* state in which main's DMNA = 1 (scd_word_ram_main_mode_apply) releases it.
\* A wait in any other state would never end.
WaitIsForMain == sub_wait => MainOwns2M

\* While main owns 2M Word RAM no CDC writer is running on it, by whatever
\* sequence of mode changes, starts and re-selections main came to own it
\* (scd_cdc_dma_init, scd_cdc_dma_halt_2m).
NoWriterOnMain == MainOwns2M => ~(cdc.dma_state = "RUNNING" /\ cdc.dma_target = "2M")

\* 2M Word RAM is the sub's only after a request of main, and it reads so: the
\* latch and the DMNA bit are set whenever the sub owns it, through 1M mode and
\* back too (the table at the head of scd_word_ram.c).
SubOwnsOnRequest == SubOwns2M => dmna_int = 1 /\ dmna = 1

\* A writer exists only for a started transfer with destination 7, and only a
\* 2M writer is ever halted: dma_resume_2m finds every halted writer.
WriterIsSelected ==
    /\ cdc.dma_state # "NONE" => cdc.started /\ cdc.destination = 7
    /\ cdc.dma_state = "HALTED" => cdc.dma_target = "2M"

\* The ASIC's completion is never late: a sync leaves its base at or after the
\* present tick, so no rewrite of the live line counter and no hand-over can put
\* the event scd_gfx_next_event returns in the past.
GfxOnTime ==
    gfx.busy /\ ~GfxHalted(mode1M, ret) /\ stop = "NONE" => gfx.age <= GfxCompletion(gfx)

\* What main owns only main writes: no step that starts with 2M Word RAM in
\* main's hands, the sub's mode write that takes it away included, lets the CDC
\* or the ASIC store there.
MainKeepsWordRam ==
    [][ MainOwns2M => /\ \A p \in Targets : cdc'.done[p] <= cdc.done[p]
                      /\ gfx'.rendered \in {gfx.rendered, 0} ]_vars

\* The processor that has each bank.
Owner ==
    [b \in {0, 1} |-> IF (IF mode1M THEN ret = b ELSE ret = 1) THEN "main" ELSE "sub"]

HO == INSTANCE HandOff WITH
        owner <- Owner, requested <- (dmna_int = 1), waiting <- sub_wait

\* The register implements the hand-over protocol of module HandOff: nothing it
\* does between its bits and its latch is visible as anything but a give, a
\* split, a merge, a return, a wait or a reset, each when it is allowed.
ImplementsHandOff == HO!Spec

\* What an observer at the present tick would find moved and rendered.
Landed   == SyncedCdc.done
Rendered == SyncedGfx.rendered

\* Only time moves words (scd_cd.c: "a run's result never depends on how it is
\* sliced").  No access, hand-over, mode change or device event makes a word
\* land that was not due, loses one that was, or diverts it to the Word RAM mode
\* that follows.  The exceptions are the operations that end or begin a
\* transfer: DTRG, a $FF8004 write and the two resets.
OnlyTimeMovesWords ==
    [][ \/ Landed' = Landed /\ Rendered' = Rendered
        \/ Tick \/ CdcStart \/ PeripheralReset
        \/ \E d \in Destinations : CdcModeWrite(d) ]_vars

==============================================================================
