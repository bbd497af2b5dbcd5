----------------------------- MODULE LazyWriters -----------------------------
(***************************************************************************)
(* The two devices of the Sega CD machine that write Word RAM behind the   *)
(* processors' back: the CDC data transfer (scd_cd.c) and the graphics     *)
(* ASIC (scd_gfx.c).  Neither is stepped by a clock.  Each keeps the tick  *)
(* its work is counted from (dma_base, gfx.base) and is brought up to date *)
(* by a sync at every observation point.                                   *)
(*                                                                         *)
(* Operators only.  A transfer and an operation are records; the tick a    *)
(* sync is made for is implicit: "age" is m->now minus the base tick, so   *)
(* a base that is set to now is an age of 0 and a base that is moved on by *)
(* n ticks is an age reduced by n.                                         *)
(***************************************************************************)
EXTENDS Integers

CONSTANTS
    ByteTicks,  \* ticks per transferred byte (scd_dma_byte_ticks)
    Group,      \* bytes moved at a time: 8 in the code, even
    LineTicks,  \* ticks per rendered line (gfx.line_ticks)
    MaxDbc,     \* stands for $FFFF, the byte counter's reset value
    RenderMod,  \* the rendered-line counter is kept modulo this
    AgeCap      \* ages saturate here, past the end of the longest work

ASSUME ByteTicksAssumption == ByteTicks \in Nat \ {0}
ASSUME GroupAssumption     == Group \in Nat \ {0}
ASSUME LineTicksAssumption == LineTicks \in Nat \ {0}
ASSUME MaxDbcAssumption    == MaxDbc \in Nat \ {0}
ASSUME RenderModAssumption == RenderMod \in Nat \ {0}
ASSUME AgeCapAssumption    == AgeCap \in Nat

\* n / d rounded up, for n \in Nat.
CeilDiv(n, d) == (n + d - 1) \div d

------------------------------------------------------------------------------
(* The CDC transfer.  "started" is !(ifstat & DTEN); dma_state is the      *)
(* writer of a started transfer; "done" counts the words that have been    *)
(* moved, by the place they went to.                                       *)

Targets == {"2M", "bank0", "bank1"}
Places  == Targets \cup {"lost"}

CdcType ==
    [ destination : 0..7, douten : BOOLEAN, started : BOOLEAN,
      edt : BOOLEAN, dsr : BOOLEAN, dma_state : {"NONE", "RUNNING", "HALTED"},
      dma_target : Targets, dbc : 0..MaxDbc, age : Int, done : [Places -> Nat] ]

CdcPowerOn ==
    [ destination |-> 0, douten |-> FALSE, started |-> FALSE,
      edt |-> FALSE, dsr |-> FALSE, dma_state |-> "NONE", dma_target |-> "2M",
      dbc |-> 0, age |-> 0, done |-> [p \in Places |-> 0] ]

\* A destination of the other Word RAM mode than the current one is not the
\* live memory: those words are lost.
PlaceOf(target, oneM) == IF (target = "2M") = ~oneM THEN target ELSE "lost"

\* scd_cdc_dma_move: whole words; an odd last byte is not transferred.
DmaMove(x, bytes, oneM) ==
    [x EXCEPT !.done[PlaceOf(x.dma_target, oneM)] = @ + (bytes \div 2)]

\* scd_cdc_transfer_end.  The interrupt it requests is in module CdcInt.
TransferEnd(x) ==
    [x EXCEPT !.dbc = MaxDbc, !.started = FALSE, !.edt = TRUE]

\* scd_cdc_dma_finish.  The base tick is not read again before the next DTRG
\* sets it, so the age of a finished transfer is normalised to 0.
DmaFinish(x) ==
    [TransferEnd(x) EXCEPT !.dma_state = "NONE", !.dsr = FALSE, !.age = 0]

\* The bytes a running writer owes at its present age: rounded up to whole
\* bytes, then down to whole groups.
DmaOwed(x) == Group * (CeilDiv(x.age, ByteTicks) \div Group)

\* Mutant: the end of the count is found one byte late.
DmaSync_OffByOne(x, oneM) ==
    IF x.dma_state # "RUNNING" \/ x.age <= 0 THEN x
    ELSE IF x.dbc + 1 < DmaOwed(x)
         THEN DmaFinish(DmaMove(x, x.dbc + 1, oneM))
         ELSE [DmaMove(x, DmaOwed(x), oneM) EXCEPT
                  !.dbc = @ - DmaOwed(x), !.age = @ - DmaOwed(x) * ByteTicks]

\* scd_cdc_dma_sync.
DmaSync(x, oneM) ==
    IF x.dma_state # "RUNNING" \/ x.age <= 0 THEN x
    ELSE IF x.dbc < DmaOwed(x)
         THEN DmaFinish(DmaMove(x, x.dbc + 1, oneM))
         ELSE [DmaMove(x, DmaOwed(x), oneM) EXCEPT
                  !.dbc = @ - DmaOwed(x), !.age = @ - DmaOwed(x) * ByteTicks]

\* scd_cdc_dma_completion, as an age: the tick of the device event that ends
\* a running transfer.
DmaCompletion(x) == (Group * CeilDiv(x.dbc + 1, Group) - 1) * ByteTicks + 1

DmaDue(x) == x.dma_state = "RUNNING" /\ x.age >= DmaCompletion(x)

\* scd_cdc_host_fetch: one word goes to the host-data register; the transfer
\* ends when the 16-bit counter goes negative, which $FFFF already is.
HostFetch(x) ==
    IF x.dbc < 2 \/ x.dbc = MaxDbc THEN TransferEnd(x)
                                   ELSE [x EXCEPT !.dbc = @ - 2]

\* scd_cdc_host_read by the processor that destination `cpu` names.
HostRead(x, cpu) ==
    IF ~x.dsr \/ x.destination # cpu THEN x
    ELSE IF x.edt THEN [x EXCEPT !.dsr = FALSE] ELSE HostFetch(x)

\* The destinations for which scd_cdc_dma_init records a typed stop.
Unsupported(x) == x.started /\ x.destination \in {4, 5}

\* Mutant: a writer into 2M Word RAM starts whoever owns it.
DmaInit_NeverHalted(x, oneM, ret) ==
    LET idle == [x EXCEPT !.dma_state = "NONE"]
    IN  IF ~x.started THEN x
        ELSE IF x.destination \in {2, 3}
             THEN HostFetch([idle EXCEPT !.dsr = TRUE])
        ELSE IF x.destination = 7
             THEN [x EXCEPT !.dma_state = "RUNNING",
                            !.dma_target = IF ~oneM THEN "2M"
                                           ELSE IF ret = 1 THEN "bank0" ELSE "bank1"]
        ELSE idle

\* scd_cdc_dma_init: the writer of a started transfer; ret is the RET bit.
DmaInit(x, oneM, ret) ==
    LET idle == [x EXCEPT !.dma_state = "NONE"]
    IN  IF ~x.started THEN x
        ELSE IF x.destination \in {2, 3}
             THEN HostFetch([idle EXCEPT !.dsr = TRUE])
        ELSE IF x.destination = 7
             THEN IF oneM
                  THEN [x EXCEPT !.dma_state = "RUNNING",
                                 !.dma_target = IF ret = 1 THEN "bank0" ELSE "bank1"]
                  ELSE [x EXCEPT !.dma_state = IF ret = 1 THEN "HALTED" ELSE "RUNNING",
                                 !.dma_target = "2M"]
        ELSE idle

\* scd_cdc_dma_halt_2m.
DmaHalt2M(x, oneM) ==
    IF x.dma_state # "RUNNING" \/ x.dma_target # "2M" THEN x
    ELSE LET s == DmaSync(x, oneM)
         IN  IF s.dma_state = "RUNNING" THEN [s EXCEPT !.dma_state = "HALTED"] ELSE s

\* scd_cdc_dma_resume_2m: counted from the hand-over on.
DmaResume2M(x) ==
    IF x.dma_state # "HALTED" \/ x.dma_target # "2M" THEN x
    ELSE [x EXCEPT !.dma_state = "RUNNING", !.age = IF @ > 0 THEN 0 ELSE @]

\* scd_cdc_reset, the fields kept here: every IFSTAT flag goes high, IFCTRL
\* clears and the writer goes; EDT, DSR, the destination and DBC stay.
CdcReset(x) ==
    [x EXCEPT !.started = FALSE, !.douten = FALSE, !.dma_state = "NONE", !.age = 0]

------------------------------------------------------------------------------
(* The graphics operation.  "rendered" is lines_rendered modulo RenderMod. *)

GfxType == [busy : BOOLEAN, lines : Nat, age : Int, rendered : 0..(RenderMod - 1)]

GfxIdle == [busy |-> FALSE, lines |-> 0, age |-> 0, rendered |-> 0]

\* scd_gfx_halted: the test is on RET in 2M mode only.
GfxHalted(oneM, ret) == ~oneM /\ ret = 1

\* scd_gfx_finish; the level-1 request is in module Interrupts.
GfxFinish(g) == [g EXCEPT !.busy = FALSE, !.age = 0]

\* Mutant: the clock of a halted operation does not follow the machine.
GfxSync_ClockStays(g, oneM, ret) ==
    LET n == CeilDiv(g.age, LineTicks)
    IN  IF ~g.busy \/ GfxHalted(oneM, ret) \/ g.age <= 0 THEN g
        ELSE IF n < g.lines
             THEN [g EXCEPT !.lines = @ - n, !.age = @ - n * LineTicks,
                            !.rendered = (@ + n) % RenderMod]
             ELSE GfxFinish([g EXCEPT !.lines = 0,
                                      !.rendered = (@ + g.lines) % RenderMod])

\* scd_gfx_sync.
GfxSync(g, oneM, ret) ==
    LET n == CeilDiv(g.age, LineTicks)
    IN  IF ~g.busy THEN g
        ELSE IF GfxHalted(oneM, ret) THEN [g EXCEPT !.age = 0]
        ELSE IF g.age <= 0 THEN g
        ELSE IF n < g.lines
             THEN [g EXCEPT !.lines = @ - n, !.age = @ - n * LineTicks,
                            !.rendered = (@ + n) % RenderMod]
             ELSE GfxFinish([g EXCEPT !.lines = 0,
                                      !.rendered = (@ + g.lines) % RenderMod])

\* scd_gfx_next_event, as an age.
GfxCompletion(g) == (IF g.lines > 0 THEN (g.lines - 1) * LineTicks ELSE 0) + 1

GfxDue(g, oneM, ret) == g.busy /\ ~GfxHalted(oneM, ret) /\ g.age >= GfxCompletion(g)
==============================================================================
