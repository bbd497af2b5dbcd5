------------------------------- MODULE CdcInt --------------------------------
(***************************************************************************)
(* The interrupt output of the CDC (scd_cd.c): two request flags, the end  *)
(* of a transfer (DTEI) and a decoded block (DECI), each with an enable    *)
(* bit in IFCTRL, share one /INT line.  Level 5 is requested on its edge,  *)
(* so a request that comes while the line is already low raises nothing.   *)
(*                                                                         *)
(* Operators only.  "asserted" holds the flags that are low in IFSTAT,     *)
(* "ifctrl" the enable bits (named like their flags) and DOUTEN, "irq" is  *)
(* cdc.irq; "decoding" is m->now <= decoder_end; "started" is DTEN; "xfer" *)
(* is the DMA writer of the transfer, or HOST while the host-data register *)
(* has another word to give (dsr and not edt).                             *)
(***************************************************************************)

Flags == {"DTEI", "DECI"}
Ifctrl == Flags \cup {"DOUTEN"}
Xfers == {"NONE", "HOST", "RUNNING", "HALTED"}

CdcIntType ==
    [ asserted : SUBSET Flags, ifctrl : SUBSET Ifctrl, irq : SUBSET Flags,
      decoding : BOOLEAN, decen : BOOLEAN, started : BOOLEAN, xfer : Xfers ]

CdcQuiet ==
    [ asserted |-> {}, ifctrl |-> {}, irq |-> {}, decoding |-> FALSE,
      decen |-> FALSE, started |-> FALSE, xfer |-> "NONE" ]

\* A flag goes high again: DTACK for DTEI; for DECI a STAT3 read, DECEN = 0, or a
\* look at it after the decoder period (scd_cdc_decoder_period_check).
Withdraw(x, flag) == [x EXCEPT !.asserted = @ \ {flag}, !.irq = @ \ {flag}]

PeriodCheck(x) == IF x.decoding THEN x ELSE Withdraw(x, "DECI")

\* A flag goes low.
Assert(x, flag) ==
    [x EXCEPT !.asserted = @ \cup {flag},
              !.irq = IF flag \in x.ifctrl THEN @ \cup {flag} ELSE @]

\* scd_cdc_transfer_end, up to the request: when the base tick of the transfer is
\* past the decoder period ("over"), an old DECI does not hide the edge.
EndCheck(x, over) ==
    IF "DTEI" \in x.ifctrl /\ "DECI" \in x.irq /\ over THEN Withdraw(x, "DECI") ELSE x

TransferEnd(x, over) ==
    [Assert(EndCheck(x, over), "DTEI") EXCEPT !.started = FALSE, !.xfer = "NONE"]

TransferEndRaises(x, over) == "DTEI" \in x.ifctrl /\ EndCheck(x, over).irq = {}

\* scd_cdc_decode: one block, when the decoder is enabled.
Decode(x) == IF x.decen THEN [Assert(x, "DECI") EXCEPT !.decoding = TRUE] ELSE x

DecodeRaises(x) == x.decen /\ "DECI" \in x.ifctrl /\ "DTEI" \notin x.irq

\* Mutant: the line is not computed again.
IfctrlWrite_StaleLine(x, ifctrl) ==
    LET z == [PeriodCheck(x) EXCEPT !.ifctrl = ifctrl]
    IN  IF "DOUTEN" \in ifctrl THEN z
        ELSE [z EXCEPT !.started = FALSE, !.xfer = IF @ = "HOST" THEN "HOST" ELSE "NONE"]

\* Register 1, IFCTRL: the line is computed again; DOUTEN = 0 ends a DMA writer,
\* but the host-data register keeps its word.
IfctrlWrite(x, ifctrl) ==
    LET y == PeriodCheck(x)
        z == [y EXCEPT !.ifctrl = ifctrl, !.irq = y.asserted \cap ifctrl]
    IN  IF "DOUTEN" \in ifctrl THEN z
        ELSE [z EXCEPT !.started = FALSE, !.xfer = IF @ = "HOST" THEN "HOST" ELSE "NONE"]

IfctrlRaises(x, ifctrl) ==
    PeriodCheck(x).irq = {} /\ PeriodCheck(x).asserted \cap ifctrl # {}

\* Register 10, CTRL0.
Ctrl0Write(x, decen) ==
    [(IF decen THEN x ELSE Withdraw(x, "DECI")) EXCEPT !.decen = decen]

\* scd_cdc_reset; the host-data register keeps its word here too.
CdcReset(x) == [CdcQuiet EXCEPT !.xfer = IF x.xfer = "HOST" THEN "HOST" ELSE "NONE"]
==============================================================================
