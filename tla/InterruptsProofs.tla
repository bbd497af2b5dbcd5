-------------------------- MODULE InterruptsProofs ---------------------------
(* The theorems of module Interrupts, for any set of sources and masks and  *)
(* both profiles.                                                          *)
EXTENDS Interrupts, TLAPS

------------------------------------------------------------------------------
(* The interrupt output of the CDC.                                        *)

\* What every handler of the CDC keeps: the line is the enabled flags, and a DMA
\* writer belongs to a started transfer with data output enabled.
Good(x) ==
    /\ x \in CdcIntType
    /\ x.irq = x.asserted \cap x.ifctrl
    /\ x.xfer \in {"RUNNING", "HALTED"} => x.started
    /\ x.started => "DOUTEN" \in x.ifctrl

\* A flag that goes high keeps the line right.
LEMMA WithdrawGood ==
  ASSUME NEW x, Good(x), NEW flag \in Flags
  PROVE  /\ Good(Withdraw(x, flag))
         /\ Withdraw(x, flag).xfer = x.xfer /\ Withdraw(x, flag).started = x.started
         /\ Withdraw(x, flag).ifctrl = x.ifctrl /\ Withdraw(x, flag).decen = x.decen
  BY DEF Good, Withdraw, CdcIntType, Flags, Ifctrl

\* A flag that goes low keeps the line right.
LEMMA AssertGood ==
  ASSUME NEW x, Good(x), NEW flag \in Flags
  PROVE  /\ Good(Assert(x, flag))
         /\ Assert(x, flag).xfer = x.xfer /\ Assert(x, flag).started = x.started
         /\ Assert(x, flag).ifctrl = x.ifctrl /\ Assert(x, flag).decen = x.decen
<1> DEFINE line == IF flag \in x.ifctrl THEN x.irq \cup {flag} ELSE x.irq
<1>1. x \in CdcIntType /\ x.irq = x.asserted \cap x.ifctrl
  BY DEF Good
<1>2. line \in SUBSET Flags /\ line = (x.asserted \cup {flag}) \cap x.ifctrl
  BY <1>1 DEF CdcIntType, Flags, Ifctrl
<1>3. Assert(x, flag) = [x EXCEPT !.asserted = x.asserted \cup {flag}, !.irq = line]
  BY <1>1 DEF Assert, CdcIntType
<1> HIDE DEF line
<1> DEFINE low == x.asserted \cup {flag}
<1>4. low \in SUBSET Flags
  BY <1>1 DEF CdcIntType
<1>5. Assert(x, flag) = [x EXCEPT !.asserted = low, !.irq = line]
  BY <1>3
<1>6. line = low \cap x.ifctrl
  BY <1>2
<1> HIDE DEF low
<1>7. /\ Assert(x, flag) \in CdcIntType
      /\ Assert(x, flag).irq = Assert(x, flag).asserted \cap Assert(x, flag).ifctrl
  BY <1>1, <1>2, <1>4, <1>5, <1>6 DEF CdcIntType
<1>8. /\ Assert(x, flag).xfer = x.xfer /\ Assert(x, flag).started = x.started
      /\ Assert(x, flag).ifctrl = x.ifctrl /\ Assert(x, flag).decen = x.decen
  BY <1>1, <1>3 DEF CdcIntType
<1> QED BY <1>7, <1>8 DEF Good

\* The end of the decoder period, when it is looked at.
LEMMA PeriodCheckGood ==
  ASSUME NEW x, Good(x)
  PROVE  Good(PeriodCheck(x)) /\ PeriodCheck(x).xfer = x.xfer /\ PeriodCheck(x).started = x.started
  BY WithdrawGood DEF PeriodCheck, Flags

\* The end of a transfer.
LEMMA TransferEndGood ==
  ASSUME NEW x, Good(x), NEW over
  PROVE  /\ Good(TransferEnd(x, over))
         /\ TransferEnd(x, over).xfer = "NONE"
         /\ TransferEnd(x, over).ifctrl = x.ifctrl /\ TransferEnd(x, over).decen = x.decen
<1> DEFINE e == EndCheck(x, over)
           a == Assert(e, "DTEI")
<1>1. Good(e) /\ e.ifctrl = x.ifctrl /\ e.decen = x.decen
  BY WithdrawGood DEF EndCheck, Flags
<1>2. Good(a) /\ a.ifctrl = x.ifctrl /\ a.decen = x.decen
  BY <1>1, AssertGood DEF Flags
<1>3. TransferEnd(x, over) = [a EXCEPT !.started = FALSE, !.xfer = "NONE"]
  BY DEF TransferEnd
<1> HIDE DEF e, a
<1> QED BY <1>2, <1>3 DEF Good, CdcIntType, Xfers

\* A decoded block.
LEMMA DecodeGood ==
  ASSUME NEW x, Good(x)
  PROVE  /\ Good(Decode(x))
         /\ Decode(x).xfer = x.xfer /\ Decode(x).ifctrl = x.ifctrl /\ Decode(x).decen = x.decen
<1> DEFINE a == Assert(x, "DECI")
<1>1. Good(a) /\ a.xfer = x.xfer /\ a.ifctrl = x.ifctrl /\ a.decen = x.decen
  BY AssertGood DEF Flags
<1>2. Decode(x) = IF x.decen THEN [a EXCEPT !.decoding = TRUE] ELSE x
  BY DEF Decode
<1> HIDE DEF a
<1> QED BY <1>1, <1>2 DEF Good, CdcIntType

\* An IFCTRL write.
LEMMA IfctrlGood ==
  ASSUME NEW x, Good(x), NEW ifctrl \in SUBSET Ifctrl
  PROVE  Good(IfctrlWrite(x, ifctrl))
<1> DEFINE y == PeriodCheck(x)
           z == [y EXCEPT !.ifctrl = ifctrl, !.irq = y.asserted \cap ifctrl]
<1>1. Good(y)
  BY PeriodCheckGood
<1>2. IfctrlWrite(x, ifctrl) =
        IF "DOUTEN" \in ifctrl THEN z
        ELSE [z EXCEPT !.started = FALSE, !.xfer = IF @ = "HOST" THEN "HOST" ELSE "NONE"]
  BY DEF IfctrlWrite
<1> HIDE DEF y
<1>3. /\ z \in CdcIntType /\ z.irq = z.asserted \cap z.ifctrl /\ z.ifctrl = ifctrl
      /\ z.xfer = y.xfer /\ z.started = y.started
  BY <1>1 DEF Good, CdcIntType, Flags, Ifctrl
<1> HIDE DEF z
<1>4. CASE "DOUTEN" \in ifctrl
  BY <1>1, <1>2, <1>3, <1>4 DEF Good
<1>5. CASE "DOUTEN" \notin ifctrl
  <2> DEFINE w == IF z.xfer = "HOST" THEN "HOST" ELSE "NONE"
  <2>1. w \in Xfers /\ w \notin {"RUNNING", "HALTED"}
    BY DEF Xfers
  <2>2. IfctrlWrite(x, ifctrl) = [z EXCEPT !.started = FALSE, !.xfer = w]
    BY <1>2, <1>3, <1>5 DEF CdcIntType
  <2> HIDE DEF w
  <2> QED BY <1>3, <2>1, <2>2 DEF Good, CdcIntType
<1> QED BY <1>4, <1>5

\* A CTRL0 write.
LEMMA Ctrl0Good ==
  ASSUME NEW x, Good(x), NEW decen \in BOOLEAN
  PROVE  Good(Ctrl0Write(x, decen))
<1> DEFINE y == IF decen THEN x ELSE Withdraw(x, "DECI")
<1>1. Good(y)
  BY WithdrawGood DEF Flags
<1>2. Ctrl0Write(x, decen) = [y EXCEPT !.decen = decen]
  BY DEF Ctrl0Write
<1> HIDE DEF y
<1> QED BY <1>1, <1>2 DEF Good, CdcIntType

\* The CDC reset.
LEMMA CdcResetGood == ASSUME NEW x PROVE Good(CdcReset(x)) /\ Good(CdcQuiet)
  BY DEF CdcReset, CdcQuiet, Good, CdcIntType, Flags, Ifctrl, Xfers
------------------------------------------------------------------------------
(* The invariants.                                                         *)

IInv == TypeOK /\ LineFollowsFlags /\ Ifl2IsVisible

\* The CDC part of the invariant.
LEMMA GoodCdc == IInv => Good(cdc)
  BY DEF IInv, TypeOK, LineFollowsFlags, Good

\* The highest of a set of levels is one of them, and above no mask that none of
\* them is above.
LEMMA HighestLevel ==
  ASSUME NEW S \in SUBSET (1..5)
  PROVE  /\ Highest(S) \in 0..5
         /\ \A l \in S : l <= Highest(S)
         /\ S # {} => Highest(S) \in S
<1>1. CASE S = {}
  BY <1>1 DEF Highest
<1>2. CASE S # {}
  <2>1. \E l \in S : \A k \in S : k <= l
    <3>1. CASE 5 \in S  BY <3>1
    <3>2. CASE 5 \notin S /\ 4 \in S  BY <3>2
    <3>3. CASE 5 \notin S /\ 4 \notin S /\ 3 \in S  BY <3>3
    <3>4. CASE 5 \notin S /\ 4 \notin S /\ 3 \notin S /\ 2 \in S  BY <3>4
    <3>5. CASE 5 \notin S /\ 4 \notin S /\ 3 \notin S /\ 2 \notin S
      <4>1. \A k \in S : k = 1
        BY <3>5
      <4>2. PICK m : m \in S
        BY <1>2
      <4>3. \A k \in S : k <= m
        BY <4>1, <4>2
      <4> QED BY <4>2, <4>3
    <3> QED BY <3>1, <3>2, <3>3, <3>4, <3>5
  <2>2. Highest(S) \in S /\ \A k \in S : k <= Highest(S)
    BY <1>2, <2>1 DEF Highest
  <2>3. \A k \in S : k \in 0..5
    OBVIOUS
  <2>4. Highest(S) \in 0..5
    BY <2>2, <2>3, Zenon
  <2> QED BY <2>2, <2>4
<1> QED BY <1>1, <1>2

\* The power-on state satisfies the invariant.
LEMMA InterruptsInit == Init => IInv
<1> SUFFICES ASSUME Init PROVE IInv
  OBVIOUS
<1>1. Good(cdc)
  BY CdcResetGood DEF Init
<1>2. profile \in Profiles /\ sub_mask \in 0..7 /\ ie \subseteq 1..5 /\ pending \subseteq 1..5
  BY DEF Init
<1>3. /\ ifl2 \in BOOLEAN /\ main_stopped \in BOOLEAN /\ main_wake \in BOOLEAN
      /\ sub_stopped \in BOOLEAN /\ sub_halted \in BOOLEAN /\ sub_wait \in BOOLEAN
      /\ timer \in BOOLEAN /\ gfx_busy \in BOOLEAN /\ hock \in BOOLEAN
      /\ main_owns \in BOOLEAN /\ ended \in BOOLEAN
  BY Zenon DEF Init
<1>4. TypeOK
  BY <1>1, <1>2, <1>3, Zenon DEF TypeOK, Good
<1> QED BY <1>1, <1>4 DEF Init, IInv, LineFollowsFlags, Ifl2IsVisible, Good

\* What a step must keep besides the processors' and the devices' types.
LEMMA InvFrom ==
  ASSUME Good(cdc'), TypeOK,
         ie' \subseteq 1..5, pending' \subseteq 1..5, ifl2' \in BOOLEAN,
         2 \in pending' => ifl2',
         cpus' = cpus, devs' = devs, ended' = ended /\ profile' = profile
  PROVE  IInv'
<1>1. TypeOK'
  BY DEF TypeOK, Good, cpus, hold, devs
<1> QED BY <1>1 DEF IInv, LineFollowsFlags, Ifl2IsVisible, Good

\* A step that only changes processors and devices keeps the invariant.
LEMMA InvKept ==
  ASSUME IInv, cdc' = cdc, ga' = ga, TypeOK'
  PROVE  IInv'
  BY DEF IInv, LineFollowsFlags, Ifl2IsVisible, ga

\* The levels a step raises are levels.
LEMMA RaiseType ==
  ASSUME IInv, NEW raised \in SUBSET (1..5), 2 \notin raised, Raise(raised),
         ie' = ie, ifl2' = ifl2
  PROVE  /\ ie' \subseteq 1..5 /\ pending' \subseteq 1..5 /\ ifl2' \in BOOLEAN
         /\ 2 \in pending' => ifl2'
  BY DEF IInv, TypeOK, Ifl2IsVisible, Raise

\* The device events keep the invariant.
LEMMA DeviceKeeps == ASSUME IInv, DeviceNext \/ RunEnds PROVE IInv'
<1>1. TypeOK /\ Good(cdc)
  BY GoodCdc DEF IInv
<1>2. CASE RunEnds
  BY <1>2, <1>1, InvKept DEF RunEnds, ga, cpus, hold, devs, TypeOK
<1>3. CASE TimerEvent
  <2>1. {3} \cap ie \in SUBSET (1..5) /\ 2 \notin {3} \cap ie
    OBVIOUS
  <2> QED BY <1>3, <1>1, <2>1, RaiseType, InvFrom DEF TimerEvent
<1>4. CASE GfxFinish
  <2>1. {1} \cap ie \in SUBSET (1..5) /\ 2 \notin {1} \cap ie
    OBVIOUS
  <2>2. /\ ie' \subseteq 1..5 /\ pending' \subseteq 1..5 /\ ifl2' \in BOOLEAN
        /\ 2 \in pending' => ifl2'
    BY <1>4, <2>1, RaiseType DEF GfxFinish
  <2>3. TypeOK'
    BY <1>4, <1>1, <2>2 DEF GfxFinish, TypeOK, cpus, hold
  <2> QED BY <1>4, <1>1, <2>2, <2>3 DEF GfxFinish, IInv, LineFollowsFlags, Ifl2IsVisible
<1>5. CASE CddTick
  <2> DEFINE r == (IF DecodeRaises(cdc) THEN {5} \cap ie ELSE {}) \cup (IF hock THEN {4} ELSE {})
  <2>1. r \in SUBSET (1..5) /\ 2 \notin r
    OBVIOUS
  <2>2. Raise(r) /\ UNCHANGED <<ie, ifl2, cpus, devs, profile, ended>>
    BY <1>5 DEF CddTick
  <2>3. Good(cdc')
    BY <1>5, <1>1, DecodeGood DEF CddTick
  <2> HIDE DEF r
  <2> QED BY <1>1, <2>1, <2>2, <2>3, RaiseType, InvFrom
<1>6. CASE \E over \in BOOLEAN : DmaEnd(over)
  <2> PICK over \in BOOLEAN : DmaEnd(over)
    BY <1>6
  <2> DEFINE r == IF TransferEndRaises(cdc, over) THEN {5} \cap ie ELSE {}
  <2>1. r \in SUBSET (1..5) /\ 2 \notin r
    OBVIOUS
  <2>2. Raise(r) /\ UNCHANGED <<ie, ifl2, cpus, devs, profile, ended>>
    BY DEF DmaEnd
  <2>3. Good(cdc')
    BY <1>1, TransferEndGood DEF DmaEnd
  <2> HIDE DEF r
  <2> QED BY <1>1, <2>1, <2>2, <2>3, RaiseType, InvFrom
<1>7. CASE DecoderPeriodEnds
  <2>1. Good(cdc')
    BY <1>7, <1>1 DEF DecoderPeriodEnds, Good, CdcIntType
  <2> QED BY <1>7, <1>1, <2>1, InvFrom DEF DecoderPeriodEnds, ga, IInv, TypeOK, Ifl2IsVisible
<1>8. CASE MainWakes
  BY <1>8, <1>1, InvKept DEF MainWakes, ga, hold, devs, TypeOK
<1>9. CASE CddTickAtEnd
  <2>1. {4} \in SUBSET (1..5) /\ 2 \notin {4}
    OBVIOUS
  <2> QED BY <1>9, <1>1, <2>1, RaiseType, InvFrom DEF CddTickAtEnd
<1> QED BY <1>2, <1>3, <1>4, <1>5, <1>6, <1>7, <1>8, <1>9 DEF DeviceNext

\* An accepted interrupt keeps the invariant.
LEMMA AcceptKeeps == ASSUME IInv, SubAccepts PROVE IInv'
<1>1. RequestLevel \in 0..5
  BY HighestLevel DEF IInv, TypeOK, RequestLevel
<1> DEFINE l == RequestLevel
<1>4. /\ l \in 0..5 /\ pending' = pending \ {l} /\ sub_mask' = l
      /\ ifl2' = (ifl2 /\ l # 2)
      /\ sub_stopped' = FALSE
      /\ UNCHANGED <<ie, main_stopped, main_wake, hold, devs, cdc, profile, ended>>
  BY <1>1 DEF SubAccepts, Acknowledge
<1> HIDE DEF l
<1>5. sub_mask' \in 0..7 /\ pending' \subseteq 1..5 /\ ie' \subseteq 1..5
  BY <1>4 DEF IInv, TypeOK
<1>6. ifl2' \in BOOLEAN /\ sub_stopped' \in BOOLEAN
  BY <1>4, Zenon
<1>2. TypeOK'
  BY <1>4, <1>5, <1>6 DEF IInv, TypeOK, hold, devs
<1>3. Ifl2IsVisible'
  BY <1>1 DEF IInv, TypeOK, Ifl2IsVisible, SubAccepts, Acknowledge
<1> QED BY <1>2, <1>3 DEF IInv, LineFollowsFlags, SubAccepts

\* The last read of a host transfer keeps the invariant.
LEMMA HostReadKeeps ==
  ASSUME IInv, NEW over \in BOOLEAN, HostReadEnds(over) PROVE IInv'
<1> DEFINE r == IF TransferEndRaises(cdc, over) THEN {5} \cap ie ELSE {}
<1>1. r \in SUBSET (1..5) /\ 2 \notin r
  OBVIOUS
<1>2. Raise(r) /\ UNCHANGED <<ie, ifl2, cpus, devs, profile, ended>>
  BY DEF HostReadEnds
<1>3. Good(cdc')
  BY GoodCdc, TransferEndGood DEF HostReadEnds
<1>4. TypeOK
  BY DEF IInv
<1> HIDE DEF r
<1> QED BY <1>1, <1>2, <1>3, <1>4, RaiseType, InvFrom

\* Main's instructions keep the invariant.
LEMMA MainKeeps == ASSUME IInv, MainNext PROVE IInv'
<1>1. TypeOK /\ Good(cdc)
  BY GoodCdc DEF IInv
<1>2. CASE MainRequests
  <2>1. ifl2' = (ifl2 \/ 2 \in ie) /\ pending' = pending \cup ({2} \cap ie) /\ ie' = ie
    BY <1>2 DEF MainRequests, Raise
  <2> DEFINE r == {2} \cap ie
  <2>7. r \subseteq 1..5 /\ pending' = pending \cup r /\ ie' = ie
    BY <2>1
  <2>2. pending' \subseteq 1..5 /\ ie' \subseteq 1..5
    <3> HIDE DEF r
    <3> QED BY <2>7, <1>1 DEF TypeOK
  <2> DEFINE b == (2 \in ie)
  <2>6. b \in BOOLEAN /\ ifl2' = (ifl2 \/ b)
    BY <2>1
  <2>3. ifl2' \in BOOLEAN
    <3> HIDE DEF b
    <3> QED BY <2>6, <1>1 DEF TypeOK
  <2>4. 2 \in pending' => ifl2'
    BY <2>1 DEF IInv, Ifl2IsVisible
  <2>5. Good(cdc') /\ cpus' = cpus /\ devs' = devs /\ ended' = ended /\ profile' = profile
    BY <1>2, <1>1 DEF MainRequests
  <2> QED BY <1>1, <2>2, <2>3, <2>4, <2>5, InvFrom
<1>3. ASSUME NEW h \in BOOLEAN, MainHoldsSub(h) PROVE IInv'
  BY <1>3, <1>1, InvKept DEF MainHoldsSub, ga, devs, TypeOK
<1>4. ASSUME NEW h \in BOOLEAN, MainResetsSub(h) PROVE IInv'
  <2>1. sub_mask' = 7
    BY <1>4 DEF MainResetsSub
  <2>2. sub_mask' \in 0..7
    BY <2>1
  <2>3. sub_halted' \in BOOLEAN /\ sub_wait' \in BOOLEAN /\ sub_stopped' \in BOOLEAN
    BY <1>4, Zenon DEF MainResetsSub
  <2>4. TypeOK' /\ ga' = ga /\ cdc' = cdc
    BY <1>4, <1>1, <2>2, <2>3 DEF MainResetsSub, ga, devs, TypeOK
  <2> QED BY <2>4, InvKept
<1>5. ASSUME NEW h \in BOOLEAN, MainStops(h) PROVE IInv'
  <2>1. main_stopped' \in BOOLEAN /\ main_wake' \in BOOLEAN
    BY <1>5, Zenon DEF MainStops
  <2>2. TypeOK' /\ ga' = ga /\ cdc' = cdc
    BY <1>5, <1>1, <2>1 DEF MainStops, ga, devs, hold, TypeOK
  <2> QED BY <2>2, InvKept
<1>6. CASE MainHandsOver
  <2> DEFINE w == IF cdc.xfer = "HALTED" THEN "RUNNING" ELSE cdc.xfer
  <2>1. w \in Xfers /\ (w \in {"RUNNING", "HALTED"} => cdc.xfer \in {"RUNNING", "HALTED"})
    BY <1>1 DEF Good, CdcIntType, Xfers
  <2>2. cdc' = [cdc EXCEPT !.xfer = w]
    BY <1>6, <1>1 DEF MainHandsOver, Good, CdcIntType
  <2> HIDE DEF w
  <2>3. Good(cdc')
    BY <1>1, <2>1, <2>2 DEF Good, CdcIntType
  <2>4. main_owns' \in BOOLEAN /\ sub_wait' \in BOOLEAN
    BY <1>6, Zenon DEF MainHandsOver
  <2>5. TypeOK'
    BY <1>6, <1>1, <2>3, <2>4 DEF MainHandsOver, ga, TypeOK, Good
  <2>6. Ifl2IsVisible'
    BY <1>6 DEF MainHandsOver, ga, IInv, Ifl2IsVisible
  <2> QED BY <2>3, <2>5, <2>6 DEF IInv, LineFollowsFlags, Good
<1>7. ASSUME NEW over \in BOOLEAN, MainHostRead(over) PROVE IInv'
  BY <1>7, HostReadKeeps DEF MainHostRead
<1> QED BY <1>2, <1>3, <1>4, <1>5, <1>6, <1>7 DEF MainNext

\* Giving a started transfer its writer keeps the invariant.
LEMMA SelectsKeeps ==
  ASSUME IInv, NEW xfer \in Xfers, NEW overs, SelectsWriter(xfer, overs),
         "DOUTEN" \in cdc.ifctrl,
         UNCHANGED <<ie, ifl2, cpus, devs, profile, ended>>
  PROVE  IInv'
<1> DEFINE x == [cdc EXCEPT !.started = TRUE, !.xfer = xfer]
<1>1. TypeOK /\ Good(cdc)
  BY GoodCdc DEF IInv
<1>2. Good(x)
  BY <1>1 DEF Good, CdcIntType
<1>3. CASE cdc' = x /\ UNCHANGED pending
  BY <1>1, <1>2, <1>3, InvFrom DEF IInv, TypeOK, Ifl2IsVisible
<1>4. ASSUME NEW over, cdc' = TransferEnd(x, over),
             Raise(IF TransferEndRaises(x, over) THEN {5} \cap ie ELSE {})
      PROVE  IInv'
  <2> DEFINE r == IF TransferEndRaises(x, over) THEN {5} \cap ie ELSE {}
  <2>1. r \in SUBSET (1..5) /\ 2 \notin r /\ Raise(r)
    BY <1>4
  <2>2. Good(cdc')
    BY <1>2, <1>4, TransferEndGood
  <2> HIDE DEF r
  <2> QED BY <1>1, <2>1, <2>2, RaiseType, InvFrom
<1> QED BY <1>3, <1>4 DEF SelectsWriter

\* The sub's instructions outside the CDC keep the invariant.
LEMMA SubKeeps ==
  ASSUME IInv,
         \/ \E mask \in Masks, stops \in BOOLEAN : SubSetsMask(mask, stops)
         \/ SubWaits
         \/ \E levels \in SUBSET Sources : SubEnables(levels)
         \/ \E on \in BOOLEAN : SubSetsTimer(on) \/ SubSetsHock(on) \/ SubSetsMode(on)
         \/ SubStartsGfx \/ PeripheralReset
  PROVE  IInv'
<1>1. TypeOK /\ Good(cdc)
  BY GoodCdc DEF IInv
<1>0. Sources \subseteq 1..5 /\ Masks \subseteq 0..7
  BY <1>1, ProfilesAssumption DEF TypeOK, Sources, Masks
<1>2. ASSUME NEW mask \in Masks, NEW stops \in BOOLEAN, SubSetsMask(mask, stops) PROVE IInv'
  <2>1. sub_mask' \in 0..7 /\ sub_stopped' \in BOOLEAN
    BY <1>2, <1>0 DEF SubSetsMask
  <2>2. TypeOK' /\ ga' = ga /\ cdc' = cdc
    BY <1>2, <1>1, <2>1 DEF SubSetsMask, ga, devs, hold, TypeOK
  <2> QED BY <2>2, InvKept
<1>3. CASE SubWaits
  <2>1. sub_wait' \in BOOLEAN
    BY <1>3, Zenon DEF SubWaits
  <2>2. TypeOK' /\ ga' = ga /\ cdc' = cdc
    BY <1>3, <1>1, <2>1 DEF SubWaits, ga, devs, TypeOK
  <2> QED BY <2>2, InvKept
<1>4. ASSUME NEW levels \in SUBSET Sources, SubEnables(levels) PROVE IInv'
  <2>1. pending' \subseteq pending /\ ie' \subseteq 1..5 /\ ifl2' = ifl2
    BY <1>4, <1>0 DEF SubEnables
  <2>2. pending' \subseteq 1..5 /\ ifl2' \in BOOLEAN /\ (2 \in pending' => ifl2')
    BY <1>1, <2>1 DEF TypeOK, IInv, Ifl2IsVisible
  <2>3. Good(cdc') /\ cpus' = cpus /\ devs' = devs /\ ended' = ended /\ profile' = profile
    BY <1>4, <1>1 DEF SubEnables
  <2> QED BY <1>1, <2>1, <2>2, <2>3, InvFrom
<1>5. ASSUME NEW on \in BOOLEAN, SubSetsTimer(on) PROVE IInv'
  BY <1>5, <1>1, InvKept DEF SubSetsTimer, ga, cpus, hold, TypeOK
<1>6. ASSUME NEW on \in BOOLEAN, SubSetsHock(on) PROVE IInv'
  BY <1>6, <1>1, InvKept DEF SubSetsHock, ga, cpus, hold, TypeOK
<1>7. ASSUME NEW on \in BOOLEAN, SubSetsMode(on) PROVE IInv'
  <2>1. Good(cdc')
    <3>1. CASE cdc.xfer = "RUNNING" /\ cdc' = [cdc EXCEPT !.xfer = "HALTED"]
      BY <3>1, <1>1 DEF Good, CdcIntType, Xfers
    <3> QED BY <3>1, <1>1, <1>7 DEF SubSetsMode
  <2>2. TypeOK'
    BY <1>7, <1>1, <2>1 DEF SubSetsMode, ga, cpus, hold, TypeOK, Good
  <2>3. Ifl2IsVisible'
    BY <1>7 DEF SubSetsMode, ga, IInv, Ifl2IsVisible
  <2> QED BY <2>1, <2>2, <2>3 DEF IInv, LineFollowsFlags, Good
<1>8. CASE SubStartsGfx
  <2>1. gfx_busy' \in BOOLEAN
    BY <1>8, Zenon DEF SubStartsGfx
  <2>2. TypeOK' /\ ga' = ga /\ cdc' = cdc
    BY <1>8, <1>1, <2>1 DEF SubStartsGfx, ga, cpus, hold, TypeOK
  <2> QED BY <2>2, InvKept
<1>9. CASE PeripheralReset
  <2>1. Good(cdc')
    BY <1>9, CdcResetGood DEF PeripheralReset
  <2>2. timer' \in BOOLEAN /\ gfx_busy' \in BOOLEAN /\ hock' \in BOOLEAN
    BY <1>9, Zenon DEF PeripheralReset
  <2>3. ie' = {} /\ pending' = {}
    BY <1>9 DEF PeripheralReset
  <2>4. TypeOK'
    BY <1>9, <1>1, <2>1, <2>2, <2>3 DEF PeripheralReset, cpus, hold, TypeOK, Good
  <2> QED BY <2>1, <2>3, <2>4 DEF IInv, LineFollowsFlags, Ifl2IsVisible, Good
<1> QED BY <1>2, <1>3, <1>4, <1>5, <1>6, <1>7, <1>8, <1>9

\* The sub's CDC accesses keep the invariant.
LEMMA SubCdcKeeps ==
  ASSUME IInv,
         \/ \E xfer \in Xfers : SubStartsTransfer(xfer) \/ SubSetsDestination(xfer)
         \/ \E ifctrl \in SUBSET Ifctrl : SubWritesIfctrl(ifctrl)
         \/ SubTouchesCdc \/ SubResetsCdc
         \/ \E over \in BOOLEAN : SubHostRead(over)
  PROVE  IInv'
<1>1. TypeOK /\ Good(cdc) /\ (2 \in pending => ifl2)
  BY GoodCdc DEF IInv, Ifl2IsVisible
<1>2. ASSUME NEW xfer \in Xfers, SubStartsTransfer(xfer) PROVE IInv'
  BY <1>2, SelectsKeeps DEF SubStartsTransfer
<1>3. ASSUME NEW xfer \in Xfers, SubSetsDestination(xfer) PROVE IInv'
  <2>1. CASE cdc.started
    BY <1>1, <1>3, <2>1, SelectsKeeps DEF SubSetsDestination, Good
  <2>2. CASE ~cdc.started
    <3>1. cdc' = [cdc EXCEPT !.xfer = "NONE"] /\ pending' = pending
      BY <1>3, <2>2 DEF SubSetsDestination
    <3>2. Good(cdc')
      BY <1>1, <3>1 DEF Good, CdcIntType, Xfers
    <3> QED BY <1>1, <1>3, <3>1, <3>2, InvFrom DEF SubSetsDestination, TypeOK
  <2> QED BY <2>1, <2>2
<1>4. ASSUME NEW ifctrl \in SUBSET Ifctrl, SubWritesIfctrl(ifctrl) PROVE IInv'
  <2> DEFINE r == IF IfctrlRaises(cdc, ifctrl) THEN {5} \cap ie ELSE {}
  <2>1. r \in SUBSET (1..5) /\ 2 \notin r
    OBVIOUS
  <2>2. Raise(r) /\ UNCHANGED <<ie, ifl2, cpus, devs, profile, ended>>
    BY <1>4 DEF SubWritesIfctrl
  <2>3. Good(cdc')
    BY <1>1, <1>4, IfctrlGood DEF SubWritesIfctrl
  <2> HIDE DEF r
  <2> QED BY <1>1, <2>1, <2>2, <2>3, RaiseType, InvFrom
<1>5. CASE SubTouchesCdc
  <2>1. Good(cdc')
    BY <1>1, <1>5, WithdrawGood, PeriodCheckGood, Ctrl0Good DEF SubTouchesCdc, Flags
  <2>2. UNCHANGED <<ie, pending, ifl2, cpus, devs, profile, ended>>
    BY <1>5 DEF SubTouchesCdc, ga
  <2> QED BY <1>1, <2>1, <2>2, InvFrom DEF TypeOK
<1>6. CASE SubResetsCdc
  <2>1. Good(cdc')
    BY <1>6, CdcResetGood DEF SubResetsCdc
  <2>2. /\ pending' \subseteq pending /\ ie' = ie /\ ifl2' = ifl2
        /\ cpus' = cpus /\ devs' = devs /\ ended' = ended /\ profile' = profile
    BY <1>6 DEF SubResetsCdc
  <2>3. pending' \subseteq 1..5 /\ (2 \in pending' => ifl2')
    BY <1>1, <2>2 DEF TypeOK
  <2> QED BY <1>1, <2>1, <2>2, <2>3, InvFrom DEF TypeOK
<1>7. ASSUME NEW over \in BOOLEAN, SubHostRead(over) PROVE IInv'
  BY <1>7, HostReadKeeps DEF SubHostRead
<1> QED BY <1>2, <1>3, <1>4, <1>5, <1>6, <1>7

\* Every step keeps the invariant.
LEMMA InterruptsNext == ASSUME IInv, [Next]_vars PROVE IInv'
<1>1. CASE UNCHANGED vars
  BY <1>1 DEF vars, ga, cpus, hold, devs, IInv, TypeOK, LineFollowsFlags, Ifl2IsVisible
<1>2. CASE RunEnds \/ DeviceNext
  BY <1>2, DeviceKeeps
<1>3. CASE SubAccepts
  BY <1>3, AcceptKeeps
<1>4. CASE MainNext
  BY <1>4, MainKeeps
<1>5. CASE SubNext
  BY <1>5, SubKeeps, SubCdcKeeps DEF SubNext
<1> QED BY <1>1, <1>2, <1>3, <1>4, <1>5 DEF Next

\* The CDC interrupt line always is its enabled flags, a DMA writer belongs to a
\* started transfer with its output enabled, and main's request flag is up while its
\* request is pending (scd_cd.c, scd_gate_array.c, scd_sub_accept_interrupt).
THEOREM InterruptsSafe == Spec => [](TypeOK /\ LineFollowsFlags /\ Ifl2IsVisible)
<1>1. Init => IInv
  BY InterruptsInit
<1>2. IInv /\ [Next]_vars => IInv'
  BY InterruptsNext
<1>3. IInv => TypeOK /\ LineFollowsFlags /\ Ifl2IsVisible
  BY DEF IInv
<1> QED BY <1>1, <1>2, <1>3, PTL DEF Spec

\* Main sees its request flag up for as long as its request is pending
\* (scd_sub_accept_interrupt, scd_gate_array.c).
THEOREM RequestIsVisible == Spec => []Ifl2IsVisible
  BY InterruptsSafe, PTL

------------------------------------------------------------------------------
(* The idle verdict.                                                       *)

\* The enabled levels that are, or may come to be, requested.
Wake == {l \in ie : l \in pending \/ (l = 2 /\ ~main_stopped) \/ CanRaise(l)}

\* The highest of a set of levels is above a mask only when one of them is.
LEMMA HighestAtMost ==
  ASSUME NEW S \in SUBSET (1..5), NEW mask \in 0..7
  PROVE  Highest(S) <= mask <=> \A l \in S : l <= mask
<1>1. /\ Highest(S) \in 0..5 /\ \A l \in S : l <= Highest(S)
      /\ S # {} => Highest(S) \in S
  BY HighestLevel
<1>2. ASSUME Highest(S) <= mask, NEW l \in S PROVE l <= mask
  <2>1. l \in 1..5 /\ l <= Highest(S)
    BY <1>1
  <2> QED BY <1>1, <1>2, <2>1
<1>3. ASSUME \A l \in S : l <= mask PROVE Highest(S) <= mask
  <2>1. CASE S = {}
    BY <2>1 DEF Highest
  <2>2. CASE S # {}
    BY <1>1, <1>3, <2>2
  <2> QED BY <2>1, <2>2
<1> QED BY <1>2, <1>3

\* The sources, level by level.
LEMMA CanRaiseAt ==
  /\ CanRaise(1) <=> gfx_busy /\ ~main_owns
  /\ ~CanRaise(2)
  /\ CanRaise(3) <=> timer
  /\ CanRaise(4) <=> hock
  /\ CanRaise(5) <=> \/ cdc.xfer \in {"RUNNING", "HALTED"} /\ "DTEI" \in cdc.ifctrl
                     \/ cdc.decen /\ "DECI" \in cdc.ifctrl
  BY DEF CanRaise

\* What the verdict depends on besides the sources.
Asleep ==
    UNCHANGED <<ie, main_stopped, main_wake, sub_stopped, sub_mask, sub_halted, sub_wait>>

\* A step that takes its new requests from sources that could raise them, and arms
\* no source, adds no level that may come.
LEMMA WakeShrinks ==
  ASSUME IInv, Asleep, NEW r, Raise(r), \A l \in r : l \in 1..5 /\ CanRaise(l),
         CanRaise(1)' => CanRaise(1), CanRaise(3)' => CanRaise(3),
         CanRaise(4)' => CanRaise(4), CanRaise(5)' => CanRaise(5)
  PROVE  Wake' \subseteq Wake
<1> SUFFICES ASSUME NEW l \in Wake' PROVE l \in Wake
  OBVIOUS
<1>1. l \in ie /\ l \in 1..5
  BY DEF IInv, TypeOK, Asleep, Wake
<1>2. l \in pending' \/ (l = 2 /\ ~main_stopped) \/ CanRaise(l)'
  BY DEF Wake, Asleep
<1>3. CASE l \in pending'
  BY <1>1, <1>3 DEF Raise, Wake
<1>4. CASE l = 2 /\ ~main_stopped
  BY <1>1, <1>4 DEF Wake
<1>5. CASE CanRaise(l)'
  <2>1. ~CanRaise(2)'
    BY DEF CanRaise
  <2>2. CanRaise(l)
    BY <1>1, <1>5, <2>1
  <2> QED BY <1>1, <2>2 DEF Wake
<1> QED BY <1>2, <1>3, <1>4, <1>5

\* No device event adds one.
LEMMA DevicesShrink ==
  ASSUME IInv, RunEnds \/ DeviceNext, main_stopped, ~main_wake
  PROVE  Asleep /\ Wake' \subseteq Wake
<1>1. Good(cdc)
  BY GoodCdc
<1>2. CASE RunEnds
  BY <1>2 DEF RunEnds, Asleep, ga, cpus, hold, devs, Wake, CanRaise
<1>3. CASE TimerEvent
  BY <1>3, CanRaiseAt, WakeShrinks DEF TimerEvent, Asleep, cpus, hold, devs, CanRaise
<1>4. CASE GfxFinish
  BY <1>4, CanRaiseAt, WakeShrinks DEF GfxFinish, Asleep, cpus, hold, CanRaise
<1>5. CASE CddTick
  <2> DEFINE r == (IF DecodeRaises(cdc) THEN {5} \cap ie ELSE {}) \cup (IF hock THEN {4} ELSE {})
  <2>1. Asleep /\ Raise(r)
    BY <1>5 DEF CddTick, Asleep, cpus, hold
  <2>2. \A l \in r : l \in 1..5 /\ CanRaise(l)
    BY CanRaiseAt DEF DecodeRaises
  <2>3. /\ cdc'.xfer = cdc.xfer /\ cdc'.ifctrl = cdc.ifctrl /\ cdc'.decen = cdc.decen
        /\ devs' = devs
    BY <1>1, <1>5, DecodeGood DEF CddTick
  <2>4. /\ CanRaise(1)' => CanRaise(1)
        /\ CanRaise(3)' => CanRaise(3)
        /\ CanRaise(4)' => CanRaise(4)
        /\ CanRaise(5)' => CanRaise(5)
    BY <2>3 DEF CanRaise, devs
  <2> HIDE DEF r
  <2> QED BY <2>1, <2>2, <2>4, WakeShrinks
<1>6. ASSUME NEW over \in BOOLEAN, DmaEnd(over)
      PROVE  Asleep /\ Wake' \subseteq Wake
  <2> DEFINE r == IF TransferEndRaises(cdc, over) THEN {5} \cap ie ELSE {}
  <2>1. Asleep /\ Raise(r)
    BY <1>6 DEF DmaEnd, Asleep, cpus, hold
  <2>2. \A l \in r : l \in 1..5 /\ CanRaise(l)
    BY <1>6, CanRaiseAt DEF TransferEndRaises, DmaEnd
  <2>3. /\ cdc'.xfer = "NONE" /\ cdc'.ifctrl = cdc.ifctrl /\ cdc'.decen = cdc.decen
        /\ devs' = devs
    BY <1>1, <1>6, TransferEndGood DEF DmaEnd
  <2>4. /\ CanRaise(1)' => CanRaise(1)
        /\ CanRaise(3)' => CanRaise(3)
        /\ CanRaise(4)' => CanRaise(4)
        /\ CanRaise(5)' => CanRaise(5)
    BY <2>3 DEF CanRaise, devs
  <2> HIDE DEF r
  <2> QED BY <2>1, <2>2, <2>4, WakeShrinks
<1>7. CASE DecoderPeriodEnds
  <2>1. Asleep /\ pending' = pending /\ devs' = devs
    BY <1>7 DEF DecoderPeriodEnds, ga, cpus, hold, Asleep
  <2>2. /\ cdc'.xfer = cdc.xfer /\ cdc'.ifctrl = cdc.ifctrl /\ cdc'.decen = cdc.decen
    BY <1>1, <1>7 DEF DecoderPeriodEnds, Good, CdcIntType
  <2>3. /\ CanRaise(1)' => CanRaise(1)
        /\ CanRaise(3)' => CanRaise(3)
        /\ CanRaise(4)' => CanRaise(4)
        /\ CanRaise(5)' => CanRaise(5)
    BY <2>1, <2>2 DEF CanRaise, devs
  <2>4. Raise({})
    BY <2>1 DEF Raise
  <2> QED BY <2>1, <2>3, <2>4, WakeShrinks
<1>8. ~MainWakes
  BY DEF MainWakes
<1>9. CASE CddTickAtEnd
  BY <1>9, CanRaiseAt, WakeShrinks DEF CddTickAtEnd, Asleep, cpus, hold, devs, CanRaise
<1> QED BY <1>2, <1>3, <1>4, <1>5, <1>6, <1>7, <1>8, <1>9 DEF DeviceNext

\* While the machine is idle only the scheduler and the devices act.
LEMMA OnlyDevices ==
  ASSUME IInv, Idle, ~CpuReady, Next PROVE RunEnds \/ DeviceNext
<1>1. main_stopped /\ (SubHeld \/ (sub_stopped /\ ~(RequestLevel > sub_mask)))
  BY DEF Idle, CpuReady, SubReady
<1>2. ~MainNext
  BY <1>1 DEF MainNext, MainRequests, MainHoldsSub, MainResetsSub, MainHandsOver, MainStops,
              MainHostRead, MainStep
<1>3. ~SubStep /\ ~SubAccepts
  BY <1>1 DEF SubStep, SubAccepts
<1>4. ~SubNext
  BY <1>3 DEF SubNext, SubSetsMask, SubWaits, SubEnables, SubSetsTimer, SubSetsHock, SubSetsMode,
              SubStartsGfx, SubStartsTransfer, SubSetsDestination, SubWritesIfctrl,
              SubTouchesCdc, SubResetsCdc, SubHostRead, PeripheralReset
<1> QED BY <1>2, <1>3, <1>4 DEF Next

\* One step from an idle state.
LEMMA IdleStep ==
  ASSUME IInv, IInv', Idle, ~CpuReady, [Next]_vars
  PROVE  Idle' /\ ~CpuReady'
<1>1. Asleep /\ Wake' \subseteq Wake
  <2>1. CASE UNCHANGED vars
    BY <2>1 DEF vars, Asleep, ga, cpus, hold, devs, Wake, CanRaise
  <2>2. CASE Next
    <3>1. main_stopped /\ ~main_wake
      BY DEF Idle
    <3> QED BY <2>2, <3>1, OnlyDevices, DevicesShrink
  <2> QED BY <2>1, <2>2
<1>2. main_stopped' /\ ~main_wake'
  BY <1>1 DEF Idle, Asleep
<1>3. CASE SubHeld
  BY <1>1, <1>2, <1>3 DEF Idle, CpuReady, SubReady, SubHeld, Asleep
<1>4. CASE ~SubHeld
  <2>1. sub_stopped' /\ MaxWakeLevel <= sub_mask /\ sub_mask' = sub_mask /\ sub_mask \in 0..7
    BY <1>1, <1>4 DEF Idle, Asleep, IInv, TypeOK
  <2>2. Wake \in SUBSET (1..5) /\ Wake' \in SUBSET (1..5)
    BY DEF IInv, TypeOK, Wake
  <2>3. \A l \in Wake' : l <= sub_mask
    BY <1>1, <2>1, <2>2, HighestAtMost DEF MaxWakeLevel, Wake
  <2>4. Highest(Wake') <= sub_mask
    BY <2>1, <2>2, <2>3, HighestAtMost
  <2>5. MaxWakeLevel' <= sub_mask'
    BY <2>1, <2>4 DEF MaxWakeLevel, Wake
  <2>6. pending' \cap ie' \subseteq Wake'
    BY DEF Wake
  <2>7. Highest(pending' \cap ie') <= sub_mask /\ Highest(pending' \cap ie') \in 0..5
    <3> DEFINE q == pending' \cap ie'
    <3>1. q \in SUBSET (1..5) /\ \A l \in q : l <= sub_mask
      BY <2>2, <2>3, <2>6
    <3> HIDE DEF q
    <3>2. Highest(q) <= sub_mask /\ Highest(q) \in 0..5
      BY <2>1, <3>1, HighestAtMost, HighestLevel
    <3> QED BY <3>2 DEF q
  <2>8. ~(RequestLevel' > sub_mask')
    BY <2>1, <2>7 DEF RequestLevel
  <2> QED BY <1>2, <2>1, <2>5, <2>8 DEF Idle, CpuReady, SubReady
<1> QED BY <1>3, <1>4

\* Once the machine is idle it stays idle, whatever devices are still armed: the run
\* that reports success has cut off no interrupt (scd_machine_idle, scd_machine_run).
THEOREM IdleStays == Spec => IdleIsFinal
<1>1. Init => IInv
  BY InterruptsInit
<1>2. IInv /\ [Next]_vars => IInv'
  BY InterruptsNext
<1>3. IInv /\ IInv' /\ [Next]_vars => [Idle /\ ~CpuReady => Idle' /\ ~CpuReady']_vars
  BY IdleStep
<1> QED BY <1>1, <1>2, <1>3, PTL DEF Spec, IdleIsFinal
==============================================================================
