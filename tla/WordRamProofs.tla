---------------------------- MODULE WordRamProofs ----------------------------
(***************************************************************************)
(* The safety of the Word RAM hand-over for every byte time, group size,   *)
(* line time, counter width and set of programmed values.                  *)
(*                                                                         *)
(* NoWriterOnMain is not inductive alone: dma_resume_2m and dma_halt_2m    *)
(* act on the writers their guards recognise, so the argument needs to     *)
(* know which writers exist (WriterIsSelected); WaitIsForMain and          *)
(* SubOwnsOnRequest are what the steps of HandOff need.                    *)
(*                                                                         *)
(* That only time moves words rests on one fact about each device: a sync  *)
(* leaves nothing owed at its tick (Settled, Rests), so that a second      *)
(* sync, in whatever Word RAM mode, moves nothing.                         *)
(***************************************************************************)
EXTENDS WordRam, TLAPS

------------------------------------------------------------------------------
(* Rounding.                                                               *)

\* Rounding up stays within the naturals (the division in dma_sync and gfx_sync).
LEMMA CeilDivNat ==
    ASSUME NEW n \in Int, NEW d \in Nat \ {0}, n > 0
    PROVE  CeilDiv(n, d) \in Nat
  BY DEF CeilDiv

\* Division with remainder.
LEMMA DivMod ==
    ASSUME NEW m \in Int, NEW d \in Nat \ {0}
    PROVE  \E q \in Int, s \in 0..(d - 1) : q = m \div d /\ s = m % d /\ m = d * q + s
<1>1. \A e \in Int : e > 0 => m = e * (m \div e) + (m % e) OBVIOUS
<1>2. m \div d \in Int /\ m % d \in 0..(d - 1) OBVIOUS
<1>3. d \in Int /\ d > 0 OBVIOUS
<1>4. m = d * (m \div d) + (m % d) BY <1>1, <1>3, Zenon
<1> QED BY <1>2, <1>4, Zenon

\* A positive factor keeps the order.
LEMMA TimesMono ==
    ASSUME NEW d \in Nat \ {0}, NEW i \in Int, NEW j \in Int, i <= j
    PROVE  d * i <= d * j
  OBVIOUS

\* A remainder may be taken early.
LEMMA ModAdd ==
    ASSUME NEW r \in Int, NEW b \in Int, NEW d \in Nat \ {0}
    PROVE  ((r % d) + b) % d = (r + b) % d
<1>1. PICK k \in Int, u \in 0..(d - 1) : k = r \div d /\ u = r % d /\ r = d * k + u
  BY DivMod
<1>2. PICK x \in Int, y \in Int : x = u + b /\ y = r + b OBVIOUS
<1>3. PICK q \in Int, s \in 0..(d - 1) : q = x \div d /\ s = x % d /\ x = d * q + s
  BY DivMod
<1>4. PICK p \in Int, t \in 0..(d - 1) : p = y \div d /\ t = y % d /\ y = d * p + t
  BY DivMod
<1>5. PICK z \in Int : z = p - k - q OBVIOUS
<1>6. s - t = d * z
  <2>1. PICK dp \in Int, dk \in Int, dq \in Int : dp = d * p /\ dk = d * k /\ dq = d * q
    OBVIOUS
  <2>2. d * z = dp - dk - dq BY <1>5, <2>1
  <2>3. s - t = dp - dk - dq
    <3>1. x = dq + s /\ y = dp + t /\ r = dk + u
      BY <1>1, <1>3, <1>4, <2>1, Zenon
    <3> QED BY <1>2, <3>1
  <2> QED BY <2>2, <2>3
<1>7. ~ (1 <= z) /\ ~ (z <= -1)
  <2>1. d * 1 = d /\ d * (-1) = -d OBVIOUS
  <2> QED BY <1>6, <2>1, TimesMono
<1>8. s = t BY <1>6, <1>7
<1> QED BY <1>1, <1>2, <1>3, <1>4, <1>8, Zenon

\* Rounding up gives the least multiple that is not below.
LEMMA CeilDivBounds ==
    ASSUME NEW n \in Int, NEW d \in Nat \ {0}
    PROVE  \E c \in Int : c = CeilDiv(n, d) /\ d * (c - 1) < n /\ n <= d * c
<1>1. PICK m \in Int : m = n + d - 1 OBVIOUS
<1>2. PICK q \in Int, s \in 0..(d - 1) : q = m \div d /\ m = d * q + s
  BY <1>1, DivMod
<1>3. CeilDiv(n, d) = q BY <1>1, <1>2 DEF CeilDiv
<1>4. d * (q - 1) = d * q - d OBVIOUS
<1> QED BY <1>1, <1>2, <1>3, <1>4

\* Only one multiple is.
LEMMA CeilDivUnique ==
    ASSUME NEW n \in Int, NEW d \in Nat \ {0}, NEW q \in Int, d * (q - 1) < n, n <= d * q
    PROVE  CeilDiv(n, d) = q
<1>1. PICK c \in Int : c = CeilDiv(n, d) /\ d * (c - 1) < n /\ n <= d * c
  BY CeilDivBounds
<1>2. ~ (c <= q - 1) BY <1>1, TimesMono
<1>3. ~ (q <= c - 1) BY <1>1, TimesMono
<1> QED BY <1>1, <1>2, <1>3

\* Whole units taken away before the rounding are whole units taken away after it.
LEMMA CeilDivShift ==
    ASSUME NEW n \in Int, NEW d \in Nat \ {0}, NEW k \in Int
    PROVE  CeilDiv(n - k * d, d) = CeilDiv(n, d) - k
<1>1. PICK c \in Int : c = CeilDiv(n, d) /\ d * (c - 1) < n /\ n <= d * c
  BY CeilDivBounds
<1>2. PICK m \in Int, e \in Int : m = n - k * d /\ e = c - k OBVIOUS
<1>3. d * (e - 1) < m /\ m <= d * e
  <2>1. d * (c - k - 1) = d * (c - 1) - k * d OBVIOUS
  <2>2. d * (c - k) = d * c - k * d OBVIOUS
  <2> QED BY <1>1, <1>2, <2>1, <2>2
<1>4. CeilDiv(m, d) = e BY <1>3, CeilDivUnique
<1> QED BY <1>1, <1>2, <1>4

\* Rounding up keeps the order.
LEMMA CeilDivMono ==
    ASSUME NEW n \in Int, NEW m \in Int, NEW d \in Nat \ {0}, n <= m
    PROVE  CeilDiv(n, d) <= CeilDiv(m, d)
<1>1. PICK c \in Int : c = CeilDiv(n, d) /\ d * (c - 1) < n
  BY CeilDivBounds
<1>2. PICK e \in Int : e = CeilDiv(m, d) /\ m <= d * e
  BY CeilDivBounds
<1>3. ~ (e <= c - 1) BY <1>1, <1>2, TimesMono
<1> QED BY <1>1, <1>2, <1>3

\* What is left after whole groups is less than a group.
LEMMA GroupRest ==
    ASSUME NEW n \in Int, NEW d \in Nat \ {0}
    PROVE  (n - d * (n \div d)) \div d = 0
  OBVIOUS

------------------------------------------------------------------------------
(* What the sync operators of LazyWriters preserve.                        *)

\* A running writer owes a natural number of bytes.
LEMMA DmaOwedNat ==
    ASSUME NEW x \in CdcType, x.age > 0
    PROVE  DmaOwed(x) \in Nat
<1>1. x.age \in Int BY DEF CdcType
<1>2. PICK c \in Nat : c = CeilDiv(x.age, ByteTicks)
  BY <1>1, CeilDivNat, ByteTicksAssumption
<1>3. PICK q \in Nat : q = c \div Group
  BY <1>2, GroupAssumption
<1>4. Group * q \in Nat BY <1>3, GroupAssumption
<1> QED BY <1>2, <1>3, <1>4 DEF DmaOwed

\* Moving bytes changes the account of words and nothing else.
LEMMA DmaMoveType ==
    ASSUME NEW x \in CdcType, NEW n \in Nat, NEW oneM \in BOOLEAN
    PROVE  /\ DmaMove(x, n, oneM) \in CdcType
           /\ DmaMove(x, n, oneM) = [x EXCEPT !.done = DmaMove(x, n, oneM).done]
<1>1. PlaceOf(x.dma_target, oneM) \in Places
  BY DEF PlaceOf, Places, Targets, CdcType
<1>2. n \div 2 \in Nat OBVIOUS
<1>3. x.done \in [Places -> Nat] BY DEF CdcType
<1>4. [x.done EXCEPT ![PlaceOf(x.dma_target, oneM)] = @ + (n \div 2)] \in [Places -> Nat]
  BY <1>1, <1>2, <1>3
<1>5. DmaMove(x, n, oneM) =
        [x EXCEPT !.done = [x.done EXCEPT ![PlaceOf(x.dma_target, oneM)] = @ + (n \div 2)]]
  BY DEF DmaMove, CdcType
<1> QED BY <1>4, <1>5 DEF CdcType

\* The end of a transfer keeps its target and destination.
LEMMA TransferEndType ==
    ASSUME NEW x \in CdcType
    PROVE  /\ TransferEnd(x) \in CdcType
           /\ TransferEnd(x).dma_state = x.dma_state
           /\ TransferEnd(x).dma_target = x.dma_target
           /\ TransferEnd(x).destination = x.destination
           /\ TransferEnd(x).done = x.done
<1> DEFINE y == [x EXCEPT !.dbc = MaxDbc]
<1>1. y \in CdcType BY MaxDbcAssumption DEF CdcType
<1>2. /\ y.dma_state = x.dma_state /\ y.dma_target = x.dma_target
      /\ y.destination = x.destination /\ y.done = x.done
  BY DEF CdcType
<1>3. TransferEnd(x) = [y EXCEPT !.started = FALSE, !.edt = TRUE]
  BY DEF TransferEnd
<1> HIDE DEF y
<1>4. TransferEnd(x) \in CdcType BY <1>1, <1>3 DEF CdcType
<1> QED BY <1>1, <1>2, <1>3, <1>4 DEF CdcType

\* scd_cdc_dma_finish moves the rest and leaves no writer.
LEMMA DmaFinishType ==
    ASSUME NEW x \in CdcType
    PROVE  /\ DmaFinish(x) \in CdcType
           /\ DmaFinish(x).dma_state = "NONE"
           /\ DmaFinish(x).dma_target = x.dma_target
           /\ DmaFinish(x).destination = x.destination
           /\ DmaFinish(x).done = x.done
<1> DEFINE e == TransferEnd(x)
           y == [e EXCEPT !.dma_state = "NONE"]
<1>1. /\ e \in CdcType /\ e.dma_target = x.dma_target
      /\ e.destination = x.destination /\ e.done = x.done
  BY TransferEndType
<1>2. DmaFinish(x) = [y EXCEPT !.dsr = FALSE, !.age = 0] BY DEF DmaFinish
<1> HIDE DEF e
<1>3. /\ y \in CdcType /\ y.dma_state = "NONE" /\ y.dma_target = x.dma_target
      /\ y.destination = x.destination /\ y.done = x.done
  BY <1>1 DEF CdcType
<1> HIDE DEF y
<1> DEFINE z == [y EXCEPT !.dsr = FALSE]
<1>4. /\ z \in CdcType /\ z.dma_state = "NONE" /\ z.dma_target = x.dma_target
      /\ z.destination = x.destination /\ z.done = x.done
  BY <1>3 DEF CdcType
<1>5. DmaFinish(x) = [z EXCEPT !.age = 0] BY <1>2
<1> HIDE DEF z
<1> QED BY <1>4, <1>5 DEF CdcType

\* scd_cdc_dma_sync: only a running writer is touched, and it goes on running
\* for the same target or is gone.
LEMMA DmaSyncType ==
    ASSUME NEW x \in CdcType, NEW oneM \in BOOLEAN
    PROVE  /\ DmaSync(x, oneM) \in CdcType
           /\ DmaSync(x, oneM).dma_target = x.dma_target
           /\ DmaSync(x, oneM).destination = x.destination
           /\ DmaSync(x, oneM).dma_state \in {x.dma_state, "NONE"}
           /\ DmaSync(x, oneM).dma_state # "NONE" => DmaSync(x, oneM).started = x.started
           /\ x.dma_state # "RUNNING" => DmaSync(x, oneM) = x
<1>1. CASE x.dma_state # "RUNNING" \/ x.age <= 0
  BY <1>1 DEF DmaSync
<1>2. CASE x.dma_state = "RUNNING" /\ ~(x.age <= 0)
  <2>1. x.age \in Int /\ x.dbc \in 0..MaxDbc BY DEF CdcType
  <2>2. PICK owed \in Nat : owed = DmaOwed(x) BY <1>2, <2>1, DmaOwedNat
  <2>3. CASE x.dbc < owed
    <3> DEFINE moved == DmaMove(x, x.dbc + 1, oneM)
    <3>1. moved \in CdcType /\ moved = [x EXCEPT !.done = moved.done]
      <4>1. x.dbc + 1 \in Nat BY <2>1, MaxDbcAssumption
      <4> QED BY <4>1, DmaMoveType
    <3>2. DmaSync(x, oneM) = DmaFinish(moved)
      BY <1>2, <2>2, <2>3 DEF DmaSync
    <3>3. moved.dma_target = x.dma_target /\ moved.destination = x.destination
      BY <3>1 DEF CdcType
    <3> HIDE DEF moved
    <3> QED BY <1>2, <3>1, <3>2, <3>3, DmaFinishType
  <2>4. CASE ~(x.dbc < owed)
    <3> DEFINE moved == DmaMove(x, owed, oneM)
    <3>1. moved \in CdcType /\ moved = [x EXCEPT !.done = moved.done]
      BY DmaMoveType
    <3>2. DmaSync(x, oneM) =
            [moved EXCEPT !.dbc = @ - owed, !.age = @ - owed * ByteTicks]
      BY <1>2, <2>2, <2>4 DEF DmaSync
    <3>3. moved.dbc = x.dbc /\ moved.age = x.age /\ moved.dma_target = x.dma_target
          /\ moved.destination = x.destination /\ moved.dma_state = x.dma_state
          /\ moved.started = x.started
      BY <3>1 DEF CdcType
    <3>4. x.dbc - owed \in 0..MaxDbc BY <2>1, <2>2, <2>4, MaxDbcAssumption
    <3>5. x.age - owed * ByteTicks \in Int BY <2>1, <2>2, ByteTicksAssumption
    <3> HIDE DEF moved
    <3>6. [moved EXCEPT !.dbc = x.dbc - owed, !.age = x.age - owed * ByteTicks] \in CdcType
      BY <3>1, <3>4, <3>5 DEF CdcType
    <3>7. DmaSync(x, oneM) =
            [moved EXCEPT !.dbc = x.dbc - owed, !.age = x.age - owed * ByteTicks]
      BY <3>2, <3>3
    <3> QED BY <1>2, <3>1, <3>3, <3>6, <3>7 DEF CdcType
  <2> QED BY <2>1, <2>2, <2>3, <2>4
<1> QED BY <1>1, <1>2

\* A writer whose target is not the live memory of the mode in force stores
\* nothing: its words are counted as lost.
LEMMA DmaSyncDead ==
    ASSUME NEW x \in CdcType, NEW oneM \in BOOLEAN,
           x.dma_state = "RUNNING" => PlaceOf(x.dma_target, oneM) = "lost"
    PROVE  \A p \in Targets : DmaSync(x, oneM).done[p] = x.done[p]
<1>1. ASSUME NEW n \in Nat, x.dma_state = "RUNNING", NEW p \in Targets
      PROVE  DmaMove(x, n, oneM).done[p] = x.done[p]
  <2>1. p # "lost" BY DEF Targets
  <2>2. x.done \in [Places -> Nat] BY DEF CdcType
  <2>3. DmaMove(x, n, oneM).done = [x.done EXCEPT !["lost"] = @ + (n \div 2)]
    BY <1>1 DEF DmaMove, CdcType
  <2> QED BY <2>1, <2>2, <2>3 DEF Places
<1>2. CASE x.dma_state # "RUNNING" \/ x.age <= 0
  BY <1>2 DEF DmaSync
<1>3. CASE x.dma_state = "RUNNING" /\ ~(x.age <= 0)
  <2>1. x.age \in Int /\ x.dbc \in 0..MaxDbc BY DEF CdcType
  <2>2. PICK owed \in Nat : owed = DmaOwed(x) BY <1>3, <2>1, DmaOwedNat
  <2>3. CASE x.dbc < owed
    <3> DEFINE moved == DmaMove(x, x.dbc + 1, oneM)
    <3>1. x.dbc + 1 \in Nat BY <2>1, MaxDbcAssumption
    <3>2. moved \in CdcType BY <3>1, DmaMoveType
    <3>3. DmaSync(x, oneM) = DmaFinish(moved) BY <1>3, <2>2, <2>3 DEF DmaSync
    <3>4. \A p \in Targets : moved.done[p] = x.done[p] BY <1>1, <1>3, <3>1
    <3> HIDE DEF moved
    <3> QED BY <3>2, <3>3, <3>4, DmaFinishType
  <2>4. CASE ~(x.dbc < owed)
    <3> DEFINE moved == DmaMove(x, owed, oneM)
               d == moved.dbc - owed
               a == moved.age - owed * ByteTicks
    <3>1. moved \in CdcType BY DmaMoveType
    <3>2. DmaSync(x, oneM) = [moved EXCEPT !.dbc = d, !.age = a]
      BY <1>3, <2>2, <2>4 DEF DmaSync
    <3>3. \A p \in Targets : moved.done[p] = x.done[p] BY <1>1, <1>3
    <3> HIDE DEF moved, d, a
    <3>4. DmaSync(x, oneM).done = moved.done BY <3>1, <3>2 DEF CdcType
    <3> QED BY <3>3, <3>4
  <2> QED BY <2>1, <2>2, <2>3, <2>4
<1> QED BY <1>2, <1>3

\* scd_cdc_host_fetch and scd_cdc_host_read leave the DMA writer alone.
LEMMA HostFetchType ==
    ASSUME NEW x \in CdcType
    PROVE  /\ HostFetch(x) \in CdcType
           /\ HostFetch(x).dma_state = x.dma_state
           /\ HostFetch(x).dma_target = x.dma_target
           /\ HostFetch(x).destination = x.destination
           /\ HostFetch(x).done = x.done
<1>1. CASE x.dbc < 2 \/ x.dbc = MaxDbc
  BY <1>1, TransferEndType DEF HostFetch
<1>2. CASE ~(x.dbc < 2 \/ x.dbc = MaxDbc)
  <2>1. x.dbc \in 0..MaxDbc BY DEF CdcType
  <2>2. x.dbc - 2 \in 0..MaxDbc BY <1>2, <2>1, MaxDbcAssumption
  <2>3. HostFetch(x) = [x EXCEPT !.dbc = x.dbc - 2] BY <1>2 DEF HostFetch
  <2> QED BY <2>2, <2>3 DEF CdcType
<1> QED BY <1>1, <1>2

\* scd_cdc_host_read keeps the transfer well formed.
LEMMA HostReadType ==
    ASSUME NEW x \in CdcType, NEW cpu
    PROVE  /\ HostRead(x, cpu) \in CdcType
           /\ HostRead(x, cpu).dma_state = x.dma_state
           /\ HostRead(x, cpu).dma_target = x.dma_target
           /\ HostRead(x, cpu).destination = x.destination
           /\ HostRead(x, cpu).done = x.done
           /\ x.destination # cpu => HostRead(x, cpu) = x
<1>1. CASE ~x.dsr \/ x.destination # cpu BY <1>1 DEF HostRead
<1>2. CASE ~(~x.dsr \/ x.destination # cpu) /\ x.edt
  <2>1. HostRead(x, cpu) = [x EXCEPT !.dsr = FALSE] BY <1>2 DEF HostRead
  <2> QED BY <1>2, <2>1 DEF CdcType
<1>3. CASE ~(~x.dsr \/ x.destination # cpu) /\ ~x.edt
  <2>1. HostRead(x, cpu) = HostFetch(x) BY <1>3 DEF HostRead
  <2> QED BY <1>3, <2>1, HostFetchType
<1> QED BY <1>1, <1>2, <1>3

\* What ties a writer to its transfer (the record form of WriterIsSelected).
Selected(x) ==
    /\ x.dma_state # "NONE" => x.started /\ x.destination = 7
    /\ x.dma_state = "HALTED" => x.dma_target = "2M"

\* scd_cdc_dma_init: the writer it selects fits the transfer, and does not run
\* on 2M Word RAM that main owns.
LEMMA DmaInitType ==
    ASSUME NEW x \in CdcType, NEW oneM \in BOOLEAN, NEW rt \in {0, 1},
           x.dma_state # "NONE" => x.started
    PROVE  /\ DmaInit(x, oneM, rt) \in CdcType
           /\ Selected(DmaInit(x, oneM, rt))
           /\ ~oneM /\ rt = 1 =>
                ~(DmaInit(x, oneM, rt).dma_state = "RUNNING"
                  /\ DmaInit(x, oneM, rt).dma_target = "2M")
           /\ DmaInit(x, oneM, rt).done = x.done
<1> DEFINE i == DmaInit(x, oneM, rt)
<1>1. CASE ~x.started
  <2>1. i = x BY <1>1 DEF DmaInit
  <2> QED BY <1>1, <2>1 DEF Selected
<1>2. CASE x.started /\ x.destination \in {2, 3}
  <2> DEFINE y == [x EXCEPT !.dma_state = "NONE", !.dsr = TRUE]
  <2>1. y \in CdcType /\ y.dma_state = "NONE" /\ y.done = x.done BY DEF CdcType
  <2>2. i = HostFetch(y) BY <1>2 DEF DmaInit
  <2> HIDE DEF y
  <2> QED BY <2>1, <2>2, HostFetchType DEF Selected
<1>3. CASE x.started /\ x.destination = 7 /\ oneM
  <2> DEFINE t == IF rt = 1 THEN "bank0" ELSE "bank1"
  <2>1. i = [x EXCEPT !.dma_state = "RUNNING", !.dma_target = t]
    BY <1>3 DEF DmaInit
  <2>2. t \in Targets BY DEF Targets
  <2> HIDE DEF t
  <2>3. i \in CdcType BY <2>1, <2>2 DEF CdcType
  <2>4. /\ i.dma_state = "RUNNING" /\ i.started = x.started
        /\ i.destination = x.destination /\ i.done = x.done
    BY <2>1 DEF CdcType
  <2> HIDE DEF i
  <2>5. Selected(i) BY <1>3, <2>4 DEF Selected
  <2> QED BY <1>3, <2>3, <2>4, <2>5 DEF i
<1>4. CASE x.started /\ x.destination = 7 /\ ~oneM
  <2> DEFINE st == IF rt = 1 THEN "HALTED" ELSE "RUNNING"
  <2>1. i = [x EXCEPT !.dma_state = st, !.dma_target = "2M"]
    BY <1>4 DEF DmaInit
  <2>2. st \in {"HALTED", "RUNNING"} /\ (rt = 1 => st # "RUNNING") OBVIOUS
  <2> HIDE DEF st
  <2>3. i \in CdcType BY <2>1, <2>2 DEF CdcType, Targets
  <2>4. /\ i.dma_state = st /\ i.dma_target = "2M" /\ i.started = x.started
        /\ i.destination = x.destination /\ i.done = x.done
    BY <2>1 DEF CdcType
  <2> HIDE DEF i
  <2>5. Selected(i) BY <1>4, <2>4 DEF Selected
  <2> QED BY <1>4, <2>2, <2>3, <2>4, <2>5 DEF i
<1>5. CASE x.started /\ x.destination \notin {2, 3, 7}
  <2>1. i = [x EXCEPT !.dma_state = "NONE"] BY <1>5 DEF DmaInit
  <2> QED BY <2>1 DEF CdcType, Selected
<1> QED BY <1>1, <1>2, <1>3, <1>4, <1>5

\* scd_cdc_dma_halt_2m: afterwards nothing runs on 2M Word RAM.
LEMMA DmaHaltType ==
    ASSUME NEW x \in CdcType, NEW oneM \in BOOLEAN, Selected(x)
    PROVE  /\ DmaHalt2M(x, oneM) \in CdcType
           /\ Selected(DmaHalt2M(x, oneM))
           /\ ~(DmaHalt2M(x, oneM).dma_state = "RUNNING"
                /\ DmaHalt2M(x, oneM).dma_target = "2M")
<1>1. CASE x.dma_state # "RUNNING" \/ x.dma_target # "2M"
  BY <1>1 DEF DmaHalt2M
<1>2. CASE x.dma_state = "RUNNING" /\ x.dma_target = "2M"
  <2> DEFINE s == DmaSync(x, oneM)
  <2>1. DmaHalt2M(x, oneM) =
          IF s.dma_state = "RUNNING" THEN [s EXCEPT !.dma_state = "HALTED"] ELSE s
    BY <1>2 DEF DmaHalt2M
  <2>2. s \in CdcType /\ s.dma_target = "2M" /\ s.destination = x.destination
        /\ s.dma_state \in {"RUNNING", "NONE"}
        /\ (s.dma_state # "NONE" => s.started = x.started)
    BY <1>2, DmaSyncType
  <2> HIDE DEF s
  <2> QED BY <1>2, <2>1, <2>2 DEF CdcType, Selected
<1> QED BY <1>1, <1>2

\* scd_cdc_dma_resume_2m: a halted writer runs again from now.
LEMMA DmaResumeType ==
    ASSUME NEW x \in CdcType, Selected(x)
    PROVE  /\ DmaResume2M(x) \in CdcType
           /\ Selected(DmaResume2M(x))
           /\ DmaResume2M(x).done = x.done
<1>1. CASE x.dma_state # "HALTED" \/ x.dma_target # "2M"
  BY <1>1 DEF DmaResume2M
<1>2. CASE x.dma_state = "HALTED" /\ x.dma_target = "2M"
  <2> DEFINE a == IF x.age > 0 THEN 0 ELSE x.age
  <2>1. DmaResume2M(x) = [x EXCEPT !.dma_state = "RUNNING", !.age = a]
    BY <1>2 DEF DmaResume2M
  <2>2. a \in Int BY DEF CdcType
  <2> HIDE DEF a
  <2> QED BY <1>2, <2>1, <2>2 DEF CdcType, Selected
<1> QED BY <1>1, <1>2

\* scd_cdc_reset leaves no writer.
LEMMA CdcResetType ==
    ASSUME NEW x \in CdcType
    PROVE  /\ CdcReset(x) \in CdcType
           /\ CdcReset(x).dma_state = "NONE"
           /\ CdcReset(x).done = x.done
<1> DEFINE y == [x EXCEPT !.started = FALSE, !.douten = FALSE]
           z == [y EXCEPT !.dma_state = "NONE"]
<1>1. y \in CdcType /\ y.done = x.done BY DEF CdcType
<1>2. CdcReset(x) = [z EXCEPT !.age = 0] BY DEF CdcReset
<1> HIDE DEF y
<1>3. z \in CdcType /\ z.dma_state = "NONE" /\ z.done = x.done
  BY <1>1 DEF CdcType
<1> HIDE DEF z
<1> QED BY <1>2, <1>3 DEF CdcType

\* scd_gfx_sync: a halted operation renders nothing.
LEMMA GfxSyncType ==
    ASSUME NEW g \in GfxType, NEW oneM \in BOOLEAN, NEW rt \in {0, 1}
    PROVE  /\ GfxSync(g, oneM, rt) \in GfxType
           /\ GfxHalted(oneM, rt) => GfxSync(g, oneM, rt).rendered = g.rendered
<1>1. CASE ~g.busy BY <1>1 DEF GfxSync
<1>2. CASE g.busy /\ GfxHalted(oneM, rt)
  <2>1. GfxSync(g, oneM, rt) = [g EXCEPT !.age = 0] BY <1>2 DEF GfxSync
  <2> QED BY <2>1 DEF GfxType
<1>3. CASE g.busy /\ ~GfxHalted(oneM, rt) /\ g.age <= 0
  BY <1>3 DEF GfxSync
<1>4. CASE g.busy /\ ~GfxHalted(oneM, rt) /\ ~(g.age <= 0)
  <2>1. g.age \in Int /\ g.lines \in Nat /\ g.rendered \in 0..(RenderMod - 1)
    BY DEF GfxType
  <2>2. PICK n \in Nat : n = CeilDiv(g.age, LineTicks)
    BY <1>4, <2>1, CeilDivNat, LineTicksAssumption
  <2>3. \A k \in Nat : (g.rendered + k) % RenderMod \in 0..(RenderMod - 1)
    BY <2>1, RenderModAssumption
  <2>4. CASE n < g.lines
    <3> DEFINE l == g.lines - n
               a == g.age - n * LineTicks
               r == (g.rendered + n) % RenderMod
    <3>1. GfxSync(g, oneM, rt) = [g EXCEPT !.lines = l, !.age = a, !.rendered = r]
      BY <1>4, <2>2, <2>4 DEF GfxSync
    <3>2. l \in Nat BY <2>1, <2>4
    <3>3. a \in Int BY <2>1, LineTicksAssumption
    <3>4. r \in 0..(RenderMod - 1) BY <2>3
    <3> HIDE DEF l, a, r
    <3> QED BY <1>4, <3>1, <3>2, <3>3, <3>4 DEF GfxType
  <2>5. CASE ~(n < g.lines)
    <3> DEFINE r == (g.rendered + g.lines) % RenderMod
    <3>1. GfxSync(g, oneM, rt) =
            [g EXCEPT !.lines = 0, !.rendered = r, !.busy = FALSE, !.age = 0]
      BY <1>4, <2>2, <2>5 DEF GfxSync, GfxFinish
    <3>2. r \in 0..(RenderMod - 1) BY <2>1, <2>3
    <3> HIDE DEF r
    <3> DEFINE h == [g EXCEPT !.lines = 0, !.rendered = r]
               k == [h EXCEPT !.busy = FALSE]
    <3>3. h \in GfxType BY <3>2 DEF GfxType
    <3>4. GfxSync(g, oneM, rt) = [k EXCEPT !.age = 0] BY <3>1
    <3> HIDE DEF h
    <3>5. k \in GfxType BY <3>3 DEF GfxType
    <3> HIDE DEF k
    <3> QED BY <1>4, <3>4, <3>5 DEF GfxType
  <2> QED BY <2>4, <2>5
<1> QED BY <1>1, <1>2, <1>3, <1>4

------------------------------------------------------------------------------
(* A sync leaves nothing owed.                                             *)

\* A transfer that owes nothing at its present age.
Settled(x) == x.dma_state # "RUNNING" \/ x.age <= 0 \/ DmaOwed(x) = 0

\* Syncing it, in whatever Word RAM mode, moves nothing (scd_cdc_dma_sync).
LEMMA DmaSyncSettled ==
    ASSUME NEW x \in CdcType, NEW oneM \in BOOLEAN, Settled(x)
    PROVE  DmaSync(x, oneM).done = x.done
<1>1. CASE x.dma_state # "RUNNING" \/ x.age <= 0
  BY <1>1 DEF DmaSync
<1>2. CASE ~ (x.dma_state # "RUNNING" \/ x.age <= 0) /\ DmaOwed(x) = 0
  <2>1. x.dbc \in Nat /\ x.age \in Int BY MaxDbcAssumption DEF CdcType
  <2>2. ~ (x.dbc < DmaOwed(x)) BY <1>2, <2>1
  <2>3. DmaSync(x, oneM).done = DmaMove(x, 0, oneM).done
    <3>1. DmaMove(x, 0, oneM) \in CdcType BY DmaMoveType
    <3> DEFINE y == DmaMove(x, 0, oneM)
    <3>2. DmaSync(x, oneM) = [y EXCEPT !.dbc = @ - DmaOwed(x), !.age = @ - DmaOwed(x) * ByteTicks]
      BY <1>2, <2>2 DEF DmaSync
    <3> HIDE DEF y
    <3> QED BY <3>1, <3>2 DEF CdcType, y
  <2>4. PICK p \in Places : p = PlaceOf(x.dma_target, oneM)
    BY DEF PlaceOf, CdcType, Places
  <2>5. DmaMove(x, 0, oneM).done = [x.done EXCEPT ![p] = @ + (0 \div 2)]
    BY <2>4 DEF DmaMove, CdcType
  <2>6. x.done \in [Places -> Nat] /\ 0 \div 2 = 0 BY DEF CdcType
  <2>7. [x.done EXCEPT ![p] = @ + (0 \div 2)] = x.done BY <2>6
  <2> QED BY <2>3, <2>5, <2>7
<1> QED BY <1>1, <1>2 DEF Settled

\* Every sync settles: what is left after whole groups is less than one (scd_cdc_dma_sync).
LEMMA DmaSyncSettles ==
    ASSUME NEW x \in CdcType, NEW oneM \in BOOLEAN
    PROVE  Settled(DmaSync(x, oneM))
<1> DEFINE s == DmaSync(x, oneM)
<1>1. CASE x.dma_state # "RUNNING" \/ x.age <= 0
  BY <1>1 DEF DmaSync, Settled
<1>2. CASE ~ (x.dma_state # "RUNNING" \/ x.age <= 0) /\ x.dbc < DmaOwed(x)
  <2>1. x.dbc + 1 \in Nat BY MaxDbcAssumption DEF CdcType
  <2>2. PICK y \in CdcType : y = DmaMove(x, x.dbc + 1, oneM) BY <2>1, DmaMoveType
  <2>3. s = DmaFinish(y) BY <1>2, <2>2 DEF DmaSync
  <2> QED BY <2>2, <2>3, DmaFinishType DEF Settled
<1>3. CASE ~ (x.dma_state # "RUNNING" \/ x.age <= 0) /\ ~ (x.dbc < DmaOwed(x))
  <2>1. x.age \in Int /\ x.age > 0 BY <1>3 DEF CdcType
  <2>2. PICK c \in Int : c = CeilDiv(x.age, ByteTicks)
    BY <2>1, CeilDivBounds, ByteTicksAssumption
  <2>3. PICK o \in Nat : o = DmaOwed(x) BY <2>1, DmaOwedNat
  <2>4. o = Group * (c \div Group) BY <2>2, <2>3 DEF DmaOwed
  <2>5. PICK y \in CdcType : y = DmaMove(x, o, oneM) BY <2>3, DmaMoveType
  <2>6. y.age = x.age
    <3>1. y = [x EXCEPT !.done = y.done] BY <2>3, <2>5, DmaMoveType
    <3> QED BY <3>1 DEF CdcType
  <2>7. s = [y EXCEPT !.dbc = @ - o, !.age = @ - o * ByteTicks]
    BY <1>3, <2>3, <2>5 DEF DmaSync
  <2>8. s.age = x.age - o * ByteTicks BY <2>6, <2>7 DEF CdcType
  <2>9. CeilDiv(s.age, ByteTicks) = c - o
    <3>1. o \in Int OBVIOUS
    <3>2. CeilDiv(x.age - o * ByteTicks, ByteTicks) = CeilDiv(x.age, ByteTicks) - o
      BY <2>1, <3>1, CeilDivShift, ByteTicksAssumption, Zenon
    <3> QED BY <2>2, <2>8, <3>2
  <2>10. (c - o) \div Group = 0 BY <2>4, GroupRest, GroupAssumption
  <2> QED BY <2>9, <2>10, GroupAssumption DEF Settled, DmaOwed
<1> QED BY <1>1, <1>2, <1>3

\* scd_gfx_sync of a running operation: whole lines, or all that are left.
LEMMA GfxSyncMoves ==
    ASSUME NEW g \in GfxType, NEW oneM \in BOOLEAN, NEW r \in {0, 1},
           g.busy, ~GfxHalted(oneM, r), g.age > 0
    PROVE  \E n \in Nat :
             /\ n = CeilDiv(g.age, LineTicks)
             /\ n < g.lines =>
                  /\ GfxSync(g, oneM, r).busy
                  /\ GfxSync(g, oneM, r).lines = g.lines - n
                  /\ GfxSync(g, oneM, r).age = g.age - n * LineTicks
                  /\ GfxSync(g, oneM, r).rendered = (g.rendered + n) % RenderMod
             /\ ~(n < g.lines) =>
                  /\ ~GfxSync(g, oneM, r).busy
                  /\ GfxSync(g, oneM, r).rendered = (g.rendered + g.lines) % RenderMod
<1>1. g.age \in Int /\ g.lines \in Nat BY DEF GfxType
<1>2. PICK n \in Nat : n = CeilDiv(g.age, LineTicks)
  BY <1>1, CeilDivNat, LineTicksAssumption
<1> DEFINE s == GfxSync(g, oneM, r)
<1>3. ~(g.age <= 0) BY <1>1
<1>4. CASE n < g.lines
  <2> DEFINE l == g.lines - n
             a == g.age - n * LineTicks
             d == (g.rendered + n) % RenderMod
  <2>1. s = [g EXCEPT !.lines = l, !.age = a, !.rendered = d]
    BY <1>2, <1>3, <1>4 DEF GfxSync
  <2> HIDE DEF l, a, d
  <2>2. s.busy = g.busy /\ s.lines = l /\ s.age = a /\ s.rendered = d BY <2>1 DEF GfxType
  <2> QED BY <1>2, <1>4, <2>2 DEF l, a, d
<1>5. CASE ~(n < g.lines)
  <2> DEFINE d == (g.rendered + g.lines) % RenderMod
  <2>1. s = [g EXCEPT !.lines = 0, !.rendered = d, !.busy = FALSE, !.age = 0]
    BY <1>2, <1>3, <1>5 DEF GfxSync, GfxFinish
  <2> HIDE DEF d
  <2>2. s.busy = FALSE /\ s.rendered = d BY <2>1 DEF GfxType
  <2> QED BY <1>2, <1>5, <2>2 DEF d
<1> QED BY <1>4, <1>5

\* An idle operation, or one that is not behind the present tick.
Rests(g) == g.busy => g.age <= 0

\* After scd_gfx_sync the operation is idle or not behind.
LEMMA GfxSyncSettles ==
    ASSUME NEW g \in GfxType, NEW oneM \in BOOLEAN, NEW r \in {0, 1}
    PROVE  Rests(GfxSync(g, oneM, r))
<1>1. CASE ~g.busy BY <1>1 DEF GfxSync, Rests
<1>2. CASE g.busy /\ GfxHalted(oneM, r)
  <2>1. GfxSync(g, oneM, r) = [g EXCEPT !.age = 0] BY <1>2 DEF GfxSync
  <2> QED BY <2>1 DEF GfxType, Rests
<1>3. CASE g.busy /\ ~GfxHalted(oneM, r) /\ g.age <= 0
  BY <1>3 DEF GfxSync, Rests
<1>4. CASE g.busy /\ ~GfxHalted(oneM, r) /\ ~(g.age <= 0)
  <2>1. g.age \in Int /\ g.lines \in Nat /\ g.age > 0 BY <1>4 DEF GfxType
  <2>2. PICK n \in Nat :
             /\ n = CeilDiv(g.age, LineTicks)
             /\ n < g.lines => GfxSync(g, oneM, r).age = g.age - n * LineTicks
             /\ ~(n < g.lines) => ~GfxSync(g, oneM, r).busy
    BY <1>4, <2>1, GfxSyncMoves
  <2>3. g.age <= LineTicks * n BY <2>1, <2>2, CeilDivBounds, LineTicksAssumption
  <2>4. g.age - n * LineTicks <= 0 BY <2>1, <2>3, LineTicksAssumption
  <2> QED BY <2>2, <2>4 DEF Rests
<1> QED BY <1>1, <1>2, <1>3, <1>4

\* Syncing such an operation, in whatever mode, renders nothing.
LEMMA GfxSyncRests ==
    ASSUME NEW g \in GfxType, NEW oneM \in BOOLEAN, NEW r \in {0, 1}, Rests(g)
    PROVE  GfxSync(g, oneM, r).rendered = g.rendered
<1>1. CASE ~g.busy BY <1>1 DEF GfxSync
<1>2. CASE g.busy /\ GfxHalted(oneM, r) BY <1>2, GfxSyncType
<1>3. CASE g.busy /\ ~GfxHalted(oneM, r) /\ g.age <= 0
  BY <1>3 DEF GfxSync
<1> QED BY <1>1, <1>2, <1>3 DEF Rests

------------------------------------------------------------------------------
(* The invariant.                                                          *)

\* The inductive invariant.
IInv ==
    /\ TypeOK
    /\ WaitIsForMain
    /\ NoWriterOnMain
    /\ SubOwnsOnRequest
    /\ WriterIsSelected

\* A running writer into 2M Word RAM.
Runs2M(x) == x.dma_state = "RUNNING" /\ x.dma_target = "2M"

\* Every observation (scd_cd_observe) keeps the part of the invariant that is
\* about the two devices.
LEMMA ObserveKeeps ==
    ASSUME IInv
    PROVE  /\ SyncedCdc \in CdcType /\ Selected(SyncedCdc)
           /\ MainOwns2M => ~Runs2M(SyncedCdc)
           /\ SyncedCdc.dma_state # "NONE" => SyncedCdc.started
           /\ SyncedGfx \in GfxType
           /\ SyncedCdc.dma_target = cdc.dma_target
<1>1. cdc \in CdcType /\ gfx \in GfxType /\ mode1M \in BOOLEAN /\ ret \in {0, 1}
  BY DEF IInv, TypeOK, Bit
<1>2. SyncedGfx \in GfxType BY <1>1, GfxSyncType DEF SyncedGfx
<1> DEFINE s == DmaSync(cdc, mode1M)
<1>3. /\ s \in CdcType /\ s.dma_target = cdc.dma_target
      /\ s.destination = cdc.destination
      /\ s.dma_state \in {cdc.dma_state, "NONE"}
      /\ (s.dma_state # "NONE" => s.started = cdc.started)
  BY <1>1, DmaSyncType
<1>4. SyncedCdc = s BY DEF SyncedCdc
<1> HIDE DEF s
<1>5. Selected(s) BY <1>3 DEF IInv, WriterIsSelected, Selected
<1>6. MainOwns2M => ~Runs2M(s) BY <1>3 DEF IInv, NoWriterOnMain, Runs2M
<1>7. s.dma_state # "NONE" => s.started BY <1>5 DEF Selected
<1> QED BY <1>2, <1>3, <1>4, <1>5, <1>6, <1>7

\* A step that leaves the mode, the wait and the run alone keeps the invariant
\* if the devices stay well formed and no 2M writer starts on main's Word RAM.
LEMMA DeviceStep ==
    ASSUME IInv, UNCHANGED <<mode, sub_wait>>, stop' \in StopClasses,
           cdc' \in CdcType, Selected(cdc'), MainOwns2M => ~Runs2M(cdc'),
           gfx' \in GfxType
    PROVE  IInv'
<1>1. /\ mode1M' = mode1M /\ ret' = ret /\ dmna' = dmna /\ dmna_int' = dmna_int
      /\ sub_wait' = sub_wait
  BY DEF mode
<1>2. TypeOK' BY <1>1 DEF IInv, TypeOK
<1>3. WaitIsForMain' BY <1>1 DEF IInv, WaitIsForMain, MainOwns2M
<1>4. NoWriterOnMain' BY <1>1 DEF NoWriterOnMain, MainOwns2M, Runs2M
<1>5. SubOwnsOnRequest' BY <1>1 DEF IInv, SubOwnsOnRequest, SubOwns2M
<1>6. WriterIsSelected' BY DEF WriterIsSelected, Selected
<1> QED BY <1>2, <1>3, <1>4, <1>5, <1>6 DEF IInv

\* Init establishes the invariant.
LEMMA InitIInv == Init => IInv
<1> SUFFICES ASSUME Init PROVE IInv OBVIOUS
<1>1. CdcPowerOn \in CdcType
  BY MaxDbcAssumption DEF CdcPowerOn, CdcType, Targets, Places
<1>2. GfxIdle \in GfxType BY RenderModAssumption DEF GfxIdle, GfxType
<1>3. TypeOK BY <1>1, <1>2 DEF Init, TypeOK, Bit, StopClasses
<1>4. cdc.dma_state = "NONE" BY DEF Init, CdcPowerOn
<1> QED
  BY <1>3, <1>4 DEF IInv, Init, WaitIsForMain, NoWriterOnMain, SubOwnsOnRequest,
                    WriterIsSelected, SubOwns2M, MainOwns2M

\* scd_devices_advance brings the ASIC to an earlier tick; its record stays well
\* formed.
LEMMA GfxSyncedAtType ==
    ASSUME IInv, NEW late \in Int
    PROVE  /\ GfxSyncedAt(late) \in GfxType
           /\ MainOwns2M => GfxSyncedAt(late).rendered = gfx.rendered
<1> DEFINE then == [gfx EXCEPT !.age = gfx.age - late]
           g    == GfxSync(then, mode1M, ret)
<1>1. gfx \in GfxType /\ mode1M \in BOOLEAN /\ ret \in {0, 1}
  BY DEF IInv, TypeOK, Bit
<1>2. gfx.age - late \in Int BY <1>1 DEF GfxType
<1>3. then \in GfxType /\ then.rendered = gfx.rendered BY <1>1, <1>2 DEF GfxType
<1>4. g \in GfxType /\ (GfxHalted(mode1M, ret) => g.rendered = then.rendered)
  BY <1>1, <1>3, GfxSyncType
<1>5. GfxSyncedAt(late) = IF g = then THEN gfx
                          ELSE [g EXCEPT !.age = IF g.busy THEN @ + late ELSE @]
  BY DEF GfxSyncedAt
<1> HIDE DEF then, g
<1>6. (IF g.busy THEN g.age + late ELSE g.age) \in Int BY <1>4 DEF GfxType
<1>7. [g EXCEPT !.age = IF g.busy THEN @ + late ELSE @] \in GfxType
  BY <1>4, <1>6 DEF GfxType
<1>8. [g EXCEPT !.age = IF g.busy THEN @ + late ELSE @].rendered = g.rendered
  BY <1>4 DEF GfxType
<1>9. MainOwns2M => GfxHalted(mode1M, ret) BY DEF MainOwns2M, GfxHalted
<1> QED BY <1>1, <1>3, <1>4, <1>5, <1>7, <1>8, <1>9

\* The passing of time keeps the invariant.
LEMMA TickStep == ASSUME IInv, Tick PROVE IInv'
<1>1. cdc \in CdcType /\ gfx \in GfxType BY DEF IInv, TypeOK
<1>2. cdc.age \in Int /\ gfx.age \in Int BY <1>1 DEF CdcType, GfxType
<1>3. Older(cdc.age) \in Int /\ Older(gfx.age) \in Int BY <1>2 DEF Older
<1>4. gfx' \in GfxType BY <1>1, <1>3 DEF Tick, GfxType
<1>5. cdc' = [cdc EXCEPT !.age = Older(cdc.age)] \/ cdc' = cdc BY DEF Tick
<1>6. cdc' \in CdcType BY <1>1, <1>3, <1>5 DEF CdcType
<1>7. /\ cdc'.dma_state = cdc.dma_state /\ cdc'.dma_target = cdc.dma_target
      /\ cdc'.started = cdc.started /\ cdc'.destination = cdc.destination
  BY <1>1, <1>5 DEF CdcType
<1>8. Selected(cdc') BY <1>7 DEF IInv, WriterIsSelected, Selected
<1>9. MainOwns2M => ~Runs2M(cdc') BY <1>7 DEF IInv, NoWriterOnMain, Runs2M
<1>10. UNCHANGED <<mode, sub_wait>> /\ stop' \in StopClasses
  BY DEF Tick, IInv, TypeOK
<1> QED BY <1>4, <1>6, <1>8, <1>9, <1>10, DeviceStep

\* Device events, and the sync they do, keep the invariant.
LEMMA AdvanceStep == ASSUME IInv, DevicesAdvance PROVE IInv'
<1>1. cdc \in CdcType BY DEF IInv, TypeOK
<1>2. cdc.dbc \in Nat /\ cdc.age \in Int BY <1>1, MaxDbcAssumption DEF CdcType
<1>3. PICK c \in Int : c = CeilDiv(cdc.dbc + 1, Group)
  BY <1>2, CeilDivNat, GroupAssumption
<1>4. DmaCompletion(cdc) \in Int
  BY <1>3, GroupAssumption, ByteTicksAssumption DEF DmaCompletion
<1>5. Overdue \in Int BY <1>2, <1>4 DEF Overdue
<1>6. gfx' \in GfxType BY <1>5, GfxSyncedAtType DEF DevicesAdvance
<1>7. cdc' = SyncedCdc /\ UNCHANGED <<mode, sub_wait>> /\ stop' \in StopClasses
  BY DEF DevicesAdvance, IInv, TypeOK
<1> QED BY <1>6, <1>7, ObserveKeeps, DeviceStep

\* Main's hand-over: the writer that resumes does so on Word RAM the sub has.
LEMMA MainModeStep ==
    ASSUME IInv, NEW bit \in Bit, MainModeWrite(bit) PROVE IInv'
<1>0. /\ SyncedCdc \in CdcType /\ Selected(SyncedCdc) /\ gfx' \in GfxType
      /\ (MainOwns2M => ~Runs2M(SyncedCdc))
  BY ObserveKeeps DEF MainModeWrite
<1>1. stop' \in StopClasses BY DEF MainModeWrite, IInv, TypeOK
<1>2. CASE mode1M
  <2>1. /\ cdc' = SyncedCdc /\ mode1M' = mode1M /\ ret' = ret /\ sub_wait' = sub_wait
        /\ dmna' \in Bit /\ dmna_int' \in Bit
    BY <1>2 DEF MainModeWrite, IInv, TypeOK, Bit
  <2>2. TypeOK' BY <1>0, <1>1, <2>1 DEF TypeOK, IInv
  <2>3. WriterIsSelected' BY <1>0, <2>1 DEF WriterIsSelected, Selected
  <2> QED BY <1>2, <2>1, <2>2, <2>3 DEF IInv, WaitIsForMain, NoWriterOnMain,
                                    SubOwnsOnRequest, MainOwns2M, SubOwns2M
<1>3. CASE ~mode1M /\ bit = 1
  <2>1. /\ cdc' = DmaResume2M(SyncedCdc) /\ mode1M' = mode1M /\ ret' = 0
        /\ dmna' = 1 /\ dmna_int' = 1 /\ sub_wait' = FALSE
    BY <1>3 DEF MainModeWrite, ResumeSub
  <2>2. cdc' \in CdcType /\ Selected(cdc') BY <1>0, <2>1, DmaResumeType
  <2>3. TypeOK' BY <1>0, <1>1, <2>1, <2>2 DEF TypeOK, IInv, Bit
  <2>4. WriterIsSelected' BY <2>2 DEF WriterIsSelected, Selected
  <2> QED BY <2>1, <2>3, <2>4 DEF IInv, WaitIsForMain, NoWriterOnMain,
                                    SubOwnsOnRequest, MainOwns2M, SubOwns2M
<1>4. CASE ~mode1M /\ bit = 0
  <2>1. cdc' = SyncedCdc /\ UNCHANGED <<mode, sub_wait>>
    BY <1>4 DEF MainModeWrite
  <2> QED BY <1>0, <1>1, <2>1, DeviceStep
<1> QED BY <1>2, <1>3, <1>4 DEF Bit

\* The sub's memory-mode write: whatever it selects, main does not come to own
\* 2M Word RAM with a writer running on it.
LEMMA SubModeStep ==
    ASSUME IInv, NEW v1M \in BOOLEAN, NEW vRet \in Bit, SubModeWrite(v1M, vRet)
    PROVE  IInv'
<1>0. /\ SyncedCdc \in CdcType /\ Selected(SyncedCdc) /\ gfx' \in GfxType
      /\ (MainOwns2M => ~Runs2M(SyncedCdc))
  BY ObserveKeeps DEF SubModeWrite
<1>1. /\ stop' \in StopClasses /\ sub_wait' = FALSE /\ mode1M \in BOOLEAN
      /\ ret \in Bit /\ dmna_int \in Bit
  <2>1. sub_wait = FALSE BY DEF SubModeWrite, SubStep, IInv, TypeOK
  <2> QED BY <2>1 DEF SubModeWrite, IInv, TypeOK
<1>2. CASE SubSelects1M(v1M, vRet)
  <2>1. /\ cdc' = SyncedCdc /\ mode1M' = TRUE /\ ret' \in Bit /\ dmna' \in Bit
        /\ dmna_int' \in Bit
    BY <1>1, <1>2 DEF SubSelects1M, Bit
  <2>2. TypeOK' BY <1>0, <1>1, <2>1 DEF TypeOK, IInv
  <2>3. WriterIsSelected' BY <1>0, <2>1 DEF WriterIsSelected, Selected
  <2> QED BY <1>1, <2>1, <2>2, <2>3 DEF IInv, WaitIsForMain, NoWriterOnMain,
                                    SubOwnsOnRequest, MainOwns2M, SubOwns2M
<1>3. CASE SubKeeps2M(v1M, vRet)
  <2>1. /\ cdc' = SyncedCdc /\ mode1M' = FALSE /\ ret' = 0 /\ dmna' = 1
        /\ dmna_int' = 1
    BY <1>1, <1>3 DEF SubKeeps2M
  <2>2. TypeOK' BY <1>0, <1>1, <2>1 DEF TypeOK, IInv, Bit
  <2>3. WriterIsSelected' BY <1>0, <2>1 DEF WriterIsSelected, Selected
  <2> QED BY <1>1, <2>1, <2>2, <2>3 DEF IInv, WaitIsForMain, NoWriterOnMain,
                                    SubOwnsOnRequest, MainOwns2M, SubOwns2M
<1>4. CASE SubReturns2M(v1M, vRet)
  <2>1. /\ cdc' = DmaHalt2M(SyncedCdc, mode1M) /\ mode1M' = FALSE /\ ret' = 1
        /\ dmna' = 0 /\ dmna_int' = 0
    BY <1>4 DEF SubReturns2M
  <2>2. cdc' \in CdcType /\ Selected(cdc') /\ ~Runs2M(cdc')
    BY <1>0, <1>1, <2>1, DmaHaltType DEF Runs2M
  <2>3. TypeOK' BY <1>0, <1>1, <2>1, <2>2 DEF TypeOK, IInv, Bit
  <2>4. WriterIsSelected' BY <2>2 DEF WriterIsSelected, Selected
  <2> QED BY <1>1, <2>1, <2>2, <2>3, <2>4 DEF IInv, WaitIsForMain, NoWriterOnMain,
                                    SubOwnsOnRequest, MainOwns2M, SubOwns2M, Runs2M
<1>5. CASE SubStoresPriority(v1M, vRet)
  <2>1. cdc' = SyncedCdc /\ UNCHANGED <<mode, sub_wait>>
    BY <1>5 DEF SubStoresPriority, SubModeWrite
  <2> QED BY <1>0, <1>1, <2>1, DeviceStep
<1> QED BY <1>2, <1>3, <1>4, <1>5 DEF SubModeWrite

\* A Word RAM access of the sub begins a wait only on main's 2M Word RAM.
LEMMA SubAccessStep ==
    ASSUME IInv, NEW area \in {"2M", "1M"}, NEW isWrite \in BOOLEAN,
           SubWordRamAccess(area, isWrite)
    PROVE  IInv'
<1>0. /\ cdc' = SyncedCdc /\ gfx' = SyncedGfx /\ UNCHANGED mode
      /\ sub_wait' = (area = "2M" /\ MainOwns2M)
  BY DEF SubWordRamAccess, Observe
<1>1. /\ SyncedCdc \in CdcType /\ Selected(SyncedCdc) /\ SyncedGfx \in GfxType
      /\ (MainOwns2M => ~Runs2M(SyncedCdc))
  BY ObserveKeeps
<1>2. stop' \in StopClasses BY DEF SubWordRamAccess, StopClasses
<1>3. /\ mode1M' = mode1M /\ ret' = ret /\ dmna' = dmna /\ dmna_int' = dmna_int
  BY <1>0 DEF mode
<1>4. sub_wait' \in BOOLEAN BY <1>0
<1>5. TypeOK' BY <1>0, <1>1, <1>2, <1>3, <1>4 DEF TypeOK, IInv
<1>6. WaitIsForMain' BY <1>0, <1>3 DEF WaitIsForMain, MainOwns2M
<1>7. NoWriterOnMain' BY <1>0, <1>1, <1>3 DEF NoWriterOnMain, MainOwns2M, Runs2M
<1>8. SubOwnsOnRequest' BY <1>3 DEF IInv, SubOwnsOnRequest, SubOwns2M
<1>9. WriterIsSelected' BY <1>0, <1>1 DEF WriterIsSelected, Selected
<1> QED BY <1>5, <1>6, <1>7, <1>8, <1>9 DEF IInv

\* The steps of main other than its memory-mode write.
LEMMA MainStep == ASSUME IInv, MainNext PROVE IInv'
<1>0. /\ SyncedCdc \in CdcType /\ Selected(SyncedCdc) /\ SyncedGfx \in GfxType
      /\ (MainOwns2M => ~Runs2M(SyncedCdc))
  BY ObserveKeeps
<1>1. cdc \in CdcType /\ gfx \in GfxType /\ stop \in StopClasses BY DEF IInv, TypeOK
<1>2. ASSUME NEW bit \in Bit, MainModeWrite(bit) PROVE IInv'
  BY <1>2, MainModeStep
<1>3. ASSUME NEW upper \in BOOLEAN, NEW isWrite \in BOOLEAN,
             MainWordRamAccess(upper, isWrite)
      PROVE  IInv'
  <2>1. /\ cdc' = SyncedCdc /\ gfx' = SyncedGfx /\ UNCHANGED <<mode, sub_wait>>
        /\ stop' \in StopClasses
    BY <1>3 DEF MainWordRamAccess, Observe, StopClasses
  <2> QED BY <1>0, <2>1, DeviceStep
<1>4. ASSUME MainHostRead PROVE IInv'
  <2>1. cdc' = HostRead(SyncedCdc, 2) /\ UNCHANGED <<mode, sub_wait, gfx, stop>>
    BY <1>4 DEF MainHostRead
  <2>2. cdc' \in CdcType /\ Selected(cdc') /\ (MainOwns2M => ~Runs2M(cdc'))
    BY <1>0, <2>1, HostReadType DEF Selected, Runs2M
  <2> QED BY <1>1, <2>1, <2>2, DeviceStep
<1>5. ASSUME CdcRead PROVE IInv'
  BY <1>0, <1>1, <1>5, DeviceStep DEF CdcRead
<1>6. ASSUME MainResetsSub PROVE IInv'
  <2>1. /\ mode1M' = mode1M /\ ret' = ret /\ dmna' = dmna /\ dmna_int' = dmna_int
        /\ cdc' = cdc /\ gfx' = gfx /\ stop' = stop /\ sub_wait' = FALSE
    BY <1>6 DEF MainResetsSub, mode
  <2> QED BY <2>1 DEF IInv, TypeOK, WaitIsForMain, NoWriterOnMain, SubOwnsOnRequest,
                      WriterIsSelected, MainOwns2M, SubOwns2M
<1> QED BY <1>2, <1>3, <1>4, <1>5, <1>6 DEF MainNext

\* The CDC register writes that select or remove the writer.
LEMMA CdcStep ==
    ASSUME IInv,
           \/ \E d \in Destinations : CdcModeWrite(d)
           \/ CdcStart
           \/ \E douten \in BOOLEAN : CdcIfctrlWrite(douten)
           \/ \E n \in DbcValues : CdcDbcWrite(n)
           \/ CdcRegisterReset
           \/ SubHostRead
    PROVE  IInv'
<1>0. /\ SyncedCdc \in CdcType /\ Selected(SyncedCdc)
      /\ (MainOwns2M => ~Runs2M(SyncedCdc))
      /\ (SyncedCdc.dma_state # "NONE" => SyncedCdc.started)
  BY ObserveKeeps
<1>1. gfx \in GfxType /\ stop \in StopClasses /\ mode1M \in BOOLEAN /\ ret \in {0, 1}
  BY DEF IInv, TypeOK, Bit
<1> DEFINE s == SyncedCdc
<1>2. ASSUME NEW x \in CdcType, x.dma_state # "NONE" => x.started,
             cdc' = DmaInit(x, mode1M, ret), StopIfUnsupported(x),
             UNCHANGED <<mode, sub_wait, gfx>>
      PROVE  IInv'
  <2>1. cdc' \in CdcType /\ Selected(cdc') /\ (MainOwns2M => ~Runs2M(cdc'))
    BY <1>1, <1>2, DmaInitType DEF Runs2M, MainOwns2M
  <2>2. stop' \in StopClasses BY <1>2 DEF StopIfUnsupported, StopClasses
  <2> QED BY <1>1, <1>2, <2>1, <2>2, DeviceStep
<1>3. ASSUME NEW d \in Destinations, CdcModeWrite(d) PROVE IInv'
  <2> DEFINE y == [s EXCEPT !.destination = d]
             x == [y EXCEPT !.edt = FALSE, !.dsr = FALSE]
  <2>1. d \in 0..7 BY DestinationsAssumption
  <2>2. /\ cdc' = DmaInit(x, mode1M, ret) /\ StopIfUnsupported(x)
        /\ UNCHANGED <<mode, sub_wait, gfx>>
    BY <1>3 DEF CdcModeWrite
  <2> HIDE DEF s
  <2>3. y \in CdcType BY <1>0, <2>1 DEF CdcType, s
  <2>4. y.dma_state = s.dma_state /\ y.started = s.started BY <1>0 DEF CdcType, s
  <2> HIDE DEF y
  <2>5. x \in CdcType BY <2>3 DEF CdcType
  <2>6. x.dma_state = y.dma_state /\ x.started = y.started BY <2>3 DEF CdcType
  <2> HIDE DEF x
  <2>7. x.dma_state # "NONE" => x.started BY <1>0, <2>4, <2>6 DEF s
  <2> QED BY <1>2, <2>2, <2>5, <2>7
<1>4. ASSUME CdcStart PROVE IInv'
  <2> DEFINE zero == [p \in Places |-> 0]
             w == [s EXCEPT !.started = TRUE, !.edt = FALSE]
             y == [w EXCEPT !.dsr = FALSE]
             z == [y EXCEPT !.age = 0]
             x == [z EXCEPT !.done = zero]
  <2>1. /\ cdc' = DmaInit(x, mode1M, ret) /\ StopIfUnsupported(x)
        /\ UNCHANGED <<mode, sub_wait, gfx>>
    BY <1>4 DEF CdcStart
  <2>2. zero \in [Places -> Nat] OBVIOUS
  <2> HIDE DEF s, zero
  <2>3. w \in CdcType /\ w.started = TRUE BY <1>0 DEF CdcType, s
  <2> HIDE DEF w
  <2>4. y \in CdcType /\ y.started = TRUE BY <2>3 DEF CdcType
  <2> HIDE DEF y
  <2>5. z \in CdcType /\ z.started = y.started BY <2>4 DEF CdcType
  <2> HIDE DEF z
  <2>6. x \in CdcType BY <2>2, <2>5 DEF CdcType
  <2>7. x.started = TRUE BY <2>4, <2>5 DEF CdcType
  <2> HIDE DEF x
  <2> QED BY <1>2, <2>1, <2>6, <2>7
<1>5. ASSUME NEW douten \in BOOLEAN, CdcIfctrlWrite(douten) PROVE IInv'
  <2>1. UNCHANGED <<mode, sub_wait, gfx, stop>> BY <1>5 DEF CdcIfctrlWrite
  <2>2. CASE douten
    <3>1. cdc' = [s EXCEPT !.douten = TRUE] BY <1>5, <2>2 DEF CdcIfctrlWrite
    <3> HIDE DEF s
    <3>2. cdc' \in CdcType BY <1>0, <3>1 DEF CdcType, s
    <3>3. /\ cdc'.dma_state = s.dma_state /\ cdc'.dma_target = s.dma_target
          /\ cdc'.started = s.started /\ cdc'.destination = s.destination
      BY <1>0, <3>1 DEF CdcType, s
    <3>4. Selected(cdc') /\ (MainOwns2M => ~Runs2M(cdc'))
      BY <1>0, <3>3 DEF Selected, Runs2M, s
    <3> QED BY <1>1, <2>1, <3>2, <3>4, DeviceStep
  <2>3. CASE ~douten
    <3> DEFINE y == [s EXCEPT !.douten = FALSE, !.started = FALSE]
               z == [y EXCEPT !.dma_state = "NONE"]
    <3>1. cdc' = [z EXCEPT !.age = 0] BY <1>5, <2>3 DEF CdcIfctrlWrite
    <3> HIDE DEF s
    <3>2. y \in CdcType BY <1>0 DEF CdcType, s
    <3> HIDE DEF y
    <3>3. z \in CdcType /\ z.dma_state = "NONE" BY <3>2 DEF CdcType
    <3> HIDE DEF z
    <3>4. cdc' \in CdcType /\ cdc'.dma_state = "NONE" BY <3>1, <3>3 DEF CdcType
    <3>5. Selected(cdc') /\ ~Runs2M(cdc') BY <3>4 DEF Selected, Runs2M
    <3> QED BY <1>1, <2>1, <3>4, <3>5, DeviceStep
  <2> QED BY <2>2, <2>3
<1>6. ASSUME NEW n \in DbcValues, CdcDbcWrite(n) PROVE IInv'
  <2>1. cdc' = [s EXCEPT !.dbc = n] /\ UNCHANGED <<mode, sub_wait, gfx, stop>>
    BY <1>6 DEF CdcDbcWrite
  <2>2. n \in 0..MaxDbc BY DbcValuesAssumption, MaxDbcAssumption
  <2> HIDE DEF s
  <2>3. cdc' \in CdcType BY <1>0, <2>1, <2>2 DEF CdcType, s
  <2>4. /\ cdc'.dma_state = s.dma_state /\ cdc'.dma_target = s.dma_target
        /\ cdc'.started = s.started /\ cdc'.destination = s.destination
    BY <1>0, <2>1 DEF CdcType, s
  <2>5. Selected(cdc') /\ (MainOwns2M => ~Runs2M(cdc'))
    BY <1>0, <2>4 DEF Selected, Runs2M, s
  <2> QED BY <1>1, <2>1, <2>3, <2>5, DeviceStep
<1>7. ASSUME CdcRegisterReset PROVE IInv'
  <2>1. cdc' = CdcReset(s) /\ UNCHANGED <<mode, sub_wait, gfx, stop>>
    BY <1>7 DEF CdcRegisterReset
  <2>2. cdc' \in CdcType /\ cdc'.dma_state = "NONE" BY <1>0, <2>1, CdcResetType
  <2>3. Selected(cdc') /\ ~Runs2M(cdc') BY <2>2 DEF Selected, Runs2M
  <2> QED BY <1>1, <2>1, <2>2, <2>3, DeviceStep
<1>8. ASSUME SubHostRead PROVE IInv'
  <2>1. cdc' = HostRead(SyncedCdc, 3) /\ UNCHANGED <<mode, sub_wait, gfx, stop>>
    BY <1>8 DEF SubHostRead
  <2>2. cdc' \in CdcType /\ Selected(cdc') /\ (MainOwns2M => ~Runs2M(cdc'))
    BY <1>0, <2>1, HostReadType DEF Selected, Runs2M
  <2> QED BY <1>1, <2>1, <2>2, DeviceStep
<1> QED BY <1>3, <1>4, <1>5, <1>6, <1>7, <1>8

\* The ASIC's registers and the peripheral reset.
LEMMA GfxStep ==
    ASSUME IInv,
           GfxStart \/ (\E n \in LineCounts : GfxLinesWrite(n)) \/ GfxRead \/ PeripheralReset
    PROVE  IInv'
<1>0. SyncedGfx \in GfxType BY ObserveKeeps
<1>1. /\ cdc \in CdcType /\ stop \in StopClasses /\ Selected(cdc)
      /\ (MainOwns2M => ~Runs2M(cdc))
  BY DEF IInv, TypeOK, WriterIsSelected, Selected, NoWriterOnMain, Runs2M
<1>2. ASSUME gfx' \in GfxType, stop' \in StopClasses, UNCHANGED <<mode, sub_wait, cdc>>
      PROVE  IInv'
  BY <1>1, <1>2, DeviceStep
<1>3. CASE GfxStart
  <2> DEFINE y == [SyncedGfx EXCEPT !.busy = TRUE]
  <2>1. gfx' = SyncedGfx \/ gfx' = [y EXCEPT !.age = 0] BY <1>3 DEF GfxStart
  <2>2. y \in GfxType BY <1>0 DEF GfxType
  <2> HIDE DEF y
  <2>3. gfx' \in GfxType BY <1>0, <2>1, <2>2 DEF GfxType
  <2>4. stop' \in StopClasses BY <1>1, <1>3 DEF GfxStart, StopClasses
  <2> QED BY <1>2, <1>3, <2>3, <2>4 DEF GfxStart
<1>4. ASSUME NEW n \in LineCounts, GfxLinesWrite(n) PROVE IInv'
  <2>1. n \in Nat BY LineCountsAssumption
  <2>2. gfx' \in GfxType BY <1>0, <1>4, <2>1 DEF GfxLinesWrite, GfxType
  <2> QED BY <1>1, <1>2, <1>4, <2>2 DEF GfxLinesWrite
<1>5. CASE GfxRead
  BY <1>0, <1>1, <1>2, <1>5 DEF GfxRead
<1>6. CASE PeripheralReset
  <2> DEFINE r == CdcReset(cdc)
             y == [r EXCEPT !.destination = 0]
  <2>1. /\ cdc' = [y EXCEPT !.edt = FALSE, !.dsr = FALSE] /\ gfx' = GfxIdle
        /\ UNCHANGED <<mode, sub_wait, stop>>
    BY <1>6 DEF PeripheralReset
  <2>2. r \in CdcType /\ r.dma_state = "NONE" BY <1>1, CdcResetType
  <2> HIDE DEF r
  <2>3. y \in CdcType /\ y.dma_state = "NONE" BY <2>2 DEF CdcType
  <2> HIDE DEF y
  <2>4. cdc' \in CdcType /\ cdc'.dma_state = "NONE" BY <2>1, <2>3 DEF CdcType
  <2>5. Selected(cdc') /\ ~Runs2M(cdc') BY <2>4 DEF Selected, Runs2M
  <2>6. gfx' \in GfxType BY <2>1, RenderModAssumption DEF GfxIdle, GfxType
  <2> QED BY <1>1, <2>1, <2>4, <2>5, <2>6, DeviceStep
<1> QED BY <1>3, <1>4, <1>5, <1>6

\* Every step preserves the invariant.
LEMMA NextIInv == IInv /\ [Next]_vars => IInv'
<1> SUFFICES ASSUME IInv, [Next]_vars PROVE IInv' OBVIOUS
<1>1. CASE Tick BY <1>1, TickStep
<1>2. CASE DevicesAdvance BY <1>2, AdvanceStep
<1>3. CASE MainNext BY <1>3, MainStep
<1>4. CASE SubNext
  <2>1. ASSUME NEW v1M \in BOOLEAN, NEW vRet \in Bit, SubModeWrite(v1M, vRet) PROVE IInv'
    BY <2>1, SubModeStep
  <2>2. ASSUME NEW area \in {"2M", "1M"}, NEW isWrite \in BOOLEAN,
               SubWordRamAccess(area, isWrite)
        PROVE  IInv'
    BY <2>2, SubAccessStep
  <2> QED BY <1>4, <2>1, <2>2, CdcStep, GfxStep DEF SubNext
<1>5. CASE UNCHANGED vars
  BY <1>5 DEF vars, IInv, TypeOK, WaitIsForMain, NoWriterOnMain, SubOwnsOnRequest,
              WriterIsSelected, MainOwns2M, SubOwns2M
<1> QED BY <1>1, <1>2, <1>3, <1>4, <1>5 DEF Next

\* The hand-over is safe: the types hold, a waiting sub always waits for 2M Word
\* RAM that main owns, no CDC writer runs on Word RAM that main owns, the sub
\* owns 2M Word RAM only on a request, and every writer belongs to a started
\* transfer (scd_word_ram.c, scd_cdc_dma_init, scd_cdc_dma_halt_2m).
THEOREM WordRamSafe ==
    Spec => [](TypeOK /\ WaitIsForMain /\ NoWriterOnMain /\ SubOwnsOnRequest /\ WriterIsSelected)
<1>1. Init => IInv BY InitIInv
<1>2. IInv /\ [Next]_vars => IInv' BY NextIInv
<1> QED BY <1>1, <1>2, PTL DEF Spec, IInv

\* The fields of the gate array, the CDC and the ASIC keep their types.
THEOREM WordRamTyped == Spec => []TypeOK
  BY WordRamSafe, PTL

------------------------------------------------------------------------------
(* The register implements HandOff.                                        *)

\* How the register reads as a HandOff state.
LEMMA OwnerReads ==
    ASSUME IInv
    PROVE  /\ MainOwns2M <=> Owner = HO!Whole("main")
           /\ SubOwns2M <=> Owner = HO!Whole("sub")
           /\ mode1M /\ ret = 0 <=> Owner = HO!Split(0)
           /\ mode1M /\ ret = 1 <=> Owner = HO!Split(1)
<1>1. mode1M \in BOOLEAN /\ ret \in {0, 1} BY DEF IInv, TypeOK, Bit
<1>2. /\ Owner[0] = IF (IF mode1M THEN ret = 0 ELSE ret = 1) THEN "main" ELSE "sub"
      /\ Owner[1] = IF (IF mode1M THEN ret = 1 ELSE ret = 1) THEN "main" ELSE "sub"
  BY DEF Owner
<1>3. \A f, g : f = [b \in {0, 1} |-> f[b]] /\ g = [b \in {0, 1} |-> g[b]]
                 /\ f[0] = g[0] /\ f[1] = g[1] => f = g
  OBVIOUS
<1>4. /\ HO!Whole("main")[0] = "main" /\ HO!Whole("main")[1] = "main"
      /\ HO!Whole("sub")[0] = "sub" /\ HO!Whole("sub")[1] = "sub"
      /\ HO!Split(0)[0] = "main" /\ HO!Split(0)[1] = "sub"
      /\ HO!Split(1)[0] = "sub" /\ HO!Split(1)[1] = "main"
  BY DEF HO!Whole, HO!Split, HO!Banks
<1>5. /\ Owner = [b \in {0, 1} |-> Owner[b]]
      /\ HO!Whole("main") = [b \in {0, 1} |-> HO!Whole("main")[b]]
      /\ HO!Whole("sub") = [b \in {0, 1} |-> HO!Whole("sub")[b]]
      /\ HO!Split(0) = [b \in {0, 1} |-> HO!Split(0)[b]]
      /\ HO!Split(1) = [b \in {0, 1} |-> HO!Split(1)[b]]
  BY DEF Owner, HO!Whole, HO!Split, HO!Banks
<1>6. MainOwns2M => Owner = HO!Whole("main") BY <1>2, <1>3, <1>4, <1>5 DEF MainOwns2M
<1>7. SubOwns2M => Owner = HO!Whole("sub") BY <1>2, <1>3, <1>4, <1>5 DEF SubOwns2M
<1>8. mode1M /\ ret = 0 => Owner = HO!Split(0) BY <1>2, <1>3, <1>4, <1>5
<1>9. mode1M /\ ret = 1 => Owner = HO!Split(1) BY <1>2, <1>3, <1>4, <1>5
<1> QED BY <1>1, <1>4, <1>6, <1>7, <1>8, <1>9 DEF MainOwns2M, SubOwns2M

\* A step that keeps the mode and the wait is a stutter of HandOff.
LEMMA HandOffStutter == ASSUME UNCHANGED <<mode, sub_wait>> PROVE UNCHANGED HO!vars
  BY DEF mode, HO!vars, Owner

\* Main's memory-mode write is a HandOff request, or a stutter.
LEMMA HandOffMain ==
    ASSUME IInv, IInv', NEW bit \in Bit, MainModeWrite(bit)
    PROVE  [HO!Next]_(HO!vars)
<1>1. CASE mode1M
  <2>1. mode1M' = mode1M /\ ret' = ret /\ sub_wait' = sub_wait
    BY <1>1 DEF MainModeWrite
  <2>2. Owner' = Owner BY <2>1 DEF Owner
  <2>3. dmna_int' = 1 \/ dmna_int' = dmna_int BY <1>1 DEF MainModeWrite
  <2>4. ret \in {0, 1} BY DEF IInv, TypeOK, Bit
  <2>5. Owner \in {HO!Split(0), HO!Split(1)} BY <1>1, <2>4, OwnerReads
  <2>6. CASE dmna_int' = 1
    BY <2>1, <2>2, <2>5, <2>6 DEF HO!Next, HO!MainAsks
  <2>7. CASE dmna_int' = dmna_int
    BY <2>1, <2>2, <2>7 DEF HO!vars
  <2> QED BY <2>3, <2>6, <2>7
<1>2. CASE ~mode1M /\ bit = 1
  <2>1. /\ mode1M' = mode1M /\ ret' = 0 /\ dmna_int' = 1 /\ sub_wait' = FALSE
    BY <1>2 DEF MainModeWrite, ResumeSub
  <2>2. SubOwns2M' BY <1>2, <2>1 DEF SubOwns2M
  <2>3. Owner' = HO!Whole("sub")
    <3>1. \A b \in {0, 1} : Owner'[b] = "sub" BY <1>2, <2>1 DEF Owner
    <3> QED BY <1>2, <2>1, <3>1 DEF Owner, HO!Whole, HO!Banks
  <2>4. CASE ret = 1
    <3>1. Owner = HO!Whole("main") BY <1>2, <2>4, OwnerReads DEF MainOwns2M
    <3> QED BY <2>1, <2>3, <3>1 DEF HO!Next, HO!MainGives
  <2>5. CASE ret = 0
    <3>1. SubOwns2M BY <1>2, <2>5 DEF SubOwns2M
    <3>2. Owner = HO!Whole("sub") /\ dmna_int = 1
      BY <3>1, OwnerReads DEF IInv, SubOwnsOnRequest
    <3>3. sub_wait = FALSE
      BY <2>5 DEF IInv, TypeOK, WaitIsForMain, MainOwns2M
    <3> QED BY <2>1, <2>3, <3>2, <3>3 DEF HO!vars
  <2> QED BY <2>4, <2>5 DEF IInv, TypeOK, Bit
<1>3. CASE ~mode1M /\ bit = 0
  <2>1. UNCHANGED <<mode, sub_wait>> BY <1>3 DEF MainModeWrite
  <2> QED BY <2>1, HandOffStutter
<1> QED BY <1>1, <1>2, <1>3 DEF Bit

\* The sub's memory-mode write is a HandOff return or a mode change, or a stutter.
LEMMA HandOffSub ==
    ASSUME IInv, IInv', NEW v1M \in BOOLEAN, NEW vRet \in Bit, SubModeWrite(v1M, vRet)
    PROVE  [HO!Next]_(HO!vars)
<1>1. sub_wait = FALSE /\ sub_wait' = FALSE
  <2>1. sub_wait = FALSE BY DEF SubModeWrite, SubStep, IInv, TypeOK
  <2> QED BY <2>1 DEF SubModeWrite
<1>2. mode1M \in BOOLEAN /\ ret \in {0, 1} /\ dmna_int \in {0, 1} /\ vRet \in {0, 1}
  BY DEF IInv, TypeOK, Bit
<1>3. CASE SubSelects1M(v1M, vRet)
  <2>1. mode1M' = TRUE /\ ret' = vRet
        /\ dmna_int' = IF vRet = 1 THEN 0 ELSE dmna_int
    BY <1>3 DEF SubSelects1M
  <2>2. Owner' = HO!Split(vRet)
    BY <1>2, <2>1 DEF Owner, HO!Split, HO!Banks
  <2>3. (dmna_int' = 1) = ((dmna_int = 1) /\ vRet = 0) BY <1>2, <2>1
  <2>4. HO!SubSplits(vRet) BY <1>1, <2>2, <2>3 DEF HO!SubSplits
  <2> QED BY <1>2, <2>4 DEF HO!Next, HO!Banks
<1>4. CASE SubKeeps2M(v1M, vRet)
  <2>1. mode1M /\ dmna_int = 1 /\ mode1M' = FALSE /\ ret' = 0 /\ dmna_int' = 1
    BY <1>4 DEF SubKeeps2M
  <2>2. Owner' = HO!Whole("sub") BY <2>1 DEF Owner, HO!Whole, HO!Banks
  <2>3. Owner \in {HO!Split(0), HO!Split(1)} BY <1>2, <2>1, OwnerReads
  <2> QED BY <1>1, <2>1, <2>2, <2>3 DEF HO!Next, HO!SubKeeps
<1>5. CASE SubReturns2M(v1M, vRet)
  <2>1. mode1M' = FALSE /\ ret' = 1 /\ dmna_int' = 0 BY <1>5 DEF SubReturns2M
  <2>2. Owner' = HO!Whole("main") BY <2>1 DEF Owner, HO!Whole, HO!Banks
  <2>3. mode1M \/ ret = 0 BY <1>5 DEF SubReturns2M
  <2>4. Owner # HO!Whole("main") BY <1>2, <2>3, OwnerReads DEF MainOwns2M
  <2>5. (dmna_int' = 1) = FALSE BY <2>1
  <2> QED BY <1>1, <2>2, <2>4, <2>5 DEF HO!Next, HO!SubReturns
<1>6. CASE SubStoresPriority(v1M, vRet)
  <2>1. UNCHANGED <<mode, sub_wait>> BY <1>6 DEF SubStoresPriority, SubModeWrite
  <2> QED BY <2>1, HandOffStutter
<1> QED BY <1>3, <1>4, <1>5, <1>6 DEF SubModeWrite

\* The sub's Word RAM access is a HandOff wait, or a stutter.
LEMMA HandOffAccess ==
    ASSUME IInv, NEW area \in {"2M", "1M"}, NEW isWrite \in BOOLEAN,
           SubWordRamAccess(area, isWrite)
    PROVE  [HO!Next]_(HO!vars)
<1>1. UNCHANGED mode /\ sub_wait' = (area = "2M" /\ MainOwns2M) /\ ~sub_wait
  BY DEF SubWordRamAccess, SubStep
<1>2. Owner' = Owner /\ dmna_int' = dmna_int BY <1>1 DEF mode, Owner
<1>3. CASE area = "2M" /\ MainOwns2M
  BY <1>1, <1>2, <1>3, OwnerReads DEF HO!Next, HO!SubWaits
<1>4. CASE ~(area = "2M" /\ MainOwns2M)
  <2>1. sub_wait' = sub_wait BY <1>1, <1>4 DEF IInv, TypeOK
  <2> QED BY <1>2, <2>1 DEF HO!vars
<1> QED BY <1>3, <1>4

\* Every step is a step of HandOff, or a stutter.
LEMMA HandOffStep == IInv /\ IInv' /\ [Next]_vars => [HO!Next]_(HO!vars)
<1> SUFFICES ASSUME IInv, IInv', [Next]_vars PROVE [HO!Next]_(HO!vars) OBVIOUS
<1>1. CASE Tick BY <1>1, HandOffStutter DEF Tick
<1>2. CASE DevicesAdvance BY <1>2, HandOffStutter DEF DevicesAdvance
<1>3. CASE MainNext
  <2>1. ASSUME MainResetsSub PROVE [HO!Next]_(HO!vars)
    <3>1. UNCHANGED mode /\ sub_wait' = FALSE BY <2>1 DEF MainResetsSub
    <3>2. Owner' = Owner /\ dmna_int' = dmna_int BY <3>1 DEF mode, Owner
    <3>3. CASE sub_wait BY <3>1, <3>2, <3>3 DEF HO!Next, HO!SubReset
    <3>4. CASE ~sub_wait BY <3>1, <3>2, <3>4 DEF HO!vars, IInv, TypeOK
    <3> QED BY <3>3, <3>4
  <2>2. ASSUME NEW bit \in Bit, MainModeWrite(bit) PROVE [HO!Next]_(HO!vars)
    BY <2>2, HandOffMain
  <2>3. CASE \/ \E upper, isWrite \in BOOLEAN : MainWordRamAccess(upper, isWrite)
             \/ MainHostRead \/ CdcRead
    BY <2>3, HandOffStutter DEF MainWordRamAccess, MainHostRead, CdcRead
  <2> QED BY <1>3, <2>1, <2>2, <2>3 DEF MainNext
<1>4. CASE SubNext
  <2>1. ASSUME NEW v1M \in BOOLEAN, NEW vRet \in Bit, SubModeWrite(v1M, vRet)
        PROVE  [HO!Next]_(HO!vars)
    BY <2>1, HandOffSub
  <2>2. ASSUME NEW area \in {"2M", "1M"}, NEW isWrite \in BOOLEAN,
               SubWordRamAccess(area, isWrite)
        PROVE  [HO!Next]_(HO!vars)
    BY <2>2, HandOffAccess
  <2>3. CASE \/ \E d \in Destinations : CdcModeWrite(d)
             \/ CdcStart
             \/ \E douten \in BOOLEAN : CdcIfctrlWrite(douten)
             \/ \E n \in DbcValues : CdcDbcWrite(n)
             \/ CdcRegisterReset
             \/ SubHostRead
    BY <2>3, HandOffStutter
    DEF CdcModeWrite, CdcStart, CdcIfctrlWrite, CdcDbcWrite, CdcRegisterReset, SubHostRead
  <2>4. CASE GfxStart \/ (\E n \in LineCounts : GfxLinesWrite(n)) \/ GfxRead \/ PeripheralReset
    BY <2>4, HandOffStutter DEF GfxStart, GfxLinesWrite, GfxRead, PeripheralReset
  <2> QED BY <1>4, <2>1, <2>2, <2>3, <2>4 DEF SubNext
<1>5. CASE UNCHANGED vars BY <1>5, HandOffStutter DEF vars, mode
<1> QED BY <1>1, <1>2, <1>3, <1>4, <1>5 DEF Next

\* The memory-mode register, its latch and the DTACK wait implement the
\* hand-over protocol (scd_word_ram.c).
THEOREM WordRamRefines == Spec => ImplementsHandOff
<1>1. Init => HO!Init
  <2> SUFFICES ASSUME Init PROVE HO!Init OBVIOUS
  <2>1. Owner = HO!Whole("main") BY DEF Init, Owner, HO!Whole, HO!Banks
  <2> QED BY <2>1 DEF Init, HO!Init
<1>2. Init => IInv BY InitIInv
<1>3. IInv /\ [Next]_vars => IInv' BY NextIInv
<1>4. IInv /\ IInv' /\ [Next]_vars => [HO!Next]_(HO!vars) BY HandOffStep
<1> QED BY <1>1, <1>2, <1>3, <1>4, PTL DEF Spec, ImplementsHandOff, HO!Spec

------------------------------------------------------------------------------
(* What main owns only main writes.                                        *)

\* What a step may do to the account of moved words and rendered lines.
KeepsMemory(newCdc, newGfx) ==
    /\ \A p \in Targets : newCdc.done[p] <= cdc.done[p]
    /\ newGfx.rendered \in {gfx.rendered, 0}

\* While main owns 2M Word RAM, bringing the devices up to date stores nothing.
LEMMA MainOwnsDead ==
    ASSUME IInv, MainOwns2M
    PROVE  /\ \A p \in Targets : SyncedCdc.done[p] = cdc.done[p]
           /\ SyncedGfx.rendered = gfx.rendered
           /\ \A p \in Targets : cdc.done[p] \in Nat
<1>1. cdc \in CdcType /\ gfx \in GfxType /\ mode1M = FALSE /\ ret = 1
  BY DEF IInv, TypeOK, MainOwns2M
<1>2. cdc.dma_state = "RUNNING" => PlaceOf(cdc.dma_target, mode1M) = "lost"
  BY <1>1 DEF IInv, NoWriterOnMain, PlaceOf
<1>3. \A p \in Targets : SyncedCdc.done[p] = cdc.done[p]
  BY <1>1, <1>2, DmaSyncDead DEF SyncedCdc
<1>4. GfxHalted(mode1M, ret) BY <1>1 DEF GfxHalted
<1>5. SyncedGfx.rendered = gfx.rendered BY <1>1, <1>4, GfxSyncType DEF SyncedGfx
<1>6. cdc.done \in [Places -> Nat] BY <1>1 DEF CdcType
<1> QED BY <1>3, <1>5, <1>6 DEF Places

\* A step whose account is the synced one, or a cleared one, stores nothing.
LEMMA KeepsByAccount ==
    ASSUME IInv, MainOwns2M, NEW c, NEW g,
           \/ c.done = cdc.done \/ c.done = SyncedCdc.done
           \/ c.done = [p \in Places |-> 0],
           \/ g.rendered = gfx.rendered \/ g.rendered = SyncedGfx.rendered
           \/ g.rendered = 0
    PROVE  KeepsMemory(c, g)
<1>1. /\ \A p \in Targets : SyncedCdc.done[p] = cdc.done[p] /\ cdc.done[p] \in Nat
      /\ SyncedGfx.rendered = gfx.rendered
  BY MainOwnsDead
<1>2. \A p \in Targets : c.done[p] <= cdc.done[p]
  <2>1. CASE c.done = cdc.done BY <1>1, <2>1
  <2>2. CASE c.done = SyncedCdc.done BY <1>1, <2>2
  <2>3. CASE c.done = [p \in Places |-> 0]
    <3>1. \A p \in Targets : c.done[p] = 0 BY <2>3 DEF Places
    <3> QED BY <1>1, <3>1
  <2> QED BY <2>1, <2>2, <2>3
<1> QED BY <1>1, <1>2 DEF KeepsMemory

\* Main's steps store nothing in the Word RAM it owns.
LEMMA KeepsMain ==
    ASSUME IInv, MainOwns2M, Tick \/ DevicesAdvance \/ MainNext
    PROVE  KeepsMemory(cdc', gfx')
<1>0. /\ SyncedCdc \in CdcType /\ Selected(SyncedCdc) BY ObserveKeeps
<1>1. cdc \in CdcType /\ gfx \in GfxType BY DEF IInv, TypeOK
<1>2. CASE Tick
  <2>1. cdc'.done = cdc.done BY <1>1, <1>2 DEF Tick, CdcType
  <2>2. gfx'.rendered = gfx.rendered BY <1>1, <1>2 DEF Tick, GfxType
  <2> QED BY <2>1, <2>2, KeepsByAccount
<1>3. CASE DevicesAdvance
  <2>1. cdc.dbc \in Nat /\ cdc.age \in Int BY <1>1, MaxDbcAssumption DEF CdcType
  <2>2. PICK c \in Int : c = CeilDiv(cdc.dbc + 1, Group)
    BY <2>1, CeilDivNat, GroupAssumption
  <2>3. DmaCompletion(cdc) \in Int
    BY <2>2, GroupAssumption, ByteTicksAssumption DEF DmaCompletion
  <2>4. Overdue \in Int BY <2>1, <2>3 DEF Overdue
  <2>5. gfx'.rendered = gfx.rendered BY <1>3, <2>4, GfxSyncedAtType DEF DevicesAdvance
  <2>6. cdc' = SyncedCdc BY <1>3 DEF DevicesAdvance
  <2> QED BY <2>5, <2>6, KeepsByAccount
<1>4. ASSUME NEW bit \in Bit, MainModeWrite(bit) PROVE KeepsMemory(cdc', gfx')
  <2>1. gfx' = SyncedGfx /\ (cdc' = SyncedCdc \/ cdc' = DmaResume2M(SyncedCdc))
    BY <1>4 DEF MainModeWrite
  <2>2. cdc'.done = SyncedCdc.done BY <1>0, <2>1, DmaResumeType
  <2> QED BY <2>1, <2>2, KeepsByAccount
<1>5. ASSUME NEW upper \in BOOLEAN, NEW isWrite \in BOOLEAN,
             MainWordRamAccess(upper, isWrite)
      PROVE  KeepsMemory(cdc', gfx')
  <2>1. cdc' = SyncedCdc /\ gfx' = SyncedGfx BY <1>5 DEF MainWordRamAccess, Observe
  <2> QED BY <2>1, KeepsByAccount
<1>6. CASE MainHostRead
  <2>1. cdc' = HostRead(SyncedCdc, 2) /\ gfx' = gfx BY <1>6 DEF MainHostRead
  <2>2. cdc'.done = SyncedCdc.done BY <1>0, <2>1, HostReadType
  <2> QED BY <2>1, <2>2, KeepsByAccount
<1>7. CASE CdcRead
  <2>1. cdc' = SyncedCdc /\ gfx' = gfx BY <1>7 DEF CdcRead
  <2> QED BY <2>1, KeepsByAccount
<1>8. CASE MainResetsSub
  <2>1. cdc' = cdc /\ gfx' = gfx BY <1>8 DEF MainResetsSub
  <2> QED BY <2>1, KeepsByAccount
<1> QED BY <1>2, <1>3, <1>4, <1>5, <1>6, <1>7, <1>8 DEF MainNext

\* The sub's steps store nothing in the Word RAM main owns.
LEMMA KeepsSub ==
    ASSUME IInv, MainOwns2M, SubNext
    PROVE  KeepsMemory(cdc', gfx')
<1> DEFINE s == SyncedCdc
<1>0. /\ s \in CdcType /\ SyncedGfx \in GfxType /\ (s.dma_state # "NONE" => s.started)
  BY ObserveKeeps
<1>1. cdc \in CdcType /\ gfx \in GfxType /\ mode1M \in BOOLEAN /\ ret \in {0, 1}
  BY DEF IInv, TypeOK, Bit
<1>2. ASSUME NEW v1M \in BOOLEAN, NEW vRet \in Bit, SubModeWrite(v1M, vRet)
      PROVE  KeepsMemory(cdc', gfx')
  <2>1. ~SubReturns2M(v1M, vRet) BY DEF SubReturns2M, MainOwns2M
  <2>2. cdc' = s /\ gfx' = SyncedGfx
    BY <1>2, <2>1 DEF SubModeWrite, SubSelects1M, SubKeeps2M, SubStoresPriority
  <2> QED BY <2>2, KeepsByAccount
<1>3. ASSUME NEW area \in {"2M", "1M"}, NEW isWrite \in BOOLEAN,
             SubWordRamAccess(area, isWrite)
      PROVE  KeepsMemory(cdc', gfx')
  <2>1. cdc' = s /\ gfx' = SyncedGfx BY <1>3 DEF SubWordRamAccess, Observe
  <2> QED BY <2>1, KeepsByAccount
<1>4. ASSUME NEW d \in Destinations, CdcModeWrite(d) PROVE KeepsMemory(cdc', gfx')
  <2> DEFINE y == [s EXCEPT !.destination = d]
             x == [y EXCEPT !.edt = FALSE, !.dsr = FALSE]
  <2>1. d \in 0..7 BY DestinationsAssumption
  <2>2. cdc' = DmaInit(x, mode1M, ret) /\ gfx' = gfx BY <1>4 DEF CdcModeWrite
  <2> HIDE DEF s
  <2>3. /\ y \in CdcType /\ y.done = s.done
        /\ y.dma_state = s.dma_state /\ y.started = s.started
    BY <1>0, <2>1 DEF CdcType
  <2> HIDE DEF y
  <2>4. x \in CdcType BY <2>3 DEF CdcType
  <2>5. x.done = y.done /\ x.dma_state = y.dma_state /\ x.started = y.started
    BY <2>3 DEF CdcType
  <2> HIDE DEF x
  <2>6. cdc'.done = x.done BY <1>0, <1>1, <2>2, <2>3, <2>4, <2>5, DmaInitType
  <2> QED BY <2>2, <2>3, <2>5, <2>6, KeepsByAccount DEF s
<1>5. CASE CdcStart
  <2> DEFINE zero == [p \in Places |-> 0]
             w == [s EXCEPT !.started = TRUE, !.edt = FALSE]
             y == [w EXCEPT !.dsr = FALSE]
             z == [y EXCEPT !.age = 0]
             x == [z EXCEPT !.done = zero]
  <2>1. cdc' = DmaInit(x, mode1M, ret) /\ gfx' = gfx BY <1>5 DEF CdcStart
  <2>2. zero \in [Places -> Nat] OBVIOUS
  <2> HIDE DEF s, zero
  <2>3. w \in CdcType /\ w.started = TRUE BY <1>0 DEF CdcType
  <2> HIDE DEF w
  <2>4. y \in CdcType /\ y.started = TRUE BY <2>3 DEF CdcType
  <2> HIDE DEF y
  <2>5. z \in CdcType /\ z.started = y.started BY <2>4 DEF CdcType
  <2> HIDE DEF z
  <2>6. x \in CdcType BY <2>2, <2>5 DEF CdcType
  <2>7. x.started = TRUE /\ x.done = zero BY <2>4, <2>5 DEF CdcType
  <2> HIDE DEF x
  <2>8. cdc'.done = zero BY <1>1, <2>1, <2>6, <2>7, DmaInitType
  <2> QED BY <2>1, <2>8, KeepsByAccount DEF zero
<1>6. ASSUME NEW douten \in BOOLEAN, CdcIfctrlWrite(douten) PROVE KeepsMemory(cdc', gfx')
  <2>1. gfx' = gfx BY <1>6 DEF CdcIfctrlWrite
  <2>2. cdc'.done = s.done BY <1>0, <1>6 DEF CdcIfctrlWrite, CdcType
  <2> QED BY <2>1, <2>2, KeepsByAccount
<1>7. ASSUME NEW n \in DbcValues, CdcDbcWrite(n) PROVE KeepsMemory(cdc', gfx')
  <2>1. gfx' = gfx BY <1>7 DEF CdcDbcWrite
  <2>2. cdc'.done = s.done BY <1>0, <1>7 DEF CdcDbcWrite, CdcType
  <2> QED BY <2>1, <2>2, KeepsByAccount
<1>8. CASE CdcRegisterReset
  <2>1. cdc' = CdcReset(s) /\ gfx' = gfx BY <1>8 DEF CdcRegisterReset
  <2>2. cdc'.done = s.done BY <1>0, <2>1, CdcResetType
  <2> QED BY <2>1, <2>2, KeepsByAccount
<1>9. CASE SubHostRead
  <2>1. cdc' = HostRead(s, 3) /\ gfx' = gfx BY <1>9 DEF SubHostRead
  <2>2. cdc'.done = s.done BY <1>0, <2>1, HostReadType
  <2> QED BY <2>1, <2>2, KeepsByAccount
<1>10. CASE GfxStart \/ (\E n \in LineCounts : GfxLinesWrite(n)) \/ GfxRead
  <2>1. cdc' = cdc BY <1>10 DEF GfxStart, GfxLinesWrite, GfxRead
  <2>2. gfx'.rendered = SyncedGfx.rendered
    BY <1>0, <1>10 DEF GfxStart, GfxLinesWrite, GfxRead, GfxType
  <2> QED BY <2>1, <2>2, KeepsByAccount
<1>11. CASE PeripheralReset
  <2> DEFINE r == CdcReset(cdc)
  <2>1. cdc' = [r EXCEPT !.destination = 0, !.edt = FALSE, !.dsr = FALSE] /\ gfx' = GfxIdle
    BY <1>11 DEF PeripheralReset
  <2>2. r \in CdcType /\ r.done = cdc.done BY <1>1, CdcResetType
  <2> HIDE DEF r
  <2>3. cdc'.done = cdc.done BY <2>1, <2>2 DEF CdcType
  <2>4. gfx'.rendered = 0 BY <2>1 DEF GfxIdle
  <2> QED BY <2>3, <2>4, KeepsByAccount
<1> QED
  BY <1>2, <1>3, <1>4, <1>5, <1>6, <1>7, <1>8, <1>9, <1>10, <1>11 DEF SubNext

\* No step that begins with 2M Word RAM in main's hands lets the CDC or the ASIC
\* store there (scd_cdc_dma_sync, scd_gfx_sync and every caller of theirs).
THEOREM MainKeepsWhatItOwns == Spec => MainKeepsWordRam
<1>1. Init => IInv BY InitIInv
<1>2. IInv /\ [Next]_vars => IInv' BY NextIInv
<1>3. IInv /\ [Next]_vars =>
        [ MainOwns2M => /\ \A p \in Targets : cdc'.done[p] <= cdc.done[p]
                        /\ gfx'.rendered \in {gfx.rendered, 0} ]_vars
  <2> SUFFICES ASSUME IInv, Next, MainOwns2M PROVE KeepsMemory(cdc', gfx')
    BY DEF KeepsMemory
  <2> QED BY KeepsMain, KeepsSub DEF Next
<1> QED BY <1>1, <1>2, <1>3, PTL DEF Spec, MainKeepsWordRam

------------------------------------------------------------------------------
(* The ASIC is on time.                                                    *)

\* scd_devices_advance syncs the ASIC to an earlier tick: an observer at the present one
\* finds the same lines rendered, and a completion that was not late is not made late.
LEMMA GfxSyncedAtKeeps ==
    ASSUME IInv, NEW late \in Nat
    PROVE  /\ GfxSync(GfxSyncedAt(late), mode1M, ret).rendered = SyncedGfx.rendered
           /\ ~GfxHalted(mode1M, ret) /\ (gfx.busy => gfx.age <= GfxCompletion(gfx)) =>
                (GfxSyncedAt(late).busy => GfxSyncedAt(late).age <= GfxCompletion(GfxSyncedAt(late)))
<1> DEFINE then == [gfx EXCEPT !.age = gfx.age - late]
           g    == GfxSync(then, mode1M, ret)
           h    == GfxSyncedAt(late)
<1>1. gfx \in GfxType /\ mode1M \in BOOLEAN /\ ret \in {0, 1}
  BY DEF IInv, TypeOK, Bit
<1>2. gfx.age - late \in Int /\ gfx.age \in Int /\ gfx.lines \in Nat /\ gfx.rendered \in Nat
  BY <1>1, RenderModAssumption DEF GfxType
<1>3. /\ then \in GfxType /\ then.rendered = gfx.rendered /\ then.busy = gfx.busy
      /\ then.lines = gfx.lines /\ then.age = gfx.age - late
  BY <1>1, <1>2 DEF GfxType
<1>4. g \in GfxType /\ (GfxHalted(mode1M, ret) => g.rendered = then.rendered)
  BY <1>1, <1>3, GfxSyncType
<1>5. h = IF g = then THEN gfx ELSE [g EXCEPT !.age = IF g.busy THEN @ + late ELSE @]
  BY DEF GfxSyncedAt
<1>6. h \in GfxType BY GfxSyncedAtType
<1>7. SyncedGfx = GfxSync(gfx, mode1M, ret) BY DEF SyncedGfx
<1>8. CASE g = then
  <2>1. h = gfx BY <1>5, <1>8
  <2> QED BY <1>7, <2>1
<1>9. CASE g # then /\ GfxHalted(mode1M, ret)
  <2>1. h.rendered = gfx.rendered
    BY <1>3, <1>4, <1>5, <1>9 DEF GfxType
  <2>2. GfxSync(h, mode1M, ret).rendered = h.rendered BY <1>1, <1>6, <1>9, GfxSyncType
  <2>3. SyncedGfx.rendered = gfx.rendered BY <1>1, <1>7, <1>9, GfxSyncType
  <2> QED BY <1>9, <2>1, <2>2, <2>3
<1>10. CASE g # then /\ ~GfxHalted(mode1M, ret)
  <2>1. then.busy /\ ~(then.age <= 0)
    BY <1>10 DEF GfxSync
  <2>2. gfx.busy /\ gfx.age > 0 /\ then.age > 0 /\ gfx.age - late > 0 BY <1>2, <1>3, <2>1
  <2> HIDE DEF then
  <2>3. PICK n \in Nat :
             /\ n = CeilDiv(then.age, LineTicks)
             /\ n < then.lines =>
                  /\ g.busy
                  /\ g.lines = then.lines - n
                  /\ g.age = then.age - n * LineTicks
                  /\ g.rendered = (then.rendered + n) % RenderMod
             /\ ~(n < then.lines) =>
                  /\ ~g.busy
                  /\ g.rendered = (then.rendered + then.lines) % RenderMod
    BY <1>1, <1>3, <1>10, <2>1, <2>2, GfxSyncMoves
  <2>4. PICK m \in Nat :
             /\ m = CeilDiv(gfx.age, LineTicks)
             /\ m < gfx.lines => SyncedGfx.rendered = (gfx.rendered + m) % RenderMod
             /\ ~(m < gfx.lines) => SyncedGfx.rendered = (gfx.rendered + gfx.lines) % RenderMod
    BY <1>1, <1>7, <1>10, <2>2, GfxSyncMoves
  <2>5. n <= m
    <3>1. then.age <= gfx.age /\ then.age \in Int BY <1>2, <1>3
    <3> QED BY <1>2, <2>3, <2>4, <3>1, CeilDivMono, LineTicksAssumption
  <2>6. CASE ~(n < gfx.lines)
    <3>1. ~g.busy /\ g.rendered = (gfx.rendered + gfx.lines) % RenderMod
      BY <1>3, <2>3, <2>6
    <3>2. ~(m < gfx.lines) BY <1>2, <2>5, <2>6
    <3>3. h.rendered = g.rendered /\ h.busy = g.busy
      BY <1>4, <1>5, <1>10 DEF GfxType
    <3>4. GfxSync(h, mode1M, ret).rendered = h.rendered
      BY <1>1, <1>6, <3>1, <3>3, GfxSyncRests DEF Rests
    <3> QED BY <2>4, <3>1, <3>2, <3>3, <3>4
  <2>7. CASE n < gfx.lines
    <3>1. /\ g.busy /\ g.lines = gfx.lines - n
          /\ g.age = gfx.age - late - n * LineTicks
          /\ g.rendered = (gfx.rendered + n) % RenderMod
      BY <1>3, <2>3, <2>7
    <3>2. h = [g EXCEPT !.age = g.age + late] BY <1>5, <1>10, <3>1
    <3>3. h.busy /\ h.lines = g.lines /\ h.age = g.age + late /\ h.rendered = g.rendered
      BY <1>4, <3>1, <3>2 DEF GfxType
    <3>4. PICK u \in Int : u = n * LineTicks BY LineTicksAssumption
    <3>5. h.age = gfx.age - u /\ h.lines = gfx.lines - n
      BY <1>2, <3>1, <3>3, <3>4
    <3>6. CeilDiv(h.age, LineTicks) = m - n
      <4>1. CeilDiv(gfx.age - n * LineTicks, LineTicks) = CeilDiv(gfx.age, LineTicks) - n
        <5>1. n \in Int OBVIOUS
        <5> QED BY <1>2, <5>1, CeilDivShift, LineTicksAssumption, Zenon
      <4> QED BY <2>4, <3>4, <3>5, <4>1
    <3>7. GfxSync(h, mode1M, ret).rendered = SyncedGfx.rendered
      <4>1. CASE h.age <= 0
        <5>1. GfxSync(h, mode1M, ret).rendered = h.rendered
          BY <1>1, <1>6, <4>1, GfxSyncRests DEF Rests
        <5>2. m = n
          <6>1. gfx.age <= n * LineTicks BY <1>2, <3>4, <3>5, <4>1
          <6>2. LineTicks * (m - 1) < gfx.age
            BY <1>2, <2>4, CeilDivBounds, LineTicksAssumption
          <6>3. LineTicks * (m - 1) < LineTicks * n
            BY <1>2, <6>1, <6>2, LineTicksAssumption
          <6>4. ~(n <= m - 1) BY <6>3, TimesMono, LineTicksAssumption
          <6> QED BY <2>5, <6>4
        <5> QED BY <2>4, <2>7, <3>1, <3>3, <5>1, <5>2
      <4>2. CASE ~(h.age <= 0)
        <5>1. h.age > 0 BY <1>6, <4>2 DEF GfxType
        <5>2. /\ m - n < h.lines =>
                   GfxSync(h, mode1M, ret).rendered = (h.rendered + (m - n)) % RenderMod
              /\ ~(m - n < h.lines) =>
                   GfxSync(h, mode1M, ret).rendered = (h.rendered + h.lines) % RenderMod
          BY <1>1, <1>6, <1>10, <3>3, <3>6, <5>1, GfxSyncMoves
        <5>3. \A k \in Int : (h.rendered + k) % RenderMod = (gfx.rendered + n + k) % RenderMod
          <6>1. TAKE k \in Int
          <6>2. gfx.rendered + n \in Int BY <1>2
          <6>3. (((gfx.rendered + n) % RenderMod) + k) % RenderMod = (gfx.rendered + n + k) % RenderMod
            BY <6>2, ModAdd, RenderModAssumption, Zenon
          <6> QED BY <3>1, <3>3, <6>3
        <5>4. CASE m < gfx.lines
          <6>1. m - n < h.lines /\ m - n \in Int BY <1>2, <3>5, <5>4
          <6>2. gfx.rendered + n + (m - n) = gfx.rendered + m BY <1>2
          <6> QED BY <2>4, <5>2, <5>3, <5>4, <6>1, <6>2
        <5>5. CASE ~(m < gfx.lines)
          <6>1. ~(m - n < h.lines) /\ h.lines \in Int BY <1>2, <3>5, <5>5
          <6>2. gfx.rendered + n + h.lines = gfx.rendered + gfx.lines BY <1>2, <3>5
          <6> QED BY <2>4, <5>2, <5>3, <5>5, <6>1, <6>2
        <5> QED BY <5>4, <5>5
      <4> QED BY <4>1, <4>2
    <3>8. ASSUME gfx.age <= GfxCompletion(gfx) PROVE h.age <= GfxCompletion(h)
      <4>1. gfx.lines > 0 /\ h.lines > 0 BY <1>2, <2>7, <3>5
      <4>2. /\ GfxCompletion(gfx) = (gfx.lines - 1) * LineTicks + 1
            /\ GfxCompletion(h) = (gfx.lines - n - 1) * LineTicks + 1
        BY <3>5, <4>1 DEF GfxCompletion
      <4>3. (gfx.lines - n - 1) * LineTicks = (gfx.lines - 1) * LineTicks - n * LineTicks
        BY <1>2, LineTicksAssumption
      <4>4. PICK v \in Int : v = (gfx.lines - 1) * LineTicks BY <1>2, LineTicksAssumption
      <4>5. gfx.age <= v + 1 BY <3>8, <4>2, <4>4
      <4>6. GfxCompletion(h) = v - u + 1 BY <3>4, <4>2, <4>3, <4>4
      <4> QED BY <1>2, <3>5, <4>5, <4>6
    <3> QED BY <2>2, <3>7, <3>8
  <2> QED BY <1>2, <2>6, <2>7
<1> QED BY <1>8, <1>9, <1>10

\* An operation that is not behind is not late: its completion lies ahead.
LEMMA RestsOnTime ==
    ASSUME NEW g \in GfxType, Rests(g)
    PROVE  g.busy => g.age <= GfxCompletion(g)
<1>1. g.lines \in Nat /\ g.age \in Int BY DEF GfxType
<1>2. g.lines > 0 => (g.lines - 1) * LineTicks \in Nat
  BY <1>1, LineTicksAssumption
<1>3. GfxCompletion(g) \in Int /\ GfxCompletion(g) > 0 BY <1>1, <1>2 DEF GfxCompletion
<1> QED BY <1>1, <1>3 DEF Rests

\* How late the completion of the transfer is.
LEMMA OverdueNat == ASSUME IInv PROVE Overdue \in Nat
<1>1. cdc \in CdcType BY DEF IInv, TypeOK
<1>2. cdc.dbc \in Nat /\ cdc.age \in Int BY <1>1, MaxDbcAssumption DEF CdcType
<1>3. PICK c \in Int : c = CeilDiv(cdc.dbc + 1, Group)
  BY <1>2, CeilDivNat, GroupAssumption
<1>4. PICK d \in Int : d = DmaCompletion(cdc)
  BY <1>3, GroupAssumption, ByteTicksAssumption DEF DmaCompletion
<1> QED BY <1>2, <1>4 DEF Overdue, DmaDue

\* Every step keeps the ASIC's completion on time.
LEMMA OnTimeStep ==
    ASSUME IInv, IInv', GfxOnTime, [Next]_vars
    PROVE  GfxOnTime'
<1>1. /\ gfx \in GfxType /\ gfx' \in GfxType /\ mode1M \in BOOLEAN /\ ret \in {0, 1}
  BY DEF IInv, TypeOK, Bit
<1>2. SyncedGfx \in GfxType /\ Rests(SyncedGfx)
  BY <1>1, GfxSyncType, GfxSyncSettles DEF SyncedGfx
<1>3. ASSUME Rests(gfx') PROVE GfxOnTime'
  BY <1>1, <1>3, RestsOnTime DEF GfxOnTime
<1>4. ASSUME UNCHANGED <<mode1M, ret, gfx>>, stop' = "NONE" => stop = "NONE" PROVE GfxOnTime'
  BY <1>4 DEF GfxOnTime
<1>5. CASE Tick
  <2>1. UNCHANGED <<mode1M, ret, stop>> BY <1>5 DEF Tick, mode
  <2>2. SUFFICES ASSUME gfx'.busy, ~GfxHalted(mode1M, ret), stop = "NONE"
                 PROVE  gfx'.age <= GfxCompletion(gfx')
    BY <2>1 DEF GfxOnTime
  <2>3. gfx.busy /\ gfx' = [gfx EXCEPT !.age = Older(gfx.age)]
    BY <1>1, <1>5, <2>2 DEF Tick, GfxType
  <2>4. ~(gfx.age >= GfxCompletion(gfx))
    BY <1>5, <2>2, <2>3 DEF Tick, CpuStep, EventDue, GfxDue
  <2>5. gfx.age \in Int /\ gfx.lines \in Nat BY <1>1 DEF GfxType
  <2>6. gfx'.age = Older(gfx.age) /\ gfx'.lines = gfx.lines BY <1>1, <2>3 DEF GfxType
  <2>7. PICK c \in Int : c = GfxCompletion(gfx)
    BY <2>5, LineTicksAssumption DEF GfxCompletion
  <2>8. GfxCompletion(gfx') = c BY <2>6, <2>7 DEF GfxCompletion
  <2> QED BY <2>4, <2>5, <2>6, <2>7, <2>8 DEF Older
<1>6. CASE DevicesAdvance
  <2>1. UNCHANGED <<mode1M, ret, stop>> /\ gfx' = GfxSyncedAt(Overdue)
    BY <1>6 DEF DevicesAdvance, mode
  <2> QED BY <2>1, OverdueNat, GfxSyncedAtKeeps DEF GfxOnTime
<1>7. CASE MainNext
  BY <1>2, <1>3, <1>4, <1>7 DEF MainNext, MainModeWrite, MainWordRamAccess, MainHostRead, CdcRead,
          MainResetsSub, Observe, mode, CpuStep, Running
<1>8. CASE SubNext
  <2>1. CASE \/ \E v1M \in BOOLEAN, vRet \in Bit : SubModeWrite(v1M, vRet)
             \/ \E area \in {"2M", "1M"}, isWrite \in BOOLEAN : SubWordRamAccess(area, isWrite)
             \/ GfxRead
    BY <1>2, <1>3, <2>1 DEF SubModeWrite, SubWordRamAccess, GfxRead, Observe
  <2>2. CASE \/ \E d \in Destinations : CdcModeWrite(d)
             \/ CdcStart
             \/ \E douten \in BOOLEAN : CdcIfctrlWrite(douten)
             \/ \E n \in DbcValues : CdcDbcWrite(n)
             \/ CdcRegisterReset
             \/ SubHostRead
    BY <1>4, <2>2 DEF CdcModeWrite, CdcStart, CdcIfctrlWrite, CdcDbcWrite, CdcRegisterReset,
                      SubHostRead, SubStep, CpuStep, Running, mode
  <2>3. CASE GfxStart
    <3>1. gfx' = SyncedGfx \/ gfx' = [SyncedGfx EXCEPT !.busy = TRUE, !.age = 0]
      BY <2>3 DEF GfxStart
    <3>2. gfx' = SyncedGfx \/ gfx'.age = 0 BY <1>2, <3>1 DEF GfxType
    <3>3. Rests(gfx') BY <1>2, <3>2 DEF Rests
    <3> QED BY <1>3, <3>3
  <2>4. ASSUME NEW n \in LineCounts, GfxLinesWrite(n) PROVE GfxOnTime'
    <3>1. gfx' = [SyncedGfx EXCEPT !.lines = n] BY <2>4 DEF GfxLinesWrite
    <3>2. Rests(gfx') BY <1>2, <3>1 DEF Rests, GfxType
    <3> QED BY <1>3, <3>2
  <2>5. CASE PeripheralReset
    <3>1. Rests(gfx') BY <2>5 DEF PeripheralReset, GfxIdle, Rests
    <3> QED BY <1>3, <3>1
  <2> QED BY <1>8, <2>1, <2>2, <2>3, <2>4, <2>5 DEF SubNext
<1>9. CASE UNCHANGED vars
  BY <1>4, <1>9 DEF vars
<1> QED BY <1>5, <1>6, <1>7, <1>8, <1>9 DEF Next

\* The completion of a graphics operation is never in the past, through any rewrite of the
\* live line counter, hand-over or event of another device (scd_gfx_sync,
\* scd_gfx_next_event, scd_devices_advance).
THEOREM GfxNeverLate == Spec => []GfxOnTime
<1>1. Init => IInv BY InitIInv
<1>2. IInv /\ [Next]_vars => IInv' BY NextIInv
<1>3. Init => GfxOnTime BY DEF Init, GfxOnTime, GfxIdle
<1>4. IInv /\ IInv' /\ GfxOnTime /\ [Next]_vars => GfxOnTime' BY OnTimeStep
<1> QED BY <1>1, <1>2, <1>3, <1>4, PTL DEF Spec

------------------------------------------------------------------------------
(* Only time moves words.                                                  *)

\* Whether something is owed depends on the writer's state and age only.
LEMMA SettledBy ==
    ASSUME NEW x, NEW y, Settled(x), y.dma_state = x.dma_state, y.age = x.age
    PROVE  Settled(y)
  BY DEF Settled, DmaOwed

\* A step that leaves the transfer with nothing owed and the words of the synced one moves
\* no word for any observer.
LEMMA LandedStays ==
    ASSUME IInv, IInv', Settled(cdc'), cdc'.done = SyncedCdc.done
    PROVE  Landed' = Landed
<1>1. cdc' \in CdcType /\ mode1M' \in BOOLEAN BY DEF IInv, TypeOK
<1>2. DmaSync(cdc', mode1M').done = cdc'.done BY <1>1, DmaSyncSettled
<1> QED BY <1>2 DEF Landed, SyncedCdc

\* The same of the lines of an operation.
LEMMA RenderedStays ==
    ASSUME IInv, IInv', Rests(gfx'), gfx'.rendered = SyncedGfx.rendered
    PROVE  Rendered' = Rendered
<1>1. gfx' \in GfxType /\ mode1M' \in BOOLEAN /\ ret' \in {0, 1} BY DEF IInv, TypeOK, Bit
<1>2. GfxSync(gfx', mode1M', ret').rendered = gfx'.rendered BY <1>1, GfxSyncRests
<1> QED BY <1>2 DEF Rendered, SyncedGfx

\* What an observation leaves.
LEMMA ObservedRests ==
    ASSUME IInv
    PROVE  /\ SyncedCdc \in CdcType /\ Settled(SyncedCdc) /\ Selected(SyncedCdc)
           /\ SyncedGfx \in GfxType /\ Rests(SyncedGfx)
<1>1. gfx \in GfxType /\ cdc \in CdcType /\ mode1M \in BOOLEAN /\ ret \in {0, 1}
  BY DEF IInv, TypeOK, Bit
<1>2. Settled(SyncedCdc) BY <1>1, DmaSyncSettles DEF SyncedCdc
<1>3. Rests(SyncedGfx) BY <1>1, GfxSyncSettles DEF SyncedGfx
<1> QED BY <1>2, <1>3, ObserveKeeps

\* A host read leaves a running writer alone: its transfer has another destination.
LEMMA HostReadSettled ==
    ASSUME NEW x \in CdcType, Selected(x), Settled(x), NEW cpu \in {2, 3}
    PROVE  Settled(HostRead(x, cpu))
<1>1. CASE x.dma_state = "RUNNING"
  <2>1. x.destination # cpu BY <1>1 DEF Selected
  <2> QED BY <2>1, HostReadType
<1>2. CASE x.dma_state # "RUNNING"
  BY <1>2, HostReadType DEF Settled
<1> QED BY <1>1, <1>2

\* A resumed transfer is counted from the hand-over on, so nothing is owed yet.
LEMMA ResumeSettled ==
    ASSUME NEW x \in CdcType, Settled(x)
    PROVE  Settled(DmaResume2M(x))
<1>1. CASE x.dma_state # "HALTED" \/ x.dma_target # "2M"
  BY <1>1 DEF DmaResume2M
<1>2. CASE x.dma_state = "HALTED" /\ x.dma_target = "2M"
  <2> DEFINE a == IF x.age > 0 THEN 0 ELSE x.age
  <2>1. DmaResume2M(x) = [x EXCEPT !.dma_state = "RUNNING", !.age = a]
    BY <1>2 DEF DmaResume2M
  <2>2. a <= 0 BY DEF CdcType
  <2> HIDE DEF a
  <2> QED BY <2>1, <2>2 DEF CdcType, Settled
<1> QED BY <1>1, <1>2

\* Halting a transfer that is up to date moves nothing.
LEMMA HaltSettled ==
    ASSUME NEW x \in CdcType, NEW oneM \in BOOLEAN, Settled(x)
    PROVE  Settled(DmaHalt2M(x, oneM)) /\ DmaHalt2M(x, oneM).done = x.done
<1>1. CASE x.dma_state # "RUNNING" \/ x.dma_target # "2M"
  BY <1>1 DEF DmaHalt2M
<1>2. CASE x.dma_state = "RUNNING" /\ x.dma_target = "2M"
  <2> DEFINE s == DmaSync(x, oneM)
  <2>1. DmaHalt2M(x, oneM) =
          IF s.dma_state = "RUNNING" THEN [s EXCEPT !.dma_state = "HALTED"] ELSE s
    BY <1>2 DEF DmaHalt2M
  <2>2. s \in CdcType /\ s.done = x.done
    BY DmaSyncType, DmaSyncSettled
  <2> HIDE DEF s
  <2> QED BY <2>1, <2>2 DEF CdcType, Settled
<1> QED BY <1>1, <1>2

\* Main's steps and the device events move no word.
LEMMA MainMovesNothing ==
    ASSUME IInv, IInv', DevicesAdvance \/ MainNext
    PROVE  Landed' = Landed /\ Rendered' = Rendered
<1>1. /\ SyncedCdc \in CdcType /\ Settled(SyncedCdc) /\ Selected(SyncedCdc)
      /\ SyncedGfx \in GfxType /\ Rests(SyncedGfx)
  BY ObservedRests
<1>2. CASE DevicesAdvance
  <2>1. /\ cdc' = SyncedCdc /\ gfx' = GfxSyncedAt(Overdue) /\ mode1M' = mode1M /\ ret' = ret
    BY <1>2 DEF DevicesAdvance, mode
  <2>2. Landed' = Landed BY <1>1, <2>1, LandedStays
  <2>3. SyncedGfx' = GfxSync(GfxSyncedAt(Overdue), mode1M, ret) BY <2>1 DEF SyncedGfx
  <2>4. Rendered' = Rendered BY <2>3, OverdueNat, GfxSyncedAtKeeps DEF Rendered
  <2> QED BY <2>2, <2>4
<1>3. ASSUME NEW bit \in Bit, MainModeWrite(bit)
      PROVE  Landed' = Landed /\ Rendered' = Rendered
  <2>1. gfx' = SyncedGfx /\ (cdc' = SyncedCdc \/ cdc' = DmaResume2M(SyncedCdc))
    BY <1>3 DEF MainModeWrite
  <2>2. cdc'.done = SyncedCdc.done /\ Settled(cdc')
    BY <1>1, <2>1, DmaResumeType, ResumeSettled
  <2> QED BY <1>1, <2>1, <2>2, LandedStays, RenderedStays
<1>4. ASSUME NEW upper \in BOOLEAN, NEW isWrite \in BOOLEAN,
             MainWordRamAccess(upper, isWrite)
      PROVE  Landed' = Landed /\ Rendered' = Rendered
  <2>1. cdc' = SyncedCdc /\ gfx' = SyncedGfx BY <1>4 DEF MainWordRamAccess, Observe
  <2> QED BY <1>1, <2>1, LandedStays, RenderedStays
<1>5. CASE MainHostRead \/ CdcRead
  <2>1. /\ cdc' = HostRead(SyncedCdc, 2) \/ cdc' = SyncedCdc
        /\ UNCHANGED <<gfx, mode1M, ret>>
    BY <1>5 DEF MainHostRead, CdcRead, mode
  <2>2. cdc'.done = SyncedCdc.done /\ Settled(cdc')
    BY <1>1, <2>1, HostReadType, HostReadSettled
  <2>3. Rendered' = Rendered BY <2>1 DEF Rendered, SyncedGfx
  <2> QED BY <2>2, <2>3, LandedStays
<1>6. CASE MainResetsSub
  BY <1>6 DEF MainResetsSub, mode, Landed, Rendered, SyncedCdc, SyncedGfx
<1> QED BY <1>2, <1>3, <1>4, <1>5, <1>6 DEF MainNext

\* The sub's steps move no word, apart from those that begin or end a transfer.
LEMMA SubMovesNothing ==
    ASSUME IInv, IInv', SubNext, ~CdcStart, ~PeripheralReset,
           ~\E d \in Destinations : CdcModeWrite(d)
    PROVE  Landed' = Landed /\ Rendered' = Rendered
<1>1. /\ SyncedCdc \in CdcType /\ Settled(SyncedCdc) /\ Selected(SyncedCdc)
      /\ SyncedGfx \in GfxType /\ Rests(SyncedGfx) /\ mode1M \in BOOLEAN
  BY ObservedRests DEF IInv, TypeOK
<1> DEFINE s == SyncedCdc
<1>2. ASSUME NEW v1M \in BOOLEAN, NEW vRet \in Bit, SubModeWrite(v1M, vRet)
      PROVE  Landed' = Landed /\ Rendered' = Rendered
  <2>1. gfx' = SyncedGfx /\ (cdc' = s \/ cdc' = DmaHalt2M(s, mode1M))
    BY <1>2 DEF SubModeWrite, SubSelects1M, SubKeeps2M, SubReturns2M, SubStoresPriority
  <2>2. cdc'.done = s.done /\ Settled(cdc') BY <1>1, <2>1, HaltSettled
  <2> QED BY <1>1, <2>1, <2>2, LandedStays, RenderedStays
<1>3. ASSUME NEW area \in {"2M", "1M"}, NEW isWrite \in BOOLEAN,
             SubWordRamAccess(area, isWrite)
      PROVE  Landed' = Landed /\ Rendered' = Rendered
  <2>1. cdc' = s /\ gfx' = SyncedGfx BY <1>3 DEF SubWordRamAccess, Observe
  <2> QED BY <1>1, <2>1, LandedStays, RenderedStays
<1>4. ASSUME UNCHANGED <<gfx, mode1M, ret>>, Settled(cdc'), cdc'.done = s.done
      PROVE  Landed' = Landed /\ Rendered' = Rendered
  <2>1. Rendered' = Rendered BY <1>4 DEF Rendered, SyncedGfx
  <2> QED BY <1>4, <2>1, LandedStays
<1>5. ASSUME NEW douten \in BOOLEAN, CdcIfctrlWrite(douten)
      PROVE  Landed' = Landed /\ Rendered' = Rendered
  <2>1. UNCHANGED <<gfx, mode1M, ret>> BY <1>5 DEF CdcIfctrlWrite, mode
  <2>2. cdc'.done = s.done BY <1>1, <1>5 DEF CdcIfctrlWrite, CdcType
  <2>3. CASE douten
    <3>1. cdc' = [s EXCEPT !.douten = TRUE] BY <1>5, <2>3 DEF CdcIfctrlWrite
    <3>2. cdc'.dma_state = s.dma_state /\ cdc'.age = s.age BY <1>1, <3>1 DEF CdcType
    <3>3. Settled(cdc') BY <1>1, <3>2, SettledBy
    <3> QED BY <1>4, <2>1, <2>2, <3>3
  <2>4. CASE ~douten
    <3>1. cdc'.dma_state = "NONE" BY <1>1, <1>5, <2>4 DEF CdcIfctrlWrite, CdcType
    <3>2. Settled(cdc') BY <3>1 DEF Settled
    <3> QED BY <1>4, <2>1, <2>2, <3>2
  <2> QED BY <2>3, <2>4
<1>6. ASSUME NEW n \in DbcValues, CdcDbcWrite(n)
      PROVE  Landed' = Landed /\ Rendered' = Rendered
  <2>1. UNCHANGED <<gfx, mode1M, ret>> /\ cdc' = [s EXCEPT !.dbc = n]
    BY <1>6 DEF CdcDbcWrite, mode
  <2>2. cdc'.done = s.done /\ cdc'.dma_state = s.dma_state /\ cdc'.age = s.age
    BY <1>1, <2>1 DEF CdcType
  <2>3. Settled(cdc') BY <1>1, <2>2, SettledBy
  <2> QED BY <1>4, <2>1, <2>2, <2>3
<1>7. CASE CdcRegisterReset
  <2>1. UNCHANGED <<gfx, mode1M, ret>> /\ cdc' = CdcReset(s)
    BY <1>7 DEF CdcRegisterReset, mode
  <2>2. cdc'.done = s.done /\ Settled(cdc') BY <1>1, <2>1, CdcResetType DEF Settled
  <2> QED BY <1>4, <2>1, <2>2
<1>8. CASE SubHostRead
  <2>1. UNCHANGED <<gfx, mode1M, ret>> /\ cdc' = HostRead(s, 3)
    BY <1>8 DEF SubHostRead, mode
  <2>2. cdc'.done = s.done /\ Settled(cdc')
    BY <1>1, <2>1, HostReadType, HostReadSettled
  <2> QED BY <1>4, <2>1, <2>2
<1>9. CASE GfxStart \/ (\E n \in LineCounts : GfxLinesWrite(n)) \/ GfxRead
  <2>1. UNCHANGED <<cdc, mode1M>> BY <1>9 DEF GfxStart, GfxLinesWrite, GfxRead, mode
  <2>2. \/ gfx' = SyncedGfx \/ gfx' = [SyncedGfx EXCEPT !.busy = TRUE, !.age = 0]
        \/ \E n \in LineCounts : gfx' = [SyncedGfx EXCEPT !.lines = n]
    BY <1>9 DEF GfxStart, GfxLinesWrite, GfxRead
  <2>3. gfx'.rendered = SyncedGfx.rendered BY <1>1, <2>2 DEF GfxType
  <2>4. \/ (gfx'.busy <=> SyncedGfx.busy) /\ gfx'.age = SyncedGfx.age
        \/ gfx'.age = 0
    BY <1>1, <2>2 DEF GfxType
  <2>5. Rests(gfx') BY <1>1, <2>4 DEF Rests
  <2>6. Landed' = Landed BY <2>1 DEF Landed, SyncedCdc
  <2> QED BY <2>3, <2>5, <2>6, RenderedStays
<1> QED BY <1>2, <1>3, <1>5, <1>6, <1>7, <1>8, <1>9 DEF SubNext

\* A run's result does not depend on how it is sliced: what an observer at the present tick
\* finds moved and rendered is changed by time and by the operations that begin or end a
\* transfer, and by no access, hand-over, mode change or device event (scd_cd_observe and
\* every caller of scd_cdc_dma_sync and scd_gfx_sync).
THEOREM SlicingIsInvisible == Spec => OnlyTimeMovesWords
<1>1. Init => IInv BY InitIInv
<1>2. IInv /\ [Next]_vars => IInv' BY NextIInv
<1>3. IInv /\ IInv' /\ [Next]_vars =>
        [ \/ Landed' = Landed /\ Rendered' = Rendered
          \/ Tick \/ CdcStart \/ PeripheralReset
          \/ \E d \in Destinations : CdcModeWrite(d) ]_vars
  BY MainMovesNothing, SubMovesNothing DEF Next
<1> QED BY <1>1, <1>2, <1>3, PTL DEF Spec, OnlyTimeMovesWords
==============================================================================
