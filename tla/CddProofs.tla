------------------------------ MODULE CddProofs ------------------------------
(* Proofs about module Cdd, for any disc, grid, latency and set of targets, and about   *)
(* module Ledger, the record of the blocks the drive delivers, for any look-back.       *)
EXTENDS Cdd, Ledger, TLAPS, FiniteSetTheorems

\* What every command and every tick keeps of a drive: its types, and that a run of
\* audio belongs to a drive that plays.
Sound(x) ==
    /\ x \in DriveType
    /\ x.playing => /\ x.status = "PLAY" /\ x.pending = "NONE" /\ x.latency = 0
                    /\ x.next_lba = x.lba /\ x.enabled

------------------------------------------------------------------------------
(* Commands.                                                               *)

\* A drive without a run of audio is sound if its types are right.
LEMMA QuietSound == ASSUME NEW x \in DriveType, ~x.playing PROVE Sound(x)
BY DEF Sound

\* An interrupted run is over.
LEMMA InterruptQuiet ==
    ASSUME NEW x \in DriveType
    PROVE  Interrupt(x) \in DriveType /\ ~Interrupt(x).playing
BY DEF DriveType, Interrupt

\* A typed stop, a report and a store to a register the head does not depend on keep
\* the drive sound.
LEMMA StoreSound ==
    ASSUME NEW x, Sound(x),
           NEW b \in BOOLEAN, NEW c \in BOOLEAN, NEW t \in Int, NEW s \in Stops
    PROVE  /\ Sound([x EXCEPT !.seeking = b]) /\ Sound([x EXCEPT !.audio = b])
           /\ Sound([x EXCEPT !.hock = b]) /\ Sound([x EXCEPT !.level4 = b])
           /\ Sound([x EXCEPT !.decen = b, !.wrrq = c])
           /\ Sound([x EXCEPT !.target = t])
           /\ Sound([x EXCEPT !.stop = s])
           /\ Sound([x EXCEPT !.seeking = b, !.stop = s])
<1> USE DEF Sound, DriveType
<1>1. Sound([x EXCEPT !.seeking = b])
      OBVIOUS
<1>2. Sound([x EXCEPT !.audio = b])
      OBVIOUS
<1>3. Sound([x EXCEPT !.hock = b])
      OBVIOUS
<1>4. Sound([x EXCEPT !.level4 = b])
      OBVIOUS
<1>5. Sound([x EXCEPT !.decen = b, !.wrrq = c])
      OBVIOUS
<1>6. Sound([x EXCEPT !.target = t])
      OBVIOUS
<1>7. Sound([x EXCEPT !.stop = s])
      OBVIOUS
<1>8. Sound([x EXCEPT !.seeking = b, !.stop = s])
      OBVIOUS
<1> HIDE DEF Sound, DriveType
<1> QED BY <1>1, <1>2, <1>3, <1>4, <1>5, <1>6, <1>7, <1>8

\* Status and TOC reports change nothing but RS0, or end in a typed stop.
LEMMA ReportSound ==
    ASSUME NEW x, Sound(x), NEW time \in BOOLEAN, NEW request \in TocRequests
    PROVE  Sound(DriveStatus(x, time)) /\ Sound(Toc(x, request))
<1> DEFINE y == [x EXCEPT !.seeking = FALSE]
<1>1. FALSE \in BOOLEAN /\ "CDD_COMMAND_UNSUPPORTED" \in Stops /\ PowerOnTarget \in Int
      BY TargetsAssumption DEF Stops
<1>2. Sound(y) /\ Sound([x EXCEPT !.seeking = FALSE, !.stop = "CDD_COMMAND_UNSUPPORTED"])
      BY <1>1, StoreSound
<1> HIDE DEF y
<1>3. Sound(ReportTime(y))
      BY <1>1, <1>2, StoreSound DEF ReportTime
<1>4. Sound(DriveStatus(x, time))
      BY <1>2, <1>3 DEF DriveStatus, y
<1>5. Sound(Toc(x, request))
      BY <1>2, <1>3 DEF Toc, TocRequests, y
<1> QED BY <1>4, <1>5

\* Commands that interrupt the run, and resume, which leaves it.
LEMMA CommandSound ==
    ASSUME NEW x, Sound(x), NEW p \in {"PLAY", "PAUSE"}
    PROVE  /\ Sound(StopDrive(x)) /\ Sound(Seek(x, p)) /\ Sound(Pause(x))
           /\ Sound(Resume(x)) /\ Sound(Unknown(x)) /\ Sound(Unsupported(x))
<1> DEFINE y == Interrupt(x)
<1>1. x \in DriveType
      BY DEF Sound
<1>2. y \in DriveType /\ ~y.playing
      BY <1>1, InterruptQuiet
<1> HIDE DEF y
<1>3. ASSUME NEW s \in Statuses, NEW a \in BOOLEAN, NEW k \in BOOLEAN,
             NEW i \in Nat, NEW l \in Int
      PROVE  Sound([y EXCEPT !.status = s, !.audio = a, !.seeking = k, !.index = i, !.lba = l])
      BY <1>2 DEF Sound, DriveType
<1>4. Sound(StopDrive(x))
  <2>1. "TOC" \in Statuses /\ FALSE \in BOOLEAN /\ 0 \in Nat /\ 0 \in Int
        BY DEF Statuses
  <2> QED BY <2>1, <1>3 DEF StopDrive, y
<1>5. Sound(Seek(x, p))
  <2>1. ASSUME NEW k \in BOOLEAN, NEW q \in {"NONE", "PLAY", "PAUSE"}
        PROVE  Sound([y EXCEPT !.seeking = k, !.pending = q])
        BY <1>2 DEF Sound, DriveType
  <2> QED BY <2>1 DEF Seek, y
<1>6. Sound(Pause(x))
  <2>1. ASSUME NEW a \in BOOLEAN, NEW s \in Statuses, NEW k \in BOOLEAN
        PROVE  Sound([y EXCEPT !.audio = a, !.status = s, !.seeking = k])
        BY <1>2 DEF Sound, DriveType
  <2>2. "PAUSE" \in Statuses /\ FALSE \in BOOLEAN
        BY DEF Statuses
  <2> QED BY <2>1, <2>2 DEF Pause, y
<1>7. Sound(Resume(x))
  <2>1. ASSUME NEW k \in BOOLEAN, NEW s \in Statuses, s = "PLAY"
        PROVE  Sound([x EXCEPT !.status = s, !.seeking = k])
        BY <2>1 DEF Sound, DriveType
  <2>2. "PLAY" \in Statuses /\ FALSE \in BOOLEAN
        BY DEF Statuses
  <2> QED BY <2>1, <2>2 DEF Resume
<1>8. Sound(Unknown(x)) /\ Sound(Unsupported(x))
  <2>1. FALSE \in BOOLEAN /\ "CDD_COMMAND_UNSUPPORTED" \in Stops /\ PowerOnTarget \in Int
        BY TargetsAssumption DEF Stops
  <2> QED BY <2>1, StoreSound DEF Unknown, Unsupported
<1> QED BY <1>4, <1>5, <1>6, <1>7, <1>8

\* The state after power-on and after the peripheral reset.
LEMMA ResetSound ==
    /\ \A b, e \in BOOLEAN : Sound(PowerOn(b, e)) /\ ~Active(PowerOn(b, e))
    /\ \A x : Sound(x) => Sound(PeripheralReset(x)) /\ ~Active(PeripheralReset(x))
<1>1. ASSUME NEW b \in BOOLEAN, NEW e \in BOOLEAN
      PROVE  PowerOn(b, e) \in DriveType /\ ~PowerOn(b, e).playing /\ ~Active(PowerOn(b, e))
  <2>1. PowerOn(b, e) \in DriveType
    <3> DEFINE f == FALSE
               z == 0
    <3>1. f \in BOOLEAN /\ z \in Nat /\ z \in Int
          OBVIOUS
    <3>2. /\ "TOC" \in Statuses /\ "NONE" \in Stops
          /\ "NONE" \in {"NONE", "PLAY", "PAUSE"}
          /\ PowerOnTarget \in Int
          BY TargetsAssumption DEF Statuses, Stops
    <3>3. PowerOn(b, e) =
            [ bios |-> b, enabled |-> e, status |-> "TOC", pending |-> "NONE",
              latency |-> z, lba |-> z, index |-> z, audio |-> f, hock |-> f,
              decen |-> f, wrrq |-> f, target |-> PowerOnTarget, seeking |-> f,
              playing |-> f, next_lba |-> z, level4 |-> f, stop |-> "NONE" ]
          BY DEF PowerOn
    <3> HIDE DEF f, z
    <3> QED BY <3>1, <3>2, <3>3 DEF DriveType
  <2> QED BY <2>1 DEF PowerOn, Active
<1>2. ASSUME NEW x, Sound(x)
      PROVE  Sound(PeripheralReset(x)) /\ ~Active(PeripheralReset(x))
  <2> DEFINE y == PowerOn(x.bios, x.enabled)
  <2>1. x.bios \in BOOLEAN /\ x.enabled \in BOOLEAN /\ x.next_lba \in Int
        BY <1>2 DEF Sound, DriveType
  <2>2. y \in DriveType /\ ~y.playing /\ ~Active(y)
        BY <2>1, <1>1
  <2> HIDE DEF y
  <2>3. ASSUME NEW n \in Int
        PROVE  [y EXCEPT !.next_lba = n] \in DriveType /\ ~[y EXCEPT !.next_lba = n].playing
        BY <2>2 DEF DriveType
  <2>4. ASSUME NEW n \in Int
        PROVE  ~Active([y EXCEPT !.next_lba = n])
        BY <2>2 DEF DriveType, Active
  <2> QED BY <2>1, <2>3, <2>4, QuietSound DEF PeripheralReset, y
<1> QED BY <1>1, <1>2, QuietSound

------------------------------------------------------------------------------
(* The tick.                                                               *)

\* A tick without audio ends the run: only an enabled drive has one.
LEMMA SilentQuiet ==
    ASSUME NEW x, Sound(x)
    PROVE  /\ Silent(x) \in DriveType /\ ~Silent(x).playing
           /\ \/ Silent(x) = Interrupt(x)
              \/ Silent(x) = x /\ ~x.playing
<1>1. x \in DriveType /\ (x.playing => x.enabled)
      BY DEF Sound
<1>2. Interrupt(x) \in DriveType /\ ~Interrupt(x).playing
      BY <1>1, InterruptQuiet
<1> QED BY <1>1, <1>2 DEF Silent

\* A read that fails is a typed stop and nothing else.
LEMMA DecodeQuiet ==
    ASSUME NEW x \in DriveType, ~x.playing
    PROVE  Decode(x) \in DriveType /\ ~Decode(x).playing
<1>1. ASSUME NEW s \in Stops
      PROVE  [x EXCEPT !.stop = s] \in DriveType /\ ~[x EXCEPT !.stop = s].playing
      BY DEF DriveType
<1>2. "CD_READ_FAILED" \in Stops
      BY DEF Stops
<1> QED BY <1>1, <1>2 DEF Decode

\* The head of a drive without audio moves on.
LEMMA MoveOnQuiet ==
    ASSUME NEW x \in DriveType, ~x.playing
    PROVE  MoveOn(x) \in DriveType /\ ~MoveOn(x).playing
<1>1. ASSUME NEW l \in Int, NEW i \in Nat, NEW a \in BOOLEAN
      PROVE  /\ [x EXCEPT !.lba = l, !.index = i, !.audio = a] \in DriveType
             /\ ~[x EXCEPT !.lba = l, !.index = i, !.audio = a].playing
             /\ [x EXCEPT !.lba = l] \in DriveType
             /\ ~[x EXCEPT !.lba = l].playing
      BY DEF DriveType
<1>2. x.lba + 1 \in Int /\ x.index + 1 \in Nat /\ FALSE \in BOOLEAN
      BY DEF DriveType
<1> QED BY <1>1, <1>2 DEF MoveOn

\* A block of audio: the run that goes on expects the block the head moves to.
LEMMA AudioSound ==
    ASSUME NEW x, Sound(x), x.latency = 0, x.status = "PLAY"
    PROVE  Sound(MoveOn(PlayAudio(x)))
<1> DEFINE heard == x.lba >= Track(x).first
           play  == heard /\ x.pending = "NONE"
           A == x.audio \/ heard
           P == IF x.enabled THEN play ELSE x.playing
           N == IF x.enabled /\ play THEN x.lba + 1 ELSE x.next_lba
           y == PlayAudio(x)
<1>1. x \in DriveType
      BY DEF Sound
<1>2. /\ x.lba \in Int /\ x.next_lba \in Int /\ x.audio \in BOOLEAN /\ x.playing \in BOOLEAN
      /\ x.enabled \in BOOLEAN /\ x.index \in Nat
      BY <1>1 DEF DriveType
<1>3. heard \in BOOLEAN /\ play \in BOOLEAN
      OBVIOUS
<1>4. A \in BOOLEAN /\ P \in BOOLEAN
      BY <1>2, <1>3, Zenon
<1>5. N \in Int
  <2>1. x.lba + 1 \in Int
        BY <1>2
  <2> QED BY <2>1, <1>2, Zenon
<1>6. P => N = x.lba + 1 /\ x.pending = "NONE" /\ x.enabled
      BY Zenon DEF Sound
<1>7. y = [x EXCEPT !.audio = A, !.playing = P, !.next_lba = N]
      BY DEF PlayAudio
<1> HIDE DEF A, P, N, y
<1>8. /\ y \in DriveType /\ y.latency = 0 /\ y.status = "PLAY" /\ y.lba = x.lba
      /\ y.pending = x.pending /\ y.enabled = x.enabled
      /\ y.playing = P /\ y.next_lba = N
      BY <1>1, <1>4, <1>5, <1>7 DEF DriveType
<1>9. y.playing => y.next_lba = y.lba + 1 /\ y.pending = "NONE" /\ y.enabled
      BY <1>6, <1>8, Zenon
<1>10. ASSUME NEW l \in Int, NEW i \in Nat, NEW a \in BOOLEAN, l = y.lba + 1
       PROVE  /\ Sound([y EXCEPT !.lba = l, !.index = i, !.audio = a])
              /\ Sound([y EXCEPT !.lba = l])
  <2> DEFINE u == [y EXCEPT !.lba = l, !.index = i, !.audio = a]
             v == [y EXCEPT !.lba = l]
  <2>1. u \in DriveType /\ v \in DriveType
        BY <1>8 DEF DriveType
  <2>2. /\ u.lba = l /\ u.playing = y.playing /\ u.status = y.status
        /\ u.pending = y.pending /\ u.latency = y.latency
        /\ u.next_lba = y.next_lba /\ u.enabled = y.enabled
        BY <1>8 DEF DriveType
  <2>3. /\ v.lba = l /\ v.playing = y.playing /\ v.status = y.status
        /\ v.pending = y.pending /\ v.latency = y.latency
        /\ v.next_lba = y.next_lba /\ v.enabled = y.enabled
        BY <1>8 DEF DriveType
  <2> HIDE DEF u, v
  <2>4. Sound(u)
        BY <2>1, <2>2, <1>8, <1>9, <1>10, Zenon DEF Sound
  <2>5. Sound(v)
        BY <2>1, <2>3, <1>8, <1>9, <1>10, Zenon DEF Sound
  <2> QED BY <2>4, <2>5 DEF u, v
<1>11. y.lba + 1 \in Int /\ y.index + 1 \in Nat /\ FALSE \in BOOLEAN
      BY <1>8 DEF DriveType
<1>12. Sound(MoveOn(y))
      BY <1>10, <1>11 DEF MoveOn
<1> QED BY <1>12 DEF y

\* What the head does keeps the drive sound; if a command is pending, or the drive
\* does not play, the run is over afterwards.
LEMMA HeadStepSound ==
    ASSUME NEW x, Sound(x)
    PROVE  Sound(HeadStep(x))
<1> DEFINE q == Silent(x)
<1>1. q \in DriveType /\ ~q.playing
      BY SilentQuiet
<1>2. x \in DriveType
      BY DEF Sound
<1> HIDE DEF q
<1>3. x.latency \in Nat
      BY <1>2 DEF DriveType
<1>4. CASE x.latency > 0
  <2>1. q.latency = x.latency
        BY <1>2 DEF q, Silent, Interrupt, DriveType
  <2> DEFINE n == q.latency - 1
             r == [q EXCEPT !.latency = n]
  <2>2. n \in Nat
        BY <2>1, <1>3, <1>4
  <2>3. ASSUME NEW k \in Nat
        PROVE  [q EXCEPT !.latency = k] \in DriveType /\ ~[q EXCEPT !.latency = k].playing
        BY <1>1 DEF DriveType
  <2>4. r \in DriveType /\ ~r.playing
        BY <2>2, <2>3
  <2>5. Decode(r) \in DriveType /\ ~Decode(r).playing
        BY <2>4, DecodeQuiet
  <2>6. HeadStep(x) = Decode(r)
        BY <1>3, <1>4 DEF HeadStep, q
  <2> QED BY <2>5, <2>6, QuietSound
<1>5. CASE x.latency = 0 /\ x.status # "PLAY"
  <2>1. HeadStep(x) = Decode(q)
        BY <1>5 DEF HeadStep, q
  <2> QED BY <2>1, <1>1, DecodeQuiet, QuietSound
<1>6. CASE x.latency = 0 /\ x.status = "PLAY" /\ ~OnDisc(x)
  <2>1. HeadStep(x) = [q EXCEPT !.status = "END"]
        BY <1>6 DEF HeadStep, q
  <2>2. ASSUME NEW s \in Statuses
        PROVE  [q EXCEPT !.status = s] \in DriveType /\ ~[q EXCEPT !.status = s].playing
        BY <1>1 DEF DriveType
  <2>3. "END" \in Statuses
        BY DEF Statuses
  <2> QED BY <2>1, <2>2, <2>3, QuietSound
<1>7. CASE x.latency = 0 /\ x.status = "PLAY" /\ OnDisc(x) /\ Track(x).audio
  <2>1. HeadStep(x) = IF x.bios THEN MoveOn(PlayAudio(x))
                                ELSE [x EXCEPT !.stop = "CD_READ_AUDIO_TRACK"]
        BY <1>7 DEF HeadStep
  <2>2. Sound(MoveOn(PlayAudio(x)))
        BY <1>7, AudioSound
  <2>3. FALSE \in BOOLEAN /\ 0 \in Int /\ "CD_READ_AUDIO_TRACK" \in Stops
        BY DEF Stops
  <2>4. Sound([x EXCEPT !.stop = "CD_READ_AUDIO_TRACK"])
        BY <2>3, StoreSound
  <2> QED BY <2>1, <2>2, <2>4
<1>8. CASE x.latency = 0 /\ x.status = "PLAY" /\ OnDisc(x) /\ ~Track(x).audio
  <2>1. HeadStep(x) = IF DecodeFails(x) THEN Decode(q) ELSE MoveOn(q)
        BY <1>8 DEF HeadStep, q
  <2> QED BY <2>1, <1>1, DecodeQuiet, MoveOnQuiet, QuietSound
<1> QED BY <1>3, <1>4, <1>5, <1>6, <1>7, <1>8

\* As many numbers as the last of them.
LEMMA CardOfInterval ==
    ASSUME NEW n \in Nat
    PROVE  IsFiniteSet(1..n) /\ Cardinality(1..n) = n
<1>1. 1 \in Int /\ n \in Int
      OBVIOUS
<1>2. IsFiniteSet(1..n) /\ Cardinality(1..n) = IF 1 > n THEN 0 ELSE n - 1 + 1
      BY <1>1, FS_Interval, Zenon
<1>3. (IF 1 > n THEN 0 ELSE n - 1 + 1) = n
      OBVIOUS
<1> QED BY <1>2, <1>3

\* The track of a position is a count of tracks.
LEMMA TrackOfNat == ASSUME NEW l \in Int PROVE TrackOf(l) \in Nat
<1> DEFINE S == {i \in 1..Count : Tracks[i].end <= l}
<1>1. Count \in Nat
      BY TracksAssumption DEF Count
<1>2. IsFiniteSet(1..Count)
      BY <1>1, CardOfInterval
<1>3. IsFiniteSet(S)
      BY <1>2, FS_Subset
<1> QED BY <1>3, FS_CardinalityType DEF TrackOf

\* The latency of a seek is a number of ticks.
LEMMA DistanceNat ==
    ASSUME NEW a \in Int, NEW b \in Int
    PROVE  Distance(a, b) \in Nat /\ Distance(a, b) \div SeekDiv \in Nat
<1>1. Distance(a, b) \in Nat
      BY DEF Distance
<1>2. SeekDiv \in Nat /\ SeekDiv > 0
      BY LatencyAssumption
<1>3. ASSUME NEW d \in Nat PROVE d \div SeekDiv \in Nat
      BY <1>2
<1> QED BY <1>1, <1>3

\* A pending command finds the run already over, so starting it leaves no run.
LEMMA TakePendingSound ==
    ASSUME NEW x, Sound(x)
    PROVE  Sound(TakePending(x))
<1>1. CASE x.pending = "NONE"
      BY <1>1 DEF TakePending
<1>2. CASE x.pending # "NONE"
  <2>1. x \in DriveType /\ ~x.playing
        BY <1>2 DEF Sound
  <2>2. /\ x.latency \in Nat /\ x.target \in Int /\ x.lba \in Int
        /\ x.pending \in {"NONE", "PLAY", "PAUSE"}
        BY <2>1 DEF DriveType
  <2> DEFINE L == (IF x.latency = 0 THEN BaseLatency ELSE x.latency)
                    + Distance(x.target, x.lba) \div SeekDiv
  <2>3. L \in Nat
    <3>1. Distance(x.target, x.lba) \div SeekDiv \in Nat
          BY <2>2, DistanceNat
    <3>2. (IF x.latency = 0 THEN BaseLatency ELSE x.latency) \in Nat
          BY <2>2, LatencyAssumption
    <3>3. ASSUME NEW a \in Nat, NEW b \in Nat PROVE a + b \in Nat
          OBVIOUS
    <3> QED BY <3>1, <3>2, <3>3
  <2>4. TrackOf(x.target) \in Nat
        BY <2>2, TrackOfNat
  <2>5. x.pending \in Statuses /\ FALSE \in BOOLEAN /\ "NONE" \in {"NONE", "PLAY", "PAUSE"}
        BY <1>2, <2>2 DEF Statuses
  <2>6. TakePending(x) =
          [x EXCEPT !.latency = L, !.lba = x.target, !.index = TrackOf(x.target),
                    !.audio = FALSE, !.status = x.pending, !.pending = "NONE"]
        BY <1>2 DEF TakePending
  <2> HIDE DEF L
  <2>7. ASSUME NEW n \in Nat, NEW l \in Int, NEW i \in Nat, NEW a \in BOOLEAN,
               NEW s \in Statuses, NEW p \in {"NONE", "PLAY", "PAUSE"}
        PROVE  LET y == [x EXCEPT !.latency = n, !.lba = l, !.index = i, !.audio = a,
                                  !.status = s, !.pending = p]
               IN  y \in DriveType /\ ~y.playing
        BY <2>1 DEF DriveType
  <2> QED BY <2>2, <2>3, <2>4, <2>5, <2>6, <2>7, QuietSound
<1> QED BY <1>1, <1>2

\* Level 4 is no concern of the head.
LEMMA RaiseHockSound == ASSUME NEW x, Sound(x) PROVE Sound(RaiseHock(x))
<1>1. TRUE \in BOOLEAN /\ 0 \in Int /\ "NONE" \in Stops
      BY DEF Stops
<1> QED BY <1>1, StoreSound DEF RaiseHock

\* A tick keeps the drive sound.
LEMMA TickSound == ASSUME NEW x, Sound(x) PROVE Sound(Tick(x))
<1> DEFINE y == HeadStep(x)
<1>1. Sound(y)
      BY HeadStepSound
<1> HIDE DEF y
<1>2. Sound(RaiseHock(y)) /\ Sound(RaiseHock(TakePending(y)))
      BY <1>1, TakePendingSound, RaiseHockSound
<1> QED BY <1>1, <1>2 DEF Tick, y

\* The tick of a drive that is not active changes nothing: the fact on which the
\* lazy schedule rests.
LEMMA TickIdle ==
    ASSUME NEW x, Sound(x), ~Active(x), x.stop = "NONE"
    PROVE  Tick(x) = x
<1>1. /\ x \in DriveType /\ x.latency = 0 /\ x.status # "PLAY" /\ x.pending = "NONE"
      /\ ~x.hock /\ ~x.decen
  <2>1. x \in DriveType /\ x.latency \in Nat
        BY DEF Sound, DriveType
  <2> QED BY <2>1 DEF Active
<1>2. ~x.playing
      BY <1>1 DEF Sound
<1>3. Silent(x) = x
  <2>1. x.playing \in BOOLEAN
        BY <1>1 DEF DriveType
  <2>2. x.playing = FALSE
        BY <2>1, <1>2, Zenon
  <2>3. [x EXCEPT !.playing = x.playing] = x
        BY <1>1 DEF DriveType
  <2> QED BY <2>2, <2>3 DEF Silent, Interrupt
<1>4. ~DecodeFails(x)
      BY <1>1 DEF DecodeFails
<1>5. HeadStep(x) = x
      BY <1>1, <1>3, <1>4 DEF HeadStep, Decode
<1>6. ~FindsEnd(x)
      BY <1>1 DEF FindsEnd
<1> QED BY <1>1, <1>5, <1>6 DEF Tick, TakePending, RaiseHock

------------------------------------------------------------------------------
(* The invariant.                                                          *)

\* TypeOK, OnGrid, PlayingIsReal and NoJump, with what a run of audio further needs.
IInv == TypeOK /\ OnGrid /\ Sound(drive)

\* Module Drive's drive is this one: the same operators under the names of D.
LEMMA SameCommands ==
    ASSUME NEW x, NEW a, NEW b
    PROVE  /\ D!PowerOn(a, b) = PowerOn(a, b) /\ D!PeripheralReset(x) = PeripheralReset(x)
           /\ D!DriveStatus(x, a) = DriveStatus(x, a) /\ D!Toc(x, a) = Toc(x, a)
           /\ D!StopDrive(x) = StopDrive(x) /\ D!Seek(x, a) = Seek(x, a)
           /\ D!Pause(x) = Pause(x) /\ D!Resume(x) = Resume(x)
           /\ D!Unknown(x) = Unknown(x) /\ D!Unsupported(x) = Unsupported(x)
           /\ D!TocRequests = TocRequests
BY DEF D!PowerOn, D!PeripheralReset, D!DriveStatus, D!Toc, D!StopDrive, D!Seek, D!Pause,
       D!Resume, D!Unknown, D!Unsupported, D!TocRequests, D!Interrupt, D!ReportTime,
       PowerOn, PeripheralReset, DriveStatus, Toc, StopDrive, Seek, Pause,
       Resume, Unknown, Unsupported, TocRequests, Interrupt, ReportTime

\* And so is its tick.
LEMMA SameTick == ASSUME NEW x PROVE D!Tick(x) = Tick(x)
BY DEF D!Tick, D!HeadStep, D!FindsEnd, D!TakePending, D!RaiseHock, D!Distance, D!TrackOf,
       D!MoveOn, D!PlayAudio, D!Silent, D!Interrupt, D!Decode, D!DecodeFails, D!Readable,
       D!OnDisc, D!Track, D!Count, D!Cardinality,
       Tick, HeadStep, FindsEnd, TakePending, RaiseHock, Distance, TrackOf,
       MoveOn, PlayAudio, Silent, Interrupt, Decode, DecodeFails, Readable,
       OnDisc, Track, Count, Cardinality

\* The accesses of the sub, sound drives all, are the ones module Drive allows.
LEMMA NextCases ==
    ASSUME Next, Sound(drive)
    PROVE  \/ Time \/ DriveEvent \/ ResetPeripherals
           \/ \E x : Access(x) /\ Sound(x) /\ D!Accessed(drive, x)
<1> DEFINE Goal == \E x : Access(x) /\ Sound(x) /\ D!Accessed(drive, x)
<1>1. ASSUME NEW x, Access(x), Sound(x), D!Accessed(drive, x) PROVE Goal
      BY <1>1
<1> HIDE DEF Goal
<1>2. ASSUME NEW time \in BOOLEAN, CommandStatus(time) PROVE Goal
  <2>1. D!Accessed(drive, DriveStatus(drive, time))
        BY SameCommands DEF D!Accessed
  <2>2. Sound(DriveStatus(drive, time))
        BY ReportSound DEF TocRequests
  <2> QED BY <1>1, <1>2, <2>1, <2>2 DEF CommandStatus
<1>3. ASSUME NEW request \in TocRequests, CommandToc(request) PROVE Goal
  <2>1. D!Accessed(drive, Toc(drive, request))
        BY SameCommands DEF D!Accessed
  <2>2. Sound(Toc(drive, request))
        BY ReportSound
  <2> QED BY <1>1, <1>3, <2>1, <2>2 DEF CommandToc
<1>4. ASSUME NEW p \in {"PLAY", "PAUSE"}, CommandSeek(p) PROVE Goal
  <2>1. D!Accessed(drive, Seek(drive, p))
        BY <1>4, SameCommands DEF D!Accessed, CommandSeek
  <2>2. Sound(Seek(drive, p))
        BY CommandSound
  <2> QED BY <1>1, <1>4, <2>1, <2>2 DEF CommandSeek
<1>5. ASSUME CommandStop \/ CommandPause \/ CommandResume \/ CommandUnknown \/ CommandUnsupported
      PROVE  Goal
  <2>1. /\ D!Accessed(drive, StopDrive(drive)) /\ D!Accessed(drive, Pause(drive))
        /\ D!Accessed(drive, Resume(drive)) /\ D!Accessed(drive, Unknown(drive))
        /\ D!Accessed(drive, Unsupported(drive))
        BY SameCommands DEF D!Accessed
  <2>2. /\ Sound(StopDrive(drive)) /\ Sound(Pause(drive)) /\ Sound(Resume(drive))
        /\ Sound(Unknown(drive)) /\ Sound(Unsupported(drive))
        BY CommandSound
  <2> QED BY <1>1, <1>5, <2>1, <2>2
          DEF CommandStop, CommandPause, CommandResume, CommandUnknown, CommandUnsupported
<1>6. ASSUME NEW t \in Targets, StoreTarget(t) PROVE Goal
  <2>1. D!Accessed(drive, [drive EXCEPT !.target = t])
        BY DEF D!Accessed
  <2>2. t \in Int /\ FALSE \in BOOLEAN /\ "NONE" \in Stops
        BY TargetsAssumption DEF Stops
  <2>3. Sound([drive EXCEPT !.target = t])
        BY <2>2, StoreSound
  <2> QED BY <1>1, <1>6, <2>1, <2>3 DEF StoreTarget
<1>7. ASSUME NEW b \in BOOLEAN, StoreAudio(b) \/ StoreHock(b) PROVE Goal
  <2>1. D!Accessed(drive, [drive EXCEPT !.audio = b]) /\ D!Accessed(drive, [drive EXCEPT !.hock = b])
        BY DEF D!Accessed
  <2>2. 0 \in Int /\ "NONE" \in Stops
        BY DEF Stops
  <2>3. Sound([drive EXCEPT !.audio = b]) /\ Sound([drive EXCEPT !.hock = b])
        BY <2>2, StoreSound
  <2> QED BY <1>1, <1>7, <2>1, <2>3 DEF StoreAudio, StoreHock
<1>8. ASSUME NEW d \in BOOLEAN, NEW w \in BOOLEAN, StoreCtrl0(d, w) PROVE Goal
  <2>1. D!Accessed(drive, [drive EXCEPT !.decen = d, !.wrrq = w])
        BY DEF D!Accessed
  <2>2. 0 \in Int /\ "NONE" \in Stops
        BY DEF Stops
  <2>3. Sound([drive EXCEPT !.decen = d, !.wrrq = w])
        BY <2>2, StoreSound
  <2> QED BY <1>1, <1>8, <2>1, <2>3 DEF StoreCtrl0
<1>9. ASSUME AcceptLevel4 PROVE Goal
  <2>1. D!Accessed(drive, [drive EXCEPT !.level4 = FALSE])
        BY DEF D!Accessed
  <2>2. FALSE \in BOOLEAN /\ 0 \in Int /\ "NONE" \in Stops
        BY DEF Stops
  <2>3. Sound([drive EXCEPT !.level4 = FALSE])
        BY <2>2, StoreSound
  <2> QED BY <1>1, <1>9, <2>1, <2>3 DEF AcceptLevel4
<1>10. Commands => Goal
       BY <1>2, <1>3, <1>4, <1>5 DEF Commands
<1>11. Stores => Goal
       BY <1>6, <1>7, <1>8, <1>9 DEF Stores
<1> QED BY <1>10, <1>11 DEF Next, Goal

\* The grid at the moments when the drive is due, and when it is active and not due.
LEMMA GridFacts ==
    ASSUME IInv, Running
    PROVE  /\ togo \in Nat /\ togo > 0 /\ next_tick \in Int /\ next_tick >= -1
           /\ Due => next_tick = 0 /\ togo \in Gaps
           /\ Active(drive) /\ ~Due => next_tick = togo
BY DEF IInv, TypeOK, OnGrid, Due

\* IInv is inductive: one step per kind of action.
LEMMA IInvInductive == IInv /\ [Next]_vars => IInv'
<1> SUFFICES ASSUME IInv, [Next]_vars PROVE IInv'
    OBVIOUS
<1>1. Sound(drive) /\ TypeOK
      BY DEF IInv
<1>2. \A g \in Gaps : g \in Nat /\ g > 0 /\ g \in Nat \ {0}
      BY GapsAssumption
<1>3. ASSUME Time PROVE IInv'
  <2>1. Running /\ ~Due /\ drive' = drive
        BY <1>3 DEF Time
  <2>2. /\ togo \in Nat /\ togo > 0 /\ next_tick \in Int /\ next_tick >= -1
        /\ Active(drive) => next_tick = togo
        BY <2>1, GridFacts
  <2>3. togo' \in Nat \ {0} /\ next_tick' \in Int /\ next_tick' >= -1
        BY <1>2, <1>3, <2>2 DEF Time
  <2>4. Active(drive) => next_tick' = togo' \/ (next_tick' = 0 /\ togo' \in Gaps)
        BY <1>3, <2>2 DEF Time
  <2>5. Active(drive)' = Active(drive) /\ Sound(drive)' /\ (drive \in DriveType)'
        BY <2>1, <1>1 DEF Sound
  <2> QED BY <2>3, <2>4, <2>5 DEF IInv, TypeOK, OnGrid
<1>4. ASSUME DriveEvent PROVE IInv'
  <2>1. Running /\ Due /\ drive' = Tick(drive) /\ togo' = togo
        BY <1>4 DEF DriveEvent
  <2>2. togo \in Nat /\ togo > 0 /\ next_tick = 0
        BY <2>1, GridFacts
  <2>3. next_tick' = togo
        BY <1>4, <2>2 DEF DriveEvent
  <2>4. Sound(drive')
        BY <1>1, <2>1, TickSound
  <2>5. drive' \in DriveType
        BY <2>4 DEF Sound
  <2>6. TypeOK' /\ OnGrid'
        BY <2>1, <2>2, <2>3, <2>5 DEF TypeOK, OnGrid
  <2> QED BY <2>4, <2>6 DEF IInv, Sound
<1>5. ASSUME ResetPeripherals PROVE IInv'
  <2>1. drive' = PeripheralReset(drive) /\ togo' \in Gaps /\ next_tick' = togo'
        BY <1>5 DEF ResetPeripherals
  <2>2. Sound(drive')
        BY <2>1, <1>1, ResetSound
  <2>3. drive' \in DriveType
        BY <2>2 DEF Sound
  <2>4. TypeOK' /\ OnGrid'
        BY <1>2, <2>1, <2>3 DEF TypeOK, OnGrid
  <2> QED BY <2>2, <2>4 DEF IInv, Sound
<1>6. ASSUME NEW x, Access(x), Sound(x) PROVE IInv'
  <2>1. /\ Running /\ ~Due /\ drive' = x /\ togo' = togo
        /\ next_tick' = IF ~Active(drive) /\ Active(x) THEN togo ELSE next_tick
        BY <1>6 DEF Access, Refresh
  <2>2. /\ togo \in Nat /\ togo > 0 /\ next_tick \in Int /\ next_tick >= -1
        /\ Active(drive) => next_tick = togo
        BY <2>1, GridFacts
  <2>3. x \in DriveType
        BY <1>6 DEF Sound
  <2>4. TypeOK'
        BY <2>1, <2>2, <2>3 DEF TypeOK
  <2>5. Active(x) => next_tick' = togo'
        BY <2>1, <2>2
  <2>6. OnGrid'
        BY <2>1, <2>5 DEF OnGrid
  <2>7. Sound(drive')
        BY <1>6, <2>1
  <2> QED BY <2>4, <2>6, <2>7 DEF IInv, Sound
<1>7. ASSUME UNCHANGED vars PROVE IInv'
      BY <1>7 DEF vars, IInv, TypeOK, OnGrid, Sound, Running
<1> QED BY <1>1, <1>3, <1>4, <1>5, <1>6, <1>7, NextCases

\* The machine starts with an idle drive on its grid.
LEMMA InitIInv == Init => IInv
<1> SUFFICES ASSUME Init PROVE IInv
    OBVIOUS
<1>1. Sound(drive) /\ ~Active(drive)
      BY ResetSound DEF Init
<1>2. togo \in Nat \ {0} /\ next_tick = togo
      BY GapsAssumption DEF Init
<1>3. drive \in DriveType
      BY <1>1 DEF Sound
<1> QED BY <1>1, <1>2, <1>3 DEF IInv, TypeOK, OnGrid

\* For any disc, grid and sequence of commands: the lazy schedule never leaves the
\* grid (scd_cdd_refresh), and a run of audio is real and contiguous, so the jump
\* scd_cdda_play counts never happens.
THEOREM CddSafe == Spec => [](TypeOK /\ OnGrid /\ PlayingIsReal /\ NoJump)
<1>1. IInv => TypeOK /\ OnGrid /\ PlayingIsReal /\ NoJump
      BY DEF IInv, Sound, PlayingIsReal, NoJump
<1> QED BY <1>1, InitIInv, IInvInductive, PTL DEF Spec

------------------------------------------------------------------------------
(* Refinement.                                                             *)

\* Every step of the lazy drive is a step of the drive that ticks at every grid
\* point, or none: reaching the grid point of an active drive is none, because the
\* event that follows is that tick; reaching it idle is a tick without effect.
LEMMA StepRefines == IInv /\ IInv' /\ [Next]_vars => [D!Next]_(D!vars)
<1> DEFINE bar == IF Running /\ Due THEN 1 ELSE togo
<1> SUFFICES ASSUME IInv, IInv', [Next]_vars PROVE D!Next \/ (bar' = bar /\ drive' = drive)
    BY DEF D!vars
<1>1. Sound(drive)
      BY DEF IInv
<1>2. \A g \in Gaps : g \in Nat /\ g > 0
      BY GapsAssumption
<1>3. ASSUME Time PROVE D!Next \/ (bar' = bar /\ drive' = drive)
  <2>1. Running /\ ~Due /\ drive' = drive /\ drive.stop = "NONE"
        BY <1>3 DEF Time, Running
  <2>2. /\ togo \in Nat /\ togo > 0 /\ next_tick \in Int /\ next_tick >= -1
        /\ Active(drive) => next_tick = togo
        BY <2>1, GridFacts
  <2>3. bar = togo
        BY <2>1
  <2>4. Running' /\ Active(drive)' = Active(drive)
        BY <2>1 DEF Running
  <2>5. CASE Active(drive) /\ togo = 1
    <3>1. next_tick' = 0
          BY <1>3, <2>2, <2>5 DEF Time
    <3>2. Due'
          BY <2>4, <2>5, <3>1 DEF Due
    <3> QED BY <2>1, <2>3, <2>4, <2>5, <3>2
  <2>6. CASE togo > 1
    <3>1. togo' = togo - 1
          BY <1>3, <2>6 DEF Time
    <3>2. ~Due'
          BY <1>3, <2>2, <2>4, <2>6 DEF Due, Time
    <3>3. bar' = togo - 1
          BY <3>1, <3>2
    <3>4. D!Time
          BY <2>1, <2>3, <2>6, <3>3 DEF D!Time
    <3> QED BY <3>4 DEF D!Next
  <2>7. CASE ~Active(drive) /\ togo = 1
    <3>1. togo' \in Gaps
          BY <1>3, <2>7 DEF Time
    <3>2. ~Due'
          BY <2>4, <2>7 DEF Due
    <3>3. bar' \in Gaps
          BY <3>1, <3>2
    <3>4. drive' = D!Tick(drive)
          BY <1>1, <2>1, <2>7, TickIdle, SameTick
    <3>5. ~(bar > 1)
          BY <2>3, <2>7
    <3>6. D!Time
          BY <2>1, <3>3, <3>4, <3>5, Zenon DEF D!Time
    <3> QED BY <3>6 DEF D!Next
  <2>8. (Active(drive) /\ togo = 1) \/ togo > 1 \/ (~Active(drive) /\ togo = 1)
        BY <2>2
  <2> HIDE DEF bar
  <2> QED BY <2>5, <2>6, <2>7, <2>8
<1>4. ASSUME DriveEvent PROVE D!Next
  <2>1. Running /\ Due /\ drive' = Tick(drive) /\ togo' = togo /\ drive.stop = "NONE"
        BY <1>4 DEF DriveEvent, Running
  <2>2. togo \in Nat /\ togo > 0 /\ next_tick = 0 /\ togo \in Gaps
        BY <2>1, GridFacts
  <2>3. next_tick' = togo
        BY <1>4, <2>2 DEF DriveEvent
  <2>4. ~Due'
        BY <2>2, <2>3 DEF Due
  <2>5. bar = 1 /\ bar' \in Gaps
        BY <2>1, <2>2, <2>4
  <2>6. drive' = D!Tick(drive)
        BY <2>1, SameTick
  <2>7. D!Time
        BY <2>1, <2>5, <2>6 DEF D!Time
  <2> QED BY <2>7 DEF D!Next
<1>5. ASSUME ResetPeripherals PROVE D!Next
  <2>1. /\ Running /\ ~Due /\ drive.stop = "NONE"
        /\ drive' = PeripheralReset(drive) /\ togo' \in Gaps
        BY <1>5 DEF ResetPeripherals, Running
  <2>2. ~Active(drive')
        BY <1>1, <2>1, ResetSound
  <2>3. ~Due'
        BY <2>2 DEF Due
  <2>4. bar' \in Gaps
        BY <2>1, <2>3
  <2>5. drive' = D!PeripheralReset(drive)
        BY <2>1, SameCommands
  <2>6. D!Reset
        BY <2>1, <2>4, <2>5 DEF D!Reset
  <2> QED BY <2>6 DEF D!Next
<1>6. ASSUME NEW x, Access(x), D!Accessed(drive, x) PROVE D!Next
  <2>1. /\ Running /\ ~Due /\ drive' = x /\ togo' = togo /\ drive.stop = "NONE"
        /\ next_tick' = IF ~Active(drive) /\ Active(x) THEN togo ELSE next_tick
        BY <1>6 DEF Access, Refresh, Running
  <2>2. togo \in Nat /\ togo > 0 /\ (Active(drive) => next_tick = togo)
        BY <2>1, GridFacts
  <2>3. Active(x) => next_tick' = togo
        BY <2>1, <2>2
  <2>4. ~Due'
        BY <2>1, <2>2, <2>3 DEF Due
  <2>5. bar = togo /\ bar' = togo
        BY <2>1, <2>4
  <2>6. D!Access
        BY <1>6, <2>1, <2>5 DEF D!Access
  <2> QED BY <2>6 DEF D!Next
<1>7. ASSUME UNCHANGED vars PROVE bar' = bar /\ drive' = drive
      BY <1>7 DEF vars, Running, Due
<1> HIDE DEF bar
<1> QED BY <1>1, <1>3, <1>4, <1>5, <1>6, <1>7, NextCases

\* The initial states of the two drives agree.
LEMMA InitRefines == Init => D!Init
<1> SUFFICES ASSUME Init PROVE D!Init
    OBVIOUS
<1>1. PICK b \in BOOLEAN, e \in BOOLEAN : drive = PowerOn(b, e)
      BY DEF Init
<1>2. ~Active(drive) /\ drive = D!PowerOn(b, e)
      BY <1>1, ResetSound, SameCommands
<1>3. (IF Running /\ Due THEN 1 ELSE togo) \in Gaps
      BY <1>2 DEF Init, Due
<1> QED BY <1>2, <1>3 DEF D!Init

\* Not ticking an idle drive cannot be observed, for any disc, any 75 Hz grid and any
\* program of the sub: the scheduled drive implements the one that ticks at every
\* grid point (scd_devices_next_event, scd_cdd_refresh).
THEOREM CddRefines == Spec => ImplementsDrive
<1>1. Spec => []IInv
      BY InitIInv, IInvInductive, PTL DEF Spec
<1>2. QED
      BY <1>1, InitRefines, StepRefines, PTL DEF Spec, ImplementsDrive, D!Spec

------------------------------------------------------------------------------
(* The head and its track.                                                 *)

\* The disc, in the terms of Count.
LEMMA DiscFacts ==
    /\ Count \in Nat /\ Count > 0
    /\ \A i \in 1..Count : Tracks[i].end \in Nat /\ Tracks[i].end > 0 /\ Tracks[i].first \in Nat
    /\ \A i, j \in 1..Count : i < j => Tracks[i].end <= Tracks[j].first
    /\ \A i \in 1..Count : Tracks[i].first < Tracks[i].end
<1> DEFINE T == [first : Nat, end : Nat \ {0}, audio : BOOLEAN]
<1>1. Tracks \in Seq(T)
      BY TracksAssumption
<1>2. ASSUME NEW t \in T PROVE t.end \in Nat /\ t.end > 0 /\ t.first \in Nat
      OBVIOUS
<1> HIDE DEF T
<1>3. Len(Tracks) \in Nat /\ \A i \in 1..Len(Tracks) : Tracks[i] \in T
      BY <1>1
<1> QED BY <1>2, <1>3, TracksAssumption DEF Count

\* The tracks that end at or before a position are the first ones, as many as
\* TrackOf counts: tracks are in the order of the disc.
LEMMA TracksBefore ==
    ASSUME NEW l \in Int
    PROVE  /\ TrackOf(l) \in 0..Count
           /\ \A i \in 1..Count : Tracks[i].end <= l <=> i <= TrackOf(l)
<1> DEFINE S == {i \in 1..Count : Tracks[i].end <= l}
           k == TrackOf(l)
<1>1. Count \in Nat /\ k \in Nat
      BY DiscFacts, TrackOfNat
<1>2. \A i, j \in 1..Count : i <= j /\ Tracks[j].end <= l => Tracks[i].end <= l
  <2> SUFFICES ASSUME NEW i \in 1..Count, NEW j \in 1..Count, i <= j, Tracks[j].end <= l
               PROVE  Tracks[i].end <= l
      OBVIOUS
  <2>1. CASE i = j
        BY <2>1
  <2>2. CASE i < j
    <3>1. Tracks[i].end <= Tracks[j].first /\ Tracks[j].first < Tracks[j].end
          BY DiscFacts, <2>2
    <3>2. Tracks[i].end \in Nat /\ Tracks[j].first \in Nat /\ Tracks[j].end \in Nat
          BY DiscFacts
    <3> QED BY <3>1, <3>2
  <2> QED BY <1>1, <2>1, <2>2
<1>3. IsFiniteSet(1..Count) /\ Cardinality(1..Count) = Count
      BY <1>1, CardOfInterval
<1>4. S \in SUBSET (1..Count)
      OBVIOUS
<1>5. IsFiniteSet(S) /\ Cardinality(S) = k /\ k <= Count
      BY <1>3, <1>4, FS_Subset DEF TrackOf
<1>6. ASSUME NEW j \in S PROVE j <= k
  <2>1. j \in Nat /\ j > 0 /\ j \in 1..Count
        BY <1>1
  <2>2. (1..j) \in SUBSET S
        BY <1>1, <1>2, <2>1
  <2>3. Cardinality(1..j) <= Cardinality(S)
        BY <1>5, <2>2, FS_Subset
  <2>4. Cardinality(1..j) = j
        BY <2>1, CardOfInterval
  <2> QED BY <1>5, <2>1, <2>3, <2>4
<1>7. S \in SUBSET (1..k)
      BY <1>1, <1>6
<1>8. IsFiniteSet(1..k) /\ Cardinality(1..k) = k
      BY <1>1, CardOfInterval
<1>9. S = 1..k
      BY <1>5, <1>7, <1>8, FS_Subset
<1>10. \A i \in 1..Count : Tracks[i].end <= l <=> i <= k
      BY <1>1, <1>9
<1> QED BY <1>1, <1>5, <1>10

\* The converse: a number that separates the tracks is the track.
LEMMA TrackIs ==
    ASSUME NEW l \in Int, NEW n \in 0..Count,
           \A i \in 1..Count : Tracks[i].end <= l <=> i <= n
    PROVE  TrackOf(l) = n
<1>1. Count \in Nat /\ n \in Nat
      BY DiscFacts
<1>2. {i \in 1..Count : Tracks[i].end <= l} = 1..n
      BY <1>1
<1>3. Cardinality(1..n) = n
      BY <1>1, CardOfInterval
<1> QED BY <1>2, <1>3 DEF TrackOf

\* The first block belongs to the first track.
LEMMA TrackOfZero == TrackOf(0) = 0
<1>1. Count \in Nat /\ 0 \in 0..Count /\ 0 \in Int
      BY DiscFacts
<1>2. \A i \in 1..Count : Tracks[i].end <= 0 <=> i <= 0
      BY <1>1, DiscFacts
<1> QED BY <1>1, <1>2, TrackIs

\* The head is in its track.
InTrack(x) == x.index = TrackOf(x.lba)

\* One block on: the same track, or at its end the next one, never two.
LEMMA NextBlock ==
    ASSUME NEW l \in Int, TrackOf(l) < Count
    PROVE  TrackOf(l + 1) = IF l + 1 >= Tracks[TrackOf(l) + 1].end
                            THEN TrackOf(l) + 1 ELSE TrackOf(l)
<1> DEFINE k == TrackOf(l)
           n == IF l + 1 >= Tracks[k + 1].end THEN k + 1 ELSE k
<1>1. /\ Count \in Nat /\ k \in 0..Count /\ k < Count
      /\ \A i \in 1..Count : Tracks[i].end <= l <=> i <= k
  <2>1. k \in 0..Count /\ \A i \in 1..Count : Tracks[i].end <= l <=> i <= k
        BY TracksBefore
  <2> QED BY <2>1, DiscFacts
<1> HIDE DEF k
<1>2. k + 1 \in 1..Count /\ n \in 0..Count /\ Tracks[k + 1].end > l
      BY <1>1, DiscFacts
<1>3. ASSUME NEW i \in 1..Count PROVE Tracks[i].end <= l + 1 <=> i <= n
  <2>1. CASE i <= k
        BY <1>1, DiscFacts, <2>1
  <2>2. CASE i = k + 1
        BY <1>1, DiscFacts, <2>2
  <2>3. CASE i > k + 1
    <3>1. Tracks[k + 1].end <= Tracks[i].first /\ Tracks[i].first < Tracks[i].end
          BY DiscFacts, <1>1, <1>2, <2>3
    <3>2. Tracks[i].end > l + 1
          BY DiscFacts, <1>2, <3>1
    <3> QED BY <1>1, DiscFacts, <2>3, <3>2
  <2> QED BY <1>1, <2>1, <2>2, <2>3
<1>4. l + 1 \in Int
      OBVIOUS
<1> HIDE DEF n
<1>5. TrackOf(l + 1) = n
      BY <1>2, <1>3, <1>4, TrackIs
<1> QED BY <1>5 DEF k, n

\* Of the commands only stop moves the head.
LEMMA AccessInTrack ==
    ASSUME NEW x \in DriveType, InTrack(x), NEW y, D!Accessed(x, y)
    PROVE  InTrack(y)
<1>1. ASSUME NEW z \in DriveType, NEW b, NEW s
      PROVE  LET Same(u) == u.lba = z.lba /\ u.index = z.index
             IN  Same([z EXCEPT !.seeking = b]) /\ Same([z EXCEPT !.playing = b])
                 /\ Same([z EXCEPT !.stop = s])
      BY DEF DriveType
<1> DEFINE q == Interrupt(x)
<1>2. q \in DriveType /\ q.lba = x.lba /\ q.index = x.index
      BY <1>1, InterruptQuiet DEF Interrupt
<1> HIDE DEF q
<1>3. ASSUME y.lba = x.lba, y.index = x.index PROVE InTrack(y)
      BY <1>3 DEF InTrack
<1>4. ASSUME NEW z \in DriveType, NEW b \in BOOLEAN
      PROVE  [z EXCEPT !.seeking = b] \in DriveType
      BY DEF DriveType
<1>5. ASSUME NEW time \in BOOLEAN, y = D!DriveStatus(x, time) PROVE InTrack(y)
  <2> DEFINE z == [x EXCEPT !.seeking = FALSE]
  <2>1. z \in DriveType /\ z.lba = x.lba /\ z.index = x.index
        BY <1>1, <1>4
  <2>2. y = x \/ y = z \/ y = ReportTime(z)
        BY <1>5, SameCommands DEF DriveStatus
  <2> HIDE DEF z
  <2>3. ReportTime(z).lba = x.lba /\ ReportTime(z).index = x.index
        BY <1>1, <2>1 DEF ReportTime
  <2> QED BY <1>3, <2>1, <2>2, <2>3
<1>6. ASSUME NEW request \in TocRequests, y = D!Toc(x, request) PROVE InTrack(y)
  <2> DEFINE z == [x EXCEPT !.seeking = FALSE]
             w == [x EXCEPT !.seeking = FALSE, !.stop = "CDD_COMMAND_UNSUPPORTED"]
  <2>1. z \in DriveType /\ z.lba = x.lba /\ z.index = x.index
        BY <1>1, <1>4
  <2>2. w.lba = x.lba /\ w.index = x.index
        BY DEF DriveType
  <2>3. y = x \/ y = z \/ y = ReportTime(z) \/ y = w
        BY <1>6, SameCommands DEF Toc, TocRequests
  <2> HIDE DEF z, w
  <2>4. ReportTime(z).lba = x.lba /\ ReportTime(z).index = x.index
        BY <1>1, <2>1 DEF ReportTime
  <2> QED BY <1>3, <2>1, <2>2, <2>3, <2>4
<1>7. ASSUME NEW p \in {"PLAY", "PAUSE"}, y = D!Seek(x, p) PROVE InTrack(y)
  <2>1. y = [q EXCEPT !.seeking = TRUE, !.pending = p]
        BY <1>7, SameCommands DEF Seek, q
  <2> QED BY <1>2, <1>3, <2>1 DEF DriveType
<1>8. ASSUME y = D!StopDrive(x) PROVE InTrack(y)
  <2>1. y = [q EXCEPT !.status = "TOC", !.audio = FALSE, !.seeking = FALSE,
                       !.index = 0, !.lba = 0]
        BY <1>8, SameCommands DEF StopDrive, q
  <2>2. ASSUME NEW s, NEW a, NEW k, NEW i, NEW l
        PROVE  LET u == [q EXCEPT !.status = s, !.audio = a, !.seeking = k, !.index = i, !.lba = l]
               IN  u.lba = l /\ u.index = i
        BY <1>2 DEF DriveType
  <2>3. y.lba = 0 /\ y.index = 0
        BY <2>1, <2>2
  <2> QED BY <2>3, TrackOfZero DEF InTrack
<1>9. ASSUME y = D!Pause(x) PROVE InTrack(y)
  <2>1. y = [q EXCEPT !.audio = FALSE, !.status = "PAUSE", !.seeking = FALSE]
        BY <1>9, SameCommands DEF Pause, q
  <2> QED BY <1>2, <1>3, <2>1 DEF DriveType
<1>10. ASSUME y = D!Resume(x) PROVE InTrack(y)
  <2>1. y = [x EXCEPT !.status = "PLAY", !.seeking = FALSE]
        BY <1>10, SameCommands DEF Resume
  <2> QED BY <1>3, <2>1 DEF DriveType
<1>11. ASSUME y = D!Unknown(x) PROVE InTrack(y)
       BY <1>3, <1>11, SameCommands DEF Unknown, DriveType
<1>12. ASSUME y = D!Unsupported(x) PROVE InTrack(y)
       BY <1>3, <1>12, SameCommands DEF Unsupported, DriveType
<1>13. ASSUME NEW t \in Targets, y = [x EXCEPT !.target = t] PROVE InTrack(y)
       BY <1>3, <1>13 DEF DriveType
<1>14. ASSUME NEW b \in BOOLEAN, y = [x EXCEPT !.audio = b] PROVE InTrack(y)
       BY <1>3, <1>14 DEF DriveType
<1>15. ASSUME NEW b \in BOOLEAN, y = [x EXCEPT !.hock = b] PROVE InTrack(y)
       BY <1>3, <1>15 DEF DriveType
<1>16. ASSUME NEW d \in BOOLEAN, NEW w \in BOOLEAN, y = [x EXCEPT !.decen = d, !.wrrq = w]
       PROVE  InTrack(y)
       BY <1>3, <1>16 DEF DriveType
<1>17. ASSUME y = [x EXCEPT !.level4 = FALSE] PROVE InTrack(y)
       BY <1>3, <1>17 DEF DriveType
<1>18. D!TocRequests = TocRequests
       BY SameCommands
<1> HIDE DEF InTrack
<1> QED BY <1>5, <1>6, <1>7, <1>8, <1>9, <1>10, <1>11, <1>12, <1>13, <1>14, <1>15, <1>16,
           <1>17, <1>18, Zenon DEF D!Accessed

\* The block the head moves on to is in the track the drive goes on in.
LEMMA MoveOnInTrack ==
    ASSUME NEW x \in DriveType, InTrack(x), OnDisc(x)
    PROVE  InTrack(MoveOn(x))
<1>1. x.lba \in Int /\ x.index \in Nat /\ x.index = TrackOf(x.lba) /\ TrackOf(x.lba) < Count
      BY DEF DriveType, InTrack, OnDisc
<1>2. ASSUME NEW l, NEW i, NEW a
      PROVE  LET u == [x EXCEPT !.lba = l, !.index = i, !.audio = a]
                 v == [x EXCEPT !.lba = l]
             IN  u.lba = l /\ u.index = i /\ v.lba = l /\ v.index = x.index
      BY DEF DriveType
<1>3. /\ MoveOn(x).lba = x.lba + 1
      /\ MoveOn(x).index = IF x.lba + 1 >= Tracks[x.index + 1].end THEN x.index + 1 ELSE x.index
      BY <1>2 DEF MoveOn, Track
<1>4. TrackOf(x.lba + 1) = IF x.lba + 1 >= Tracks[x.index + 1].end THEN x.index + 1 ELSE x.index
      BY <1>1, NextBlock
<1> QED BY <1>3, <1>4 DEF InTrack

\* Interrupting, decoding and producing a block of audio leave the head where it is.
LEMMA HeadStays ==
    ASSUME NEW x \in DriveType, NEW n
    PROVE  /\ Silent(x).lba = x.lba /\ Silent(x).index = x.index
           /\ Decode(x).lba = x.lba /\ Decode(x).index = x.index
           /\ PlayAudio(x).lba = x.lba /\ PlayAudio(x).index = x.index
           /\ [x EXCEPT !.latency = n].lba = x.lba /\ [x EXCEPT !.latency = n].index = x.index
           /\ [x EXCEPT !.status = n].lba = x.lba /\ [x EXCEPT !.status = n].index = x.index
           /\ [x EXCEPT !.stop = n].lba = x.lba /\ [x EXCEPT !.stop = n].index = x.index
           /\ [x EXCEPT !.level4 = n].lba = x.lba /\ [x EXCEPT !.level4 = n].index = x.index
<1>1. ASSUME NEW b, NEW c, NEW d
      PROVE  LET Same(u) == u.lba = x.lba /\ u.index = x.index
             IN  /\ Same([x EXCEPT !.playing = b]) /\ Same([x EXCEPT !.stop = b])
                 /\ Same([x EXCEPT !.latency = b]) /\ Same([x EXCEPT !.status = b])
                 /\ Same([x EXCEPT !.level4 = b])
                 /\ Same([x EXCEPT !.audio = b, !.playing = c, !.next_lba = d])
      BY DEF DriveType
<1>2. Silent(x).lba = x.lba /\ Silent(x).index = x.index
      BY <1>1 DEF Silent, Interrupt
<1>3. Decode(x).lba = x.lba /\ Decode(x).index = x.index
      BY <1>1 DEF Decode
<1>4. PlayAudio(x).lba = x.lba /\ PlayAudio(x).index = x.index
  <2> DEFINE heard == x.lba >= Track(x).first
             play  == heard /\ x.pending = "NONE"
             A == x.audio \/ heard
             P == IF x.enabled THEN play ELSE x.playing
             N == IF x.enabled /\ play THEN x.lba + 1 ELSE x.next_lba
  <2>1. PlayAudio(x) = [x EXCEPT !.audio = A, !.playing = P, !.next_lba = N]
        BY DEF PlayAudio
  <2> HIDE DEF A, P, N
  <2> QED BY <1>1, <2>1
<1> QED BY <1>1, <1>2, <1>3, <1>4

\* A block of audio keeps the types.
LEMMA PlayAudioType == ASSUME NEW x \in DriveType PROVE PlayAudio(x) \in DriveType
<1> DEFINE heard == x.lba >= Track(x).first
           play  == heard /\ x.pending = "NONE"
           A == x.audio \/ heard
           P == IF x.enabled THEN play ELSE x.playing
           N == IF x.enabled /\ play THEN x.lba + 1 ELSE x.next_lba
<1>1. x.lba \in Int /\ x.next_lba \in Int /\ x.audio \in BOOLEAN /\ x.playing \in BOOLEAN
      BY DEF DriveType
<1>2. heard \in BOOLEAN /\ play \in BOOLEAN /\ x.lba + 1 \in Int
      BY <1>1
<1>3. A \in BOOLEAN /\ P \in BOOLEAN /\ N \in Int
      BY <1>1, <1>2, Zenon
<1>4. PlayAudio(x) = [x EXCEPT !.audio = A, !.playing = P, !.next_lba = N]
      BY DEF PlayAudio
<1> HIDE DEF A, P, N
<1> QED BY <1>3, <1>4 DEF DriveType

\* Whatever the drive does at a tick, the head stays in its track.
LEMMA HeadStepInTrack ==
    ASSUME NEW x, Sound(x), InTrack(x)
    PROVE  InTrack(HeadStep(x))
<1> DEFINE q == Silent(x)
<1>1. x \in DriveType /\ q \in DriveType /\ x.latency \in Nat
      BY SilentQuiet DEF Sound, DriveType
<1>2. q.lba = x.lba /\ q.index = x.index
      BY <1>1, HeadStays
<1>3. InTrack(q) /\ (OnDisc(x) => OnDisc(q))
      BY <1>2 DEF InTrack, OnDisc
<1> HIDE DEF q
<1>4. CASE x.latency > 0
  <2> DEFINE n == q.latency - 1
             r == [q EXCEPT !.latency = n]
  <2>1. q.latency = x.latency
        BY <1>1 DEF q, Silent, Interrupt, DriveType
  <2>2. n \in Nat
        BY <2>1, <1>1, <1>4
  <2>3. ASSUME NEW k \in Nat PROVE [q EXCEPT !.latency = k] \in DriveType
        BY <1>1 DEF DriveType
  <2>4. HeadStep(x) = Decode(r)
        BY <1>1, <1>4 DEF HeadStep, q
  <2>5. r \in DriveType /\ r.lba = q.lba /\ r.index = q.index
        BY <1>1, <2>2, <2>3, HeadStays
  <2> HIDE DEF r
  <2>6. Decode(r).lba = r.lba /\ Decode(r).index = r.index
        BY <2>5, HeadStays
  <2> QED BY <1>3, <2>4, <2>5, <2>6 DEF InTrack
<1>5. CASE x.latency = 0 /\ x.status # "PLAY"
  <2>1. HeadStep(x) = Decode(q)
        BY <1>5 DEF HeadStep, q
  <2>2. Decode(q).lba = q.lba /\ Decode(q).index = q.index
        BY <1>1, HeadStays
  <2> QED BY <1>3, <2>1, <2>2 DEF InTrack
<1>6. CASE x.latency = 0 /\ x.status = "PLAY" /\ ~OnDisc(x)
  <2>1. HeadStep(x) = [q EXCEPT !.status = "END"]
        BY <1>6 DEF HeadStep, q
  <2>2. HeadStep(x).lba = q.lba /\ HeadStep(x).index = q.index
        BY <1>1, <2>1, HeadStays
  <2> QED BY <1>3, <2>2 DEF InTrack
<1>7. CASE x.latency = 0 /\ x.status = "PLAY" /\ OnDisc(x) /\ Track(x).audio
  <2> DEFINE y == PlayAudio(x)
             w == [x EXCEPT !.stop = "CD_READ_AUDIO_TRACK"]
  <2>1. HeadStep(x) = MoveOn(y) \/ HeadStep(x) = w
        BY <1>7 DEF HeadStep
  <2>2. y.lba = x.lba /\ y.index = x.index /\ w.lba = x.lba /\ w.index = x.index
        BY <1>1, HeadStays
  <2>3. y \in DriveType
        BY <1>1, PlayAudioType
  <2> HIDE DEF y, w
  <2>4. InTrack(y) /\ OnDisc(y) /\ InTrack(w)
        BY <1>7, <2>2 DEF InTrack, OnDisc
  <2> QED BY <2>1, <2>3, <2>4, MoveOnInTrack
<1>8. CASE x.latency = 0 /\ x.status = "PLAY" /\ OnDisc(x) /\ ~Track(x).audio
  <2>1. HeadStep(x) = Decode(q) \/ HeadStep(x) = MoveOn(q)
        BY <1>8 DEF HeadStep, q
  <2>2. Decode(q).lba = q.lba /\ Decode(q).index = q.index
        BY <1>1, HeadStays
  <2>3. InTrack(Decode(q))
        BY <1>3, <2>2 DEF InTrack
  <2> QED BY <1>1, <1>3, <1>8, <2>1, <2>3, MoveOnInTrack
<1> QED BY <1>1, <1>4, <1>5, <1>6, <1>7, <1>8

\* A tick leaves the head in its track: it moves on within the order of the tracks,
\* or to a target whose track is looked up.
LEMMA TickInTrack ==
    ASSUME NEW x, Sound(x), InTrack(x)
    PROVE  InTrack(Tick(x))
<1> DEFINE y == HeadStep(x)
           z == TakePending(y)
<1>1. Sound(y) /\ InTrack(y)
      BY HeadStepSound, HeadStepInTrack
<1> HIDE DEF y
<1>2. Sound(z)
      BY <1>1, TakePendingSound
<1>3. y \in DriveType /\ z \in DriveType
      BY <1>1, <1>2 DEF Sound
<1>4. InTrack(z)
  <2>1. CASE y.pending = "NONE"
        BY <1>1, <2>1 DEF TakePending
  <2>2. CASE y.pending # "NONE"
    <3>1. ASSUME NEW n, NEW l, NEW i, NEW a, NEW s, NEW p
          PROVE  LET u == [y EXCEPT !.latency = n, !.lba = l, !.index = i, !.audio = a,
                                    !.status = s, !.pending = p]
                 IN  u.lba = l /\ u.index = i
          BY <1>3 DEF DriveType
    <3>2. z.lba = y.target /\ z.index = TrackOf(y.target)
          BY <2>2, <3>1 DEF TakePending
    <3> QED BY <3>2 DEF InTrack
  <2> QED BY <2>1, <2>2
<1> HIDE DEF z
<1>5. ASSUME NEW u \in DriveType, InTrack(u) PROVE InTrack(RaiseHock(u))
      BY <1>5, HeadStays DEF RaiseHock, InTrack
<1>6. Tick(x) = y \/ Tick(x) = RaiseHock(y) \/ Tick(x) = RaiseHock(z)
      BY DEF Tick, y, z
<1> QED BY <1>1, <1>3, <1>4, <1>5, <1>6

\* For any disc whose tracks are in order, through seeks to any position, play over
\* track ends, stops and resets: the track of the drive is the one the head is in.
THEOREM HeadInTrack == Spec => []TrackFollowsHead
<1>1. Init => TrackFollowsHead
      BY TrackOfZero DEF Init, PowerOn, TrackFollowsHead
<1>2. IInv /\ TrackFollowsHead /\ [Next]_vars => TrackFollowsHead'
  <2> SUFFICES ASSUME IInv, TrackFollowsHead, [Next]_vars PROVE InTrack(drive')
      BY DEF TrackFollowsHead, InTrack
  <2>1. Sound(drive) /\ InTrack(drive) /\ drive \in DriveType
        BY DEF IInv, TrackFollowsHead, InTrack, Sound
  <2>2. ASSUME Time \/ UNCHANGED vars PROVE InTrack(drive')
        BY <2>1, <2>2 DEF Time, vars
  <2>3. ASSUME DriveEvent PROVE InTrack(drive')
        BY <2>1, <2>3, TickInTrack DEF DriveEvent
  <2>4. ASSUME ResetPeripherals PROVE InTrack(drive')
    <3>1. drive'.lba = 0 /\ drive'.index = 0
          BY <2>4 DEF ResetPeripherals, PeripheralReset, PowerOn
    <3> QED BY <3>1, TrackOfZero DEF InTrack
  <2>5. ASSUME NEW x, Access(x), D!Accessed(drive, x) PROVE InTrack(drive')
        BY <2>1, <2>5, AccessInTrack DEF Access
  <2> QED BY <2>1, <2>2, <2>3, <2>4, <2>5, NextCases
<1> QED BY <1>1, <1>2, InitIInv, IInvInductive, PTL DEF Spec

------------------------------------------------------------------------------
(* The ledger of the blocks that were read.                                *)

\* The inductive invariant; its three parts need each other's types only.
LedgerIInv == LedgerTypeOK /\ OnlyWhatWasRead /\ NothingLost

\* Extending a range by the block after it keeps the ledger right.
LEMMA ExtendKeeps ==
    ASSUME LedgerIInv, NEW lba \in Blocks, NEW i \in 1..Len(delivered),
           Extends(lba, delivered[i]),
           read' = read \cup {lba}, UNCHANGED overflow,
           delivered' = [delivered EXCEPT ![i].count = @ + 1]
    PROVE  LedgerIInv'
<1> USE BlocksAssumption
<1>1. /\ delivered \in Seq(BlockRange) /\ Len(delivered) <= LedgerMax /\ Len(delivered) \in Nat
      /\ \A j \in 1..Len(delivered) : delivered[j] \in BlockRange
      BY DEF LedgerIInv, LedgerTypeOK
<1>2. delivered[i] \in BlockRange /\ delivered[i].count \in Nat /\ delivered[i].first_lba \in Nat
      BY <1>1 DEF BlockRange
<1> DEFINE r == [delivered[i] EXCEPT !.count = @ + 1]
<1>3. r \in BlockRange /\ r.first_lba = delivered[i].first_lba /\ r.count = delivered[i].count + 1
      BY <1>2 DEF BlockRange
<1>4. delivered' = [delivered EXCEPT ![i] = r]
      OBVIOUS
<1> HIDE DEF r
<1>5. /\ delivered' \in Seq(BlockRange) /\ Len(delivered') = Len(delivered)
      /\ delivered'[i] = r
      /\ \A j \in 1..Len(delivered) : j # i => delivered'[j] = delivered[j]
      BY <1>1, <1>3, <1>4
<1>6. LedgerTypeOK'
      BY <1>1, <1>5 DEF LedgerIInv, LedgerTypeOK
<1>7. OnlyWhatWasRead'
  <2>1. SUFFICES ASSUME NEW j \in 1..Len(delivered), NEW k \in 0..(delivered'[j].count - 1)
                 PROVE  delivered'[j].first_lba + k \in read'
        BY <1>5 DEF OnlyWhatWasRead
  <2>2. CASE j # i
        BY <2>1, <2>2, <1>5 DEF LedgerIInv, OnlyWhatWasRead
  <2>3. CASE j = i /\ k < delivered[i].count
    <3>1. k \in 0..(delivered[i].count - 1)
          BY <2>3, <1>2, <1>3, <1>5
    <3>2. delivered[i].first_lba + k \in read
          BY <3>1 DEF LedgerIInv, OnlyWhatWasRead
    <3> QED BY <3>2, <2>3, <1>3, <1>5
  <2>4. CASE j = i /\ k >= delivered[i].count
    <3>1. k = delivered[i].count
          BY <2>4, <1>2, <1>3, <1>5
    <3> QED BY <3>1, <2>4, <1>3, <1>5 DEF Extends
  <2> QED BY <2>2, <2>3, <2>4, <1>2, <1>3, <1>5
<1>8. NothingLost'
  <2>1. SUFFICES ASSUME ~overflow, NEW b \in read'
                 PROVE  Delivered(b)'
        BY DEF NothingLost
  <2>2. CASE b = lba
    <3>1. Within(lba, r)
          BY <1>2, <1>3 DEF Extends, Within
    <3> QED BY <3>1, <2>2, <1>5 DEF Delivered
  <2>3. CASE b \in read
    <3>1. PICK j \in 1..Len(delivered) : Within(b, delivered[j])
          BY <2>1, <2>3 DEF LedgerIInv, NothingLost, Delivered
    <3>2. CASE j # i
          BY <3>1, <3>2, <1>5 DEF Delivered
    <3>3. CASE j = i
      <4>1. b \in Nat
            BY <2>3 DEF LedgerIInv, LedgerTypeOK
      <4>2. Within(b, r)
            BY <3>1, <3>3, <4>1, <1>2, <1>3 DEF Within
      <4> QED BY <4>2, <3>3, <1>5 DEF Delivered
    <3> QED BY <3>2, <3>3
  <2> QED BY <2>1, <2>2, <2>3
<1> QED BY <1>6, <1>7, <1>8 DEF LedgerIInv

\* So does a block that no range takes, with a full list too.
LEMMA AppendKeeps ==
    ASSUME LedgerIInv, NEW lba \in Blocks, AppendRange(lba), read' = read \cup {lba}
    PROVE  LedgerIInv'
<1> USE BlocksAssumption, LedgerMaxAssumption
<1>1. /\ delivered \in Seq(BlockRange) /\ Len(delivered) <= LedgerMax /\ Len(delivered) \in Nat
      /\ overflow \in BOOLEAN /\ read \subseteq Nat /\ lba \in Nat
      BY DEF LedgerIInv, LedgerTypeOK
<1>2. CASE Len(delivered) >= LedgerMax
  <2>1. overflow' = TRUE /\ UNCHANGED delivered
        BY <1>2 DEF AppendRange
  <2>2. LedgerTypeOK' /\ NothingLost'
        BY <2>1, <1>1 DEF LedgerTypeOK, NothingLost
  <2>3. OnlyWhatWasRead'
        BY <2>1, <1>1 DEF LedgerIInv, OnlyWhatWasRead
  <2> QED BY <2>2, <2>3 DEF LedgerIInv
<1>3. CASE ~(Len(delivered) >= LedgerMax)
  <2> DEFINE r == [first_lba |-> lba, count |-> 1]
  <2>1. delivered' = Append(delivered, r) /\ UNCHANGED overflow
        BY <1>3 DEF AppendRange
  <2>2. r \in BlockRange /\ r.first_lba = lba /\ r.count = 1
        BY <1>1 DEF BlockRange
  <2> HIDE DEF r
  <2>3. /\ delivered' \in Seq(BlockRange) /\ Len(delivered') = Len(delivered) + 1
        /\ delivered'[Len(delivered) + 1] = r
        /\ \A j \in 1..Len(delivered) : delivered'[j] = delivered[j]
        BY <2>1, <2>2, <1>1
  <2>4. LedgerTypeOK'
        BY <2>1, <2>3, <1>1, <1>3 DEF LedgerTypeOK
  <2>5. OnlyWhatWasRead'
    <3>1. SUFFICES ASSUME NEW j \in 1..(Len(delivered) + 1),
                          NEW k \in 0..(delivered'[j].count - 1)
                   PROVE  delivered'[j].first_lba + k \in read'
          BY <2>3 DEF OnlyWhatWasRead
    <3>2. CASE j = Len(delivered) + 1
      <4>1. k = 0
            BY <3>2, <2>2, <2>3
      <4> QED BY <4>1, <3>2, <2>2, <2>3, <1>1
    <3>3. CASE j # Len(delivered) + 1
      <4>1. j \in 1..Len(delivered)
            BY <3>3, <1>1
      <4> QED BY <4>1, <2>3 DEF LedgerIInv, OnlyWhatWasRead
    <3> QED BY <3>2, <3>3
  <2>6. NothingLost'
    <3>1. SUFFICES ASSUME ~overflow, NEW b \in read'
                   PROVE  Delivered(b)'
          BY <2>1 DEF NothingLost
    <3>2. CASE b = lba
      <4>1. Within(lba, r)
            BY <2>2, <1>1 DEF Within
      <4> QED BY <4>1, <3>2, <2>3, <1>1 DEF Delivered
    <3>3. CASE b \in read
      <4>1. PICK j \in 1..Len(delivered) : Within(b, delivered[j])
            BY <3>1, <3>3 DEF LedgerIInv, NothingLost, Delivered
      <4> QED BY <4>1, <2>3, <1>1 DEF Delivered
    <3> QED BY <3>1, <3>2, <3>3
  <2> QED BY <2>4, <2>5, <2>6 DEF LedgerIInv
<1> QED BY <1>2, <1>3

\* One read keeps the ledger right.
LEMMA NoteKeeps == ASSUME LedgerIInv, NEW lba \in Blocks, Note(lba) PROVE LedgerIInv'
<1>1. CASE Hits(lba) = {} /\ AppendRange(lba)
      BY <1>1, AppendKeeps DEF Note
<1>2. ASSUME NEW i \in Hits(lba),
             delivered' = IF Within(lba, delivered[i]) THEN delivered
                          ELSE [delivered EXCEPT ![i].count = @ + 1],
             UNCHANGED overflow
      PROVE  LedgerIInv'
  <2>1. i \in 1..Len(delivered) /\ (Within(lba, delivered[i]) \/ Extends(lba, delivered[i]))
        BY <1>2 DEF Hits, Recent
  <2>2. read' = read \cup {lba}
        BY DEF Note
  <2>3. CASE Within(lba, delivered[i])
    <3>1. UNCHANGED delivered
          BY <1>2, <2>3
    <3>2. LedgerTypeOK'
          BY <1>2, <2>2, <3>1, BlocksAssumption DEF LedgerIInv, LedgerTypeOK
    <3>3. OnlyWhatWasRead'
          BY <2>2, <3>1 DEF LedgerIInv, OnlyWhatWasRead
    <3>4. NothingLost'
          BY <1>2, <2>1, <2>2, <2>3, <3>1 DEF LedgerIInv, NothingLost, Delivered
    <3> QED BY <3>2, <3>3, <3>4 DEF LedgerIInv
  <2>4. CASE ~Within(lba, delivered[i])
        BY <1>2, <2>1, <2>2, <2>4, ExtendKeeps
  <2> QED BY <2>3, <2>4
<1> QED BY <1>1, <1>2 DEF Note

\* For any disc, list length and look-back: the ledger holds nothing that was not
\* read, and everything that was unless it reports an overflow (scd_ledger_note).
THEOREM LedgerRight == LedgerSpec => [](LedgerTypeOK /\ OnlyWhatWasRead /\ NothingLost)
<1>1. LedgerInit => LedgerIInv
  <2>1. SUFFICES ASSUME LedgerInit PROVE LedgerIInv
        OBVIOUS
  <2>2. delivered = <<>> /\ Len(delivered) = 0 /\ delivered \in Seq(BlockRange)
        BY <2>1 DEF LedgerInit
  <2>3. overflow = FALSE /\ read = {}
        BY <2>1 DEF LedgerInit
  <2>4. LedgerTypeOK
    <3>1. Len(delivered) <= LedgerMax
          BY <2>2, LedgerMaxAssumption
    <3>2. overflow \in BOOLEAN /\ read \subseteq Nat
          BY <2>3
    <3> QED BY <2>2, <3>1, <3>2, Zenon DEF LedgerTypeOK
  <2>5. OnlyWhatWasRead
        BY <2>2 DEF OnlyWhatWasRead
  <2>6. NothingLost
        BY <2>3 DEF NothingLost
  <2> QED BY <2>4, <2>5, <2>6 DEF LedgerIInv
<1>2. LedgerIInv /\ [LedgerNext]_ledger => LedgerIInv'
  <2>1. ASSUME LedgerIInv, UNCHANGED ledger PROVE LedgerIInv'
        BY <2>1 DEF LedgerIInv, LedgerTypeOK, OnlyWhatWasRead, NothingLost, Delivered, ledger
  <2>2. ASSUME LedgerIInv, LedgerNext PROVE LedgerIInv'
        BY <2>2, NoteKeeps DEF LedgerNext
  <2> QED BY <2>1, <2>2
<1>3. LedgerIInv => LedgerTypeOK /\ OnlyWhatWasRead /\ NothingLost
      BY DEF LedgerIInv
<1> QED BY <1>1, <1>2, <1>3, PTL DEF LedgerSpec

\* Every sector of the ledger was read by the program (scd_ledger_note).
THEOREM LedgerHonest == LedgerSpec => []OnlyWhatWasRead
  BY LedgerRight, PTL
==============================================================================
