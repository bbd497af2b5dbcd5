------------------------------- MODULE CddOps --------------------------------
(***************************************************************************)
(* The CD drive of the Sega CD machine (scd_cd.c) with the audio it plays  *)
(* (scd_cdda.c): what a command and what one 75 Hz tick do to it.          *)
(*                                                                         *)
(* Operators only, on a record of the drive.  "index" counts tracks from   *)
(* 0, as in the code.  "target" is the position in the command registers   *)
(* TX2-TX7, which the sub may rewrite at any time; "audio" is the control  *)
(* byte $FF8036 = 0; "playing" and "next_lba" are the run of audio sectors *)
(* in progress.  Of the status registers RS0-RS9 only whether RS0 reports   *)
(* SEEK ("seeking") is kept: the rest are digits.                           *)
(***************************************************************************)
EXTENDS Integers, Sequences, FiniteSets

CONSTANTS
    Tracks,        \* the disc: first, end (the block after the last), audio
    Targets,       \* the positions the sub writes into TX2-TX7
    PowerOnTarget, \* the position TX2-TX7 = $FF stand for
    BaseLatency,   \* SCD_CDD_BASE_LATENCY
    SeekDiv,       \* blocks of distance per tick of latency: 270000 / 120
    MaxLba,        \* the last position whose time has two digits of minutes
    Gaps,          \* the distances between two points of the 75 Hz grid
    MaxLatency     \* bound: no further play or seek is sent above this latency

ASSUME TracksAssumption ==
    /\ Tracks \in Seq([first : Nat, end : Nat \ {0}, audio : BOOLEAN])
    /\ Len(Tracks) > 0
    /\ \A i, j \in 1..Len(Tracks) : i < j => Tracks[i].end <= Tracks[j].first
    /\ \A i \in 1..Len(Tracks) : Tracks[i].first < Tracks[i].end
ASSUME TargetsAssumption == Targets \subseteq Int /\ PowerOnTarget \in Int
ASSUME LatencyAssumption == BaseLatency \in Nat \ {0} /\ SeekDiv \in Nat \ {0}
ASSUME MaxLbaAssumption  == MaxLba \in Int
ASSUME GapsAssumption    == Gaps \subseteq Nat \ {0} /\ Gaps # {}
ASSUME MaxLatencyAssumption == MaxLatency \in Nat

Count == Len(Tracks)

Statuses == {"TOC", "PLAY", "PAUSE", "END"}
Stops    == {"NONE", "CDD_COMMAND_UNSUPPORTED", "CD_READ_AUDIO_TRACK", "CD_READ_FAILED"}

DriveType ==
    [ bios : BOOLEAN, enabled : BOOLEAN, status : Statuses,
      pending : {"NONE", "PLAY", "PAUSE"}, latency : Nat, lba : Int, index : Nat,
      audio : BOOLEAN, hock : BOOLEAN, decen : BOOLEAN, wrrq : BOOLEAN,
      target : Int, seeking : BOOLEAN, playing : BOOLEAN, next_lba : Int,
      level4 : BOOLEAN, stop : Stops ]

\* scd_devices_power_on; bios and enabled (cdda.enabled) are the host's choice.
PowerOn(bios, enabled) ==
    [ bios |-> bios, enabled |-> enabled, status |-> "TOC", pending |-> "NONE",
      latency |-> 0, lba |-> 0, index |-> 0, audio |-> FALSE, hock |-> FALSE,
      decen |-> FALSE, wrrq |-> FALSE, target |-> PowerOnTarget, seeking |-> FALSE,
      playing |-> FALSE, next_lba |-> 0, level4 |-> FALSE, stop |-> "NONE" ]

\* scd_peripheral_reset: the drive, its registers, the decoder, what is pending.
PeripheralReset(x) ==
    [PowerOn(x.bios, x.enabled) EXCEPT !.next_lba = x.next_lba]

\* Mutant: a command that is pending does not keep the drive ticking.
Active_NotPending(x) == x.hock \/ x.latency > 0 \/ x.status = "PLAY" \/ x.decen

\* scd_cdd_active.
Active(x) ==
    x.hock \/ x.pending # "NONE" \/ x.latency > 0 \/ x.status = "PLAY" \/ x.decen

\* The track a position belongs to: the first that ends after it.
TrackOf(lba) == Cardinality({i \in 1..Count : Tracks[i].end <= lba})

------------------------------------------------------------------------------
(* Commands: the word write to $FF804A (scd_cdd_command).                  *)

\* scd_cdda_interrupt.
Interrupt(x) == [x EXCEPT !.playing = FALSE]

\* A time of more than 99 minutes cannot be reported: a typed stop.
ReportTime(x) ==
    IF x.lba > MaxLba THEN [x EXCEPT !.stop = "CDD_COMMAND_UNSUPPORTED"] ELSE x

\* Command 0.  RS1, which selects what is reported, is left out: any of time and
\* track number.
DriveStatus(x, time) ==
    IF x.latency > 3 THEN x
    ELSE IF time /\ x.status \in {"PLAY", "PAUSE"}
         THEN ReportTime([x EXCEPT !.seeking = FALSE])
         ELSE [x EXCEPT !.seeking = FALSE]

\* Mutant: the track is left where it was.
StopDrive_KeepsTrack(x) ==
    [Interrupt(x) EXCEPT !.status = "TOC", !.audio = FALSE, !.seeking = FALSE, !.lba = 0]

\* Command 1; a pending play and the latency are kept.
StopDrive(x) ==
    [Interrupt(x) EXCEPT !.status = "TOC", !.audio = FALSE, !.seeking = FALSE,
                         !.index = 0, !.lba = 0]

\* Command 2: the TOC request in TX3 is a time, a track that is not on the disc,
\* unknown, or any other.
TocRequests == {"time", "no track", "unknown", "other"}

Toc(x, request) ==
    CASE request = "unknown"  -> x
      [] request = "time"     -> ReportTime([x EXCEPT !.seeking = FALSE])
      [] request = "no track" -> [x EXCEPT !.seeking = FALSE,
                                           !.stop = "CDD_COMMAND_UNSUPPORTED"]
      [] request = "other"    -> [x EXCEPT !.seeking = FALSE]

\* Commands 3 (play) and 4 (seek, then pause): they take effect at a tick.
Seek(x, status) == [Interrupt(x) EXCEPT !.seeking = TRUE, !.pending = status]

\* Commands 6 (pause) and $A (track jump).
Pause(x) == [Interrupt(x) EXCEPT !.audio = FALSE, !.status = "PAUSE", !.seeking = FALSE]

\* Command 7.
Resume(x) == [x EXCEPT !.status = "PLAY", !.seeking = FALSE]

\* Commands 5, $B, $E and $F.
Unknown(x) == [x EXCEPT !.seeking = FALSE]

\* Scan and tray commands: a typed stop.
Unsupported(x) == [x EXCEPT !.stop = "CDD_COMMAND_UNSUPPORTED"]

------------------------------------------------------------------------------
(* The 75 Hz tick (scd_cdd_tick).                                          *)

OnDisc(x)  == x.index < Count
Track(x)   == Tracks[x.index + 1]

\* scd_cdc_decode reads the block under the head, sought or played, when it is
\* told to write: a block outside every track is a read failure.
Readable(lba) == \E i \in 1..Count : ~Tracks[i].audio /\ Tracks[i].first <= lba /\ lba < Tracks[i].end

DecodeFails(x) ==
    x.decen /\ x.wrrq /\ OnDisc(x) /\ ~Track(x).audio /\ x.lba >= 0 /\ ~Readable(x.lba)

Decode(x) == IF DecodeFails(x) THEN [x EXCEPT !.stop = "CD_READ_FAILED"] ELSE x

\* scd_cdda_silent_tick.
Silent(x) == IF x.enabled THEN Interrupt(x) ELSE x

\* The head moves on by a block, and into the next track at the end of one.
MoveOn(x) ==
    IF x.lba + 1 >= Track(x).end
    THEN [x EXCEPT !.lba = @ + 1, !.index = @ + 1, !.audio = FALSE]
    ELSE [x EXCEPT !.lba = @ + 1]

\* Mutant: the run expects the block it has just played.
PlayAudio_SameBlock(x) ==
    LET heard == x.lba >= Track(x).first
        play  == heard /\ x.pending = "NONE"
    IN  [x EXCEPT !.audio    = @ \/ heard,
                  !.playing  = IF x.enabled THEN play ELSE @,
                  !.next_lba = IF x.enabled /\ play THEN x.lba ELSE @]

\* The block of an audio track: heard from the start of the track, unless a
\* command is pending (scd_cdda_play, scd_cdda_interrupt).
PlayAudio(x) ==
    LET heard == x.lba >= Track(x).first
        play  == heard /\ x.pending = "NONE"
    IN  [x EXCEPT !.audio    = @ \/ heard,
                  !.playing  = IF x.enabled THEN play ELSE @,
                  !.next_lba = IF x.enabled /\ play THEN x.lba + 1 ELSE @]

\* What the drive does at the tick before it looks at a pending command.
HeadStep(x) ==
    CASE x.latency > 0 -> Decode([Silent(x) EXCEPT !.latency = @ - 1])
      [] x.latency = 0 /\ x.status # "PLAY" -> Decode(Silent(x))
      [] x.latency = 0 /\ x.status = "PLAY" /\ ~OnDisc(x) ->
            [Silent(x) EXCEPT !.status = "END"]
      [] x.latency = 0 /\ x.status = "PLAY" /\ OnDisc(x) /\ Track(x).audio ->
            IF x.bios THEN MoveOn(PlayAudio(x)) ELSE [x EXCEPT !.stop = "CD_READ_AUDIO_TRACK"]
      [] x.latency = 0 /\ x.status = "PLAY" /\ OnDisc(x) /\ ~Track(x).audio ->
            IF DecodeFails(x) THEN Decode(Silent(x)) ELSE MoveOn(Silent(x))

\* The tick that finds the end of the disc does not look at a pending command.
FindsEnd(x) == x.latency = 0 /\ x.status = "PLAY" /\ ~OnDisc(x)

Distance(a, b) == IF a < b THEN b - a ELSE a - b

\* A pending play or seek starts, from TX2-TX7 as they are now.  A latency that is
\* still running is kept and added to.
TakePending(x) ==
    IF x.pending = "NONE" THEN x
    ELSE [x EXCEPT !.latency = (IF @ = 0 THEN BaseLatency ELSE @)
                                 + Distance(x.target, x.lba) \div SeekDiv,
                   !.lba = x.target, !.index = TrackOf(x.target), !.audio = FALSE,
                   !.status = x.pending, !.pending = "NONE"]

RaiseHock(x) == IF x.hock THEN [x EXCEPT !.level4 = TRUE] ELSE x

Tick(x) ==
    LET y == HeadStep(x)
    IN  IF y.stop # "NONE" THEN y
        ELSE RaiseHock(IF FindsEnd(x) THEN y ELSE TakePending(y))
==============================================================================
