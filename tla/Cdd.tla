--------------------------------- MODULE Cdd ---------------------------------
(***************************************************************************)
(* The drive as the machine schedules it (scd_cd.c).  A drive that has     *)
(* nothing to do is not ticked: scd_devices_next_event skips it, and       *)
(* cdd.next_tick grows old.  When an access of the sub makes the drive     *)
(* active again, scd_cdd_refresh moves next_tick to the first grid point   *)
(* after the present instruction.                                          *)
(*                                                                         *)
(* next_tick is kept relative to m->now: 0 is due, and -1 stands for any   *)
(* tick that is past.                                                      *)
(***************************************************************************)
EXTENDS CddOps

VARIABLES
    togo,      \* scd_cdd_grid_after(now) - now: the grid itself
    next_tick, \* cdd.next_tick - now
    drive      \* the drive (CddOps)

vars == <<togo, next_tick, drive>>

\* scd_cdd_anchor(0).
Init ==
    /\ togo \in Gaps
    /\ next_tick = togo
    /\ drive \in {PowerOn(bios, enabled) : bios, enabled \in BOOLEAN}

Running == drive.stop = "NONE"
Due     == Active(drive) /\ next_tick <= 0

\* The clock moves on; never past an event that is due.
Time ==
    /\ Running /\ ~Due
    /\ IF togo > 1 THEN togo' = togo - 1 ELSE togo' \in Gaps
    /\ next_tick' = IF next_tick > -1 THEN next_tick - 1 ELSE -1
    /\ UNCHANGED drive

\* scd_devices_advance: the next tick is the grid point after this one.  A tick
\* that is already past would be followed by one that is not in the future.
DriveEvent ==
    /\ Running /\ Due
    /\ next_tick' = IF next_tick = 0 THEN togo ELSE 0
    /\ drive' = Tick(drive)
    /\ UNCHANGED togo

------------------------------------------------------------------------------
(* The sub (scd_ga_sub_access).                                            *)

\* Mutant: the old next tick is used.
Refresh_Dropped(x) == UNCHANGED next_tick

\* scd_cdd_refresh.
Refresh(x) == next_tick' = IF ~Active(drive) /\ Active(x) THEN togo ELSE next_tick

\* The access leaves the drive as x.
Access(x) ==
    /\ Running /\ ~Due
    /\ drive' = x
    /\ Refresh(x)
    /\ UNCHANGED togo

CommandStatus(time) == Access(DriveStatus(drive, time))
CommandStop         == Access(StopDrive(drive))
CommandToc(request) == Access(Toc(drive, request))
CommandSeek(status) == drive.latency <= MaxLatency /\ Access(Seek(drive, status))
CommandPause        == Access(Pause(drive))
CommandResume       == Access(Resume(drive))
CommandUnknown      == Access(Unknown(drive))
CommandUnsupported  == Access(Unsupported(drive))

\* $FF8044-$FF8049 (TX2-TX7), $FF8036, $FF8037.
StoreTarget(t) == Access([drive EXCEPT !.target = t])
StoreAudio(a)  == Access([drive EXCEPT !.audio = a])
StoreHock(h)   == Access([drive EXCEPT !.hock = h])

\* CTRL0 of the CDC, and its reset: DECEN and WRRQ.
StoreCtrl0(d, w) == Access([drive EXCEPT !.decen = d, !.wrrq = w])

\* The sub accepts level 4.
AcceptLevel4 == drive.level4 /\ Access([drive EXCEPT !.level4 = FALSE])

\* $FF8001 with RES0 = 0: the grid is anchored at the present tick.
ResetPeripherals ==
    /\ Running /\ ~Due
    /\ drive' = PeripheralReset(drive)
    /\ togo' \in Gaps
    /\ next_tick' = togo'

Commands ==
    \/ \E time \in BOOLEAN : CommandStatus(time)
    \/ CommandStop
    \/ \E request \in TocRequests : CommandToc(request)
    \/ \E status \in {"PLAY", "PAUSE"} : CommandSeek(status)
    \/ CommandPause
    \/ CommandResume
    \/ CommandUnknown
    \/ CommandUnsupported

Stores ==
    \/ \E t \in Targets : StoreTarget(t)
    \/ \E on \in BOOLEAN : StoreAudio(on) \/ StoreHock(on)
    \/ \E d, w \in BOOLEAN : StoreCtrl0(d, w)
    \/ AcceptLevel4

Next == Time \/ DriveEvent \/ Commands \/ Stores \/ ResetPeripherals

Spec == Init /\ [][Next]_vars

\* Every instruction takes time, and scd_machine_run processes an event that is due
\* before anything else: the clock goes on.  Nothing is assumed of the program.
FairSpec == Spec /\ WF_vars(Time) /\ WF_vars(DriveEvent)

------------------------------------------------------------------------------
(* Properties.                                                             *)

\* The state has its types (ScdCdd, ScdCdda and the Gate Array's drive control).
TypeOK ==
    /\ togo \in Nat \ {0}
    /\ next_tick \in Int /\ next_tick >= -1
    /\ drive \in DriveType

\* The lazy schedule is the grid: whenever the drive is active its next tick is the
\* next grid point, or the one just reached, however long it was idle and whatever
\* register made it active (scd_cdd_refresh).
OnGrid == Running /\ Active(drive) =>
              next_tick = togo \/ (next_tick = 0 /\ togo \in Gaps)

\* The track is the one the head is in, through seeks to any position, play over
\* track ends, stops and resets (cdd.index and cdd.lba are set in four places).
TrackFollowsHead == drive.index = TrackOf(drive.lba)

\* A run of audio is in progress only while the drive plays, with no seek pending
\* or under way: every command and every tick that ends playing also ends the run
\* (scd_cdda_interrupt is called from seven places).
PlayingIsReal ==
    drive.playing => drive.status = "PLAY" /\ drive.pending = "NONE" /\ drive.latency = 0

\* A run of audio is contiguous: the next block is the one after the last, so the
\* discontinuity scd_cdda_play counts inside a run never happens.
NoJump == drive.playing => drive.next_lba = drive.lba

D == INSTANCE Drive WITH togo <- IF Running /\ Due THEN 1 ELSE togo

\* Not ticking an idle drive cannot be seen (contract section 8: "a tick with
\* nothing to do ... has no effect"): the machine's drive implements the one of
\* module Drive, which ticks at every grid point.
ImplementsDrive == D!Spec

\* A play or seek is carried out, whatever commands follow it, if the head is on the
\* disc (past the end, a program that resumes before every tick can keep it waiting).
SeekIsTaken ==
    (drive.pending # "NONE" /\ OnDisc(drive)) ~> (drive.pending = "NONE" \/ ~Running)

==============================================================================
