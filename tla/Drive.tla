-------------------------------- MODULE Drive --------------------------------
(***************************************************************************)
(* What the drive promises: it ticks at every point of its 75 Hz grid,     *)
(* whether or not it has anything to do, and between two ticks the sub may *)
(* access its registers.  There is no scheduled event here and nothing     *)
(* that could be scheduled wrongly.                                        *)
(***************************************************************************)
EXTENDS CddOps

VARIABLES
    togo,  \* the time from now to the next grid point, at least 1
    drive  \* the drive (CddOps)

vars == <<togo, drive>>

Init ==
    /\ togo \in Gaps
    /\ drive \in {PowerOn(bios, enabled) : bios, enabled \in BOOLEAN}

\* Time passes; at a grid point the drive ticks.
Time ==
    /\ drive.stop = "NONE"
    /\ IF togo > 1 THEN togo' = togo - 1 /\ UNCHANGED drive
                   ELSE togo' \in Gaps /\ drive' = Tick(drive)

\* One access of the sub to a register of the drive or the decoder, or an accepted
\* level 4, makes y of the drive x.
Accessed(x, y) ==
    \/ \E time \in BOOLEAN : y = DriveStatus(x, time)
    \/ \E request \in TocRequests : y = Toc(x, request)
    \/ \E status \in {"PLAY", "PAUSE"} : x.latency <= MaxLatency /\ y = Seek(x, status)
    \/ y = StopDrive(x)
    \/ y = Pause(x)
    \/ y = Resume(x)
    \/ y = Unknown(x)
    \/ y = Unsupported(x)
    \/ \E t \in Targets : y = [x EXCEPT !.target = t]
    \/ \E a \in BOOLEAN : y = [x EXCEPT !.audio = a]
    \/ \E h \in BOOLEAN : y = [x EXCEPT !.hock = h]
    \/ \E d, w \in BOOLEAN : y = [x EXCEPT !.decen = d, !.wrrq = w]
    \/ y = [x EXCEPT !.level4 = FALSE]

Access ==
    /\ drive.stop = "NONE"
    /\ Accessed(drive, drive')
    /\ UNCHANGED togo

\* The peripheral reset also restarts the grid.
Reset ==
    /\ drive.stop = "NONE"
    /\ drive' = PeripheralReset(drive)
    /\ togo' \in Gaps

Next == Time \/ Access \/ Reset

Spec == Init /\ [][Next]_vars
==============================================================================
