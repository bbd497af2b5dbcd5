# Formal models of segarecomp

segarecomp translates console programs to C and runs the result on a runtime that
reproduces the machine; a launcher builds, keeps and runs such programs. These modules
are about the parts that keep state and have to get an order of events right:

- the **Sega CD machine** (`src/platforms/sega-cd/runtime/`): two 68000 processors, a
  256 KiB memory they pass to each other, and devices that write that memory and
  interrupt the sub processor; and the code views that decide which compiled code may
  run where the program has loaded code into RAM;
- the **Genesis machine** (`src/platforms/genesis/runtime/`): one 68000 that keeps the
  clock, the Z80 that follows it, the scanline interrupts and STOP;
- **static discovery** (`src/libs/cpu/m68k/`, `src/platforms/genesis/machine/`): which
  instructions of a cartridge the generated program holds, from bounded walks that
  depend on one another;
- the **launcher** (`src/apps/segarecomp-launcher/`): threads, child processes, folders
  that are written, renamed and removed, and a user who may do anything meanwhile.

The reference is the code. The contracts under `src/docs/architecture/` and the decision
records say what it is meant to do; where the two disagree the model follows the code and
section 7 says so.

Each runtime is one thread. What makes it hard is not preemption but **lazy
evaluation**. A device is not stepped: it keeps the tick its work is counted from and is
brought up to date when somebody looks (`scd_cd_observe`, `scd_cdc_dma_sync`,
`scd_gfx_sync`, `scd_cdc_decoder_period_check`, `genesis_z80_sync`). Every handler has to
sync before it changes what the device depends on, and two programs may call the handlers
in any order at all. The launcher is concurrent in the ordinary sense: what a worker
found out from a copy of the catalog is used many frames later.

## 1. Inventory

| Component | State | Operations | Interacts with | What makes it correct |
|---|---|---|---|---|
| Word RAM hand-over (`scd_word_ram.c`) | MODE, RET, DMNA, `dmna_int`, `sub_wait` | mode writes of main and sub, accesses of both | halts and resumes the CDC writer, halts the ASIC, holds the sub | one owner per bank, every wait can be ended, no device stores into what main owns |
| CDC data transfer (`scd_cd.c`) | DBC, destination, `dma_state`, `dma_target`, `dma_base`, EDT/DSR | DTRG, $FF8004, IFCTRL, host reads, resets, sync, completion event | stores into Word RAM, requests level 5 | the words that land depend on time only; no transfer goes on after its end |
| CDC interrupt (`scd_cd.c`) | IFSTAT, IFCTRL, `irq`, `decoder_end` | transfer end, decode, acknowledge, enables | level 5 of the sub | the line is what the flags say |
| Graphics ASIC (`scd_gfx.c`) | busy, line counter, base tick | start, live counter, sync, completion | reads and writes Word RAM, level 1 | no event in the past; stands still while main owns Word RAM |
| Gate Array reset control (`scd_gate_array.c`) | SRES, SBRQ, `sub_halted`, `prg_window` | $A12001 | sub's HALT, PRG RAM window | a bus grant that is read is real |
| Runnable epoch (`scd_bios.c`) | `sub_pristine`, reset vectors | first moment the sub can run | reset control, PRG RAM | only an admitted image runs |
| Sub interrupts, STOP, idle (`scd_machine.c`) | enables, pending, IFL2, mask, STOP | requests, acceptance, STOP, idle verdict | every device, scheduler | no interrupt is lost by ending the run; the run ends when it should |
| Scheduler (`scd_machine.c`) | clock, ready times | events, instructions, abandoned instruction | everything | events before instructions, at their tick |
| CD drive (`scd_cd.c`) | status, pending command, LBA, track, latency, next tick | commands, register stores, 75 Hz tick, reset | CDC decoder, CD-DA, level 4 | the tick of an idle drive can be left out unseen; a seek is carried out; the track is the one the head is in |
| CD-DA (`scd_cdda.c`), PCM (`scd_pcm.c`) | the run in progress, fader, channels | play, interrupt, register writes | drive, PCM RAM | audio only from real, contiguous play |
| Code views (`scd_overlay.c`, `scd_dynamic.c`) | selected overlay, stale candidate, dirty granules; bindings of relocatable images | note of a store, of a view change, of a delivered block; dispatch, computed jump | every store of a processor or the CDC, the ledger | code runs only where the live bytes are its image |
| Input (`scd_input.c`) | live pads, record | transition, replay | viewer, clock | a replay repeats the record |
| Disc and ledger (`scd_disc.c`, `scd_cd.c`) | open disc, ledger of sectors read | read, note | drive, dynamic code (`scd_dynamic.c`) | a sector that was read is in the ledger or overflow is reported, and no other is |
| Main interrupts, VDP (`scd_vdp*.c`, `scd_machine.c`) | V-int and H-int requests, delay | register writes, acknowledge | main's STOP | an interrupt waits exactly one instruction |
| Genesis scheduler (`genesis/runtime/runtime.c`) | master clock, scanline, H counter and latch, V latch, SR mask, STOP | retirement of an instruction, interrupt entry, the wait of a stopped 68000 | Z80, VDP registers | an enabled interrupt wakes the 68000; no wait that nothing can end |
| Sound Z80 (`z80_machine.c`, `z80_runtime.h`, `z80/scd_z80.c`) | its cycle counter and base tick, BUSREQ and RESET latches, bound image, fault | run up to the clock, bus writes, sound RAM writes, image epochs | the 68000's accesses, the INT pulse | how often it is synchronized cannot be seen |
| Static discovery (`static_discovery.cpp`, `frontend.cpp`) | worklist, decoded instructions, frontiers of a walk; admitted, continuation and control roots; merged instructions, edges and issues | walk from a root, admission round, synthesis round, merge, supersession of issues | offline inventory, vectors, later code generation | nothing reachable is lost by cutting the program up, and no path ends unreported |
| A build (`launcher_core.cpp`, `process_tree.cpp`) | flags read by two threads, the process tree, `.partial`, `.old`, `.failed` | worker steps, cancel, crash | file system, build tool | what is published is whole, what was published is kept, a cancel ends the job |
| Launcher (`app*.cpp`, `storage.cpp`) | catalog, guard, one build, one game, one cleanup, scans, queue | user actions, the polls of a frame, workers | `BuildJob`, folders | no cleanup under a build or game; queued work is done |

The other parts of the repository (decoders, C generation, disc and ROM formats, the
Master System runtime, viewer, command line tool) are listed in `PROJECT.json` with the
reason they are left out; see section 9.

The hard behaviours, each with its line, are the `hazards` of `PROJECT.json`. In
short: orders of two programs' register writes nobody tested (mode changes around a
transfer, requests kept through 1M mode, a bus release after a reset); a base tick
that is old when it is used; state that is kept twice (SBRQ and the window, IFSTAT
and `irq`, DMNA and its latch); an abort that ends one half of a transfer; a wait
nobody can end; the idle verdict, which has to be neither too early (an interrupt
is cut off) nor never (the run hangs); a check of code that is old when the code runs; a
processor run in pieces whose ends it overshoots; a cancel between any two steps of a
thread; a crash between two renames; plans made from reports that are out of date; and
fixed points whose steps were taken with boundaries that are gone in the end.

## 2. Modules

| Module | Models | Extends / instance |
|---|---|---|
| `LazyWriters` | CDC transfer and ASIC as operators on records | - |
| `WordRam` | mode register, Word RAM accesses, both writers, time | `LazyWriters`; instance of `HandOff` |
| `HandOff` | abstract hand-over protocol | - |
| `SubControl` | reset control, PRG-RAM window, runnable epoch | - |
| `CdcInt` | interrupt output of the CDC as operators | - |
| `Interrupts` | sub interrupts, sources, STOP, idle, end of the run | `CdcInt` |
| `CddOps` | the drive and its run of audio as operators on a record | - |
| `Drive` | abstract drive that ticks at every grid point | `CddOps` |
| `Cdd` | the drive with its lazy schedule | `CddOps`; instance of `Drive` |
| `Ledger` | the bounded ledger of blocks read | - |
| `CodeViews` | overlays and dynamic code images over live memory | - |
| `Z80Machine` | the sound processor as operators on a record | - |
| `SoundCpu` | abstract Z80 that runs along with the clock | `Z80Machine` |
| `Genesis` | 68000 clock, scanlines, interrupts, STOP, sound accesses | `Z80Machine`; instance of `SoundCpu` |
| `Walker` | one bounded walk of the control flow graph as operators | - |
| `Discovery` | admission, synthesis, merge and supersession over the walks | `Walker` |
| `BuildJob` | one build: worker, cancel, process tree, folders, crash | - |
| `Launcher` | the jobs of the user interface and the busy guard | - |
| `WordRamProofs`, `InterruptsProofs`, `CddProofs` (also for `Ledger`), `CodeViewsProofs` (also for `SubControl`), `GenesisProofs`, `DiscoveryProofs`, `BuildJobProofs`, `LauncherProofs` | theorems | their module and `TLAPS` |
| `MCWordRam`, `MCSubControl`, `MCInterrupts`, `MCCdd`, `MCLedger`, `MCCodeViews`, `MCGenesis`, `MCDiscovery`, `MCBuildJob`, `MCLauncher` | roots of the TLC runs | their module |

`PROJECT.json` (`map`) gives the lines of every definition. Names follow the code.

### LazyWriters

A transfer is a record of the `ScdCdc` fields that decide where words go and when.
Absolute ticks become ages: `age` is `m->now` minus the base tick, so a base set to
now is an age of 0, and a base moved on by *n* ticks an age less *n* (a negative age
is a base ahead of the clock, which the code's rounding to whole bytes produces).
`DmaSync` is the arithmetic of `scd_cdc_dma_sync` in full: bytes owed rounded up,
groups rounded down, completion when the count is exceeded. `done` counts the words
that landed at each place; words for a place the current mode does not have are
`"lost"`, as the code drops them. The bytes themselves, the DMA address and the
buffer are data and not modelled. An operation of the ASIC is its busy flag, its live
counter and its age; rendering is a count of lines.

### WordRam

One action per register access or Word RAM access of either processor, per device
event, and per tick of time. `CpuStep` is the scheduler's rule: no instruction while
an event is due. `MainModeWrite` and `SubModeWrite` are the two write handlers, the
latter with one operator per outcome. A typed stop (`scd_stop`) sets `stop` and ends
the run. `SubWordRamAccess` is the withheld DTACK: the scheduler abandons the
instruction and sets `sub_wait`; in this module an instruction makes one access.
`DevicesAdvance` has the scheduler's clock in it: a completion that is already past is
processed at *its* tick, so the ASIC is brought up to that tick and not to the present.

Left out: the PRG bank bits, the overlays' note of a view change, the priority-mode
bits' effect on data, and the reset control (its halts only remove behaviours here).

### HandOff

Owners of the two banks, whether main has asked, whether the sub waits, and seven
actions. The mapping of `WordRam` computes `owner` from MODE and RET, `requested`
from the latch and `waiting` from `sub_wait`. The DMNA bit has no counterpart: the
refinement says that what is visible of the register never depends on it.

### SubControl

`ResetControl` is all of `scd_ga_reset_control`, in its order: stop levels clear on
the rising edge of SRES, HALT follows, SBRQ reads back 0 for a stopped sub, and the
window follows the readback **only if** the hold state changed. Then the profile: the
synthetic one takes the vectors at the edge, the BIOS-image one at the first runnable
moment, after looking PRG RAM up among the admitted images. An image is an identity:
the digest is modelled as what it stands for, equality of contents. PRG RAM changes to
any image at a store of either processor, a stacked exception frame included.

### CdcInt and Interrupts

`asserted` are the flags that are low in IFSTAT, `ifctrl` the enables, `irq` the
code's own copy of what drives the line. Whether the decoder period is over is a
Boolean that time changes in an action of its own; nothing happens to the flags until
somebody looks, as in the code.

`Interrupts` has `ga.ie`, `ga.pending`, IFL2, both processors' STOP, the sub's mask and
hold state, the sources, and `ended`. Device ticks are abstracted: an armed event may
happen at any moment. `Idle`, `MaxWakeLevel` and `CanRaise` are the three functions
behind the verdict; `RunEnds` is the branch of `scd_machine_run` with no ready processor.
A drive tick with neither HOCK nor DECEN changes nothing here and is left out: a drive
that only plays comes to the end of the disc. `MainWakes` stands for the VDP in the
BIOS-image profile. A behaviour belongs to one of the `Profiles`: the sources that are
there, the masks the sub uses, and whether it is the BIOS-image profile. Typed stops are
not in this module. A writer's target is not tracked: the sub's mode write halts a
running writer or leaves it (a bank writer).

### CddOps, Drive and Cdd

The drive is one record. `CddOps` has an operator for what each command of
`scd_cdd_command` does to it and `Tick` for `scd_cdd_tick`: `HeadStep` is the part
before the pending command is looked at, with one case per branch of the code,
`TakePending` the start of a play or seek from TX2-TX7 as they are at that tick,
`RaiseHock` the level 4 request. `playing` and `next_lba` are the two fields of
`ScdCdda` that say whether a run of audio is in progress and which block continues it;
`enabled` and `bios` are chosen once and for all at power-on. A read that fails
because the block belongs to no data track is a typed stop, like a play of an audio
track in the synthetic profile, a time of more than 99 minutes and the commands the
profile does not know. The track-relative time fails only where the absolute one does
and is covered by the choice of reporting no time at all.

`Cdd` adds the schedule. Time is relative: `togo` is the distance to the next point of
the 75 Hz grid, `next_tick` that of `cdd.next_tick`, and -1 any tick that is past. The
grid is a sequence of gaps from the set `Gaps`; in the BIOS-image profile it is
irregular (whole video lines), which is why `Gaps` has more than one member. An access
of the sub is `Access`, which is `scd_ga_sub_access` with its `scd_cdd_refresh`.
`Drive` is the same drive without a schedule: it ticks at every grid point.

Left out: the digits in RS1-RS9 and stores of the sub into RS0-RS9, failures of the
disc file, samples, fader and mix, and the formula of `scd_cdd_grid_after`.

### Ledger

`Note` is `scd_ledger_note`, the newest of the ranges looked at that holds the block or
ends just before it. The variable `read` is a history the code does not keep: the
blocks that were read.

### CodeViews

A program carries overlays (several compiled images for one range of addresses) or
dynamic images (found in memory by their contents). Neither compares memory at every
instruction: both remember what they saw equal and are told of stores. Cells stand for
bytes, digests for the cells they are made of, a granule is a few cells. `Dispatched` is
the path of an instruction fetch through `scd_overlay.c`: revalidation over the dirty
granules, a fresh selection, the typed stops; `Resolved` the one through `scd_dynamic.c`:
search for an anchor, extension to a run, installation or eviction of a binding,
comparison of the granules an instruction lies in. A store of the CDC is first `owed` and
lands when somebody looks, as in `LazyWriters`; a dispatch observes first.

One bank is enough: a bank switch is a hide, stores and a show. The classes into which
`scd_overlay_classify` sorts a refused image are one, `image_unknown`; the block of the
anchor itself is not asked for in the ledger, as in `scd_dyn_search_anchor`; the bound
`SCD_DYN_MAX_CANDIDATES`, an unreadable disc and the relocation arithmetic of
`scd_reloc.c` are left out.

### Z80Machine, SoundCpu and Genesis

`z.lead` is the Z80's own time (`cycle_base_master_ticks` plus cycles) minus the 68000's
clock; the clock is kept within the frame, so the state is finite. `RunTo` is
`genesis_z80_machine_run_to`: segments between edges of the INT line, and in a segment
`Boundary`, which is `z80_boundary` (accept INT, account a halted Z80 to the deadline,
or run the owner of the program counter behind its live guard). `BusWritten` is
`genesis_z80_bus_write` with `hook_bus_event`: latches, reset at release, image epoch,
re-arming, the time of a resume, the hold window. The options the Sega CD sets are
`profile`. A Z80 program is a few one-byte instructions that stand for the classes that
matter: one with a visible effect, EI with its deferral, HALT, one that latches a stop.

`Genesis` is the 68000's side: accesses to the sound domain, which synchronize first, and
`Retire`, which is the scheduler in its order: clock, Z80 when a quantum has passed,
scanlines, onset of the vertical blank, level, admission. The entry of an interrupt and
every scanline of a wait are steps of their own. `SoundCpu` is the same Z80, one
instruction after the other, sampling the INT line at each; `Genesis` is shown to
implement it under the mapping that catches the follower up.

Left out: the device ports and the banked window of the Z80 (but for an access that
latches a stop), VDP memories and picture, DMA, pads and save memory. The program of a
run is busy with the sound processor *or* with interrupts (the named bound `Programs`):
the first keeps interrupts masked, the second leaves the Z80 in reset.

### Walker and Discovery

`Walker` is `M68kStaticGraphWalker`: the worklist, the visited addresses, the decode
cache, the instructions kept, the accepted branch targets, the three sets that say how an
address was reached, the two frontiers of a cut walk, the deferred computed jumps and the
issues, first one first. An image says what an instruction that starts at each word would
be: its kind (with the outcome of decoding and of the operand checks), its length, its
target, and for a computed jump which instruction must have been decoded for the value
analysis to prove the target. One address stands for every odd or unmapped one.

`Discovery` is the part of `discover_m68k_general_startup` that drives the walks. `phase` is
where it is, `todo` the roots left in the round (taken in the order `Before`), `w` the
walk in progress, and a step is one address of the worklist, or one deferred jump that is
tried again (`VisitNext`). `ProbeCandidate` and `AdmissionRound` are the
admission of the proposals of the offline inventory, with removals applied at the end of
a round; `InspectRoot` and `SynthesisRound` raise roots where walks are cut, up to
`UnitCeiling`; `MergeSeed` and `MergeIrq` walk every root again and merge the result, with
the issues of mere proposals dropped; `Supersede` drops the issues at instructions
another root holds and promotes a new primary issue; the secondary issues are a set, so
any of those that can become the primary one may. `Reached` is the reference: what direct
control flow reaches, from the image alone, as a closure. The level 6 vector is read twice
and not in the same way, so it is two variables: `irq`, the handler to merge, is the word
without its high byte; `prepass`, the root of the rounds of synthesis, is the whole word,
and none if the high byte is not zero. Left out: entries confirmed at run
time, the handlers of the horizontal interrupt and of exceptions (roots of the same
kind), proofs of computed jumps over the merged graph, and blocks, frames, return edges
and the pruning that follow.

### BuildJob

The worker thread of `BuildJob` (cartridge) and `ScdBuildJob` (disc) step by step: between
any two steps the user interface may call `request_cancel`, whose own end (terminating
the tree after the unlock) is a step too. A folder is the set of attempts that wrote into
it and whether it looks ready. Every file operation may fail (`MaxFaults`), a failed
removal may leave a folder that still looks ready, and the launcher may crash at any
step: the worker and its flags are gone, the folders stay, and the tool may live on
(`orphans`) and write into `.partial`. Messages and stages shown are left out.

### Launcher

One thread: `at` is the next poll of `update_jobs`; between frames (`"ui"`) the user may
act. Beside it the build (whose inside is `BuildJob`), the workers of the scan, the status
and the disc checks, the game and the cleanup go on at any time. Each poll is one action
with everything its handler does: what it records, asks for, frees in the guard and
starts. `recent` is the place of each game by the later of when it was played and built
(the code compares times): 1 is the latest, and the policy reduces a game that has N
playable ones at earlier places. `KeepsN` counts games with any folder left, so it says
nothing of which games are the newest. The guard counts the runs of each folder, as its
multiset does. The Play button compares the folder under build with the one of the last
status refresh (`status.shown`), which may be that of the mode before a restart. `MaxActs`
bounds what the user does. Left out: covers, imports of ROMs, patches, removal from the
library, intermediates of a build, favourites and the archived flag, builds of an older
release, message boxes. A scan reads the folders in one step; the publication and the end
of a build are two.

## 3. Properties

Each is stated in the module, with the code it is about, above its definition.

*WordRam.* `WaitIsForMain`: the sub waits only in the one state in which main can
release it. `MainKeepsWordRam`: no device stores into Word RAM main owns. `GfxOnTime`: no
rewrite of the live counter and no hand-over puts the ASIC's event in the past.
`ImplementsHandOff`: refinement. `OnlyTimeMovesWords`: an observer at a tick finds the
same words whatever accesses and events came before at that tick. It is the claim of
`scd_cd.c`, "a run's result never depends on how it is sliced", and it compares what
*would* be synced before and after each step, so a handler that changes the mode before
it syncs violates it. Proved only: `NoWriterOnMain`, `SubOwnsOnRequest` (bit, latch and
owner agree), `WriterIsSelected` (no writer outlives its transfer).

*SubControl.* `GrantIsReal`, `RunsVerifiedEntry`, `VectorsFromOwnBus`; proved only:
`WindowIsExclusive`.

*Interrupts.* `LineFollowsFlags`, `Ifl2IsVisible`, `IdleIsFinal` (a verdict stays
right whatever armed event comes after), `StopResolvesOutsideCdc` (liveness).

*Cdd.* `ImplementsDrive`: refinement; the lazy schedule cannot be observed.
`TrackFollowsHead`: stepping over a track end and looking a track up agree. `NoJump`: the
block the head is at is the one that continues the audio. `SeekIsTaken` (liveness): a
play or seek is carried out. Proved only: `OnGrid`, `PlayingIsReal`.

*Ledger.* `OnlyWhatWasRead` and `NothingLost`: the ledger is the set of blocks read,
unless the overflow is on record.

*CodeViews.* `RunsLiveImage` and `ServesImage`: an instruction runs only where the live
bytes, lazy stores included, are its image's. `ReplacedIsEnteredAtRoot`: an image that
replaced another under the program is entered at a declared root. `CleanIsImage`: the
granules held for clean are.

*Genesis.* `ImplementsSoundCpu`: quanta, segments, overshoot and the jump of a halted
Z80 cannot be observed. `LagIsBounded`: the time a Z80 was held is never made up.
`WakelessIsFinal`: a wait ends as `stopped_without_wake_source` only if no interrupt
could come. `JumpWakes`: the branch the code calls unreachable is.

*Discovery.* `UnitCompletes`: a unit stays as complete as the probe that admitted it,
although boundaries of that probe may have been removed since; and when roots have been
synthesized, a walk that is merged is cut only at addresses that are roots themselves.
Only the roots of the synthesis rounds are meant: a handler whose vector word has a high
byte is merged without having been one.
The first half ends with the first synthesis: a boundary of control flow that is only a
continuation root does not stop a walk (`enqueue_control_target` looks at the units), so
a unit may then be cut there, and the second half is what matters of it.
`CoversProgram`: whatever is proposed, an accepted program holds everything direct
control flow reaches from the reset entry, and from the handler unless its vector word has
a high byte. `StopIsReported`: where an authoritative root leads to an
instruction that is not held, the result names it and has a primary issue. The last two
except programs whose walks come to overlapping instructions (`Overlap`), computed jumps
followed: there a walk may stop at a branch into an instruction.

*BuildJob.* `BuildKept`: once there is a build, one is found whatever one fault or crash
does (a disc), or without faults (a cartridge). `CancelledTouchesNothing`,
`SuccessIsWhole`: what was published was written by that attempt alone. `CancelWins`
and `CancelEnds` (liveness), though the tool may never end.

*Launcher.* `GuardCovers`: the guard knows of everything under way. `NoRemovalUnderUse`,
`ReportIsFresh`, `KeepsN`, and `QueueDrains` (liveness).

The type invariant is checked where it carries a numeric edge: a step that would wrap
the byte counter leaves `0..MaxDbc` (`WordRam`). For `SubControl`,
`Interrupts`, `Cdd` and `Ledger` they are part of the theorems; `BuildJobProofs` has
`BuildTyped`.

## 4. Runs

| Run | Asks | Bounds and why they are enough |
|---|---|---|
| `wordram` | every interleaving of mode changes, accesses, transfers, ASIC operations, aborts and resets | destinations 0, 3, 4, 7 (nobody, sub host, unsupported, Word RAM; main's host reads behave like the sub's, and the others repeat these); a count of two whole groups (partial groups only under the theorems); 0 and 1 lines of two ticks (a render of several lines that is left half done occurs only under `GfxNeverLate` and `SlicingIsInvisible`); no rewrite of the count after a transfer, which would let `done` grow; the rendered count modulo 2 |
| `subcontrol` | every order of control writes, STOP, waits and stores in the three profiles | three images, two admitted: one verified, another verified, one refused |
| `interrupts` | is the line right, is a request lost, does a stopped machine come to an end | two profiles, because sources of different levels only meet in the order of levels: the drive and the CDC (levels 4 and 5) with masks 0 and 4, below both and between; main's request, the timer and the ASIC (levels 1 to 3) with masks 0 and 2 and a VDP that may wake main; under `FairSpec` |
| `interrupts_v_hang` | refutes the contract's claim about idle (section 7, 1) | the CDC as the only source |
| `cdd` | every interleaving of commands, stores, resets and ticks; is a play or seek carried out | three tracks, two of data and one of audio, with a gap of a block before the last two, so that a seek lands in a gap, at a track end and past the disc (the power-on target); gaps of 1 and 2 between grid points, so that a refreshed tick differs from an old one; a latency of one tick and one more for a long seek; no play or seek above latency `MaxLatency`; under `FairSpec` |
| `ledger` | every order of reads | seven blocks, so that four separate ranges exist and grow together; a list of four ranges, of which two are looked at: overflow, and a block that an older range holds or would take |
| `codeviews` | every order of stores, lazy stores, view changes, deliveries, dispatches, jumps | three cells in two granules, so that one granule is partly outside an image; three overlays, two over the same cells and one across their end; two dynamic images of which one begins like the other; two bindings, so that a third use evicts |
| `genesis` | a program that uploads, resets, holds and looks; one that sets up interrupts and stops | a frame of four lines of four ticks, a Z80 clock of two and a 68000 cycle of three: every phase of one against the other and every edge of the INT pulse is met; a quantum of five, so that one retirement synchronizes and the other does not; two code cells and three images; register 10 below and above the active lines (the value at the onset line only under `WaitsEndRightly`) |
| `discovery` | all programs of five words, all inventories, without a handler, with one, and with one whose vector word has a high byte | four to six instructions for each word, chosen so that units call, fall and jump into one another, loop and overlap; walks of two instructions, so that most are cut and cut again; three synthesized units, so that the ceiling is met |
| `buildjob` | cancels, failures, crashes at every step of two attempts | both kinds; two faults, so that a crash meets what an earlier failure left |
| `buildjob_v_cancel` | refutes the header's claim about accepted cancels (section 7, 2) | the same |
| `launcher` | a user's three actions, in any order with frames, workers, builds, games | a cartridge game with two builds and a disc game; two earlier sessions, with folders the catalog does not know and records whose folder is gone; N = 1 |

`AgeCap` saturates ages past the end of the longest work and `RenderMod` wraps a count
that is only compared for change; neither is reached by a running device, except for a
transfer without a writer. `DbcValues` stay below
`MaxDbc`, which stands for $FFFF; DBC is written as one value, where the code has two
byte registers. All runs but `ledger` have `CHECK_DEADLOCK FALSE`: a typed stop, the
end of the run, the end of an analysis, the last build and an idle launcher are where the
system stops.

## 5. Fairness

`Interrupts`, `Cdd`, `BuildJob` and `Launcher` have liveness. `Fairness` of `Interrupts`
is weak fairness of the end of the run, of the acceptance of an interrupt, and of each
armed device event (timer, ASIC, drive, transfer). The code justifies it:
`scd_machine_run` is one loop that always takes the earliest thing to do, an armed event
has a finite tick, and the clock advances to it. Nothing is assumed of either program, of
the end of the decoder period, or of a tick that finds the end of the disc.

`FairSpec` of `Cdd` is weak fairness of the clock and of the drive's event: every
instruction takes time, and an event that is due comes before it. `SeekIsTaken` assumes
nothing of the program and therefore leaves out a head past the end of the disc: the
tick that finds the end does not look at a pending command, and a program that sends a
resume before every tick keeps it waiting.

`BuildJob` assumes weak fairness of the worker thread and of the end of a cancel request
(threads the system schedules) and nothing of the tool: `CancelEnds` therefore says that
somebody stops it. `Launcher` assumes weak fairness of the union of frames, workers,
builds, the end of a game and the answer to a sheet: something goes on while anything
can, in no particular order.

## 6. Proofs

TLC checks the instances above. TLAPS proves, for every value of the constants allowed
by the named assumptions:

- positive tick rates, group size and counter limit; destinations within 0..7;
- admitted images among the images; levels within 1..5, masks within 0..7;
- tracks that are not empty and in the order of the disc; positive gaps, latency and seek
  divisor; a look-back of at least one range;
- overlays and images numbered from one, image bytes that are bytes, a positive memory,
  granule, anchor, least run and number of bindings, and a mark for "no bank" that is no byte;
- a Z80 clock that divides the frame, an onset line before the last one, a 68000 cycle
  shorter than a frame and no instruction longer than two frames (`Frame` is 896040 ticks,
  a cycle 7), masks within 0..7; any quantum, instruction times, counter values, images and
  uploads;
- a program of at least one word, whose instructions have the fields of `Instructions`,
  a level 6 handler that is an address or the mark for none, and walks of at least one
  instruction; any image, inventory and number of units;
- a finite library of games whose two platforms are disjoint, an N of at least one, and an
  earlier session that left any catalog of these games, any folders and any recency.

None restricts what a program, a user or a file system does. Every theorem but the
refinements and the action properties is `Spec => []P` with an inductive invariant that
implies `P`, checked with TLC on the instance of its run before it was proved; only the
invariants of `DiscoveryProofs`, which quantify over sets of walks, are out of TLC's reach.

| Theorem | States | Argument |
|---|---|---|
| `WordRamSafe` | types, `WaitIsForMain`, `NoWriterOnMain`, `SubOwnsOnRequest`, `WriterIsSelected` | their conjunction is inductive, and none of the middle ones is so alone: a halt finds its writer because only 2M writers are running in 2M mode with a started transfer, and the sub keeps 2M Word RAM with the latch set because a mode write clears both together. The first sections of `WordRamProofs` have what each operator of `LazyWriters` keeps: a sync never starts a writer, and a dead one moves nothing |
| `WordRamTyped` | `Spec => []TypeOK` | the same invariant; the byte counter stays in its range because a sync that would exceed it ends the transfer |
| `GfxNeverLate` | `Spec => []GfxOnTime` | an operation's event is its lines times the line period after its base, and every handler that changes either syncs first. After a sync the base of a running operation is not behind the present (`GfxSyncSettles`), so no rewrite of the live counter, not even to zero lines, puts the end there |
| `SlicingIsInvisible` | `Spec => OnlyTimeMovesWords` | a sync leaves nothing owed: `DmaSyncSettles` and `GfxSyncSettles` show that what a sync returns is `Settled` (`Rests`), and `DmaSyncSettled` and `GfxSyncRests` that a sync of such a device moves nothing. A handler that syncs first is then invisible to an observer who syncs afterwards, whatever it does to the fields that are not in the account. The rounding (bytes up, groups down) is in lemmas of its own about `CeilDiv`, with products replaced by fresh numbers before the solver sees them |
| `WordRamRefines` | `Spec => ImplementsHandOff` | step simulation under that invariant: `WaitIsForMain` makes a mode write of main end a wait only together with a give, `SubOwnsOnRequest` makes a repeated request a stutter |
| `MainKeepsWhatItOwns` | `Spec => MainKeepsWordRam` | with main as owner the writer is not running (`NoWriterOnMain`) and the ASIC is halted, so every sync is the identity on what has landed |
| `SubControlSafe` | `WindowIsExclusive`, `GrantIsReal`, `RunsVerifiedEntry`, types | `GrantIsReal` is what makes the conditional update of the window harmless: if the hold state does not change, neither does the readback. `ResetLeavesEntry` is added because a reset may be armed long before the release that makes the sub run. `SubRunsAdmitted` states `RunsVerifiedEntry` alone |
| `VectorsAreStable` | `Spec => VectorsFromOwnBus` | the vectors change only at an epoch, which needs a released HALT, and then the readback closes the window |
| `InterruptsSafe` | types, `LineFollowsFlags`, `Ifl2IsVisible` | each CDC operator keeps "the line is the enabled flags"; the types include that a writer's transfer is started and that a started one has DOUTEN, without which the line could be raised by a dead writer. `RequestIsVisible` states `Ifl2IsVisible` alone |
| `IdleStays` | `Spec => IdleIsFinal` | the set of levels that could wake the sub never grows at a device event: an event raises only a level that was already counted. Its maximum, compared with the mask, therefore stays where it was |
| `CddSafe` | types, `OnGrid`, `PlayingIsReal`, `NoJump` | `Sound` says of a drive that its types hold and that a run of audio belongs to a drive that plays, with nothing pending, no latency, the next block under the head, *and* the output enabled. The last part is what makes it inductive: a silent tick ends a run only with the output enabled. A lemma per command and per branch of the tick |
| `CddRefines` | `Spec => ImplementsDrive` | the mapping shows the abstract drive one instant before a grid point while the event there is due. Reaching a grid point with the drive active is then a stutter and the event the tick; reaching it idle is a tick, which `TickIdle` shows to change nothing |
| `HeadInTrack` | `Spec => []TrackFollowsHead` | `TracksBefore`: the tracks that end at or before a position are exactly the first `TrackOf` ones, from the order of the disc and cardinality of intervals; then `NextBlock` for one step of the head |
| `LedgerRight` | types, `OnlyWhatWasRead`, `NothingLost` | their conjunction is inductive: a range grows only by the block that was just read. `LedgerHonest` states `OnlyWhatWasRead` alone |
| `RunToCatchesUp` | `RunTo(y, b, t) = CatchUp(y, b, t)` for every state `y` of the Z80 and its latches | `RunTo` repeats segments that repeat boundaries with jumps of a halted Z80, `CatchUp` repeats single boundaries that sample the INT line each. Both repetitions stay in the `Orbit` of the state under one boundary (`PiecesInOrbit`, `RunsInOrbit`, from `SameLevel` between two edges and `HaltedPath` for a jump), both go on until the Z80 rests (`IteratesInOrbit`: each step is a clock later at least), and an orbit has one state of rest (`OrbitRest`) |
| `FollowerImplements` | `Spec => ImplementsSoundCpu` | step simulation under the invariant below. An access synchronizes, and what `RunToCatchesUp` leaves is caught up already (`CaughtUp`): what it then sees and does is what the abstract Z80 has. When the clock moves on, `CatchUpLater` makes it irrelevant whether the Z80 was brought up to the clock before: a boundary depends on the clock only through the phase of the Z80's own time (`BeatShift`, from `Frame % Divider = 0` and the level's period) |
| `LagStaysBounded` | `Spec => []LagIsBounded` | inductive with the types: a synchronized Z80 rests, a release or reset sets it to the next Z80 clock (`BusWrittenType`), and between two synchronizations its lead and the unsynchronized time change by the same ticks |
| `WaitsEndRightly` | `Spec => []WakelessIsFinal` | `Waited`: the lines waited for are at most those since the last onset if the vertical request would be taken, and if the horizontal one would, the counter is on its way to the last reload (`BeforeReload`, one frame at most) or is what the lines since then have left of it (`SinceReload`, one more). Each line of a wait advances that account or makes the request (`PhaseAdvance`, `OnsetCounts`), so none is left at the bound (`WaitBounded`) |
| `JumpAlwaysWakes` | `Spec => []JumpWakes` | without a horizontal source the wake condition is a vertical source above the mask; the cycles of the jump, rounded up, reach the onset (`InCyclesBounds`, `OnsetReached`), and the request is admitted there, diagnosed, or the Z80 has stopped the machine |
| `OverlaysRunLive` | `Spec => []RunsLiveImage` | `Knows`: the selected overlay is live in every granule that is not dirty, and any other overlay that is live and overlaps it is touched by a dirty granule. Stores, view changes and the lazy store of the CDC dirty what they touch; a revalidation that looks at the dirty granules alone is therefore as good as one that looks at all |
| `ReplacedEntersAtRoot` | `Spec => ReplacedIsEnteredAtRoot` | `Remembers`: the overlay that ran last is selected, or an invalid selection is on record, and only the entry at a root clears that |
| `CleanGranules` | `Spec => []CleanIsImage` | `Sane`: every granule a binding does not hold for dirty equals its image. A search extends the anchor cell by cell in both directions; that it comes to an end before which every cell was compared is an induction over the distance, done with a least counterexample (`LeastNat`) |
| `BodiesRunTheirImage` | `Spec => []ServesImage` | the same invariant: the granules of an instruction are clean when it runs, or were compared just now |
| `UnitsComplete` | `Spec => []UnitCompletes`, for the roots of the synthesis rounds | `Way(c)`, the states the steps of a walk lead to within the boundaries `c`, makes a whole walk an object one can speak of when it is over. It has one end (`WayEnd`), and it is the same walk without the boundaries it never stopped at (`WayTransfer`). `Admitting` says of every unit that is decided that its walk *within the boundaries of now* passes: a removal changes it only for the units that depend on the removed one, and these are walked again. `Synthesizing` says of every root that need not be walked again in this round that its walk is cut at roots only, old or just found |
| `ProgramIsCovered` | `Spec => []CoversProgram`, from the reset entry and a handler the pre-pass knows | `Results`: what is merged is what the ends of the walks of the merged roots contribute. `Whole`, which each step of a walk keeps (`StepGood`): what an instruction leads to is visited, queued, or stopped by a boundary, and what was visited is kept, reported, or a cut. So the instructions that are kept by some root, restricted to those reached, are closed under direct control flow: a boundary is a root, and so is a cut by `Synthesizing` |
| `StopsAreReported` | `Spec => []StopIsReported` | the same two: an authoritative root has its issues in the result until they are superseded, and a superseded issue is at an instruction another root holds, which is then kept, or a stop of that root. A walk decodes its entry first (`Entered`), so an edge to a root finds it held or an issue at it |
| `AcceptedCancelWins` | `Spec => []CancelWins` | `FlagsAgree` ties the flags two threads read to the step the worker is at: after the decision point `publishing` is set and a request is refused, before it the decision finds `cancel` |
| `CancelLeavesBuilds` | `Spec => []CancelledTouchesNothing` | `OnlyPartial`: before the decision the worker has touched `.partial` and nothing else |
| `SuccessLeavesWhole` | `Spec => []SuccessIsWhole` | `OwnWork`: what the tool of this attempt wrote is in `.partial` from the preparation to the rename and in the entry after it, and nobody else has written there, unless a tool of an earlier attempt outlived its launcher (`mixed`) |
| `ReadyBuildSurvives` | `Spec => []BuildKept` | `DiscPlaces` and `DiscKept` say for each step of publishing a disc whether the entry or `.old` holds a ready build, and how many faults were spent if neither does; `CartridgeKept` is the case without faults |
| `GuardIsComplete` | `Spec => []GuardCovers` | `Records`: a build, game or cleanup in use is not the empty record, because the guard is asked for keys and the launcher asks for the record; `Polled`: the poll that comes next in a frame has work |
| `ReportFresh` | `Spec => []ReportIsFresh` | not inductive: a report is put in place long after its worker looked. `ScanIsGood` and `ReportIsGood` hold while nobody who removed a folder is yet to be polled (`NothingRemoved`): a cleanup and a failed build keep their job until the poll that ends it asks for a scan, and a scan asked for while one is under way replaces it |
| `CleanupSparesUse` | `Spec => NoRemovalUnderUse` | from `GuardIsComplete`: while there is a plan there is no build and no game |
| `PolicyKeepsN` | `Spec => KeepsN` | `PolicySpares`: the folders a policy's plan does not list are those of N games. The plan is made when `ReportIsFresh` applies; the newest game it reduces (`LeastNat`) has N newer playable ones, none of which is reduced, and each has a folder. The plan only shrinks, and while it is there no build changes the disk |

For the proofs some definitions were restated without changing what they say. In
`CodeViews` alternatives with overlapping guards were a `CASE`, whose choice is
undetermined where two guards hold; they are `IF`s in the order of the code. In `Launcher`
the recency of the games was a sequence that `SelectSeq` was applied to, which the prover
cannot expand; it is the place of each game. `dequeue_build` removes one entry of the
queue, as `BuildQueue::remove` does. In `Discovery` the roots of a round and the secondary
issues were sorted sequences (`SetToSortSeq`, `SelectSeq`) and the deferred jumps of a walk
a fold; they are sets with an order, and one step for each jump, as in the loop of `run`.
The proof also corrected two properties that held on the instance only: `UnitCompletes`
said that no merged unit is cut, which a control target that is a continuation root
refutes in a longer program, and `Overlap` did not follow computed jumps.

The prover cannot instantiate an induction theorem, so `GenesisProofs` does its inductions
by sets: a set of naturals that contains 0 and with each number the next contains all
(`Up`, from `LeastNat`), and the orbit of a state is what every set closed under the step
contains. `DiscoveryProofs` does the same for the steps of a walk (`Way`) and for `Closure`.
A recursive function in a `LET` is shown to exist by the same means (`IteratesExist`),
which makes its equation usable (`CatchUpRepeats`, `PiecesRepeat`, `RunsRepeat`).

Only model-checked, and why:

- liveness (`StopResolvesOutsideCdc`, `SeekIsTaken`, `CancelEnds`, `QueueDrains`): the
  prover has no fairness reasoning;
- that the fixed points of `Discovery` come to an end, which is liveness too: the theorems
  say what holds when a phase is reached;
- the two violations, which are counterexamples.

## 7. Where the code and its documentation differ

Two of these have a run that shows it:

1. `interrupts_v_hang`: a halted transfer, or a decoder behind a transfer-end request
   nobody acknowledged, counts as able to wake the sub. The drive ticks on, `idle` is
   never reported, and without a deadline the run does not return.
   `StopResolvesOutsideCdc` shows there is no other way to this.
2. `buildjob_v_cancel`: the failures before the decision point end the job without the
   mutex and without looking at `cancel_`: a cancel that was just accepted ends as
   `failed`, where the header says it ends as `cancelled`.

The models show the following as well; they are what the code does, so the properties
state what holds beside them.

*Sega CD.* A repeated request while the sub already owns Word RAM is said to have no
effect; it resumes a transfer that was halted in 2M, carried through 1M and left halted
when the sub kept 2M Word RAM. A writer selected some time after DTRG counts its bytes
from DTRG; its completion lies in the past and the scheduler sets the clock back to it.
DOUTEN = 0 ends the DMA writer but not the host-data register: an aborted host transfer
goes on at the next read and ends with EDT. A play during an earlier seek adds its
distance to what is left of that latency. An ASIC operation started in 2M
mode goes on after the sub selects 1M mode, where the contract (section 17) has it run
only while the sub owns 2M Word RAM. The peripheral reset does not sync a running
transfer first, so words that were due are dropped (section 7 keeps the bytes moved so
far). A status command before the tick that starts a play or seek reports the old
status, where section 22 has the drive report SEEK already. `OnlyTimeMovesWords` names
the operations excepted because of the late writer and of the reset that does not sync.

*Genesis.* The release of /RESET sets the Z80's time to the next Z80 clock without
asking whether it had overshot that: its time can move backwards, which the decision
record 0072 excludes. A store of the Z80 through the banked window into work RAM is seen
by reads of the 68000 that do not synchronize, so a result can depend on the quantum
("results never depend on this cadence", `runtime.c:3041`); the window is left out of the
model for that reason. A restart after a hold without uploads binds the image of the
epoch before ("the code already in RAM"), although the RAM may hold an image that was
refused or code patched in an earlier hold; the guard then isolates the Z80, so nothing
unverified runs, but the sound is lost. Without a vertical handler the vertical request is
never taken back and hides the horizontal one for good: `WakelessIsFinal` excepts it.

*Static discovery.* The comment at `frontend.cpp:3399` says that a retained ordinary
instruction means that a different root's walk "genuinely continued past it"; a direct
branch with a bad target that two roots hold has both issues superseded, each by the
other root, and the stop is not reported (excepted in `StopIsReported`). The comment at
`frontend.cpp:2655` and decision record 0026 admit a proposal whose entry "decoded
cleanly into a retained block"; the code asks only whether it is in the decode cache,
where an instruction whose operand is rejected stays, so that an edge of the reset root
to such an entry ends without an issue (excepted as well). The "order-independent"
detection of branches into the middle of an instruction (`static_discovery.cpp:1763`)
looks at the nearest decoded instruction only; one decoded in between hides an overlap
(`Overlap` is excepted in the properties). A continuation root is a boundary for the next
instruction but not for a branch or call (`enqueue_control_target` is given the units
only): a branch to it walks its body again, and an admitted unit can be cut there although
its probe was not (`UnitCompletes` states what holds). Of the level 6 handler
`frontend.cpp:2817` says that its "per-root ceiling trips must be visible to the
continuation pre-pass" and that the vector is resolved with the guard of the merge; but
`irq6_pre_pass_root` gives the whole 32-bit word to `admit_target`, which rejects a high
byte that is not zero, and the merge masks the word to 24 bits first. A handler whose word
has a high byte is walked and merged but was no root of the synthesis rounds: where its
walk is cut no unit is raised, and code that is reached from there only is missing. The
cut itself stays in the result as an issue (`StopIsReported`); `UnitCompletes` and
`CoversProgram` except such a handler.

*BuildJob.* Publishing a cartridge removes the old entry before the rename, so a failure
or crash there loses both. A disc's crash between its two renames leaves the build in
`.old` only, where nothing looks for it, and the next publication removes it. A tool that
outlives a crashed launcher writes into the `.partial` of the next attempt (`mixed`).
Between the wait for the process and `release()` a terminate may signal a process number
that is no longer the tool's.

*Launcher.* `scd_spawn` does not ask whether a game was started while the disc launch was
verified: the running game is replaced and ended, and its key stays in the guard, which
then refuses every cleanup (`GuardCovers` asks only that the running game is known). A later run of the same disc does
not free it: the guard counts runs, and one end takes one of them.
"Remove old builds" works on a report made before the last build ended and can remove the
build that has become current. A restart whose build is refused, or that finds another
build running, leaves `restart_pending_` set. A queued build is begun while the same game
runs. The policy may reduce a disc game whose new program is still being checked. A disc
build that ends while another import runs is not bound. A queue entry whose start is
refused is lost. A status worker's older finding can become the current build, and the
cleanup of superseded builds then removes the newest.

## 8. Plan

1. *Done:* `LazyWriters`, `HandOff`, `WordRam` with the refinement; `SubControl`;
   `CdcInt` and `Interrupts` with idle and its liveness; the theorems above.
2. *Done:* `CddOps`, `Drive`, `Cdd` with the refinement and the run of audio; `Ledger`.
3. *Done:* `CodeViews`; `BuildJob` with crashes and `Launcher`; `Z80Machine`, `SoundCpu`
   and `Genesis` with the refinement; `Walker` and `Discovery`.
4. *Done:* theorems for every safety property of `WordRam`, `SubControl`, `Interrupts`,
   `Cdd`, `Ledger`, `CodeViews`, `BuildJob`, `Launcher`, `Genesis` and `Discovery` that a
   run checks, and the refinements of `HandOff`, `Drive` and `SoundCpu`.
5. `CddGrid`: `scd_cdd_grid_after` and `scd_cdd_anchor` in the BIOS-image profile as
   operators, checked against "the first line end with enough accumulated".
6. `MainInterrupts`: V-int and H-int request, delay and refresh hold, with main's STOP.
7. `ScdMachine`: `WordRam` and `SubControl` sharing `sub_wait`, with sub instructions of
   two accesses, so that an abandoned instruction repeats its first one.
8. The rest of the analysis: late proofs over the merged graph, the blocks and their
   pruning, checked against `Reached` with computed jumps.
9. `LiveInput`: transitions, the bounded record and its replay.

## 9. Not modelled

Most of the repository's lines are not protocols. Instruction decoders, the value
analysis and the lowering to C are functions of single instructions, whose correctness is
agreement with a processor manual; a model would repeat the tables. The
disc, ROM, patch and ISO 9660 readers are parsers of byte formats; the VDP renderer, the
PCM and FM chips and the mixer are arithmetic on samples and pixels; the viewer and the
pages of the launcher are drawing and layout. The command line tool is a straight line of
child processes whose failures `BuildJob` meets as the exit of the build tool. What is
left after these and is not modelled yet is in the plan: the main processor's interrupts
on the Sega CD, the input record, and the irregular grid of the drive. The Master System
runtime has one processor that is stepped with its video chip: it has no follower, no
hand-over and no wait.
