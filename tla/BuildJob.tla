------------------------------ MODULE BuildJob ------------------------------
(***************************************************************************)
(* One build of a game by the launcher (launcher_core.cpp, BuildJob for a   *)
(* cartridge and ScdBuildJob for a disc; process_tree.cpp): a worker thread *)
(* prepares the attempt's folder `.partial`, starts the build tool, reads   *)
(* it to its end, decides, and publishes by renaming.  The user interface   *)
(* thread may ask for cancellation between any two of those steps, every    *)
(* operation on the file system may fail, and the launcher may crash and be *)
(* started again with whatever is on the disk.                              *)
(*                                                                         *)
(* A folder is a set of writing attempts and whether it is `ready' (the     *)
(* executable and a status.json that says ok).  Its files, the messages and *)
(* the stages shown to the user are left out.                               *)
(***************************************************************************)
EXTENDS Naturals, FiniteSets

CONSTANTS
    Kinds,        \* a subset of {"cartridge", "disc"}: BuildJob and ScdBuildJob
    MaxAttempts,  \* bound: builds started
    MaxFaults     \* bound: failed file operations and crashes

ASSUME BuildJobAssumption ==
    /\ Kinds \subseteq {"cartridge", "disc"}
    /\ MaxAttempts \in Nat
    /\ MaxFaults \in Nat

VARIABLES
    kind,       \* which of the two jobs
    dir,        \* the folders: entry, .partial, .failed, .old
    pc,         \* the next step of the worker; "idle" when there is no job
    flags,      \* the job's atomics: cancel_, cancelled_, ok_, finished_, publishing_
    result,     \* the argument of finish() while it runs
    tree,       \* the ProcessTree: no process yet, attached, or closed (terminated/released)
    child,      \* the build tool: none, running, exited, reaped
    code,       \* its exit code is zero
    ui,         \* request_cancel has unlocked and is about to terminate the tree
    attempt,    \* the number of this build
    orphans,    \* attempts whose tool outlived the launcher that started it
    faults,     \* failed operations and crashes so far
    accepted,   \* history: request_cancel answered true for this job
    spawned,    \* history: this job's tool was started
    before,     \* history: the folders when this job started
    mixed,      \* history: an attempt may have started in a folder others write to
    built       \* history: a ready build was once in the entry folder

folders == <<dir, faults, mixed, built>>
process == <<tree, child, code, orphans>>
history == <<accepted, spawned, before>>
vars == <<kind, pc, flags, result, ui, attempt, folders, process, history>>

-----------------------------------------------------------------------------
Attempts == 0 .. MaxAttempts
NoTree == [by |-> {}, ready |-> FALSE]
Trees == [by : SUBSET Attempts, ready : BOOLEAN]
Paths == {"entry", "partial", "failed", "old"}

NoFlags == [cancel |-> FALSE, cancelled |-> FALSE, ok |-> FALSE,
            finished |-> FALSE, publishing |-> FALSE]

Outcome ==
    CASE ~flags.finished -> "running"
      [] flags.finished /\ flags.ok -> "succeeded"
      [] flags.finished /\ ~flags.ok /\ flags.cancelled -> "cancelled"
      [] OTHER -> "failed"

Init ==
    /\ kind \in Kinds
    /\ dir \in {[p \in Paths |-> NoTree],
                [[p \in Paths |-> NoTree] EXCEPT !["entry"] = [by |-> {0}, ready |-> TRUE]]}
    /\ pc = "idle"
    /\ flags = NoFlags
    /\ result = FALSE
    /\ tree = "empty" /\ child = "none" /\ code = FALSE
    /\ ui = FALSE
    /\ attempt = 0
    /\ orphans = {}
    /\ faults = 0
    /\ accepted = FALSE /\ spawned = FALSE /\ before = dir
    /\ mixed = FALSE
    /\ built = dir["entry"].ready

-----------------------------------------------------------------------------
(* The file system (external).  An operation that fails is a fault; a       *)
(* removal that fails leaves some of the tree, which may still look ready.  *)
CanFail == faults < MaxFaults

Fault == faults' = faults + 1

Note(d) ==
    /\ dir' = d
    /\ built' = (built \/ d["entry"].ready)

Removed(d, p) == [d EXCEPT ![p] = NoTree]

Remains(d, p) ==
    {e \in {[d EXCEPT ![p].ready = r] : r \in BOOLEAN} :
        /\ d[p] # NoTree
        /\ e[p].ready => d[p].ready}

RemoveAll(p) ==
    \/ Note(Removed(dir, p)) /\ UNCHANGED faults
    \/ CanFail /\ Fault /\ \E d \in Remains(dir, p) : Note(d)

(* A rename replaces only a folder that is not there.                       *)
Renamed(from, to) == [dir EXCEPT ![to] = dir[from], ![from] = NoTree]
CanRename(to) == dir[to] = NoTree

RenameOk(from, to) == CanRename(to) /\ Note(Renamed(from, to)) /\ UNCHANGED faults
RenameFails(to) ==
    /\ \/ ~CanRename(to) /\ UNCHANGED faults
       \/ CanFail /\ Fault
    /\ UNCHANGED <<dir, built>>

-----------------------------------------------------------------------------
\* Mutant: a request before the process is registered closes the tree.
Terminate_BeforeAttach ==
    IF tree # "closed"
    THEN /\ tree' = "closed"
         /\ child' = IF tree = "attached" /\ child = "running" THEN "exited" ELSE child
    ELSE UNCHANGED <<tree, child>>

(* The process tree.  A terminate() before attach() does nothing and leaves *)
(* the tree open for a later one; after release() it does nothing.          *)
Terminate ==
    IF tree = "attached"
    THEN /\ tree' = "closed"
         /\ child' = IF child = "running" THEN "exited" ELSE child
    ELSE UNCHANGED <<tree, child>>

-----------------------------------------------------------------------------
(* The user interface thread.                                               *)
StartJob ==
    /\ pc = "idle" \/ flags.finished
    /\ ~ui
    /\ attempt < MaxAttempts
    /\ attempt' = attempt + 1
    /\ pc' = "start"
    /\ \E c \in BOOLEAN : flags' = [NoFlags EXCEPT !.cancel = c]
    /\ result' = FALSE
    /\ tree' = "empty" /\ child' = "none" /\ code' = FALSE
    /\ accepted' = FALSE /\ spawned' = FALSE /\ before' = dir
    /\ UNCHANGED <<kind, ui, folders, orphans>>

\* Mutant: a request is accepted while the build is published.
RequestCancel_WhilePublishing ==
    /\ pc # "idle" /\ ~ui
    /\ ~flags.ok /\ ~flags.finished
    /\ flags' = [flags EXCEPT !.cancel = TRUE]
    /\ accepted' = TRUE
    /\ ui' = TRUE
    /\ UNCHANGED <<kind, pc, result, attempt, folders, process, spawned, before>>

RequestCancel ==
    /\ pc # "idle" /\ ~ui
    /\ ~flags.publishing /\ ~flags.ok /\ ~flags.finished
    /\ flags' = [flags EXCEPT !.cancel = TRUE]
    /\ accepted' = TRUE
    /\ ui' = TRUE
    /\ UNCHANGED <<kind, pc, result, attempt, folders, process, spawned, before>>

RequestTerminates ==
    /\ ui
    /\ ui' = FALSE
    /\ Terminate
    /\ UNCHANGED <<kind, pc, flags, result, attempt, folders, code, orphans, history>>

-----------------------------------------------------------------------------
(* The worker thread.  Goto and FinishWith leave everything else to the     *)
(* step that uses them.                                                     *)
Goto(next) == pc' = next /\ UNCHANGED <<flags, result>>
FinishWith(ok) == pc' = "finish" /\ result' = ok /\ UNCHANGED flags
StayInWorker == UNCHANGED <<kind, ui, attempt, history>>

(* finish(ok): two stores, in this order.                                   *)
Finish ==
    \/ /\ pc = "finish"
       /\ flags' = [flags EXCEPT !.ok = result]
       /\ pc' = "finished"
    \/ /\ pc = "finished" /\ ~flags.finished
       /\ flags' = [flags EXCEPT !.finished = TRUE]
       /\ pc' = pc

FinishJob ==
    /\ Finish
    /\ StayInWorker /\ UNCHANGED <<result, folders, process>>

CancelStored ==
    /\ flags' = [flags EXCEPT !.cancelled = TRUE]
    /\ pc' = "finish" /\ result' = FALSE

\* Mutant: the completed entry goes with the partial one.
FinishCancelled_RemovesEntry ==
    /\ pc = "cancelled"
    /\ Note(Removed(dir, "entry")) /\ UNCHANGED faults
    /\ CancelStored
    /\ StayInWorker /\ UNCHANGED <<mixed, process>>

(* finish_cancelled: the folder of the attempt is removed, with retries.    *)
FinishCancelled ==
    /\ pc = "cancelled"
    /\ RemoveAll("partial")
    /\ CancelStored
    /\ StayInWorker /\ UNCHANGED <<mixed, process>>

Start ==
    /\ pc = "start"
    /\ \/ flags.cancel /\ CancelStored
       \/ ~flags.cancel /\ Goto("prepare")
       \/ ~flags.cancel /\ kind = "disc" /\ FinishWith(FALSE)  \* scd_build_problem
    /\ StayInWorker /\ UNCHANGED <<folders, process>>

\* Mutant: the folder of an earlier attempt is written on.
Prepare_KeepsPartial ==
    /\ pc = "prepare"
    /\ mixed' = (mixed \/ orphans # {})
    /\ Goto("ready")
    /\ UNCHANGED <<dir, faults, built>>
    /\ StayInWorker /\ UNCHANGED process

(* A failed removal of `.partial' is not looked at; a failure to create its *)
(* parent ends the job.                                                     *)
Prepare ==
    /\ pc = "prepare"
    /\ RemoveAll("partial")
    /\ mixed' = (mixed \/ dir["partial"].by \cap dir'["partial"].by # {} \/ orphans # {})
    /\ Goto("ready") \/ FinishWith(FALSE)
    /\ StayInWorker /\ UNCHANGED process

Ready ==
    /\ pc = "ready"
    /\ Goto(IF flags.cancel THEN "cancelled" ELSE "inputs")
    /\ StayInWorker /\ UNCHANGED <<folders, process>>

(* The inputs of the tool: the patched image of a cartridge (a refusal      *)
(* removes the attempt's folder) or the blank backup RAM of a disc (which   *)
(* lies beside it).  Only the cartridge looks at cancel_ afterwards.        *)
Inputs ==
    /\ pc = "inputs"
    /\ \/ kind = "cartridge" /\ Goto("patched")
             /\ Note([dir EXCEPT !["partial"] = [by |-> @.by \cup {attempt}, ready |-> FALSE]])
             /\ UNCHANGED faults
       \/ Goto("spawn") /\ UNCHANGED <<dir, faults, built>>
       \/ kind = "cartridge" /\ FinishWith(FALSE) /\ RemoveAll("partial")
       \/ kind = "disc" /\ FinishWith(FALSE) /\ UNCHANGED <<dir, faults, built>>
    /\ StayInWorker /\ UNCHANGED <<mixed, process>>

Patched ==
    /\ pc = "patched"
    /\ Goto(IF flags.cancel THEN "cancelled" ELSE "spawn")
    /\ StayInWorker /\ UNCHANGED <<folders, process>>

Spawn ==
    /\ pc = "spawn"
    /\ \/ Goto("attach") /\ child' = "running" /\ spawned' = TRUE
       \/ Goto("notSpawned") /\ UNCHANGED <<child, spawned>>
    /\ UNCHANGED <<kind, ui, attempt, folders, tree, code, orphans, accepted, before>>

NotSpawned ==
    /\ pc = "notSpawned"
    /\ IF flags.cancel THEN Goto("cancelled") ELSE FinishWith(FALSE)
    /\ StayInWorker /\ UNCHANGED <<folders, process>>

Attach ==
    /\ pc = "attach"
    /\ tree' = IF tree = "closed" THEN "closed" ELSE "attached"
    /\ Goto("attached")
    /\ StayInWorker /\ UNCHANGED <<folders, child, code, orphans>>

(* The two places where the worker itself stops the tree of a cancelled job.*)
StopIfCancelled ==
    /\ \/ pc = "attached" /\ Goto("read")
       \/ pc = "eof" /\ Goto("wait")
    /\ IF flags.cancel THEN Terminate ELSE UNCHANGED <<tree, child>>
    /\ StayInWorker /\ UNCHANGED <<folders, code, orphans>>

(* The output is read until its end, which is the tool's, or a cancel.      *)
Read ==
    /\ pc = "read"
    /\ flags.cancel \/ child = "exited"
    /\ Goto("eof")
    /\ StayInWorker /\ UNCHANGED <<folders, process>>

Wait ==
    /\ pc = "wait"
    /\ child = "exited"
    /\ child' = "reaped"
    /\ Goto("release")
    /\ StayInWorker /\ UNCHANGED <<folders, tree, code, orphans>>

Release ==
    /\ pc = "release"
    /\ tree' = "closed"
    /\ Goto("decide")
    /\ StayInWorker /\ UNCHANGED <<folders, child, code, orphans>>

(* Under the mutex: a request that came first wins, a later one is refused. *)
(* A disc's build is kept back too when it is not of the mode asked for.    *)
Decide ==
    /\ pc = "decide"
    /\ UNCHANGED result
    /\ IF flags.cancel
       THEN pc' = "cancelled" /\ UNCHANGED flags
       ELSE /\ flags' = [flags EXCEPT !.publishing = TRUE]
            /\ \/ code /\ dir["partial"].ready /\ pc' = "clear"
               \/ code /\ dir["partial"].ready /\ kind = "disc" /\ pc' = "keep"
               \/ ~(code /\ dir["partial"].ready) /\ pc' = "keep"
    /\ StayInWorker /\ UNCHANGED <<folders, process>>

\* Mutant: a disc's entry is removed first, like a cartridge's.
Clear_EntryFirst ==
    /\ pc = "clear"
    /\ RemoveAll("entry")
    /\ Goto("move")
    /\ StayInWorker /\ UNCHANGED <<mixed, process>>

(* Publishing.  A cartridge's old entry is removed first, a disc's is moved *)
(* aside to `.old', put back when the new one cannot be moved in, and       *)
(* removed at the end.                                                      *)
Clear ==
    /\ pc = "clear"
    /\ RemoveAll(IF kind = "cartridge" THEN "entry" ELSE "old")
    /\ Goto(IF kind = "cartridge" \/ dir["entry"] = NoTree THEN "move" ELSE "aside")
    /\ StayInWorker /\ UNCHANGED <<mixed, process>>

Aside ==
    /\ pc = "aside"
    /\ \/ RenameOk("entry", "old") /\ Goto("moveBack")
       \/ RenameFails("old") /\ FinishWith(FALSE)
    /\ StayInWorker /\ UNCHANGED <<mixed, process>>

Move ==
    /\ pc \in {"move", "moveBack"}
    /\ \/ RenameOk("partial", "entry")
          /\ IF kind = "cartridge" THEN FinishWith(TRUE) ELSE Goto("drop")
       \/ RenameFails("entry")
          /\ IF pc = "moveBack" THEN Goto("restore") ELSE FinishWith(FALSE)
    /\ StayInWorker /\ UNCHANGED <<mixed, process>>

Restore ==
    /\ pc = "restore"
    /\ RenameOk("old", "entry") \/ RenameFails("entry")
    /\ FinishWith(FALSE)
    /\ StayInWorker /\ UNCHANGED <<mixed, process>>

Drop ==
    /\ pc = "drop"
    /\ RemoveAll("old")
    /\ FinishWith(TRUE)
    /\ StayInWorker /\ UNCHANGED <<mixed, process>>

(* A failed attempt is kept as `.failed' for its log.                       *)
Keep ==
    \/ /\ pc = "keep"
       /\ RemoveAll("failed") /\ Goto("kept")
       /\ StayInWorker /\ UNCHANGED <<mixed, process>>
    \/ /\ pc = "kept"
       /\ IF dir["partial"] = NoTree
          THEN UNCHANGED <<dir, faults, built>>
          ELSE RenameOk("partial", "failed") \/ RenameFails("failed")
       /\ FinishWith(FALSE)
       /\ StayInWorker /\ UNCHANGED <<mixed, process>>

-----------------------------------------------------------------------------
(* The build tool (external): it writes into `.partial', makes it ready     *)
(* last and then exits; the code it exits with is its own.  A tool that     *)
(* outlived its launcher goes on writing until it ends.                     *)
Written(a, r) == [dir EXCEPT !["partial"] = [by |-> @.by \cup {a}, ready |-> r]]

ToolWrites ==
    /\ child = "running"
    /\ \E r \in BOOLEAN : Note(Written(attempt, r))
    /\ UNCHANGED <<kind, pc, flags, result, ui, attempt, faults, mixed, process, history>>

ToolExits ==
    /\ child = "running"
    /\ child' = "exited"
    /\ code' \in BOOLEAN
    /\ UNCHANGED <<kind, pc, flags, result, ui, attempt, folders, tree, orphans, history>>

OrphanStep ==
    /\ \E a \in orphans :
         \/ /\ orphans' = orphans \ {a}
            /\ UNCHANGED <<dir, built>>
         \/ /\ \E r \in BOOLEAN : Note(Written(a, r))
            /\ UNCHANGED orphans
    /\ UNCHANGED <<kind, pc, flags, result, ui, attempt, faults, mixed, tree, child, code, history>>

(* The launcher dies.  The tool dies with it only where the system closes   *)
(* its job object (Windows) and it was attached; elsewhere it goes on.      *)
Crash ==
    /\ pc # "idle"
    /\ CanFail /\ Fault
    /\ pc' = "idle" /\ flags' = NoFlags /\ result' = FALSE
    /\ tree' = "empty" /\ child' = "none" /\ code' = FALSE
    /\ ui' = FALSE
    /\ \/ orphans' = orphans \cup (IF child = "running" THEN {attempt} ELSE {})
       \/ child = "running" /\ tree = "attached" /\ UNCHANGED orphans
    /\ accepted' = FALSE /\ spawned' = FALSE /\ before' = dir
    /\ UNCHANGED <<kind, attempt, dir, mixed, built>>

-----------------------------------------------------------------------------
Worker ==
    \/ Start \/ Prepare \/ Ready \/ Inputs \/ Patched \/ Spawn \/ NotSpawned
    \/ Attach \/ StopIfCancelled \/ Read \/ Wait \/ Release \/ Decide
    \/ Clear \/ Aside \/ Move \/ Restore \/ Drop \/ Keep
    \/ FinishCancelled \/ FinishJob

Next ==
    \/ StartJob \/ RequestCancel \/ RequestTerminates
    \/ Worker
    \/ ToolWrites \/ ToolExits \/ OrphanStep \/ Crash

(* The two threads are scheduled by the system.  Nothing is assumed of the  *)
(* tool: it may run for ever when nobody stops it.                          *)
Spec ==
    /\ Init /\ [][Next]_vars
    /\ WF_vars(Worker)
    /\ WF_vars(RequestTerminates)

-----------------------------------------------------------------------------
(* Type invariant.                                                          *)
TypeOK ==
    /\ kind \in Kinds
    /\ dir \in [Paths -> Trees]
    /\ pc \in {"idle", "start", "prepare", "ready", "inputs", "patched", "spawn", "notSpawned",
               "attach", "attached", "read", "eof", "wait", "release", "decide", "cancelled",
               "clear", "aside", "move", "moveBack", "restore", "drop", "keep", "kept",
               "finish", "finished"}
    /\ flags \in [cancel : BOOLEAN, cancelled : BOOLEAN, ok : BOOLEAN,
                  finished : BOOLEAN, publishing : BOOLEAN]
    /\ {result, code, ui, accepted, spawned, mixed, built} \subseteq BOOLEAN
    /\ tree \in {"empty", "attached", "closed"}
    /\ child \in {"none", "running", "exited", "reaped"}
    /\ attempt \in Attempts /\ orphans \subseteq Attempts
    /\ faults \in 0 .. MaxFaults
    /\ before \in [Paths -> Trees]

(* Once there is a ready build, one is found in the entry folder, in `.old' *)
(* or complete in `.partial' about to be moved: always for a disc as long   *)
(* as one file operation failed or the launcher crashed once, at any point  *)
(* of any number of attempts; for a cartridge, whose entry is removed       *)
(* before the new one is moved in, as long as nothing failed.  An earlier   *)
(* launcher's tool that still writes into `.partial' is excepted.           *)
BuildKept ==
    built /\ ~mixed /\ faults <= (IF kind = "disc" THEN 1 ELSE 0) =>
        \E p \in {"entry", "old", "partial"} : dir[p].ready

(* A cancelled attempt changes neither the completed entry nor what an      *)
(* earlier attempt left in `.failed' and `.old' (finish_cancelled).         *)
CancelledTouchesNothing ==
    Outcome = "cancelled" => \A p \in Paths \ {"partial"} : dir[p] = before[p]

(* What a job that succeeded left in the entry folder is ready and was      *)
(* written by that job's own tool, whatever earlier attempts, cancelled or  *)
(* crashed, left behind, unless an earlier tool was still writing.          *)
SuccessIsWhole ==
    Outcome = "succeeded" /\ ~mixed => dir["entry"] = [by |-> {attempt}, ready |-> TRUE]

(* A cancel request that was accepted after the tool was started ends the   *)
(* job as cancelled, at whichever step of the worker it came.               *)
CancelWins == accepted /\ spawned /\ flags.finished => Outcome = "cancelled"

(* An accepted cancel ends the job, though the tool itself may never end:   *)
(* whatever the order of the request, the creation of the process and its   *)
(* registration, somebody stops the tree.                                   *)
CancelEnds == accepted ~> (flags.finished \/ pc = "idle")

(* What the header says of request_cancel: an accepted request ends the job *)
(* as `cancelled'.                                                          *)
AcceptedIsCancelled == accepted /\ flags.finished => Outcome = "cancelled"

=============================================================================
