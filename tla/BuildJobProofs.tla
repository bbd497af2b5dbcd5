--------------------------- MODULE BuildJobProofs ----------------------------
(* The theorems of module BuildJob, for any number of attempts and faults. *)
(* Their inductive invariant is IInv.                                      *)
EXTENDS BuildJob, TLAPS

(* The steps of the worker between its decision to publish and its end,     *)
(* those after it prepared the folder of the attempt, and those with a tool. *)
Publishing == {"clear", "aside", "move", "moveBack", "restore", "drop", "keep", "kept"}
Prepared ==
    Publishing \cup {"ready", "inputs", "patched", "spawn", "notSpawned", "attach", "attached",
                     "read", "eof", "wait", "release", "decide", "cancelled"}
Spawned ==
    Publishing \cup {"attach", "attached", "read", "eof", "wait", "release", "decide", "cancelled",
                     "finish", "finished"}
Steps == Prepared \cup {"idle", "start", "prepare", "finish", "finished"}

Flags == [cancel : BOOLEAN, cancelled : BOOLEAN, ok : BOOLEAN,
          finished : BOOLEAN, publishing : BOOLEAN]

(* The types of what the worker and the request share, of the process, and  *)
(* of the folders.                                                          *)
JobTypes ==
    /\ kind \in {"cartridge", "disc"} /\ kind \in Kinds
    /\ pc \in Steps
    /\ flags \in Flags
    /\ result \in BOOLEAN /\ ui \in BOOLEAN
    /\ accepted \in BOOLEAN /\ spawned \in BOOLEAN
    /\ attempt \in Attempts

ProcessTypes ==
    /\ tree \in {"empty", "attached", "closed"}
    /\ child \in {"none", "running", "exited", "reaped"}
    /\ code \in BOOLEAN
    /\ orphans \subseteq Attempts

FolderTypes ==
    /\ dir \in [Paths -> Trees]
    /\ before \in [Paths -> Trees]
    /\ mixed \in BOOLEAN /\ built \in BOOLEAN
    /\ faults \in 0 .. MaxFaults

(* What the flags say of the worker's place: the decision to publish and a  *)
(* request exclude each other, and a job whose tool ran ends only by one of *)
(* the two.                                                                 *)
FlagsAgree ==
    /\ pc = "idle" => ~accepted /\ ~spawned
    /\ flags.publishing => ~flags.cancel /\ ~flags.cancelled
    /\ pc \in Publishing => flags.publishing
    /\ flags.publishing => pc \in Publishing \cup {"finish", "finished"}
    /\ flags.cancelled => pc \in {"finish", "finished"} /\ ~result
    /\ flags.ok => pc = "finished" /\ result
    /\ flags.finished => pc = "finished"
    /\ result => pc \in {"finish", "finished"} /\ flags.publishing
    /\ accepted => flags.cancel
    /\ spawned => pc \in Spawned
    /\ spawned /\ pc \in {"finish", "finished"} => flags.cancelled \/ flags.publishing

(* A tool runs only between its start and the wait for it.                  *)
ToolPlace == child = "running" => pc \in {"attach", "attached", "read", "eof", "wait"}

(* Until the decision to publish, a job has changed only `.partial'.        *)
OnlyPartial ==
    pc # "idle" /\ ~flags.publishing => \A p \in Paths \ {"partial"} : dir[p] = before[p]

(* What is ready was written by somebody.                                   *)
ReadyIsWritten == \A p \in Paths : dir[p].ready => dir[p].by # {}

(* The folder of the attempt is this job's alone once it is prepared, what  *)
(* is about to be published is whole, and what is published stays so.       *)
OwnWork ==
    ~mixed =>
      /\ pc \in Prepared \/ flags.publishing => orphans = {}
      /\ pc \in Prepared => dir["partial"].by \subseteq {attempt}
      /\ pc \in {"clear", "aside", "move", "moveBack"} =>
            dir["partial"] = [by |-> {attempt}, ready |-> TRUE]
      /\ result \/ pc = "drop" => dir["entry"] = [by |-> {attempt}, ready |-> TRUE]

(* Where the build is while a disc's is published: a disc's entry is ready  *)
(* or not there, and `.old' holds it between the two renames.               *)
DiscPlaces ==
    kind = "disc" /\ ~mixed =>
      /\ dir["entry"] = NoTree \/ dir["entry"].ready
      /\ pc = "aside" => dir["entry"].ready
      /\ pc \in {"move", "moveBack", "restore"} => dir["entry"] = NoTree
      /\ pc \in {"moveBack", "restore"} => dir["old"].ready
      /\ pc = "restore" => faults > 0

DiscKept ==
    kind = "disc" /\ ~mixed /\ built =>
      /\ faults = 0 => dir["entry"].ready \/ pc = "moveBack"
      /\ faults = 1 => dir["entry"].ready \/ dir["old"].ready \/ pc = "move"

CartridgeKept ==
    kind = "cartridge" =>
      /\ pc \notin {"aside", "moveBack", "restore", "drop"}
      /\ faults = 0 /\ pc = "move" => dir["entry"] = NoTree
      /\ ~mixed /\ built /\ faults = 0 => dir["entry"].ready \/ pc = "move"

IInv ==
    /\ JobTypes /\ ProcessTypes /\ FolderTypes
    /\ FlagsAgree /\ ToolPlace /\ OnlyPartial /\ ReadyIsWritten
    /\ OwnWork /\ DiscPlaces /\ DiscKept /\ CartridgeKept

-----------------------------------------------------------------------------
(* The file system: what may have become of the folders when only p was      *)
(* touched, and of the history of the entry.                                *)
Touched(p) ==
    /\ dir' \in [Paths -> Trees]
    /\ \A q \in Paths \ {p} : dir'[q] = dir[q]
    /\ built' \in BOOLEAN
    /\ built' => built \/ dir'["entry"].ready

\* A folder that is not there has no writer and is not ready.
LEMMA TreeFacts == NoTree \in Trees /\ NoTree.by = {} /\ NoTree.ready = FALSE
  BY DEF NoTree, Trees

\* A folder replaced by another tree, with the history of the entry brought up to date.
LEMMA NoteDoes ==
  ASSUME FolderTypes, NEW p \in Paths, NEW t \in Trees, Note([dir EXCEPT ![p] = t])
  PROVE  Touched(p) /\ dir'[p] = t
<1>1. dir' = [dir EXCEPT ![p] = t] /\ built' = (built \/ dir'["entry"].ready)
  BY DEF Note
<1>2. /\ dir' \in [Paths -> Trees] /\ dir'[p] = t
      /\ \A q \in Paths \ {p} : dir'[q] = dir[q]
  BY <1>1 DEF FolderTypes
<1>3. dir'["entry"].ready \in BOOLEAN
  BY <1>2 DEF Paths, Trees
<1> QED BY <1>1, <1>2, <1>3 DEF Touched, FolderTypes

\* A removal leaves nothing, or is a fault and leaves the folder, ready only if it
\* was (remove_all with its error ignored).
LEMMA RemoveAllDoes ==
  ASSUME FolderTypes, NEW p \in Paths, RemoveAll(p)
  PROVE  /\ Touched(p)
         /\ \/ dir'[p] = NoTree /\ faults' = faults
            \/ /\ dir'[p].by = dir[p].by /\ (dir'[p].ready => dir[p].ready)
               /\ faults < MaxFaults /\ faults' = faults + 1
<1>1. CASE Note(Removed(dir, p)) /\ UNCHANGED faults
  BY <1>1, NoteDoes, TreeFacts DEF Removed
<1>2. CASE CanFail /\ Fault /\ \E d \in Remains(dir, p) : Note(d)
  <2>1. PICK r \in BOOLEAN : /\ Note([dir EXCEPT ![p].ready = r])
                             /\ [dir EXCEPT ![p].ready = r][p].ready => dir[p].ready
    BY <1>2 DEF Remains
  <2> DEFINE t == [dir[p] EXCEPT !.ready = r]
  <2>2. t \in Trees /\ t.by = dir[p].by /\ t.ready = r
    BY DEF FolderTypes, Trees
  <2>3. [dir EXCEPT ![p].ready = r] = [dir EXCEPT ![p] = t]
    BY DEF FolderTypes
  <2>4. r => dir[p].ready
    BY <2>1, <2>2, <2>3 DEF FolderTypes
  <2> HIDE DEF t
  <2>5. Note([dir EXCEPT ![p] = t])
    BY <2>1, <2>3
  <2>6. Touched(p) /\ dir'[p] = t
    BY <2>2, <2>5, NoteDoes
  <2>7. faults < MaxFaults /\ faults' = faults + 1
    BY <1>2 DEF CanFail, Fault
  <2> QED BY <2>2, <2>4, <2>6, <2>7
<1> QED BY <1>1, <1>2 DEF RemoveAll

\* A rename that succeeds found no folder at its target.
LEMMA RenameOkDoes ==
  ASSUME FolderTypes, NEW from \in Paths, NEW to \in Paths, from # to, RenameOk(from, to)
  PROVE  /\ dir' \in [Paths -> Trees]
         /\ dir[to] = NoTree /\ dir'[to] = dir[from] /\ dir'[from] = NoTree
         /\ \A q \in Paths \ {from, to} : dir'[q] = dir[q]
         /\ built' \in BOOLEAN /\ (built' => built \/ dir'["entry"].ready)
         /\ faults' = faults
<1>1. /\ dir' = [dir EXCEPT ![to] = dir[from], ![from] = NoTree]
      /\ built' = (built \/ dir'["entry"].ready)
      /\ dir[to] = NoTree /\ faults' = faults
  BY DEF RenameOk, CanRename, Renamed, Note
<1>2. /\ dir' \in [Paths -> Trees] /\ dir'[to] = dir[from] /\ dir'[from] = NoTree
      /\ \A q \in Paths \ {from, to} : dir'[q] = dir[q]
  BY <1>1, TreeFacts DEF FolderTypes
<1>3. dir'["entry"].ready \in BOOLEAN
  BY <1>2 DEF Paths, Trees
<1> QED BY <1>1, <1>2, <1>3 DEF FolderTypes

\* A tool that writes adds itself to the writers of `.partial'.
LEMMA WriteDoes ==
  ASSUME FolderTypes, NEW a \in Attempts, NEW r \in BOOLEAN, Note(Written(a, r))
  PROVE  /\ Touched("partial")
         /\ dir'["partial"].by = dir["partial"].by \cup {a} /\ dir'["partial"].ready = r
<1> DEFINE t == [by |-> dir["partial"].by \cup {a}, ready |-> r]
<1>1. t \in Trees /\ t.by = dir["partial"].by \cup {a} /\ t.ready = r
  BY DEF FolderTypes, Trees, Paths
<1>2. Written(a, r) = [dir EXCEPT !["partial"] = t]
  BY DEF Written
<1> HIDE DEF t
<1> QED BY <1>1, <1>2, NoteDoes DEF Paths

\* The worker's steps before the tool that only look at the request.
LEMMA StartKeeps ==
  ASSUME IInv, Start \/ Ready \/ Patched \/ NotSpawned
  PROVE  IInv'
<1> USE DEF IInv, JobTypes, FlagsAgree, Start, Ready, Patched, NotSpawned,
        CancelStored, Goto, FinishWith, StayInWorker, folders, process, history
<1>1. JobTypes' /\ FlagsAgree'
  <2> USE DEF Flags, Steps, Prepared, Spawned, Publishing
  <2>1. CASE Start
    <3>1. JobTypes'
      BY <2>1
    <3>2. FlagsAgree'
      BY <2>1
    <3> QED BY <3>1, <3>2
  <2>2. CASE Ready
    BY <2>2
  <2>3. CASE Patched
    BY <2>3
  <2>4. CASE NotSpawned
    BY <2>4
  <2> QED BY <2>1, <2>2, <2>3, <2>4
<1>2. ProcessTypes' /\ ToolPlace'
  BY DEF ProcessTypes, ToolPlace
<1>3. FolderTypes' /\ ReadyIsWritten' /\ OnlyPartial'
  BY DEF FolderTypes, ReadyIsWritten, OnlyPartial, Flags
<1>4. OwnWork' /\ DiscPlaces' /\ DiscKept' /\ CartridgeKept'
  BY DEF FolderTypes, OwnWork, DiscPlaces, DiscKept, CartridgeKept, Flags, Prepared, Publishing
<1> QED BY <1>1, <1>2, <1>3, <1>4

\* The steps of the process: its start, registration, end and release.
LEMMA ProcessKeeps ==
  ASSUME IInv, Spawn \/ Attach \/ StopIfCancelled \/ Read \/ Wait \/ Release \/ ToolExits
  PROVE  IInv'
<1> USE DEF IInv, JobTypes, FlagsAgree, Spawn, Attach, StopIfCancelled, Read, Wait, Release,
        ToolExits, Goto, StayInWorker, folders, process, history
<1>1. JobTypes'
  BY DEF Steps, Prepared
<1>2. FlagsAgree'
  BY DEF Spawned, Publishing
<1>3. ProcessTypes' /\ ToolPlace'
  BY DEF ProcessTypes, ToolPlace, Terminate
<1>4. FolderTypes' /\ ReadyIsWritten' /\ OnlyPartial'
  BY DEF FolderTypes, ReadyIsWritten, OnlyPartial
<1>5. OwnWork'
  BY DEF FolderTypes, OwnWork, Prepared, Publishing
<1>6. DiscPlaces' /\ DiscKept' /\ CartridgeKept'
  BY DEF DiscPlaces, DiscKept, CartridgeKept
<1> QED BY <1>1, <1>3, <1>4, <1>5, <1>2, <1>6

\* A request of the user interface thread, and the two stores of finish().
LEMMA RequestKeeps ==
  ASSUME IInv, RequestCancel \/ RequestTerminates \/ FinishJob
  PROVE  IInv'
<1> USE DEF IInv, RequestCancel, RequestTerminates, FinishJob, Finish, StayInWorker, folders, process, history
<1>1. JobTypes'
  BY DEF JobTypes, Flags, Steps
<1>2. FlagsAgree'
  BY DEF JobTypes, FlagsAgree, Flags, Spawned, Publishing
<1>3. ProcessTypes' /\ ToolPlace'
  BY DEF ProcessTypes, ToolPlace, Terminate
<1>4. FolderTypes' /\ ReadyIsWritten' /\ OnlyPartial'
  BY DEF JobTypes, FolderTypes, ReadyIsWritten, OnlyPartial, Flags
<1>5. OwnWork'
  BY DEF JobTypes, FlagsAgree, FolderTypes, OwnWork, Flags, Prepared, Publishing
<1>6. DiscPlaces' /\ DiscKept' /\ CartridgeKept'
  BY DEF DiscPlaces, DiscKept, CartridgeKept
<1> QED BY <1>1, <1>2, <1>3, <1>4, <1>5, <1>6

\* A new job starts from its own flags and remembers the folders it found.
LEMMA StartJobKeeps ==
  ASSUME IInv, StartJob
  PROVE  IInv'
<1>1. PICK c \in BOOLEAN : flags' = [NoFlags EXCEPT !.cancel = c]
  BY DEF StartJob
<1>2. flags' \in Flags /\ ~flags'.cancelled /\ ~flags'.ok /\ ~flags'.finished /\ ~flags'.publishing
  BY <1>1 DEF NoFlags, Flags
<1>3. attempt' \in Attempts
  BY BuildJobAssumption DEF IInv, StartJob, JobTypes, Attempts
<1>4. JobTypes'
  BY <1>2, <1>3 DEF IInv, StartJob, JobTypes, Steps
<1>5. FlagsAgree'
  BY <1>2 DEF StartJob, FlagsAgree, Publishing
<1>6. ProcessTypes' /\ ToolPlace'
  BY DEF IInv, StartJob, ProcessTypes, ToolPlace
<1>7. FolderTypes' /\ ReadyIsWritten' /\ OnlyPartial'
  BY DEF IInv, StartJob, folders, FolderTypes, ReadyIsWritten, OnlyPartial
<1>8. OwnWork'
  BY <1>2 DEF StartJob, OwnWork, Prepared, Publishing
<1>9. DiscPlaces' /\ DiscKept' /\ CartridgeKept'
  BY DEF IInv, JobTypes, FlagsAgree, StartJob, folders, DiscPlaces, DiscKept, CartridgeKept
<1> QED BY <1>4, <1>5, <1>6, <1>7, <1>8, <1>9 DEF IInv

\* The decision under the mutex: what goes on to be published is ready, and has no
\* writer but this job's tool, which was waited for.
LEMMA DecideKeeps ==
  ASSUME IInv, Decide
  PROVE  IInv'
<1> USE DEF IInv, JobTypes, FlagsAgree, Decide, StayInWorker, folders, process, history
<1>1. JobTypes' /\ FlagsAgree'
  BY DEF Flags, Steps, Prepared, Spawned, Publishing
<1>2. ProcessTypes' /\ ToolPlace'
  BY DEF ProcessTypes, ToolPlace
<1>3. FolderTypes' /\ ReadyIsWritten' /\ OnlyPartial'
  BY DEF FolderTypes, ReadyIsWritten, OnlyPartial, Flags
<1>4. OwnWork'
  <2>1. ASSUME ~mixed PROVE orphans' = {} /\ dir'["partial"].by \subseteq {attempt'}
    BY <2>1 DEF OwnWork, Prepared
  <2>2. ASSUME ~mixed, pc' = "clear"
        PROVE  dir'["partial"] = [by |-> {attempt'}, ready |-> TRUE]
    <3>1. dir["partial"].ready /\ dir["partial"] \in Trees
      BY <2>2 DEF FolderTypes, Paths
    <3>2. dir["partial"].by = {attempt}
      BY <2>1, <2>2, <3>1 DEF ReadyIsWritten, Paths
    <3> QED BY <3>1, <3>2 DEF Trees
  <2> QED BY <2>1, <2>2 DEF OwnWork, Prepared, Publishing
<1>5. DiscPlaces' /\ DiscKept' /\ CartridgeKept'
  BY DEF DiscPlaces, DiscKept, CartridgeKept
<1> QED BY <1>1, <1>2, <1>3, <1>4, <1>5

-----------------------------------------------------------------------------
(* The steps that touch only `.partial'.                                    *)

\* A cancelled job removes its own folder only.
LEMMA FinishCancelledKeeps ==
  ASSUME IInv, FinishCancelled
  PROVE  IInv'
<1>1. /\ Touched("partial") /\ faults' \in 0..MaxFaults
      /\ dir'["partial"].ready => dir'["partial"].by # {}
      /\ faults' = faults \/ faults' = faults + 1
  BY RemoveAllDoes, TreeFacts, BuildJobAssumption
     DEF IInv, FinishCancelled, ReadyIsWritten, FolderTypes, Paths
<1> USE DEF IInv, FinishCancelled, CancelStored, StayInWorker, process, history
<1>2. JobTypes' /\ FlagsAgree'
  BY DEF JobTypes, FlagsAgree, Flags, Steps, Prepared, Spawned, Publishing
<1>3. ProcessTypes' /\ ToolPlace'
  BY DEF ProcessTypes, ToolPlace
<1>4. FolderTypes' /\ ReadyIsWritten' /\ OnlyPartial'
  BY <1>1 DEF FolderTypes, ReadyIsWritten, OnlyPartial, Touched, Paths, JobTypes, FlagsAgree, Flags
<1>5. OwnWork'
  BY <1>1 DEF OwnWork, Touched, Prepared, Publishing, FlagsAgree, JobTypes, Flags, FolderTypes
<1>6. DiscPlaces' /\ DiscKept' /\ CartridgeKept'
  BY <1>1 DEF DiscPlaces, DiscKept, CartridgeKept, Touched, Paths, FolderTypes
<1> QED BY <1>2, <1>3, <1>4, <1>5, <1>6

\* After the folder is prepared nobody else has written in it and no orphan can,
\* or the attempt counts as mixed.
LEMMA PrepareKeeps ==
  ASSUME IInv, Prepare
  PROVE  IInv'
<1>1. /\ Touched("partial") /\ faults' \in 0..MaxFaults
      /\ dir'["partial"].ready => dir'["partial"].by # {}
      /\ faults' = faults \/ faults' = faults + 1
      /\ dir'["partial"].by \in {{}, dir["partial"].by}
  BY RemoveAllDoes, TreeFacts, BuildJobAssumption
     DEF IInv, Prepare, ReadyIsWritten, FolderTypes, Paths
<1>2. mixed' \in BOOLEAN /\ (~mixed' => ~mixed /\ orphans = {} /\ dir'["partial"].by = {})
  BY <1>1 DEF IInv, Prepare, FolderTypes
<1> USE DEF IInv, Prepare, Goto, FinishWith, StayInWorker, process, history
<1>3. JobTypes' /\ FlagsAgree'
  <2>1. JobTypes'
    BY DEF JobTypes, Steps, Prepared
  <2>2. FlagsAgree'
    BY DEF JobTypes, FlagsAgree, Spawned, Publishing
  <2> QED BY <2>1, <2>2
<1>4. ProcessTypes' /\ ToolPlace'
  BY DEF ProcessTypes, ToolPlace
<1>5. FolderTypes' /\ ReadyIsWritten' /\ OnlyPartial'
  BY <1>1, <1>2 DEF FolderTypes, ReadyIsWritten, OnlyPartial, Touched, Paths, JobTypes, FlagsAgree, Flags
<1>6. OwnWork'
  BY <1>1, <1>2 DEF OwnWork, Prepared, Publishing, FlagsAgree, JobTypes, Flags
<1>7. DiscPlaces' /\ DiscKept' /\ CartridgeKept'
  BY <1>1, <1>2 DEF DiscPlaces, DiscKept, CartridgeKept, Touched, Paths, FolderTypes
<1> QED BY <1>3, <1>4, <1>5, <1>6, <1>7

\* The inputs are written into the folder of the attempt, or it is removed.
LEMMA InputsKeeps ==
  ASSUME IInv, Inputs
  PROVE  IInv'
<1>1. ASSUME Note([dir EXCEPT !["partial"] = [by |-> @.by \cup {attempt}, ready |-> FALSE]])
      PROVE  /\ Touched("partial") /\ dir'["partial"].by = dir["partial"].by \cup {attempt}
             /\ dir'["partial"].ready = FALSE
  BY <1>1, WriteDoes DEF IInv, JobTypes, Written
<1>2. ASSUME UNCHANGED <<dir, faults, built>>
      PROVE  Touched("partial")
  BY <1>2 DEF IInv, FolderTypes, Touched
<1>3. /\ Touched("partial") /\ faults' \in 0..MaxFaults
      /\ dir'["partial"].ready => dir'["partial"].by # {}
      /\ faults' = faults \/ faults' = faults + 1
      /\ dir'["partial"].by \subseteq dir["partial"].by \cup {attempt}
  <2> USE DEF IInv, FolderTypes, ReadyIsWritten, Paths
  <2>1. CASE RemoveAll("partial")
    BY <2>1, RemoveAllDoes, TreeFacts, BuildJobAssumption
  <2>2. CASE UNCHANGED <<dir, faults, built>>
    BY <2>2, <1>2
  <2>3. CASE /\ Note([dir EXCEPT !["partial"] = [by |-> @.by \cup {attempt}, ready |-> FALSE]])
             /\ UNCHANGED faults
    BY <2>3, <1>1
  <2> QED BY <2>1, <2>2, <2>3 DEF Inputs
<1> USE DEF IInv, Inputs, Goto, FinishWith, StayInWorker, process, history
<1>4. JobTypes' /\ FlagsAgree'
  <2>1. JobTypes'
    BY DEF JobTypes, Steps, Prepared
  <2>2. FlagsAgree'
    BY DEF JobTypes, FlagsAgree, Spawned, Publishing
  <2> QED BY <2>1, <2>2
<1>5. ProcessTypes' /\ ToolPlace'
  BY DEF ProcessTypes, ToolPlace
<1>6. FolderTypes' /\ ReadyIsWritten' /\ OnlyPartial'
  BY <1>3 DEF FolderTypes, ReadyIsWritten, OnlyPartial, Touched, Paths, JobTypes, FlagsAgree, Flags
<1>7. OwnWork'
  BY <1>3 DEF OwnWork, Prepared, Publishing, FlagsAgree, JobTypes, Flags
<1>8. DiscPlaces' /\ DiscKept' /\ CartridgeKept'
  BY <1>3 DEF DiscPlaces, DiscKept, CartridgeKept, Touched, Paths, FolderTypes
<1> QED BY <1>4, <1>5, <1>6, <1>7, <1>8

\* The tool writes only while the worker has not yet waited for it; an orphan
\* writes only where the attempt counts as mixed.
LEMMA WritesKeep ==
  ASSUME IInv, ToolWrites \/ OrphanStep
  PROVE  IInv'
<1>1. /\ Touched("partial") /\ faults' = faults /\ mixed' = mixed
      /\ orphans' \subseteq orphans
      /\ dir'["partial"].ready => dir'["partial"].by # {}
      /\ orphans = {} => /\ dir'["partial"].by \subseteq dir["partial"].by \cup {attempt}
                         /\ child = "running"
  <2>1. CASE ToolWrites
    BY <2>1, WriteDoes DEF ToolWrites, IInv, JobTypes, process
  <2>2. CASE OrphanStep
    <3>1. PICK a \in orphans :
            \/ orphans' = orphans \ {a} /\ UNCHANGED <<dir, built>>
            \/ (\E r \in BOOLEAN : Note(Written(a, r))) /\ UNCHANGED orphans
      BY <2>2 DEF OrphanStep
    <3>2. a \in Attempts
      BY DEF IInv, ProcessTypes
    <3>3. CASE UNCHANGED <<dir, built>> /\ orphans' = orphans \ {a}
      BY <2>2, <3>3 DEF OrphanStep, IInv, FolderTypes, ReadyIsWritten, Touched, Paths
    <3>4. CASE (\E r \in BOOLEAN : Note(Written(a, r))) /\ UNCHANGED orphans
      BY <2>2, <3>2, <3>4, WriteDoes DEF OrphanStep, IInv
    <3> QED BY <3>1, <3>3, <3>4
  <2> QED BY <2>1, <2>2
<1>2. /\ UNCHANGED <<kind, pc, flags, result, ui, attempt, accepted, spawned, before>>
      /\ UNCHANGED <<tree, child, code>>
  BY DEF ToolWrites, OrphanStep, process, history
<1> USE DEF IInv
<1>3. JobTypes' /\ FlagsAgree'
  BY <1>2 DEF JobTypes, FlagsAgree
<1>4. ProcessTypes' /\ ToolPlace'
  BY <1>1, <1>2 DEF ProcessTypes, ToolPlace
<1>5. FolderTypes' /\ ReadyIsWritten' /\ OnlyPartial'
  BY <1>1, <1>2 DEF FolderTypes, ReadyIsWritten, OnlyPartial, Touched, Paths
<1>6. OwnWork'
  BY <1>1, <1>2 DEF OwnWork, Touched, Paths, Prepared, Publishing, FlagsAgree, ToolPlace
<1>7. DiscPlaces' /\ DiscKept' /\ CartridgeKept'
  BY <1>1, <1>2 DEF DiscPlaces, DiscKept, CartridgeKept, Touched, Paths
<1> QED BY <1>3, <1>4, <1>5, <1>6, <1>7

-----------------------------------------------------------------------------
(* Publishing.                                                              *)

\* While a build is published no request is accepted and no process changes.
LEMMA PublishControl ==
  ASSUME IInv, Clear \/ Aside \/ Move \/ Restore \/ Drop \/ Keep
  PROVE  /\ JobTypes' /\ FlagsAgree' /\ ProcessTypes' /\ ToolPlace' /\ OnlyPartial'
         /\ UNCHANGED <<kind, attempt, orphans, before, mixed, flags>> /\ flags.publishing
<1> USE DEF IInv, Goto, FinishWith, StayInWorker, process, history, FlagsAgree,
        Clear, Aside, Move, Restore, Drop, Keep
<1>1. /\ UNCHANGED <<kind, attempt, orphans, before, mixed, flags>> /\ flags.publishing
      /\ UNCHANGED <<ui, accepted, spawned, tree, child, code>>
      /\ pc \in Publishing
  BY DEF Publishing
<1>2. \/ pc' \in Publishing /\ result' = result
      \/ pc' = "finish" /\ result' \in BOOLEAN
  BY DEF Publishing
<1> QED BY <1>1, <1>2 DEF JobTypes, ProcessTypes, ToolPlace, OnlyPartial, Publishing, Steps, Prepared, Spawned

\* The way is cleared: the entry of a cartridge, the `.old' of a disc.
LEMMA ClearKeeps ==
  ASSUME IInv, Clear
  PROVE  IInv'
<1> USE DEF IInv, Clear, Goto, StayInWorker, process, history
<1> DEFINE p == IF kind = "cartridge" THEN "entry" ELSE "old"
<1>1. /\ Touched(p)
      /\ \/ dir'[p] = NoTree /\ faults' = faults
         \/ /\ dir'[p].by = dir[p].by /\ (dir'[p].ready => dir[p].ready)
            /\ faults < MaxFaults /\ faults' = faults + 1
  BY RemoveAllDoes DEF Paths
<1>2. /\ pc = "clear" /\ result' = result
      /\ pc' = IF kind = "cartridge" \/ dir["entry"] = NoTree THEN "move" ELSE "aside"
  OBVIOUS
<1>3. FolderTypes' /\ ReadyIsWritten'
  BY <1>1, TreeFacts, PublishControl, BuildJobAssumption DEF FolderTypes, ReadyIsWritten, Touched, Paths
<1>4. OwnWork'
  BY <1>1, <1>2, PublishControl DEF OwnWork, Touched, Paths, Prepared, Publishing, FlagsAgree
<1>5. DiscPlaces' /\ DiscKept'
  BY <1>1, <1>2, PublishControl, TreeFacts DEF DiscPlaces, DiscKept, Touched, Paths, FolderTypes
<1>6. CartridgeKept'
  BY <1>1, <1>2, PublishControl, TreeFacts DEF CartridgeKept, Touched, Paths, FolderTypes
<1> QED BY <1>3, <1>4, <1>5, <1>6, PublishControl

\* A disc's entry is moved aside only to a `.old' that is not there.
LEMMA AsideKeeps ==
  ASSUME IInv, Aside
  PROVE  IInv'
<1> USE DEF IInv, Aside, StayInWorker, process, history
<1>1. pc = "aside" /\ kind = "disc"
  BY DEF JobTypes, CartridgeKept
<1>2. CASE RenameOk("entry", "old") /\ Goto("moveBack")
  <2>1. /\ dir' \in [Paths -> Trees]
        /\ dir'["old"] = dir["entry"] /\ dir'["entry"] = NoTree
        /\ dir'["partial"] = dir["partial"] /\ dir'["failed"] = dir["failed"]
        /\ built' \in BOOLEAN /\ (built' => built)
        /\ faults' = faults
    BY <1>2, RenameOkDoes, TreeFacts DEF Paths
  <2>2. pc' = "moveBack" /\ result' = result
    BY <1>2 DEF Goto
  <2>3. FolderTypes' /\ ReadyIsWritten'
    BY <2>1, TreeFacts, PublishControl DEF FolderTypes, ReadyIsWritten, Paths
  <2>4. OwnWork'
    BY <1>1, <2>1, <2>2, PublishControl DEF OwnWork, Prepared, Publishing, FlagsAgree
  <2>5. DiscPlaces' /\ DiscKept' /\ CartridgeKept'
    BY <1>1, <2>1, <2>2, PublishControl DEF DiscPlaces, DiscKept, CartridgeKept
  <2> QED BY <2>3, <2>4, <2>5, PublishControl
<1>3. CASE RenameFails("old") /\ FinishWith(FALSE)
  <2>1. /\ UNCHANGED <<dir, built>> /\ pc' = "finish" /\ result' = FALSE
        /\ faults' = faults \/ (faults' = faults + 1 /\ faults < MaxFaults)
    BY <1>3 DEF RenameFails, FinishWith, CanFail, Fault
  <2>2. FolderTypes' /\ ReadyIsWritten'
    BY <2>1, PublishControl, BuildJobAssumption DEF FolderTypes, ReadyIsWritten
  <2>3. OwnWork'
    BY <2>1, PublishControl DEF OwnWork, Prepared, Publishing, FlagsAgree
  <2>4. DiscPlaces' /\ DiscKept' /\ CartridgeKept'
    BY <1>1, <2>1, PublishControl DEF DiscPlaces, DiscKept, CartridgeKept, FolderTypes
  <2> QED BY <2>2, <2>3, <2>4, PublishControl
<1> QED BY <1>2, <1>3

\* The new build is moved in, or the disc's job goes on to restore the old one; with
\* the entry away the move fails only by a fault.
LEMMA MoveKeeps ==
  ASSUME IInv, Move
  PROVE  IInv'
<1> USE DEF IInv, Move, StayInWorker, process, history
<1>1. pc \in {"move", "moveBack"} /\ (kind = "cartridge" => pc = "move") /\ kind \in {"cartridge", "disc"}
  BY DEF JobTypes, CartridgeKept
<1>2. CASE /\ RenameOk("partial", "entry")
           /\ IF kind = "cartridge" THEN FinishWith(TRUE) ELSE Goto("drop")
  <2>1. /\ dir' \in [Paths -> Trees]
        /\ dir'["entry"] = dir["partial"] /\ dir'["partial"] = NoTree
        /\ dir'["old"] = dir["old"] /\ dir'["failed"] = dir["failed"]
        /\ built' \in BOOLEAN /\ faults' = faults
    BY <1>2, RenameOkDoes, TreeFacts DEF Paths
  <2>2. IF kind = "cartridge" THEN pc' = "finish" /\ result' = TRUE
                              ELSE pc' = "drop" /\ result' = result
    BY <1>2 DEF Goto, FinishWith
  <2>3. ~mixed => dir'["entry"] = [by |-> {attempt}, ready |-> TRUE]
    BY <1>1, <2>1 DEF OwnWork
  <2>4. FolderTypes' /\ ReadyIsWritten'
    BY <2>1, TreeFacts, PublishControl DEF FolderTypes, ReadyIsWritten, Paths
  <2>5. OwnWork'
    BY <1>1, <2>1, <2>2, <2>3, TreeFacts, PublishControl DEF OwnWork, Prepared, Publishing, FlagsAgree
  <2>6. DiscPlaces' /\ DiscKept' /\ CartridgeKept'
    BY <1>1, <2>1, <2>2, <2>3, PublishControl DEF DiscPlaces, DiscKept, CartridgeKept
  <2> QED BY <2>4, <2>5, <2>6, PublishControl
<1>3. CASE /\ RenameFails("entry")
           /\ IF pc = "moveBack" THEN Goto("restore") ELSE FinishWith(FALSE)
  <2>1. /\ UNCHANGED <<dir, built>>
        /\ \/ faults' = faults /\ dir["entry"] # NoTree
           \/ faults' = faults + 1 /\ faults < MaxFaults
    BY <1>3 DEF RenameFails, CanRename, CanFail, Fault
  <2>2. IF pc = "moveBack" THEN pc' = "restore" /\ result' = result
                           ELSE pc' = "finish" /\ result' = FALSE
    BY <1>3 DEF Goto, FinishWith
  <2>3. FolderTypes' /\ ReadyIsWritten'
    BY <2>1, PublishControl, BuildJobAssumption DEF FolderTypes, ReadyIsWritten
  <2>4. OwnWork'
    BY <1>1, <2>1, <2>2, PublishControl DEF OwnWork, Prepared, Publishing, FlagsAgree
  <2>5. DiscPlaces' /\ DiscKept'
    BY <1>1, <2>1, <2>2, TreeFacts, PublishControl DEF DiscPlaces, DiscKept, FolderTypes
  <2>6. CartridgeKept'
    BY <1>1, <2>1, <2>2, TreeFacts, PublishControl DEF CartridgeKept, FolderTypes
  <2> QED BY <2>3, <2>4, <2>5, <2>6, PublishControl
<1> QED BY <1>2, <1>3

\* What was moved aside is moved back, or stays in `.old'.
LEMMA RestoreKeeps ==
  ASSUME IInv, Restore
  PROVE  IInv'
<1> USE DEF IInv, Restore, FinishWith, StayInWorker, process, history
<1>1. pc = "restore" /\ pc' = "finish" /\ result' = FALSE /\ kind = "disc"
  BY DEF JobTypes, CartridgeKept
<1>2. CASE RenameOk("old", "entry")
  <2>1. /\ dir' \in [Paths -> Trees]
        /\ dir'["entry"] = dir["old"] /\ dir'["old"] = NoTree
        /\ dir'["partial"] = dir["partial"] /\ dir'["failed"] = dir["failed"]
        /\ built' \in BOOLEAN /\ faults' = faults
    BY <1>2, RenameOkDoes, TreeFacts DEF Paths
  <2>2. FolderTypes' /\ ReadyIsWritten'
    BY <2>1, TreeFacts, PublishControl DEF FolderTypes, ReadyIsWritten, Paths
  <2>3. OwnWork'
    BY <1>1, <2>1, PublishControl DEF OwnWork, Prepared, Publishing, FlagsAgree
  <2>4. DiscPlaces' /\ DiscKept' /\ CartridgeKept'
    BY <1>1, <2>1, PublishControl DEF DiscPlaces, DiscKept, CartridgeKept
  <2> QED BY <2>2, <2>3, <2>4, PublishControl
<1>3. CASE RenameFails("entry")
  <2>1. /\ UNCHANGED <<dir, built>>
        /\ faults' = faults \/ (faults' = faults + 1 /\ faults < MaxFaults)
    BY <1>3 DEF RenameFails, CanFail, Fault
  <2>2. FolderTypes' /\ ReadyIsWritten'
    BY <2>1, PublishControl, BuildJobAssumption DEF FolderTypes, ReadyIsWritten
  <2>3. OwnWork'
    BY <1>1, <2>1, PublishControl DEF OwnWork, Prepared, Publishing, FlagsAgree
  <2>4. DiscPlaces' /\ DiscKept' /\ CartridgeKept'
    BY <1>1, <2>1, PublishControl DEF DiscPlaces, DiscKept, CartridgeKept, FolderTypes
  <2> QED BY <2>2, <2>3, <2>4, PublishControl
<1> QED BY <1>2, <1>3

\* `.old' goes once the new entry is in place.
LEMMA DropKeeps ==
  ASSUME IInv, Drop
  PROVE  IInv'
<1> USE DEF IInv, Drop, FinishWith, StayInWorker, process, history
<1>1. pc = "drop" /\ pc' = "finish" /\ result' = TRUE /\ kind = "disc"
  BY DEF JobTypes, CartridgeKept
<1>2. /\ Touched("old") /\ faults' \in 0..MaxFaults
      /\ dir'["old"].ready => dir'["old"].by # {}
      /\ faults' = faults \/ faults' = faults + 1
  BY RemoveAllDoes, TreeFacts, BuildJobAssumption DEF ReadyIsWritten, FolderTypes, Paths
<1>3. FolderTypes' /\ ReadyIsWritten'
  BY <1>2, PublishControl DEF FolderTypes, ReadyIsWritten, Touched, Paths
<1>4. OwnWork'
  BY <1>1, <1>2, PublishControl DEF OwnWork, Touched, Paths, Prepared, Publishing, FlagsAgree
<1>5. DiscPlaces' /\ DiscKept' /\ CartridgeKept'
  BY <1>1, <1>2, PublishControl DEF OwnWork, DiscPlaces, DiscKept, CartridgeKept, Touched, Paths
<1> QED BY <1>3, <1>4, <1>5, PublishControl

\* Keeping a failed attempt touches neither the entry nor `.old'.
LEMMA KeepKeeps ==
  ASSUME IInv, Keep
  PROVE  IInv'
<1> USE DEF IInv, StayInWorker, process, history
<1>1. /\ dir' \in [Paths -> Trees] /\ built' \in BOOLEAN /\ faults' \in 0..MaxFaults
      /\ dir'["entry"] = dir["entry"] /\ dir'["old"] = dir["old"]
      /\ built' => built \/ dir["entry"].ready
      /\ faults' = faults \/ faults' = faults + 1
      /\ ReadyIsWritten'
      /\ pc \in {"keep", "kept"}
      /\ (pc' = "kept" /\ result' = result /\ dir'["partial"] = dir["partial"])
         \/ (pc' = "finish" /\ result' = FALSE)
  <2> USE DEF FolderTypes, ReadyIsWritten, Paths
  <2>1. CASE pc = "keep" /\ RemoveAll("failed") /\ Goto("kept")
    BY <2>1, RemoveAllDoes, TreeFacts, BuildJobAssumption DEF Touched, Goto
  <2>2. CASE pc = "kept" /\ RenameOk("partial", "failed") /\ FinishWith(FALSE)
    BY <2>2, RenameOkDoes, TreeFacts DEF FinishWith
  <2>3. CASE pc = "kept" /\ RenameFails("failed") /\ FinishWith(FALSE)
    BY <2>3, BuildJobAssumption DEF RenameFails, FinishWith, CanFail, Fault
  <2>4. CASE pc = "kept" /\ UNCHANGED <<dir, faults, built>> /\ FinishWith(FALSE)
    BY <2>4 DEF FinishWith
  <2> QED BY <2>1, <2>2, <2>3, <2>4 DEF Keep
<1>2. FolderTypes'
  BY <1>1, PublishControl DEF FolderTypes
<1>3. OwnWork'
  BY <1>1, PublishControl DEF OwnWork, Prepared, Publishing, FlagsAgree
<1>4. DiscPlaces' /\ DiscKept' /\ CartridgeKept'
  BY <1>1, PublishControl DEF DiscPlaces, DiscKept, CartridgeKept, FolderTypes
<1> QED BY <1>1, <1>2, <1>3, <1>4, PublishControl

-----------------------------------------------------------------------------
\* A crash between any two steps, with the folders as they are.
LEMMA CrashKeeps ==
  ASSUME IInv, Crash
  PROVE  IInv'
<1> USE DEF IInv, Crash, CanFail, Fault, NoFlags
<1>1. JobTypes' /\ FlagsAgree'
  BY DEF JobTypes, FlagsAgree, Flags, Steps, Prepared, Publishing
<1>2. ProcessTypes' /\ ToolPlace'
  BY DEF JobTypes, ProcessTypes, ToolPlace
<1>3. FolderTypes' /\ ReadyIsWritten' /\ OnlyPartial'
  BY BuildJobAssumption DEF FolderTypes, ReadyIsWritten, OnlyPartial
<1>4. OwnWork'
  BY DEF OwnWork, Prepared, Publishing
<1>5. DiscPlaces' /\ DiscKept' /\ CartridgeKept'
  BY TreeFacts DEF DiscPlaces, DiscKept, CartridgeKept, FolderTypes, JobTypes
<1> QED BY <1>1, <1>2, <1>3, <1>4, <1>5

\* The launcher starts in the inductive invariant.
LEMMA BuildInit == Init => IInv
<1> SUFFICES ASSUME Init PROVE IInv
  OBVIOUS
<1>1. /\ dir \in [Paths -> Trees]
      /\ \A p \in Paths : dir[p] = NoTree \/ dir[p] = [by |-> {0}, ready |-> TRUE]
  <2>1. NoTree \in Trees /\ [by |-> {0}, ready |-> TRUE] \in Trees
    BY BuildJobAssumption DEF NoTree, Trees, Attempts
  <2>2. CASE dir = [p \in Paths |-> NoTree]
    BY <2>1, <2>2
  <2>3. CASE dir = [[p \in Paths |-> NoTree] EXCEPT !["entry"] = [by |-> {0}, ready |-> TRUE]]
    BY <2>1, <2>3 DEF Paths
  <2> QED BY <2>2, <2>3 DEF Init
<1>2. dir["entry"].ready \in BOOLEAN /\ ReadyIsWritten
  <2>1. ASSUME NEW p \in Paths PROVE dir[p].ready \in BOOLEAN /\ (dir[p].ready => dir[p].by # {})
    <3>1. CASE dir[p] = NoTree
      BY <3>1, TreeFacts
    <3>2. CASE dir[p] = [by |-> {0}, ready |-> TRUE]
      BY <3>2
    <3> QED BY <1>1, <3>1, <3>2
  <2> QED BY <2>1 DEF ReadyIsWritten, Paths
<1>3. attempt \in Attempts /\ faults \in 0 .. MaxFaults
  BY BuildJobAssumption DEF Init, Attempts
<1>4. JobTypes /\ FlagsAgree
  BY <1>3, BuildJobAssumption DEF Init, JobTypes, FlagsAgree, NoFlags, Flags, Steps, Publishing
<1>5. ProcessTypes /\ ToolPlace
  BY DEF Init, ProcessTypes, ToolPlace
<1>6. FolderTypes /\ OnlyPartial
  BY <1>1, <1>2, <1>3 DEF Init, FolderTypes, OnlyPartial
<1>7. OwnWork
  BY DEF Init, OwnWork, Prepared, Publishing, NoFlags
<1>8. DiscPlaces /\ DiscKept /\ CartridgeKept
  BY <1>1 DEF Init, DiscPlaces, DiscKept, CartridgeKept, Paths
<1> QED BY <1>4, <1>5, <1>6, <1>7, <1>8, <1>2 DEF IInv

\* Every step keeps the inductive invariant.
LEMMA BuildNext == IInv /\ [Next]_vars => IInv'
<1> SUFFICES ASSUME IInv, [Next]_vars PROVE IInv'
  OBVIOUS
<1>1. CASE UNCHANGED vars
  BY <1>1 DEF vars, folders, process, history, IInv, JobTypes, ProcessTypes, FolderTypes,
              FlagsAgree, ToolPlace, OnlyPartial, ReadyIsWritten, OwnWork, DiscPlaces,
              DiscKept, CartridgeKept
<1>2. CASE StartJob \/ RequestCancel \/ RequestTerminates
  BY <1>2, StartJobKeeps, RequestKeeps
<1>3. CASE Worker
  BY <1>3, StartKeeps, PrepareKeeps, InputsKeeps, ProcessKeeps, DecideKeeps, ClearKeeps,
     AsideKeeps, MoveKeeps, RestoreKeeps, DropKeeps, KeepKeeps, FinishCancelledKeeps,
     RequestKeeps DEF Worker
<1>4. CASE ToolWrites \/ ToolExits \/ OrphanStep \/ Crash
  BY <1>4, WritesKeep, ProcessKeeps, CrashKeeps
<1> QED BY <1>1, <1>2, <1>3, <1>4 DEF Next

\* The inductive invariant holds of every state of a build.
LEMMA BuildInvariant == Spec => []IInv
  BY BuildInit, BuildNext, PTL DEF Spec

\* The state of a build has its types, for any number of attempts and faults.
THEOREM BuildTyped == Spec => []TypeOK
<1>1. IInv => TypeOK
  BY DEF IInv, JobTypes, ProcessTypes, FolderTypes, TypeOK, Steps, Prepared, Publishing, Flags
<1> QED BY <1>1, BuildInvariant, PTL

\* A request that was accepted after the tool was started ends the job as cancelled,
\* at whichever step of the worker it came: a request and the decision to publish
\* exclude each other, and a job whose tool ran ends by one of the two.
THEOREM AcceptedCancelWins == Spec => []CancelWins
<1>1. IInv => CancelWins
  BY DEF IInv, JobTypes, Flags, FlagsAgree, CancelWins, Outcome
<1> QED BY <1>1, BuildInvariant, PTL

\* A cancelled job left the entry, `.failed' and `.old' as it found them, for any
\* number of attempts and faults.
THEOREM CancelLeavesBuilds == Spec => []CancelledTouchesNothing
<1>1. IInv => CancelledTouchesNothing
  BY DEF IInv, JobTypes, Flags, FlagsAgree, OnlyPartial, CancelledTouchesNothing, Outcome
<1> QED BY <1>1, BuildInvariant, PTL

\* What a successful job left in the entry folder is ready and has no writer but that
\* job's tool, for any number of attempts, crashes and failed operations before it,
\* unless an earlier tool was still writing when the job prepared its folder.
THEOREM SuccessLeavesWhole == Spec => []SuccessIsWhole
<1>1. IInv => SuccessIsWhole
  BY DEF IInv, JobTypes, Flags, FlagsAgree, OwnWork, SuccessIsWhole, Outcome
<1> QED BY <1>1, BuildInvariant, PTL

\* A ready build, once there, is never lost: for a disc with one failed operation or
\* crash at any point of any number of attempts, for a cartridge with none.
THEOREM ReadyBuildSurvives == Spec => []BuildKept
<1>1. IInv => BuildKept
  <2> SUFFICES ASSUME IInv, built, ~mixed, faults <= (IF kind = "disc" THEN 1 ELSE 0)
               PROVE  \E p \in {"entry", "old", "partial"} : dir[p].ready
    BY DEF BuildKept
  <2>1. faults = 0 \/ (kind = "disc" /\ faults = 1)
    BY DEF IInv, FolderTypes
  <2>2. pc \in {"move", "moveBack"} => dir["partial"].ready
    BY DEF IInv, OwnWork
  <2>3. dir["entry"].ready \/ dir["old"].ready \/ pc \in {"move", "moveBack"}
    BY <2>1 DEF IInv, JobTypes, DiscKept, CartridgeKept
  <2> QED BY <2>2, <2>3
<1> QED BY <1>1, BuildInvariant, PTL
==============================================================================
