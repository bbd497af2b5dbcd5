------------------------------ MODULE Launcher ------------------------------
(***************************************************************************)
(* The launcher's jobs (app.cpp, app_sega_cd.cpp, storage.cpp).  One thread *)
(* draws a frame, lets the user act, and then polls, in a fixed order, what *)
(* runs beside it: the status and storage scans, the one build, the check   *)
(* of a disc's program, the preparation of a disc's launch, the one game    *)
(* and the one cleanup.  A BusyGuard keeps cleanups away from builds and    *)
(* games; work that must wait is remembered in flags and in a queue.        *)
(*                                                                         *)
(* A build folder is a key <<game, variant>>: a cartridge game has one per  *)
(* build mode, a disc game has one.  What a build does inside its folder is *)
(* module BuildJob.  Messages, covers, imports of ROMs, patches, removal    *)
(* from the library and the intermediate files of a build are left out.     *)
(***************************************************************************)
EXTENDS Naturals, Sequences, FiniteSets, SequencesExt

CONSTANTS
    Carts, Discs,   \* the games in the library, by platform
    KeepLastN,      \* settings_.cleanup.keep_last_n
    KeepOld,        \* settings_.keep_old_artifacts
    Earlier,        \* the catalogs and folders an earlier session may have left
    NoOne,          \* no game
    MaxActs         \* bound: what the user does

ASSUME LauncherAssumption ==
    /\ Carts \cap Discs = {}
    /\ IsFiniteSet(Carts \cup Discs)
    /\ NoOne \notin Carts \cup Discs
    /\ Earlier \subseteq [builds : [Carts -> SUBSET {"optimized", "compatibility"}],
                          current : [Carts -> {"optimized", "compatibility", "none"}],
                          recent : [Carts \cup Discs -> 1 .. Cardinality(Carts \cup Discs)],
                          disk : SUBSET ((Carts \X {"optimized", "compatibility"})
                                         \cup (Discs \X {"disc"}))]
    /\ KeepLastN \in Nat \ {0}
    /\ KeepOld \in BOOLEAN
    /\ MaxActs \in Nat

VARIABLES
    mode,        \* entry->aot_policy of a cartridge game
    current,     \* entry->current_build_key of a cartridge game (its mode) or "none"
    builds,      \* entry->builds: the recorded modes
    recent,      \* the place of each game by when it was played or built, 1 the latest
    disk,        \* the finished builds in the cache and library folders
    busy,        \* BusyGuard; its runs_ is a multiset, so a count for each folder
    job,         \* job_ or scd_build_: the one build
    game,        \* game_: the one running game
    restart,     \* restart_pending_ and restarted_this_play_
    queue,       \* build_queue_
    cleanup,     \* pending_cleanup_ids_ and policy_eval_pending_
    maint,       \* maint_job_ and maint_plan_
    scan,        \* scan_job_, scan_again_ and the catalog it works on
    report,      \* report_ and report_valid_
    status,      \* status_job_, status_again_, and the mode that statuses_ shows of a game
    check,       \* scd_import_job_ and scd_built_
    launching,   \* scd_launch_job_: the disc game being prepared
    sheet,       \* modal_: the plan shown for confirmation
    chooser,     \* the file chooser of "Replace program..."
    at,          \* the next poll of update_jobs; "ui" between frames
    acts         \* bound: what the user has done

catalog == <<mode, current, builds, recent>>
workers == <<scan, report, status>>
discs == <<check, launching, chooser>>
vars == <<catalog, disk, busy, job, game, restart, queue, cleanup, maint,
          workers, discs, sheet, at, acts>>

-----------------------------------------------------------------------------
Games == Carts \cup Discs
Modes == {"optimized", "compatibility"}
Keys == (Carts \X Modes) \cup (Discs \X {"disc"})

\* entry_dir of the game's present options.
KeyOf(g, modes) == IF g \in Discs THEN <<g, "disc">> ELSE <<g, modes[g]>>

None == "none"
NoKey == <<NoOne, None>>
NoJob == [id |-> NoOne, key |-> NoKey, restart |-> FALSE, state |-> None]
NoGame == [id |-> NoOne, key |-> NoKey, state |-> None]
NoPlan == [kind |-> None, ids |-> {}, items |-> {}, auto |-> FALSE, state |-> None]

CurrentKeys(cur) == {<<g, cur[g]>> : g \in {c \in Carts : cur[c] # None}} \cup (Discs \X {"disc"})
RecordedKeys(cur, bl) == UNION {{g} \X bl[g] : g \in Carts} \cup CurrentKeys(cur)

TypeOK ==
    /\ mode \in [Carts -> Modes] /\ current \in [Carts -> Modes \cup {None}]
    /\ builds \in [Carts -> SUBSET Modes]
    /\ recent \in [Games -> 1 .. Cardinality(Games)]
    /\ disk \subseteq Keys
    /\ busy \in [builds : SUBSET Keys, runs : [Keys -> Nat], maintenance : BOOLEAN]
    /\ job \in [id : Games \cup {NoOne}, key : Keys \cup {NoKey}, restart : BOOLEAN,
                state : {None, "working", "stopping", "published", "succeeded", "failed", "cancelled"}]
    /\ game \in [id : Games \cup {NoOne}, key : Keys \cup {NoKey},
                 state : {None, "running", "clean", "unadmitted", "failed"}]
    /\ restart \in [pending : BOOLEAN, thisPlay : BOOLEAN]
    /\ queue \in Seq(Games) /\ IsInjective(queue)
    /\ cleanup \in [ids : SUBSET Carts, policy : BOOLEAN]
    /\ maint \in [kind : {None, "archive", "superseded"}, ids : SUBSET Games,
                  items : SUBSET Keys, auto : BOOLEAN, state : {None, "working", "done"}]
    /\ scan \in [state : {None, "working", "done"}, again : BOOLEAN,
                 cur : SUBSET Keys, old : SUBSET Keys]
    /\ report \in [valid : BOOLEAN, cur : SUBSET Keys, old : SUBSET Keys]
    /\ status \in [state : {None, "working", "done"}, again : BOOLEAN, adopt : SUBSET Keys,
                  asked : [Carts -> Modes], shown : [Carts -> Modes]]
    /\ check \in [target : Discs \cup {NoOne}, again : BOOLEAN, built : SUBSET Discs,
                  state : {None, "working", "attached", "refused"}]
    /\ launching \in [id : Discs \cup {NoOne}, state : {None, "working", "ready", "refused"}]
    /\ sheet \in [kind : {None, "archive", "superseded"}, ids : SUBSET Games,
                  items : SUBSET Keys, auto : BOOLEAN, state : {None}]
    /\ chooser \in Discs \cup {NoOne}
    /\ at \in {"ui", "status", "scan", "scdbuild", "check", "launch", "maint", "build",
               "run", "cleanup", "queue"}
    /\ acts \in 0 .. MaxActs

-----------------------------------------------------------------------------
(* What the handlers call.                                                 *)

\* App::request_scan: the worker gets a copy of the catalog.
AskScan(s, cur, bl) ==
    IF s.state # None
    THEN [s EXCEPT !.again = TRUE]
    ELSE [state |-> "working", again |-> FALSE, cur |-> CurrentKeys(cur),
          old |-> RecordedKeys(cur, bl) \ CurrentKeys(cur)]

\* App::request_status_refresh: the worker will look for a build of the chosen
\* options that the catalog copy does not record.
AskStatus(s, md, bl) ==
    IF s.state # None
    THEN [s EXCEPT !.again = TRUE]
    ELSE [state |-> "working", again |-> FALSE, asked |-> md, shown |-> s.shown,
          adopt |-> {<<g, md[g]>> : g \in {c \in Carts : md[c] \notin bl[c]}}]

\* The recency that record_build, record_run and a disc's new program set.
Newest(g) ==
    [h \in Games |-> IF h = g THEN 1
                     ELSE IF recent[h] < recent[g] THEN recent[h] + 1 ELSE recent[h]]

\* BusyGuard: the running folders, try_begin_run when no maintenance runs, and end_run,
\* which takes one occurrence of the folder if there is one.
Runs(b) == {k \in Keys : b.runs[k] > 0}
BeginRun(b, k) == [b EXCEPT !.runs[k] = @ + 1]
EndRun(b, k) == IF k \in Runs(b) THEN [b EXCEPT !.runs[k] = @ - 1] ELSE b

\* BusyGuard::entry_busy and any_activity.
EntryBusy(k) == k \in busy.builds \cup Runs(busy)
AnyActivity == busy.builds # {} \/ Runs(busy) # {} \/ busy.maintenance

\* scan_storage on the catalog and the disk of this moment.
Fresh == [valid |-> TRUE, cur |-> CurrentKeys(current) \cap disk,
          old |-> (RecordedKeys(current, builds) \ CurrentKeys(current)) \cap disk]

\* plan_superseded and plan_archive: a game with a busy folder is excluded.
PlanFor(kind, rep, ids, auto) ==
    LET dirs(g) == {k \in rep.cur \cup rep.old : k[1] = g}
        free == {g \in ids : \A k \in dirs(g) : ~ EntryBusy(k)}
        items == UNION {dirs(g) : g \in free}
    IN  [kind |-> kind, ids |-> free, auto |-> auto, state |-> None,
         items |-> IF kind = "superseded" THEN items \cap rep.old ELSE items]

\* Mutant: maintenance_running_ is set before the guard is asked.
RunPlan_RunsFirst(plan) ==
    IF maint = NoPlan
    THEN IF AnyActivity THEN maint' = plan /\ UNCHANGED busy
         ELSE /\ maint' = [plan EXCEPT !.state = "working"]
              /\ busy' = [busy EXCEPT !.maintenance = TRUE]
    ELSE UNCHANGED <<maint, busy>>

\* App::run_plan.
RunPlan(plan) ==
    IF maint = NoPlan /\ ~ AnyActivity
    THEN /\ maint' = [plan EXCEPT !.state = "working"]
         /\ busy' = [busy EXCEPT !.maintenance = TRUE]
    ELSE UNCHANGED <<maint, busy>>

\* The rows of policy_eviction_candidates: the games with a current build in the report.
\* The index of a game's row, newest first, is the number of rows that are newer.
Playable == {g \in Games : \E k \in report.cur : k[1] = g}
NewerThan(g) == {h \in Playable : recent[h] < recent[g]}

\* Mutant: the newest N are counted from one.
Evicted_OneMore == {g \in Playable : Cardinality(NewerThan(g)) + 1 >= KeepLastN}

\* policy_eviction_candidates: the rows from keep_last_n on.
Evicted == {g \in Playable : Cardinality(NewerThan(g)) >= KeepLastN}

\* App::start_build and scd_start_build; `b' is the guard when it is called.  It may
\* refuse for what is not modelled: the file is gone or has changed.
StartBuild(g, again, b) ==
    \/ /\ job = NoJob /\ ~ b.maintenance
       /\ g \in Discs => game = NoGame /\ check.state = None /\ launching.state = None
       /\ job' = [id |-> g, key |-> KeyOf(g, mode'), restart |-> again, state |-> "working"]
       /\ busy' = [b EXCEPT !.builds = @ \cup {KeyOf(g, mode')}]
       /\ check' = [check EXCEPT !.built = @ \ {g}]
    \/ busy' = b /\ UNCHANGED <<job, check>>

\* App::launch of a cartridge game when none runs; the process may fail to start.
Launch(g, b, s) ==
    \/ /\ KeyOf(g, mode') \in disk /\ ~ b.maintenance
       /\ game' = [id |-> g, key |-> KeyOf(g, mode'), state |-> "running"]
       /\ busy' = BeginRun(b, KeyOf(g, mode'))
       /\ status' = s
    \/ /\ KeyOf(g, mode') \notin disk \/ ~ b.maintenance
       /\ game' = NoGame /\ busy' = b
       /\ status' = AskStatus(s, mode', builds')
    \/ /\ KeyOf(g, mode') \in disk /\ b.maintenance
       /\ game' = NoGame /\ busy' = b /\ status' = s

\* App::scd_start_import.
StartCheck(d, again, c) ==
    IF c.state # None THEN c
    ELSE [c EXCEPT !.target = d, !.again = again, !.state = "working"]

-----------------------------------------------------------------------------
(* The user, between frames.                                               *)

UserActs ==
    /\ at = "ui" /\ sheet = NoPlan /\ acts < MaxActs
    /\ acts' = acts + 1
    /\ at' = at

IsQueued(g) == g \in Range(queue)

\* The Build button (can_build, scd_can_build) and request_build.
RequestBuild(g) ==
    /\ UserActs
    /\ game = NoGame /\ job.id # g /\ ~ IsQueued(g)
    /\ g \in Discs => launching.state = None
    /\ UNCHANGED <<catalog, disk, game, restart, cleanup, maint, workers, launching,
                   chooser, sheet>>
    /\ IF job # NoJob \/ queue # <<>> \/ maint # NoPlan \/ check.state # None
       THEN queue' = Append(queue, g) /\ UNCHANGED <<job, busy, check>>
       ELSE StartBuild(g, FALSE, busy) /\ UNCHANGED queue

\* stop_or_dequeue_build: cancel_build of the running build (a finished one answers no),
\* or dequeue_build.
StopOrDequeue(g) ==
    /\ UserActs
    /\ \/ /\ job.id = g /\ job.state = "working"
          /\ job' = [job EXCEPT !.state = "stopping", !.restart = FALSE]
          /\ restart' = IF g \in Carts THEN [restart EXCEPT !.pending = FALSE] ELSE restart
          /\ UNCHANGED queue
       \/ /\ job.id # g
          /\ \E i \in DOMAIN queue : queue[i] = g /\ queue' = RemoveAt(queue, i)
          /\ UNCHANGED <<job, restart>>
    /\ UNCHANGED <<catalog, disk, busy, game, cleanup, maint, workers, discs, sheet>>

\* The Play button (can_play) and play / launch.  The button compares the build's folder
\* with the one of the last status refresh; what is launched is the present one.
Play(g) ==
    /\ UserActs
    /\ g \in Carts /\ game = NoGame /\ maint = NoPlan /\ job.key # KeyOf(g, status.shown)
    /\ UNCHANGED <<catalog, disk, job, queue, cleanup, maint, scan, report, discs, sheet>>
    /\ restart' = [restart EXCEPT !.thisPlay = FALSE]
    /\ Launch(g, busy, status)

\* The Play button of a disc game and scd_play: its files are verified first.
ScdPlay(d) ==
    /\ UserActs
    /\ game = NoGame /\ maint = NoPlan /\ launching.state = None /\ check.state = None
    /\ job.id # d
    /\ launching' = [id |-> d, state |-> "working"]
    /\ UNCHANGED <<catalog, disk, busy, job, game, restart, queue, cleanup, maint, workers,
                   check, chooser, sheet>>

\* The build mode tiles.
SetMode(g) ==
    /\ UserActs
    /\ job.id # g /\ ~ IsQueued(g) /\ game = NoGame /\ maint = NoPlan
    /\ \E m \in Modes \ {mode[g]} : mode' = [mode EXCEPT ![g] = m]
    /\ status' = AskStatus(status, mode', builds)
    /\ UNCHANGED <<current, builds, recent, disk, busy, job, game, restart, queue, cleanup,
                   maint, scan, report, discs, sheet>>

\* "Remove old builds" and "Keep metadata only" of the Storage page show their plan.
OpenSheet(kind, g) ==
    /\ UserActs
    /\ report.valid /\ maint = NoPlan
    /\ sheet' = PlanFor(kind, report, {g}, FALSE)
    /\ sheet'.items # {}
    /\ UNCHANGED <<catalog, disk, busy, job, game, restart, queue, cleanup, maint, workers, discs>>

CloseSheet ==
    /\ at = "ui" /\ sheet # NoPlan
    /\ sheet' = NoPlan
    /\ RunPlan(sheet) \/ UNCHANGED <<maint, busy>>
    /\ UNCHANGED <<catalog, disk, job, game, restart, queue, cleanup, workers, discs, at, acts>>

ScdIdle == check.state = None /\ launching.state = None /\ game = NoGame /\ job.id \notin Discs

\* "Replace program..." opens the system's file chooser; "Verify again" checks at once.
OpenChooser(d) ==
    /\ UserActs /\ ScdIdle /\ chooser = NoOne
    /\ chooser' = d
    /\ UNCHANGED <<catalog, disk, busy, job, game, restart, queue, cleanup, maint, workers,
                   check, launching, sheet>>

VerifyAgain(d) ==
    /\ UserActs /\ ScdIdle
    /\ check' = StartCheck(d, TRUE, check)
    /\ UNCHANGED <<catalog, disk, busy, job, game, restart, queue, cleanup, maint, workers,
                   launching, chooser, sheet>>

\* dialog_trampoline and scd_dialog_result: the answer comes whenever it comes.
ChooserAnswers ==
    /\ at = "ui" /\ chooser # NoOne
    /\ chooser' = NoOne
    /\ check' \in {check, StartCheck(chooser, FALSE, check)}
    /\ UNCHANGED <<catalog, disk, busy, job, game, restart, queue, cleanup, maint, workers,
                   launching, sheet, at, acts>>

-----------------------------------------------------------------------------
(* One frame: update_jobs polls in this order.  A poll that finds nothing   *)
(* changes nothing, so a frame goes from one poll with work to the next.    *)

Rank == [status |-> 1, scan |-> 2, scdbuild |-> 3, check |-> 4, launch |-> 5,
         maint |-> 6, build |-> 7, run |-> 8, cleanup |-> 9, queue |-> 10]

Ended(j) == j.state \in {"succeeded", "failed", "cancelled"}

\* The condition under which each poll does something.
HasWork(stage) ==
    CASE stage = "status" -> status.state = "done"
      [] stage = "scan" -> scan.state = "done"
      [] stage = "scdbuild" -> job.id \in Discs /\ Ended(job)
      [] stage = "check" -> check.state \in {"attached", "refused"}
      [] stage = "launch" -> launching.state \in {"ready", "refused"}
      [] stage = "maint" -> maint.state = "done"
      [] stage = "build" -> job.id \in Carts /\ Ended(job)
      [] stage = "run" -> game.state \in {"clean", "unadmitted", "failed"}
      [] stage = "cleanup" -> /\ maint = NoPlan /\ ~ AnyActivity
                              /\ \/ cleanup.ids # {}
                                 \/ cleanup.policy /\ scan.state = None
      [] stage = "queue" -> /\ job = NoJob /\ check.state = None /\ queue # <<>>
                            /\ maint = NoPlan /\ sheet = NoPlan

Stages == {"status", "scan", "scdbuild", "check", "launch", "maint", "build", "run",
           "cleanup", "queue"}
First(due) == IF due = {} THEN "ui" ELSE CHOOSE s \in due : \A t \in due : Rank[s] <= Rank[t]

\* The poll that is next in this frame, or the first one of a new frame.
Poll(stage) ==
    /\ stage = IF at # "ui" THEN at ELSE First({s \in Stages : HasWork(s)})
    /\ UNCHANGED <<acts, chooser, sheet>>

Proceed(stage) == at' = First({s \in Stages : Rank[s] > Rank[stage] /\ HasWork(s)'})

\* poll_status_refresh: a build found is recorded, and is then the current one.
PollStatus ==
    /\ Poll("status")
    /\ LET found == [g \in Carts |-> {m \in Modes : <<g, m>> \in status.adopt}]
           idle == [state |-> None, again |-> FALSE, adopt |-> {},
                    asked |-> status.asked, shown |-> status.asked]
       IN  /\ builds' = [g \in Carts |-> builds[g] \cup found[g]]
           /\ current' = [g \in Carts |-> IF found[g] = {} THEN current[g]
                                          ELSE CHOOSE m \in found[g] : TRUE]
           /\ recent' \in {recent} \cup {Newest(g) : g \in {c \in Carts : found[c] # {}}}
           /\ status' = IF status.again THEN AskStatus(idle, mode, builds') ELSE idle
    /\ UNCHANGED <<mode, disk, busy, job, game, restart, queue, cleanup, maint, scan, report,
                   check, launching>>
    /\ Proceed("status")

\* poll_scan: the report is the scan's, and a scan asked for meanwhile begins.
PollScan ==
    /\ Poll("scan")
    /\ report' = [valid |-> TRUE, cur |-> scan.cur, old |-> scan.old]
    /\ LET idle == [state |-> None, again |-> FALSE, cur |-> {}, old |-> {}]
       IN  scan' = IF scan.again THEN AskScan(idle, current, builds) ELSE idle
    /\ UNCHANGED <<catalog, disk, busy, job, game, restart, queue, cleanup, maint, status,
                   check, launching>>
    /\ Proceed("scan")

\* scd_finish_build: a built program is checked like an imported one; the catalog, the
\* storage scan and the policy follow only when that check is applied.
ScdFinishBuild ==
    /\ Poll("scdbuild")
    /\ busy' = [busy EXCEPT !.builds = @ \ {job.key}]
    /\ job' = NoJob
    /\ IF job.state = "succeeded"
       THEN /\ check' = StartCheck(job.id, FALSE, [check EXCEPT !.built = @ \cup {job.id}])
            /\ UNCHANGED <<scan, status>>
       ELSE /\ status' = AskStatus(status, mode, builds)
            /\ scan' = AskScan(scan, current, builds)
            /\ UNCHANGED check
    /\ UNCHANGED <<catalog, disk, game, restart, queue, cleanup, maint, report, launching>>
    /\ Proceed("scdbuild")

\* scd_poll: the result of a check.
PollCheck ==
    /\ Poll("check")
    /\ LET made == check.state = "attached" /\ check.target \in check.built
       IN  /\ recent' = IF made THEN Newest(check.target) ELSE recent
           /\ cleanup' = [cleanup EXCEPT !.policy = @ \/ made]
    /\ check' = [target |-> NoOne, again |-> FALSE, state |-> None,
                 built |-> check.built \ {check.target}]
    /\ scan' = AskScan(scan, current, builds)
    /\ status' = IF check.state = "attached" \/ check.again
                 THEN AskStatus(status, mode, builds) ELSE status
    /\ UNCHANGED <<mode, current, builds, disk, busy, job, game, restart, queue, maint, report,
                   launching>>
    /\ Proceed("check")

\* Mutant: the guard is not asked.
PollLaunch_NoGuard ==
    /\ Poll("launch")
    /\ IF launching.state = "ready"
       THEN /\ game' = [id |-> launching.id, key |-> <<launching.id, "disc">>, state |-> "running"]
            /\ restart' = [restart EXCEPT !.thisPlay = FALSE]
            /\ UNCHANGED status
       ELSE /\ status' = AskStatus(status, mode, builds)
            /\ UNCHANGED <<game, restart>>
    /\ launching' = [id |-> NoOne, state |-> None]
    /\ UNCHANGED <<catalog, disk, busy, job, queue, cleanup, maint, scan, report, check>>
    /\ Proceed("launch")

\* scd_poll and scd_spawn: a verified disc game is started unless a cleanup began
\* meanwhile.  Whether a game was started meanwhile is not asked: game_ is replaced,
\* which ends that game's process and leaves its key in the guard for good, and stays empty if the new
\* process does not start.
PollLaunch ==
    /\ Poll("launch")
    /\ LET k == <<launching.id, "disc">>
           free == launching.state = "ready" /\ ~ busy.maintenance
       IN  \/ /\ free
              /\ game' = [id |-> launching.id, key |-> k, state |-> "running"]
              /\ busy' = BeginRun(busy, k)
              /\ restart' = [restart EXCEPT !.thisPlay = FALSE]
              /\ UNCHANGED status
           \/ /\ free
              /\ game' = NoGame
              /\ status' = AskStatus(status, mode, builds)
              /\ UNCHANGED <<busy, restart>>
           \/ /\ ~ free
              /\ status' = IF launching.state = "refused"
                           THEN AskStatus(status, mode, builds) ELSE status
              /\ UNCHANGED <<game, busy, restart>>
    /\ launching' = [id |-> NoOne, state |-> None]
    /\ UNCHANGED <<catalog, disk, job, queue, cleanup, maint, scan, report, check>>
    /\ Proceed("launch")

\* Mutant: nothing is scanned after a cleanup.
PollMaintenance_NoScan ==
    /\ Poll("maint")
    /\ busy' = [busy EXCEPT !.maintenance = FALSE]
    /\ maint' = NoPlan
    /\ status' = AskStatus(status, mode, builds)
    /\ UNCHANGED <<catalog, disk, job, game, restart, queue, cleanup, scan, report, check,
                   launching>>
    /\ Proceed("maint")

\* poll_maintenance.
PollMaintenance ==
    /\ Poll("maint")
    /\ busy' = [busy EXCEPT !.maintenance = FALSE]
    /\ maint' = NoPlan
    /\ status' = AskStatus(status, mode, builds)
    /\ scan' = AskScan(scan, current, builds)
    /\ UNCHANGED <<catalog, disk, job, game, restart, queue, cleanup, report, check, launching>>
    /\ Proceed("maint")

\* Mutant: the build's key stays in the guard.
FinishBuild_KeepsKey ==
    /\ Poll("build")
    /\ UNCHANGED <<mode, disk, queue, maint, report, check, launching>>
    /\ LET g == job.id
           ok == job.state = "succeeded"
       IN  /\ job' = NoJob
           /\ builds' = IF ok THEN [builds EXCEPT ![g] = @ \cup {job.key[2]}] ELSE builds
           /\ current' = IF ok THEN [current EXCEPT ![g] = job.key[2]] ELSE current
           /\ recent' = IF ok THEN Newest(g) ELSE recent
           /\ cleanup' = [cleanup EXCEPT !.policy = @ \/ ok]
           /\ scan' = AskScan(scan, current', builds')
           /\ restart' = [restart EXCEPT !.pending = @ /\ ok /\ ~ job.restart]
           /\ status' = AskStatus(status, mode, builds')
           /\ UNCHANGED <<busy, game>>
    /\ Proceed("build")

\* finish_build: a new build is recorded, its cleanup and the policy are owed, and the
\* restart it was made for happens.
FinishBuild ==
    /\ Poll("build")
    /\ UNCHANGED <<mode, disk, queue, maint, report, check, launching>>
    /\ LET g == job.id
           b == [busy EXCEPT !.builds = @ \ {job.key}]
           ok == job.state = "succeeded"
           s == AskStatus(status, mode, builds')
       IN  /\ job' = NoJob
           /\ builds' = IF ok THEN [builds EXCEPT ![g] = @ \cup {job.key[2]}] ELSE builds
           /\ current' = IF ok THEN [current EXCEPT ![g] = job.key[2]] ELSE current
           /\ recent' = IF ok THEN Newest(g) ELSE recent
           /\ cleanup' = [ids |-> IF ok /\ ~ KeepOld THEN cleanup.ids \cup {g} ELSE cleanup.ids,
                          policy |-> cleanup.policy \/ ok]
           /\ scan' = AskScan(scan, current', builds')
           /\ IF ok /\ job.restart /\ game = NoGame
              THEN /\ restart' = [pending |-> FALSE, thisPlay |-> TRUE]
                   /\ Launch(g, b, s)
              ELSE /\ restart' = [restart EXCEPT !.pending = @ /\ ok /\ ~ job.restart]
                   /\ busy' = b /\ status' = s /\ UNCHANGED game
    /\ Proceed("build")

\* finish_run: the typed stop of an Optimized program restarts the game in Compatibility,
\* from the build there is or from a new one.
FinishRun ==
    /\ Poll("run")
    /\ UNCHANGED <<current, builds, disk, queue, cleanup, maint, report, launching>>
    /\ LET g == game.id
           b == EndRun(busy, game.key)
           again == game.state = "unadmitted" /\ ~ restart.thisPlay
       IN  /\ recent' = Newest(g)
           /\ mode' = IF again THEN [mode EXCEPT ![g] = "compatibility"] ELSE mode
           /\ scan' = IF g \in Discs THEN AskScan(scan, current, builds) ELSE scan
           /\ CASE again /\ <<g, "compatibility">> \in disk ->
                       /\ restart' = [pending |-> FALSE, thisPlay |-> TRUE]
                       /\ Launch(g, b, status)
                       /\ UNCHANGED <<job, check>>
                [] again /\ <<g, "compatibility">> \notin disk ->
                       /\ restart' = [pending |-> TRUE, thisPlay |-> TRUE]
                       /\ game' = NoGame /\ UNCHANGED status
                       /\ StartBuild(g, TRUE, b)
                [] ~ again ->
                       /\ game' = NoGame /\ busy' = b
                       /\ status' = AskStatus(status, mode, builds)
                       /\ UNCHANGED <<restart, job, check>>
    /\ Proceed("run")

\* pump_cleanup and evaluate_policy_after_scan.
PumpCleanup ==
    /\ Poll("cleanup")
    /\ LET owed == PlanFor("superseded", Fresh, cleanup.ids, TRUE)
           policy == PlanFor("archive", report, Evicted, TRUE)
           Do(plan) == IF plan.items # {} THEN RunPlan(plan) ELSE UNCHANGED <<maint, busy>>
       IN  IF cleanup.ids # {}
           THEN cleanup' = [cleanup EXCEPT !.ids = {}] /\ Do(owed)
           ELSE /\ cleanup' = [cleanup EXCEPT !.policy = FALSE]
                /\ IF report.valid THEN Do(policy) ELSE UNCHANGED <<maint, busy>>
    /\ UNCHANGED <<catalog, disk, job, game, restart, queue, workers, check, launching>>
    /\ Proceed("cleanup")

\* The end of update_jobs: the next queued build, dropped if it cannot start.
PopQueue ==
    /\ Poll("queue")
    /\ UNCHANGED <<catalog, disk, game, restart, cleanup, maint, workers, launching>>
    /\ queue' = Tail(queue)
    /\ StartBuild(Head(queue), FALSE, busy)
    /\ Proceed("queue")

-----------------------------------------------------------------------------
(* What runs beside the user interface thread.                             *)

\* A frame is short beside the work: the workers advance between frames.
Aside == at = "ui" /\ UNCHANGED <<catalog, busy, restart, queue, cleanup, report, chooser, sheet, at, acts>>

\* compute_statuses and scan_storage read the disk.
StatusWorks ==
    /\ status.state = "working"
    /\ status' = [status EXCEPT !.state = "done", !.adopt = @ \cap disk]
    /\ Aside /\ UNCHANGED <<disk, job, game, maint, scan, check, launching>>

ScanWorks ==
    /\ scan.state = "working"
    /\ scan' = [scan EXCEPT !.state = "done", !.cur = @ \cap disk, !.old = @ \cap disk]
    /\ Aside /\ UNCHANGED <<disk, job, game, maint, status, check, launching>>

\* BuildJob and ScdBuildJob (module BuildJob): the build is moved into place, and then the
\* job has ended.  A cartridge build that cannot be moved has removed the one before it.
BuildWorks ==
    /\ \/ /\ job.state \in {"stopping", "published"}
          /\ job' = [job EXCEPT !.state = IF @ = "published" THEN "succeeded" ELSE "cancelled"]
          /\ UNCHANGED disk
       \/ /\ job.state = "working"
          /\ \/ job' = [job EXCEPT !.state = "published"] /\ disk' = disk \cup {job.key}
             \/ /\ job' = [job EXCEPT !.state = "failed"]
                /\ disk' \in {disk} \cup {disk \ {job.key} : d \in {job.id} \cap Carts}
    /\ Aside /\ UNCHANGED <<game, maint, scan, status, check, launching>>

\* attach_program and prepare_launch.
CheckWorks ==
    /\ check.state = "working"
    /\ \E r \in {"attached", "refused"} : check' = [check EXCEPT !.state = r]
    /\ Aside /\ UNCHANGED <<disk, job, game, maint, scan, status, launching>>

LaunchWorks ==
    /\ launching.state = "working"
    /\ \E r \in {"ready", "refused"} : launching' = [launching EXCEPT !.state = r]
    /\ Aside /\ UNCHANGED <<disk, job, game, maint, scan, status, check>>

\* The game's process ends; only an Optimized program ends with the typed stop.
GameEnds ==
    /\ game.state = "running"
    /\ \E r \in {"clean", "failed"} \cup {"unadmitted" : m \in {game.key[2]} \cap {"optimized"}} :
          game' = [game EXCEPT !.state = r]
    /\ Aside /\ UNCHANGED <<disk, job, maint, scan, status, check, launching>>

\* execute_plan removes one folder after the other, or reports why it could not.
MaintWorks ==
    /\ maint.state = "working"
    /\ \/ \E k \in maint.items :
             /\ maint' = [maint EXCEPT !.items = @ \ {k}]
             /\ disk' \in {disk} \cup {disk \ {j} : j \in {i \in {k} : ~ EntryBusy(i)}}
       \/ /\ maint.items = {}
          /\ maint' = [maint EXCEPT !.state = "done"]
          /\ UNCHANGED disk
    /\ Aside /\ UNCHANGED <<job, game, scan, status, check, launching>>

-----------------------------------------------------------------------------
\* An earlier session's library and folders, after the scans of the start.
Init ==
    /\ mode = [g \in Carts |-> "optimized"]
    /\ \E e \in Earlier : /\ builds = e.builds /\ current = e.current
                          /\ disk = e.disk /\ recent = e.recent
    /\ busy = [builds |-> {}, runs |-> [k \in Keys |-> 0], maintenance |-> FALSE]
    /\ job = NoJob /\ game = NoGame /\ queue = <<>> /\ maint = NoPlan /\ sheet = NoPlan
    /\ restart = [pending |-> FALSE, thisPlay |-> FALSE]
    /\ cleanup = [ids |-> {}, policy |-> FALSE]
    /\ scan = [state |-> None, again |-> FALSE, cur |-> {}, old |-> {}]
    /\ status = [state |-> None, again |-> FALSE, adopt |-> {}, asked |-> mode, shown |-> mode]
    /\ report = Fresh
    /\ check = [target |-> NoOne, again |-> FALSE, built |-> {}, state |-> None]
    /\ launching = [id |-> NoOne, state |-> None]
    /\ chooser = NoOne /\ at = "ui" /\ acts = 0

User ==
    \/ \E g \in Games : RequestBuild(g) \/ StopOrDequeue(g)
                        \/ (\E kind \in {"archive", "superseded"} : OpenSheet(kind, g))
    \/ \E g \in Carts : Play(g) \/ SetMode(g)
    \/ \E d \in Discs : ScdPlay(d) \/ OpenChooser(d) \/ VerifyAgain(d)

Frame ==
    \/ PollStatus \/ PollScan \/ ScdFinishBuild \/ PollCheck \/ PollLaunch
    \/ PollMaintenance \/ FinishBuild \/ FinishRun \/ PumpCleanup \/ PopQueue

Beside ==
    \/ StatusWorks \/ ScanWorks \/ BuildWorks \/ CheckWorks \/ LaunchWorks \/ GameEnds
    \/ MaintWorks

Next == User \/ CloseSheet \/ ChooserAnswers \/ Frame \/ Beside

\* Something goes on while anything can: the frames, the workers, the build, the game that
\* its player leaves in the end, the sheet that is answered.  Nothing is assumed of the order.
Fairness == WF_vars(Beside \/ Frame \/ CloseSheet)

Spec == Init /\ [][Next]_vars /\ Fairness

-----------------------------------------------------------------------------
(* Properties.                                                             *)

\* The BusyGuard knows of everything under way, on every path by which a build, a game or
\* a cleanup begins, fails to begin, or ends, and a cleanup has the folders to itself.
GuardCovers ==
    /\ busy.builds = {job.key} \ {NoKey}
    /\ {game.key} \ {NoKey} \subseteq Runs(busy)
    /\ busy.maintenance = (maint # NoPlan)
    /\ busy.maintenance => busy.builds = {} /\ Runs(busy) = {}

\* execute_plan works from a plan made earlier, from a report made earlier still.  It never
\* removes the folder a build writes or a game runs from at that moment.
NoRemovalUnderUse ==
    [][maint'.items # maint.items /\ maint' # NoPlan /\ maint # NoPlan
        => (disk \ disk') \cap {job.key, game.key} = {}]_vars

\* When the keep-last-N policy may act (nothing runs and no scan is under way or asked for),
\* every folder its report lists still exists, although the report was made by a worker from
\* a copy of the catalog and folders come and go meanwhile.
ReportIsFresh ==
    maint = NoPlan /\ ~ AnyActivity /\ scan.state = None
        => report.cur \cup report.old \subseteq disk

\* describe_policy promises that only games beyond the newest N playable ones are reduced:
\* whatever the policy removes, N games keep a build.
KeepsN ==
    [][maint.auto /\ maint.kind = "archive" /\ disk' # disk
        => Cardinality({k[1] : k \in disk'}) >= KeepLastN]_vars

\* A queued build waits for the build, check, cleanup or sheet before it, and none of these
\* waits for it: the queue is worked off.
QueueDrains == queue # <<>> ~> queue = <<>>
=============================================================================
