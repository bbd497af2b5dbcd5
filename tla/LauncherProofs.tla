--------------------------- MODULE LauncherProofs ---------------------------
(***************************************************************************)
(* The BusyGuard and the storage report of the launcher, for any library,  *)
(* any earlier session, any keep-last-N and any number of user actions.    *)
(*                                                                         *)
(* GuardCovers is nearly inductive: it needs to be known that a record in  *)
(* use is not the empty one (Records), since the guard is asked for keys   *)
(* and the launcher asks whether a job, a game or a plan is there.         *)
(* ReportIsFresh is not: a report is put in place by a poll, long after    *)
(* its worker looked at the disk.  What carries it is that whoever removed *)
(* a folder, a cleanup or a failed build, still holds its job until the    *)
(* poll that ends it asks for a scan, and that a scan that was asked for   *)
(* while one was done replaces it (ScanIsGood, ReportIsGood).              *)
(* KeepsN follows the policy's plan from the report it was made from to    *)
(* the last folder it removes: what the plan does not list are, and stay,  *)
(* folders of N games (PolicySpares).                                      *)
(***************************************************************************)
EXTENDS Launcher, TLAPS, WellFoundedInduction, FiniteSetTheorems

JobStates == {"working", "stopping", "published", "succeeded", "failed", "cancelled"}
JobType == [id : Games, key : Keys, restart : BOOLEAN, state : JobStates]
GameType == [id : Games, key : Keys, state : {"running", "clean", "unadmitted", "failed"}]

BusyType == [builds : SUBSET Keys, runs : [Keys -> Nat], maintenance : BOOLEAN]
PlanFields == {"kind", "items", "auto", "state"}
ScanFields == {"state", "again", "cur", "old"}

\* What is in use is not the empty record, and has the fields its steps change.
CatalogTyped == mode \in [Carts -> Modes] /\ disk \subseteq Keys /\ queue \in Seq(Games)
BusyTyped == busy \in BusyType
JobTyped == job = NoJob \/ job \in JobType
GameTyped == game = NoGame \/ game \in GameType
PlanTyped ==
    /\ PlanFields \subseteq DOMAIN maint
    /\ maint = NoPlan \/ maint.state \in {"working", "done"}
SheetTyped == PlanFields \subseteq DOMAIN sheet /\ sheet.auto = FALSE
ScanTyped ==
    /\ ScanFields \subseteq DOMAIN scan
    /\ scan.state \in {None, "working", "done"} /\ scan.again \in BOOLEAN
LaunchTyped ==
    /\ {"id", "state"} \subseteq DOMAIN launching
    /\ launching.state = None \/ launching.id \in Discs

Records ==
    /\ CatalogTyped /\ BusyTyped /\ JobTyped /\ GameTyped /\ PlanTyped /\ SheetTyped
    /\ ScanTyped /\ LaunchTyped

\* The poll that is next has work.
Polled == at # "ui" => at \in Stages /\ HasWork(at)

\* Nobody who removed a folder is yet to be polled.
NothingRemoved == maint = NoPlan /\ job.state # "failed"

\* What the next poll of the scan puts in place still exists.
ScanIsGood ==
    NothingRemoved /\ scan.state = "done" /\ scan.again = FALSE
        => scan.cur \cup scan.old \subseteq disk

\* So does what is in place, unless a scan is under way.
ReportIsGood ==
    NothingRemoved /\ scan.state = None => report.cur \cup report.old \subseteq disk

\* The games of some folders.
GamesOf(folders) == {k[1] : k \in folders}

\* What the policy leaves alone are the folders of N games.
PolicySpares ==
    maint.auto = TRUE /\ maint.kind = "archive"
        => Cardinality(GamesOf(disk \ maint.items)) >= KeepLastN

Safe == Records /\ GuardCovers /\ ScanIsGood /\ ReportIsGood /\ PolicySpares

RecentTyped == recent \in [Games -> Nat]

IInv == Safe /\ Polled /\ RecentTyped

-----------------------------------------------------------------------------
(* What the handlers call.                                                 *)

\* A set of naturals that is not empty has a least element.
LEMMA LeastNat ==
  ASSUME NEW S \in SUBSET Nat, S # {}
  PROVE \E x \in S : \A y \in S : x <= y
<1>1. \A x, y \in Nat : <<y, x>> \in OpToRel(<, Nat) <=> y < x
  BY Zenon DEF OpToRel
<1>2. \E R : IsWellFoundedOn(R, Nat) /\ \A x, y \in Nat : <<y, x>> \in R <=> y < x
  BY <1>1, NatLessThanWellFounded, Zenon
<1>3. PICK R : IsWellFoundedOn(R, Nat) /\ \A x, y \in Nat : <<y, x>> \in R <=> y < x
  BY <1>2
<1>4. \E x \in S : \A y \in S : ~ (<<y, x>> \in R)
  BY <1>3, WFMin
<1>5. PICK x \in S : \A y \in S : ~ (<<y, x>> \in R)
  BY <1>4
<1>6. ASSUME NEW y \in S PROVE x <= y
  <2>1. ~(y < x)
    BY <1>3, <1>5, Zenon
  <2> QED BY <2>1
<1> QED BY <1>6

\* No folder is the empty key.
LEMMA NoKeyIsNone == NoKey \notin Keys
  BY LauncherAssumption DEF NoKey, Keys, None

\* entry_dir gives a folder of the game.
LEMMA KeyOfType ==
    ASSUME NEW g \in Games, NEW m \in [Carts -> Modes]
    PROVE  KeyOf(g, m) \in Keys
  BY LauncherAssumption DEF KeyOf, Keys, Games, Modes

\* A folder is a folder of a game of the library.
LEMMA KeyOfGame == ASSUME NEW k \in Keys PROVE k[1] \in Games
  BY DEF Keys, Games

\* update_jobs: the next poll is one that is due.
LEMMA FirstDue ==
    ASSUME NEW due \in SUBSET Stages
    PROVE  First(due) = "ui" \/ First(due) \in due
<1>1. CASE due = {} BY <1>1 DEF First
<1>2. CASE due # {}
  <2>1. \A s \in Stages : Rank[s] \in Nat BY DEF Stages, Rank
  <2> DEFINE ranks == {Rank[s] : s \in due}
  <2>2. ranks \in SUBSET Nat /\ ranks # {} BY <1>2, <2>1
  <2> HIDE DEF ranks
  <2>3. PICK r \in ranks : \A q \in ranks : r <= q BY <2>2, LeastNat
  <2>4. PICK s \in due : r = Rank[s] BY <2>3 DEF ranks
  <2>5. \A t \in due : Rank[s] <= Rank[t] BY <2>3, <2>4 DEF ranks
  <2> QED BY <1>2, <2>5 DEF First
<1> QED BY <1>1, <1>2

\* What is polled has work.
LEMMA PollFinds ==
    ASSUME Polled, NEW stage \in Stages, Poll(stage)
    PROVE  HasWork(stage)
<1>1. CASE at # "ui" BY <1>1 DEF Polled, Poll
<1>2. CASE at = "ui"
  <2> DEFINE due == {s \in Stages : HasWork(s)}
  <2>1. stage = First(due) BY <1>2 DEF Poll
  <2>2. "ui" \notin Stages /\ due \in SUBSET Stages BY DEF Stages
  <2>3. stage \in due BY <2>1, <2>2, FirstDue
  <2> QED BY <2>3
<1> QED BY <1>1, <1>2

\* A poll leaves a next one that has work.
LEMMA ProceedPolled ==
    ASSUME NEW stage \in Stages, Proceed(stage)
    PROVE  Polled'
<1> DEFINE due == {s \in Stages : Rank[s] > Rank[stage] /\ HasWork(s)'}
<1>1. at' = First(due) /\ due \in SUBSET Stages BY DEF Proceed
<1>2. at' = "ui" \/ at' \in due BY <1>1, FirstDue
<1>3. CASE at' \in due
  <2>1. PICK s \in Stages : s = at' /\ HasWork(s)' BY <1>3
  <2>2. HasWork(at)' BY <2>1 DEF HasWork
  <2> QED BY <2>1, <2>2 DEF Polled
<1> QED BY <1>2, <1>3 DEF Polled

\* request_scan: a scan is under way afterwards, and one that is done will be replaced.
LEMMA AskScanReplaces ==
    ASSUME NEW s, ScanFields \subseteq DOMAIN s, s.state \in {None, "working", "done"}, NEW c, NEW b
    PROVE  /\ ScanFields \subseteq DOMAIN AskScan(s, c, b)
           /\ AskScan(s, c, b).state \in {"working", "done"} /\ AskScan(s, c, b).again \in BOOLEAN
           /\ AskScan(s, c, b).state = "done" => AskScan(s, c, b).again = TRUE
<1>1. CASE s.state # None
  <2>1. AskScan(s, c, b) = [s EXCEPT !.again = TRUE] BY <1>1 DEF AskScan
  <2>2. [s EXCEPT !.again = TRUE].again = TRUE /\ [s EXCEPT !.again = TRUE].state = s.state
    BY DEF ScanFields
  <2>3. DOMAIN [s EXCEPT !.again = TRUE] = DOMAIN s OBVIOUS
  <2> QED BY <1>1, <2>1, <2>2, <2>3
<1>2. CASE s.state = None
  <2>1. AskScan(s, c, b).state = "working" /\ AskScan(s, c, b).again = FALSE BY <1>2 DEF AskScan
  <2>2. DOMAIN AskScan(s, c, b) = ScanFields BY <1>2 DEF AskScan, ScanFields
  <2> QED BY <2>1, <2>2
<1> QED BY <1>1, <1>2

\* A plan that works, or is done, is not the empty one.
LEMMA PlanInUse == ASSUME NEW p, p.state \in {"working", "done"} PROVE p # NoPlan
  BY DEF NoPlan, None

\* A job or game in use has a folder.
LEMMA InUse ==
    ASSUME Records
    PROVE  /\ job # NoJob => job.key \in Keys /\ job.key # NoKey
           /\ game # NoGame => game.key \in Keys /\ game.key # NoKey
           /\ job.key = NoKey <=> job = NoJob
           /\ game.key = NoKey <=> game = NoGame
  BY NoKeyIsNone DEF Records, JobTyped, GameTyped, JobType, GameType, NoJob, NoGame

\* try_begin_run adds one occurrence of the folder, and nothing else.
LEMMA BeginRunAdds ==
    ASSUME NEW b \in BusyType, NEW k \in Keys
    PROVE  /\ BeginRun(b, k) \in BusyType /\ Runs(BeginRun(b, k)) = Runs(b) \cup {k}
           /\ BeginRun(b, k).builds = b.builds
           /\ BeginRun(b, k).maintenance = b.maintenance
<1>1. /\ b.runs \in [Keys -> Nat]
      /\ BeginRun(b, k).runs = [b.runs EXCEPT ![k] = b.runs[k] + 1]
      /\ BeginRun(b, k).builds = b.builds /\ BeginRun(b, k).maintenance = b.maintenance
  BY DEF BusyType, BeginRun
<1>2. BeginRun(b, k) \in BusyType BY DEF BusyType, BeginRun
<1>3. \A j \in Keys : BeginRun(b, k).runs[j] = IF j = k THEN b.runs[k] + 1 ELSE b.runs[j]
  BY <1>1
<1>4. \A j \in Keys : b.runs[j] \in Nat BY <1>1
<1> QED BY <1>1, <1>2, <1>3, <1>4 DEF Runs

\* end_run takes at most the folder it is given, and nothing else.
LEMMA EndRunTakes ==
    ASSUME NEW b \in BusyType, NEW k
    PROVE  /\ EndRun(b, k) \in BusyType /\ Runs(EndRun(b, k)) \subseteq Runs(b)
           /\ EndRun(b, k).builds = b.builds
           /\ EndRun(b, k).maintenance = b.maintenance
<1>1. CASE k \in Runs(b)
  <2>1. k \in Keys /\ b.runs[k] > 0 /\ b.runs \in [Keys -> Nat]
    BY <1>1 DEF Runs, BusyType
  <2>2. EndRun(b, k) = [b EXCEPT !.runs[k] = @ - 1] BY <1>1 DEF EndRun
  <2>3. /\ EndRun(b, k).runs = [b.runs EXCEPT ![k] = b.runs[k] - 1]
        /\ EndRun(b, k).builds = b.builds /\ EndRun(b, k).maintenance = b.maintenance
        /\ EndRun(b, k) = [builds |-> b.builds, runs |-> EndRun(b, k).runs,
                           maintenance |-> b.maintenance]
    BY <2>2 DEF BusyType
  <2>4. b.runs[k] - 1 \in Nat BY <2>1
  <2>5. EndRun(b, k).runs \in [Keys -> Nat] BY <2>1, <2>3, <2>4
  <2>6. EndRun(b, k) \in BusyType BY <2>3, <2>5 DEF BusyType
  <2>7. \A j \in Keys : EndRun(b, k).runs[j] = IF j = k THEN b.runs[k] - 1 ELSE b.runs[j]
    BY <2>1, <2>3
  <2>8. Runs(EndRun(b, k)) \subseteq Runs(b) BY <2>1, <2>7 DEF Runs
  <2> QED BY <2>3, <2>6, <2>8
<1>2. CASE k \notin Runs(b)
  BY <1>2 DEF EndRun
<1> QED BY <1>1, <1>2

\* What GuardCovers asks for the build and for the game.
BuildCovered == busy.builds = {job.key} \ {NoKey}
RunCovered == {game.key} \ {NoKey} \subseteq Runs(busy)

\* run_plan begins only when nothing goes on, and tells the guard.
LEMMA RunPlanKeeps ==
    ASSUME Records, GuardCovers, NEW plan, PlanFields \subseteq DOMAIN plan, RunPlan(plan),
           UNCHANGED <<job, game>>
    PROVE  /\ BusyTyped' /\ PlanTyped' /\ GuardCovers'
           /\ \/ maint' = maint
              \/ /\ maint = NoPlan /\ ~AnyActivity /\ maint' # NoPlan
                 /\ maint'.items = plan.items /\ maint'.auto = plan.auto /\ maint'.kind = plan.kind
<1>1. CASE UNCHANGED <<maint, busy>>
  BY <1>1 DEF Records, BusyTyped, PlanTyped, GuardCovers
<1>2. CASE maint = NoPlan /\ ~AnyActivity /\ ~UNCHANGED <<maint, busy>>
  <2>1. /\ maint' = [plan EXCEPT !.state = "working"]
        /\ busy' = [busy EXCEPT !.maintenance = TRUE]
    BY <1>2 DEF RunPlan
  <2>2. /\ maint'.state = "working" /\ maint'.items = plan.items
        /\ maint'.auto = plan.auto /\ maint'.kind = plan.kind
        /\ PlanFields \subseteq DOMAIN maint'
    BY <2>1 DEF PlanFields
  <2>3. maint' # NoPlan BY <2>2, PlanInUse
  <2>4. /\ busy' \in BusyType /\ busy'.maintenance = TRUE
        /\ busy'.builds = busy.builds /\ Runs(busy') = Runs(busy)
    BY <2>1 DEF Records, BusyTyped, BusyType, Runs
  <2>5. busy.builds = {} /\ Runs(busy) = {} BY <1>2 DEF AnyActivity
  <2>6. GuardCovers' BY <2>3, <2>4, <2>5 DEF GuardCovers
  <2> QED BY <1>2, <2>2, <2>3, <2>4, <2>6 DEF BusyTyped, PlanTyped
<1> QED BY <1>1, <1>2 DEF RunPlan

\* start_build and scd_start_build tell the guard of the folder, and begin no build while a
\* cleanup runs.
LEMMA StartKeeps ==
    ASSUME Records, GuardCovers, NEW g \in Games, NEW again \in BOOLEAN,
           NEW b \in BusyType, b.builds = busy.builds, b.maintenance = busy.maintenance,
           mode' \in [Carts -> Modes], StartBuild(g, again, b)
    PROVE  /\ BusyTyped' /\ JobTyped' /\ BuildCovered'
           /\ Runs(busy') = Runs(b) /\ busy'.maintenance = b.maintenance
           /\ busy'.maintenance => busy'.builds = {}
           /\ job' = job \/ (job = NoJob /\ job'.state = "working")
<1>1. CASE busy' = b /\ job' = job
  BY <1>1 DEF Records, BusyTyped, JobTyped, BuildCovered, GuardCovers
<1>2. CASE ~(busy' = b /\ job' = job)
  <2> DEFINE k == KeyOf(g, mode')
  <2>1. k \in Keys /\ k # NoKey BY KeyOfType, NoKeyIsNone
  <2>2. /\ job = NoJob /\ ~b.maintenance
        /\ job' = [id |-> g, key |-> k, restart |-> again, state |-> "working"]
        /\ busy' = [b EXCEPT !.builds = @ \cup {k}]
    BY <1>2 DEF StartBuild
  <2> HIDE DEF k
  <2>3. job' \in JobType /\ job'.key = k /\ job'.state = "working"
    BY <2>1, <2>2 DEF JobType, JobStates
  <2>4. b.builds = {} BY <2>2 DEF GuardCovers, NoJob
  <2>5. /\ busy' \in BusyType /\ busy'.builds = {k} /\ Runs(busy') = Runs(b)
        /\ busy'.maintenance = b.maintenance
    BY <2>1, <2>2, <2>4 DEF BusyType, Runs
  <2> QED BY <2>1, <2>2, <2>3, <2>5 DEF BusyTyped, JobTyped, BuildCovered
<1> QED BY <1>1, <1>2

\* launch tells the guard of the folder, and starts no game while a cleanup runs.
LEMMA LaunchKeeps ==
    ASSUME NEW g \in Games, NEW b \in BusyType, b.maintenance => Runs(b) = {},
           mode' \in [Carts -> Modes], NEW s, Launch(g, b, s)
    PROVE  /\ BusyTyped' /\ GameTyped' /\ RunCovered'
           /\ busy'.builds = b.builds /\ busy'.maintenance = b.maintenance
           /\ busy'.maintenance => Runs(busy') = {}
<1>1. CASE game' = NoGame /\ busy' = b
  BY <1>1 DEF BusyTyped, GameTyped, RunCovered, NoGame
<1>2. CASE ~(game' = NoGame /\ busy' = b)
  <2> DEFINE k == KeyOf(g, mode')
  <2>1. k \in Keys BY KeyOfType
  <2>2. /\ ~b.maintenance
        /\ game' = [id |-> g, key |-> k, state |-> "running"]
        /\ busy' = BeginRun(b, k)
    BY <1>2 DEF Launch
  <2> HIDE DEF k
  <2>3. game' \in GameType /\ game'.key = k BY <2>1, <2>2 DEF GameType
  <2>4. /\ busy' \in BusyType /\ Runs(busy') = Runs(b) \cup {k} /\ busy'.builds = b.builds
        /\ busy'.maintenance = b.maintenance
    BY <2>1, <2>2, BeginRunAdds
  <2> QED BY <2>2, <2>3, <2>4 DEF BusyTyped, GameTyped, RunCovered
<1> QED BY <1>1, <1>2

-----------------------------------------------------------------------------
(* What keeps the report good.                                             *)

\* A step that takes no folder away, and after which nobody has removed one who had not
\* before it, leaves the scan and the report as good as they were.
LEMMA GoodStays ==
    ASSUME ScanIsGood, ReportIsGood, UNCHANGED <<scan, report>>,
           NothingRemoved' => NothingRemoved /\ disk \subseteq disk'
    PROVE  ScanIsGood' /\ ReportIsGood'
  BY DEF ScanIsGood, ReportIsGood

\* After request_scan nothing is claimed of the scan or the report.
LEMMA GoodAsked ==
    ASSUME ScanTyped, NEW c, NEW b, scan' = AskScan(scan, c, b)
    PROVE  ScanTyped' /\ ScanIsGood' /\ ReportIsGood'
<1>1. /\ ScanFields \subseteq DOMAIN scan' /\ scan'.state \in {"working", "done"}
      /\ scan'.again \in BOOLEAN
      /\ scan'.state = "done" => scan'.again = TRUE
  BY AskScanReplaces DEF ScanTyped
<1>2. ScanTyped' BY <1>1 DEF ScanTyped
<1>3. scan'.state # None BY <1>1 DEF None
<1> QED BY <1>1, <1>2, <1>3 DEF ScanIsGood, ReportIsGood

\* While a plan goes on, no build does.
LEMMA PlanMeansNoJob ==
    ASSUME Records, GuardCovers, maint # NoPlan
    PROVE  job = NoJob /\ game = NoGame
<1>1. {job.key} \ {NoKey} = {} /\ {game.key} \ {NoKey} = {} BY DEF GuardCovers
<1> QED BY <1>1, InUse

\* A plan and a disk that stay leave spared what was.
LEMMA SparesStays == ASSUME PolicySpares, UNCHANGED <<maint, disk>> PROVE PolicySpares'
  BY DEF PolicySpares

\* Without a plan nothing need be spared.
LEMMA NoPlanSpares == ASSUME maint' = NoPlan PROVE PolicySpares'
  BY DEF PolicySpares, NoPlan

-----------------------------------------------------------------------------
(* The user.                                                               *)

\* What the user does without starting anything.
LEMMA QuietActs ==
    ASSUME Safe, UNCHANGED <<mode, disk, queue, busy, job, game, maint, scan, report>>,
           SheetTyped', LaunchTyped'
    PROVE  Safe'
<1>1. Records' BY DEF Safe, Records, CatalogTyped, BusyTyped, JobTyped, GameTyped, PlanTyped,
                      ScanTyped
<1>2. GuardCovers' BY DEF Safe, GuardCovers
<1>3. ScanIsGood' /\ ReportIsGood' BY GoodStays DEF Safe, NothingRemoved
<1>4. PolicySpares' BY SparesStays DEF Safe
<1> QED BY <1>1, <1>2, <1>3, <1>4 DEF Safe

\* request_build starts the build or queues it.
LEMMA RequestBuildKeeps ==
    ASSUME Safe, NEW g \in Games, RequestBuild(g)
    PROVE  Safe'
<1>1. UNCHANGED <<mode, disk, game, maint, scan, report, launching, sheet>>
  BY DEF RequestBuild, catalog, workers
<1>2. \/ queue' = Append(queue, g) /\ UNCHANGED <<job, busy>>
      \/ StartBuild(g, FALSE, busy) /\ UNCHANGED queue
  BY DEF RequestBuild
<1>3. mode' \in [Carts -> Modes] /\ busy \in BusyType
  BY <1>1 DEF Safe, Records, CatalogTyped, BusyTyped
<1>4. /\ BusyTyped' /\ JobTyped' /\ BuildCovered'
      /\ Runs(busy') = Runs(busy) /\ busy'.maintenance = busy.maintenance
      /\ busy'.maintenance => busy'.builds = {}
      /\ job' = job \/ (job = NoJob /\ job'.state = "working")
  <2>1. CASE UNCHANGED <<job, busy>>
    BY <2>1 DEF Safe, Records, BusyTyped, JobTyped, BuildCovered, GuardCovers
  <2>2. CASE StartBuild(g, FALSE, busy)
    BY <1>3, <2>2, StartKeeps DEF Safe
  <2> QED BY <1>2, <2>1, <2>2
<1>5. queue' \in Seq(Games)
  <2>1. queue \in Seq(Games) BY DEF Safe, Records, CatalogTyped
  <2>2. Append(queue, g) \in Seq(Games) BY <2>1
  <2> QED BY <1>2, <2>1, <2>2
<1>6. Records'
  BY <1>1, <1>4, <1>5 DEF Safe, Records, CatalogTyped, GameTyped, PlanTyped, SheetTyped, ScanTyped,
                          LaunchTyped
<1>7. GuardCovers'
  BY <1>1, <1>4 DEF Safe, GuardCovers, BuildCovered
<1>8. ScanIsGood' /\ ReportIsGood'
  <2>1. NothingRemoved' => NothingRemoved
    BY <1>1, <1>4 DEF NothingRemoved, NoJob, None
  <2> QED BY <1>1, <2>1, GoodStays DEF Safe
<1>9. PolicySpares' BY <1>1, SparesStays DEF Safe
<1> QED BY <1>6, <1>7, <1>8, <1>9 DEF Safe

\* stop_or_dequeue_build changes the job's state or the queue.
LEMMA StopOrDequeueKeeps ==
    ASSUME Safe, NEW g \in Games, StopOrDequeue(g)
    PROVE  Safe'
<1>1. UNCHANGED <<mode, disk, busy, game, maint, scan, report, launching, sheet>>
  BY DEF StopOrDequeue, catalog, workers, discs
<1>2. \/ /\ job.state = "working" /\ job' = [job EXCEPT !.state = "stopping", !.restart = FALSE]
         /\ UNCHANGED queue
      \/ /\ \E i \in DOMAIN queue : queue' = RemoveAt(queue, i)
         /\ UNCHANGED job
  BY DEF StopOrDequeue
<1>3. JobTyped' /\ job'.key = job.key /\ (job'.state = "failed" <=> job.state = "failed")
  <2>1. CASE UNCHANGED job BY <2>1 DEF Safe, Records, JobTyped
  <2>2. CASE job.state = "working" /\ job' = [job EXCEPT !.state = "stopping", !.restart = FALSE]
    <3>1. job \in JobType BY <2>2 DEF Safe, Records, JobTyped, NoJob, None
    <3>2. job' \in JobType /\ job'.key = job.key /\ job'.state = "stopping"
      BY <2>2, <3>1 DEF JobType, JobStates
    <3> QED BY <2>2, <3>2 DEF JobTyped
  <2> QED BY <1>2, <2>1, <2>2
<1>4. queue' \in Seq(Games)
  <2>1. queue \in Seq(Games) BY DEF Safe, Records, CatalogTyped
  <2>2. ASSUME NEW i \in DOMAIN queue PROVE RemoveAt(queue, i) \in Seq(Games)
    <3>1. i \in 1 .. Len(queue) BY <2>1
    <3>2. SubSeq(queue, 1, i - 1) \in Seq(Games) /\ SubSeq(queue, i + 1, Len(queue)) \in Seq(Games)
      BY <2>1, <3>1
    <3> QED BY <3>2 DEF RemoveAt
  <2> QED BY <1>2, <2>1, <2>2
<1>5. Records'
  BY <1>1, <1>3, <1>4 DEF Safe, Records, CatalogTyped, BusyTyped, GameTyped, PlanTyped, SheetTyped,
                          ScanTyped, LaunchTyped
<1>6. GuardCovers' BY <1>1, <1>3 DEF Safe, GuardCovers
<1>7. ScanIsGood' /\ ReportIsGood'
  BY <1>1, <1>3, GoodStays DEF Safe, NothingRemoved
<1>8. PolicySpares' BY <1>1, SparesStays DEF Safe
<1> QED BY <1>5, <1>6, <1>7, <1>8 DEF Safe

\* play starts a game.
LEMMA PlayKeeps ==
    ASSUME Safe, NEW g \in Carts, Play(g)
    PROVE  Safe'
<1>1. UNCHANGED <<mode, disk, queue, job, maint, scan, report, launching, sheet>>
  BY DEF Play, catalog, workers, discs
<1>2. Launch(g, busy, status) /\ g \in Games BY DEF Play, Games
<1>3. mode' \in [Carts -> Modes] /\ busy \in BusyType /\ (busy.maintenance => Runs(busy) = {})
  BY <1>1 DEF Safe, Records, CatalogTyped, BusyTyped, GuardCovers
<1>4. /\ BusyTyped' /\ GameTyped' /\ RunCovered'
      /\ busy'.builds = busy.builds /\ busy'.maintenance = busy.maintenance
      /\ busy'.maintenance => Runs(busy') = {}
  BY <1>2, <1>3, LaunchKeeps
<1>5. Records'
  BY <1>1, <1>4 DEF Safe, Records, CatalogTyped, JobTyped, PlanTyped, SheetTyped, ScanTyped,
                    LaunchTyped
<1>6. GuardCovers' BY <1>1, <1>4 DEF Safe, GuardCovers, RunCovered
<1>7. ScanIsGood' /\ ReportIsGood' BY <1>1, GoodStays DEF Safe, NothingRemoved
<1>8. PolicySpares' BY <1>1, SparesStays DEF Safe
<1> QED BY <1>5, <1>6, <1>7, <1>8 DEF Safe

\* The build mode tiles.
LEMMA SetModeKeeps ==
    ASSUME Safe, NEW g \in Carts, SetMode(g)
    PROVE  Safe'
<1>1. UNCHANGED <<disk, busy, job, game, queue, maint, scan, report, launching, sheet>>
  BY DEF SetMode, discs
<1>2. mode' \in [Carts -> Modes]
  BY DEF SetMode, Safe, Records, CatalogTyped
<1>3. Records'
  BY <1>1, <1>2 DEF Safe, Records, CatalogTyped, BusyTyped, JobTyped, GameTyped, PlanTyped, SheetTyped,
                    ScanTyped, LaunchTyped
<1>4. GuardCovers' BY <1>1 DEF Safe, GuardCovers
<1>5. ScanIsGood' /\ ReportIsGood' BY <1>1, GoodStays DEF Safe, NothingRemoved
<1>6. PolicySpares' BY <1>1, SparesStays DEF Safe
<1> QED BY <1>3, <1>4, <1>5, <1>6 DEF Safe

\* A sheet is never automatic.
LEMMA OpenSheetKeeps ==
    ASSUME Safe, NEW kind, NEW g, OpenSheet(kind, g)
    PROVE  Safe'
<1>1. UNCHANGED <<mode, disk, queue, busy, job, game, maint, scan, report, launching>>
  BY DEF OpenSheet, catalog, workers, discs
<1>2. SheetTyped'
  <2>1. sheet' = PlanFor(kind, report, {g}, FALSE) BY DEF OpenSheet
  <2>2. PlanFields \subseteq DOMAIN PlanFor(kind, report, {g}, FALSE)
        /\ PlanFor(kind, report, {g}, FALSE).auto = FALSE
    BY DEF PlanFor, PlanFields
  <2> QED BY <2>1, <2>2 DEF SheetTyped
<1>3. LaunchTyped' BY <1>1 DEF Safe, Records, LaunchTyped
<1> QED BY <1>1, <1>2, <1>3, QuietActs

\* A confirmed sheet runs its plan.
LEMMA CloseSheetKeeps ==
    ASSUME Safe, CloseSheet
    PROVE  Safe'
<1>1. UNCHANGED <<mode, disk, queue, job, game, scan, report, launching>> /\ sheet' = NoPlan
  BY DEF CloseSheet, catalog, workers, discs
<1>2. SheetTyped' BY <1>1 DEF SheetTyped, NoPlan, PlanFields
<1>3. PlanFields \subseteq DOMAIN sheet /\ sheet.auto = FALSE BY DEF Safe, Records, SheetTyped
<1>4. CASE RunPlan(sheet)
  <2>1. /\ BusyTyped' /\ PlanTyped' /\ GuardCovers'
        /\ \/ maint' = maint
           \/ maint = NoPlan /\ maint' # NoPlan /\ maint'.auto = sheet.auto
    BY <1>1, <1>3, <1>4, RunPlanKeeps DEF Safe
  <2>2. Records'
    BY <1>1, <1>2, <2>1 DEF Safe, Records, CatalogTyped, JobTyped, GameTyped, ScanTyped, LaunchTyped
  <2>3. ScanIsGood' /\ ReportIsGood' BY <1>1, <2>1, GoodStays DEF Safe, NothingRemoved
  <2>4. PolicySpares'
    BY <1>1, <1>3, <2>1, SparesStays DEF Safe, PolicySpares
  <2> QED BY <2>1, <2>2, <2>3, <2>4 DEF Safe
<1>5. CASE UNCHANGED <<maint, busy>>
  BY <1>1, <1>2, <1>5, QuietActs DEF Safe, Records, LaunchTyped
<1> QED BY <1>4, <1>5 DEF CloseSheet

\* The Play button of a disc game prepares a launch of that disc.
LEMMA ScdPlayKeeps ==
    ASSUME Safe, NEW d \in Discs, ScdPlay(d)
    PROVE  Safe'
<1>1. UNCHANGED <<mode, disk, queue, busy, job, game, maint, scan, report, sheet>>
  BY DEF ScdPlay, catalog, workers
<1>2. LaunchTyped' BY DEF ScdPlay, LaunchTyped
<1>3. SheetTyped' BY <1>1 DEF Safe, Records, SheetTyped
<1> QED BY <1>1, <1>2, <1>3, QuietActs

\* The chooser and the checks of a disc's program touch nothing here.
LEMMA ChecksKeep ==
    ASSUME Safe, \/ \E d \in Discs : OpenChooser(d) \/ VerifyAgain(d)
                 \/ ChooserAnswers
    PROVE  Safe'
<1>1. UNCHANGED <<mode, disk, queue, busy, job, game, maint, scan, report, sheet, launching>>
  BY DEF OpenChooser, VerifyAgain, ChooserAnswers, catalog, workers
<1>2. LaunchTyped' /\ SheetTyped' BY <1>1 DEF Safe, Records, LaunchTyped, SheetTyped
<1> QED BY <1>1, <1>2, QuietActs

-----------------------------------------------------------------------------
(* The polls of a frame.                                                   *)

\* poll_status_refresh touches the catalog and its own worker.
LEMMA PollStatusKeeps == ASSUME Safe, PollStatus PROVE Safe'
<1>1. UNCHANGED <<mode, disk, queue, busy, job, game, maint, scan, report, sheet, launching>>
  BY DEF PollStatus, Poll
<1>2. LaunchTyped' /\ SheetTyped' BY <1>1 DEF Safe, Records, LaunchTyped, SheetTyped
<1> QED BY <1>1, <1>2, QuietActs

\* poll_scan puts a report in place that is good, or begins a scan.
LEMMA PollScanKeeps == ASSUME IInv, PollScan PROVE Safe'
<1>1. /\ UNCHANGED <<mode, disk, queue, busy, job, game, maint, sheet, launching>>
      /\ report' = [valid |-> TRUE, cur |-> scan.cur, old |-> scan.old]
  BY DEF PollScan, Poll, catalog
<1>2. scan.state = "done"
  <2>1. HasWork("scan") BY PollFinds DEF IInv, PollScan, Stages
  <2> QED BY <2>1 DEF HasWork
<1>3. ScanTyped' /\ ScanIsGood' /\ ReportIsGood'
  <2> DEFINE idle == [state |-> None, again |-> FALSE, cur |-> {}, old |-> {}]
  <2>1. scan.again \in BOOLEAN BY DEF IInv, Safe, Records, ScanTyped
  <2>2. CASE scan.again = TRUE
    <3>1. scan' = AskScan(idle, current, builds) BY <2>2 DEF PollScan
    <3>2. DOMAIN scan' = ScanFields /\ scan'.state = "working" /\ scan'.again = FALSE
      BY <3>1 DEF AskScan, ScanFields
    <3>3. ScanTyped' BY <3>2 DEF ScanTyped
    <3> QED BY <3>2, <3>3 DEF ScanIsGood, ReportIsGood, None
  <2>3. CASE scan.again = FALSE
    <3>1. scan' = idle BY <2>3 DEF PollScan
    <3>2. DOMAIN scan' = ScanFields /\ scan'.state = None /\ scan'.again = FALSE
      BY <3>1 DEF ScanFields
    <3>3. ScanTyped' BY <3>2 DEF ScanTyped
    <3>4. ScanIsGood' BY <3>2 DEF ScanIsGood, None
    <3>5. NothingRemoved' <=> NothingRemoved BY <1>1 DEF NothingRemoved
    <3>6. ReportIsGood'
      BY <1>1, <1>2, <2>3, <3>5 DEF IInv, Safe, ScanIsGood, ReportIsGood
    <3> QED BY <3>3, <3>4, <3>6
  <2> QED BY <2>1, <2>2, <2>3
<1>4. Records'
  BY <1>1, <1>3 DEF IInv, Safe, Records, CatalogTyped, BusyTyped, JobTyped, GameTyped, PlanTyped,
                    SheetTyped, LaunchTyped
<1>5. GuardCovers' BY <1>1 DEF IInv, Safe, GuardCovers
<1>6. PolicySpares' BY <1>1, SparesStays DEF IInv, Safe
<1> QED BY <1>3, <1>4, <1>5, <1>6 DEF Safe

\* scd_finish_build: the guard forgets the build, and a failed one asks for a scan.
LEMMA ScdFinishBuildKeeps == ASSUME Safe, ScdFinishBuild PROVE Safe'
<1>1. /\ UNCHANGED <<mode, disk, queue, game, maint, report, sheet, launching>>
      /\ job' = NoJob /\ busy' = [busy EXCEPT !.builds = @ \ {job.key}]
  BY DEF ScdFinishBuild, Poll, catalog
<1>2. busy \in BusyType BY DEF Safe, Records, BusyTyped
<1>3. /\ busy' \in BusyType /\ busy'.builds = busy.builds \ {job.key}
      /\ Runs(busy') = Runs(busy) /\ busy'.maintenance = busy.maintenance
  BY <1>1, <1>2 DEF BusyType, Runs
<1>4. GuardCovers' BY <1>1, <1>3 DEF Safe, GuardCovers, NoJob
<1>5. ScanTyped' /\ ScanIsGood' /\ ReportIsGood'
  <2>1. CASE job.state = "succeeded"
    <3>1. UNCHANGED scan BY <2>1 DEF ScdFinishBuild
    <3>2. NothingRemoved' => NothingRemoved BY <1>1, <2>1 DEF NothingRemoved
    <3> QED BY <1>1, <3>1, <3>2, GoodStays DEF Safe, Records, ScanTyped
  <2>2. CASE job.state # "succeeded"
    <3>1. scan' = AskScan(scan, current, builds) BY <2>2 DEF ScdFinishBuild
    <3> QED BY <3>1, GoodAsked DEF Safe, Records
  <2> QED BY <2>1, <2>2
<1>6. Records'
  BY <1>1, <1>3, <1>5 DEF Safe, Records, CatalogTyped, BusyTyped, JobTyped, GameTyped, PlanTyped,
                          SheetTyped, LaunchTyped
<1>7. PolicySpares' BY <1>1, SparesStays DEF Safe
<1> QED BY <1>4, <1>5, <1>6, <1>7 DEF Safe

\* A check that ended asks for a scan.
LEMMA PollCheckKeeps == ASSUME Safe, PollCheck PROVE Safe'
<1>1. /\ UNCHANGED <<mode, disk, queue, busy, job, game, maint, report, sheet, launching>>
      /\ scan' = AskScan(scan, current, builds)
  BY DEF PollCheck, Poll
<1>2. ScanTyped' /\ ScanIsGood' /\ ReportIsGood' BY <1>1, GoodAsked DEF Safe, Records
<1>3. Records'
  BY <1>1, <1>2 DEF Safe, Records, CatalogTyped, BusyTyped, JobTyped, GameTyped, PlanTyped,
                    SheetTyped, LaunchTyped
<1>4. GuardCovers' BY <1>1 DEF Safe, GuardCovers
<1>5. PolicySpares' BY <1>1, SparesStays DEF Safe
<1> QED BY <1>2, <1>3, <1>4, <1>5 DEF Safe

\* scd_spawn starts the prepared disc unless a cleanup began meanwhile.
LEMMA PollLaunchKeeps == ASSUME Safe, PollLaunch PROVE Safe'
<1>1. /\ UNCHANGED <<mode, disk, queue, job, maint, scan, report, sheet>>
      /\ launching' = [id |-> NoOne, state |-> None]
  BY DEF PollLaunch, Poll, catalog
<1>2. /\ BusyTyped' /\ GameTyped' /\ RunCovered'
      /\ busy'.builds = busy.builds /\ busy'.maintenance = busy.maintenance
      /\ busy'.maintenance => Runs(busy') = {}
  <2> DEFINE k == <<launching.id, "disc">>
  <2>1. busy \in BusyType /\ (busy.maintenance => Runs(busy) = {})
    BY DEF Safe, Records, BusyTyped, GuardCovers
  <2>2. CASE UNCHANGED <<game, busy>>
    BY <2>1, <2>2 DEF Safe, Records, BusyTyped, GameTyped, GuardCovers, RunCovered
  <2>3. CASE game' = NoGame /\ UNCHANGED busy
    BY <2>1, <2>3 DEF Safe, Records, BusyTyped, GameTyped, RunCovered, NoGame
  <2>4. CASE /\ launching.state = "ready" /\ ~busy.maintenance
             /\ game' = [id |-> launching.id, key |-> k, state |-> "running"]
             /\ busy' = BeginRun(busy, k)
    <3>1. launching.id \in Discs BY <2>4 DEF Safe, Records, LaunchTyped, None
    <3>2. launching.id \in Games /\ k \in Keys BY <3>1 DEF Games, Keys
    <3> HIDE DEF k
    <3>3. game' \in GameType /\ game'.key = k BY <2>4, <3>2 DEF GameType
    <3>4. /\ busy' \in BusyType /\ Runs(busy') = Runs(busy) \cup {k} /\ busy'.builds = busy.builds
          /\ busy'.maintenance = busy.maintenance
      BY <2>1, <2>4, <3>2, BeginRunAdds
    <3> QED BY <2>4, <3>3, <3>4 DEF BusyTyped, GameTyped, RunCovered
  <2> QED BY <2>2, <2>3, <2>4 DEF PollLaunch
<1>3. LaunchTyped' BY <1>1 DEF LaunchTyped
<1>4. Records'
  BY <1>1, <1>2, <1>3 DEF Safe, Records, CatalogTyped, JobTyped, PlanTyped, SheetTyped, ScanTyped
<1>5. GuardCovers' BY <1>1, <1>2 DEF Safe, GuardCovers, RunCovered
<1>6. ScanIsGood' /\ ReportIsGood' BY <1>1, GoodStays DEF Safe, NothingRemoved
<1>7. PolicySpares' BY <1>1, SparesStays DEF Safe
<1> QED BY <1>4, <1>5, <1>6, <1>7 DEF Safe

\* poll_maintenance tells the guard, and asks for a scan.
LEMMA PollMaintenanceKeeps == ASSUME Safe, PollMaintenance PROVE Safe'
<1>1. /\ UNCHANGED <<mode, disk, queue, job, game, report, sheet, launching>>
      /\ maint' = NoPlan /\ busy' = [busy EXCEPT !.maintenance = FALSE]
      /\ scan' = AskScan(scan, current, builds)
  BY DEF PollMaintenance, Poll, catalog
<1>2. /\ busy' \in BusyType /\ busy'.builds = busy.builds
      /\ Runs(busy') = Runs(busy) /\ busy'.maintenance = FALSE
  BY <1>1 DEF Safe, Records, BusyTyped, BusyType, Runs
<1>3. GuardCovers' BY <1>1, <1>2 DEF Safe, GuardCovers
<1>4. ScanTyped' /\ ScanIsGood' /\ ReportIsGood' BY <1>1, GoodAsked DEF Safe, Records
<1>5. PlanTyped' BY <1>1 DEF PlanTyped, PlanFields, NoPlan
<1>6. Records'
  BY <1>1, <1>2, <1>4, <1>5 DEF Safe, Records, CatalogTyped, BusyTyped, JobTyped, GameTyped,
                                SheetTyped, LaunchTyped
<1>7. PolicySpares' BY <1>1, NoPlanSpares
<1> QED BY <1>3, <1>4, <1>6, <1>7 DEF Safe

\* finish_build: the guard forgets the build, and learns of the game that is restarted.
LEMMA FinishBuildKeeps == ASSUME Safe, FinishBuild PROVE Safe'
<1> DEFINE b == [busy EXCEPT !.builds = @ \ {job.key}]
<1>1. /\ UNCHANGED <<mode, disk, queue, maint, report, sheet, launching>>
      /\ job' = NoJob /\ scan' = AskScan(scan, current', builds')
  BY DEF FinishBuild, Poll
<1>2. busy \in BusyType BY DEF Safe, Records, BusyTyped
<1>3. /\ b \in BusyType /\ b.builds = busy.builds \ {job.key}
      /\ Runs(b) = Runs(busy) /\ b.maintenance = busy.maintenance
  BY <1>2 DEF BusyType, Runs
<1>4. b.builds = {} BY <1>3 DEF Safe, GuardCovers
<1>5. /\ BusyTyped' /\ GameTyped' /\ RunCovered'
      /\ busy'.builds = b.builds /\ busy'.maintenance = b.maintenance
      /\ busy'.maintenance => Runs(busy') = {}
  <2>1. b.maintenance => Runs(b) = {} BY <1>3 DEF Safe, GuardCovers
  <2>2. CASE busy' = b /\ UNCHANGED game
    <3> HIDE DEF b
    <3> QED BY <1>3, <2>1, <2>2 DEF Safe, Records, BusyTyped, GameTyped, GuardCovers, RunCovered
  <2>3. ASSUME NEW s, job.state = "succeeded", Launch(job.id, b, s)
        PROVE  /\ BusyTyped' /\ GameTyped' /\ RunCovered'
               /\ busy'.builds = b.builds /\ busy'.maintenance = b.maintenance
               /\ busy'.maintenance => Runs(busy') = {}
    <3>1. job.id \in Games
      BY <2>3 DEF Safe, Records, JobTyped, JobType, NoJob, None
    <3>2. mode' \in [Carts -> Modes] BY <1>1 DEF Safe, Records, CatalogTyped
    <3> HIDE DEF b
    <3> QED BY <1>3, <2>1, <2>3, <3>1, <3>2, LaunchKeeps
  <2>4. \/ busy' = b /\ UNCHANGED game
        \/ job.state = "succeeded" /\ Launch(job.id, b, AskStatus(status, mode, builds'))
    BY DEF FinishBuild
  <2> HIDE DEF b
  <2> QED BY <2>2, <2>3, <2>4
<1>6. ScanTyped' /\ ScanIsGood' /\ ReportIsGood'
  BY <1>1, GoodAsked DEF Safe, Records
<1>7. JobTyped' BY <1>1 DEF JobTyped
<1>8. Records'
  BY <1>1, <1>5, <1>6, <1>7 DEF Safe, Records, CatalogTyped, PlanTyped, SheetTyped, LaunchTyped
<1> HIDE DEF b
<1>9. GuardCovers'
  BY <1>1, <1>3, <1>4, <1>5 DEF Safe, GuardCovers, RunCovered, NoJob
<1>10. PolicySpares' BY <1>1, SparesStays DEF Safe
<1> QED BY <1>6, <1>8, <1>9, <1>10 DEF Safe

\* finish_run: the guard forgets the game; a typed stop starts a game or a build.
LEMMA FinishRunKeeps == ASSUME IInv, FinishRun PROVE Safe'
<1> DEFINE b == EndRun(busy, game.key)
           g == game.id
           again == game.state = "unadmitted" /\ ~restart.thisPlay
<1>1. UNCHANGED <<disk, queue, maint, report, sheet, launching>>
  BY DEF FinishRun, Poll
<1>2. Safe /\ HasWork("run")
  BY PollFinds DEF IInv, FinishRun, Stages
<1>3. game \in GameType /\ g \in Games
  <2>1. game.state \in {"clean", "unadmitted", "failed"} BY <1>2 DEF HasWork
  <2>2. game # NoGame BY <2>1 DEF NoGame, None
  <2> QED BY <1>2, <2>2 DEF Safe, Records, GameTyped, GameType
<1>4. mode' \in [Carts -> Modes]
  <2>1. mode' = mode \/ mode' = [mode EXCEPT ![g] = "compatibility"] BY DEF FinishRun
  <2> QED BY <1>2, <2>1 DEF Safe, Records, CatalogTyped, Modes
<1>5. busy \in BusyType /\ (busy.maintenance => Runs(busy) = {})
  BY <1>2 DEF Safe, Records, BusyTyped, GuardCovers
<1>6. /\ b \in BusyType /\ Runs(b) \subseteq Runs(busy)
      /\ b.builds = busy.builds /\ b.maintenance = busy.maintenance
  BY <1>5, EndRunTakes
<1>7. \/ Launch(g, b, status) /\ UNCHANGED job
      \/ game' = NoGame /\ StartBuild(g, TRUE, b)
      \/ game' = NoGame /\ busy' = b /\ UNCHANGED job
  <2>1. \/ again /\ <<g, "compatibility">> \in disk
        \/ again /\ <<g, "compatibility">> \notin disk
        \/ ~again
    OBVIOUS
  <2>2. CASE again /\ <<g, "compatibility">> \in disk BY <2>2 DEF FinishRun
  <2>3. CASE again /\ <<g, "compatibility">> \notin disk BY <2>3 DEF FinishRun
  <2>4. CASE ~again BY <2>4 DEF FinishRun
  <2> HIDE DEF again
  <2> QED BY <2>1, <2>2, <2>3, <2>4
<1>8. ScanTyped /\ (UNCHANGED scan \/ scan' = AskScan(scan, current, builds))
  BY <1>2 DEF FinishRun, Safe, Records
<1> HIDE DEF b, g, again
<1>9. /\ BusyTyped' /\ GameTyped' /\ JobTyped' /\ GuardCovers'
      /\ job' = job \/ (job = NoJob /\ job'.state = "working")
  <2>1. CASE Launch(g, b, status) /\ UNCHANGED job
    <3>1. /\ BusyTyped' /\ GameTyped' /\ RunCovered'
          /\ busy'.builds = b.builds /\ busy'.maintenance = b.maintenance
          /\ busy'.maintenance => Runs(busy') = {}
      BY <1>3, <1>4, <1>5, <1>6, <2>1, LaunchKeeps
    <3> QED BY <1>1, <1>2, <1>6, <2>1, <3>1 DEF Safe, Records, JobTyped, GuardCovers, RunCovered
  <2>2. CASE game' = NoGame /\ StartBuild(g, TRUE, b)
    <3>1. /\ BusyTyped' /\ JobTyped' /\ BuildCovered'
          /\ Runs(busy') = Runs(b) /\ busy'.maintenance = b.maintenance
          /\ busy'.maintenance => busy'.builds = {}
          /\ job' = job \/ (job = NoJob /\ job'.state = "working")
      BY <1>2, <1>3, <1>4, <1>6, <2>2, StartKeeps DEF Safe
    <3>2. GuardCovers'
      BY <1>1, <1>2, <1>5, <1>6, <2>2, <3>1 DEF Safe, GuardCovers, BuildCovered, NoGame
    <3> QED BY <2>2, <3>1, <3>2 DEF GameTyped
  <2>3. CASE game' = NoGame /\ busy' = b /\ UNCHANGED job
    BY <1>1, <1>2, <1>5, <1>6, <2>3 DEF Safe, Records, BusyTyped, GameTyped, JobTyped, GuardCovers,
       NoGame
  <2> QED BY <1>7, <2>1, <2>2, <2>3
<1>10. ScanTyped' /\ ScanIsGood' /\ ReportIsGood'
  <2>1. CASE UNCHANGED scan
    <3>1. NothingRemoved' => NothingRemoved BY <1>1, <1>9 DEF NothingRemoved, NoJob, None
    <3>2. ScanTyped' BY <1>8, <2>1 DEF ScanTyped
    <3> QED BY <1>1, <1>2, <2>1, <3>1, <3>2, GoodStays DEF Safe
  <2>2. CASE scan' = AskScan(scan, current, builds) BY <1>8, <2>2, GoodAsked
  <2> QED BY <1>8, <2>1, <2>2
<1>11. Records'
  BY <1>1, <1>2, <1>4, <1>9, <1>10 DEF Safe, Records, CatalogTyped, PlanTyped, SheetTyped,
     LaunchTyped
<1>12. PolicySpares' BY <1>1, <1>2, SparesStays DEF Safe
<1> QED BY <1>9, <1>10, <1>11, <1>12 DEF Safe

\* The end of update_jobs: a build leaves the queue and starts, or is dropped.
LEMMA PopQueueKeeps == ASSUME IInv, PopQueue PROVE Safe'
<1>1. UNCHANGED <<mode, disk, game, maint, scan, report, launching, sheet>>
  BY DEF PopQueue, Poll, catalog, workers
<1>2. Safe /\ HasWork("queue") BY PollFinds DEF IInv, PopQueue, Stages
<1>3. queue \in Seq(Games) /\ queue # <<>> BY <1>2 DEF HasWork, Safe, Records, CatalogTyped
<1>4. Head(queue) \in Games /\ Tail(queue) \in Seq(Games) BY <1>3
<1>5. mode' \in [Carts -> Modes] /\ busy \in BusyType
  BY <1>1, <1>2 DEF Safe, Records, CatalogTyped, BusyTyped
<1>6. StartBuild(Head(queue), FALSE, busy) /\ queue' = Tail(queue) BY DEF PopQueue
<1>7. /\ BusyTyped' /\ JobTyped' /\ BuildCovered'
      /\ Runs(busy') = Runs(busy) /\ busy'.maintenance = busy.maintenance
      /\ busy'.maintenance => busy'.builds = {}
      /\ job' = job \/ (job = NoJob /\ job'.state = "working")
  BY <1>2, <1>4, <1>5, <1>6, StartKeeps DEF Safe
<1>8. Records'
  BY <1>1, <1>2, <1>4, <1>6, <1>7 DEF Safe, Records, CatalogTyped, GameTyped, PlanTyped, SheetTyped,
     ScanTyped, LaunchTyped
<1>9. GuardCovers' BY <1>1, <1>2, <1>7 DEF Safe, GuardCovers, BuildCovered
<1>10. ScanIsGood' /\ ReportIsGood'
  <2>1. NothingRemoved' => NothingRemoved BY <1>1, <1>7 DEF NothingRemoved, NoJob, None
  <2> QED BY <1>1, <1>2, <2>1, GoodStays DEF Safe
<1>11. PolicySpares' BY <1>1, <1>2, SparesStays DEF Safe
<1> QED BY <1>8, <1>9, <1>10, <1>11 DEF Safe

-----------------------------------------------------------------------------
(* The keep-last-N policy.                                                 *)

\* The newest of the games to be reduced has N newer ones, and none of these is reduced.
LEMMA NEvicted ==
    ASSUME RecentTyped, Evicted # {}
    PROVE  Cardinality(Playable \ Evicted) >= KeepLastN
<1> DEFINE places == {recent[g] : g \in Evicted}
<1>1. Playable \subseteq Games /\ Evicted \subseteq Playable BY DEF Playable, Evicted
<1>2. \A g \in Games : recent[g] \in Nat BY DEF RecentTyped
<1>3. places \in SUBSET Nat /\ places # {} BY <1>1, <1>2
<1> HIDE DEF places
<1>4. PICK r \in places : \A q \in places : r <= q BY <1>3, LeastNat
<1>5. PICK g \in Evicted : r = recent[g] BY <1>4 DEF places
<1>6. \A h \in Evicted : recent[g] <= recent[h] BY <1>4, <1>5 DEF places
<1>7. NewerThan(g) \subseteq Playable \ Evicted
  <2> SUFFICES ASSUME NEW h \in Playable, recent[h] < recent[g], h \in Evicted PROVE FALSE
    BY DEF NewerThan
  <2> QED BY <1>1, <1>2, <1>5, <1>6
<1>8. IsFiniteSet(Playable \ Evicted)
  BY <1>1, LauncherAssumption, FS_Subset DEF Games
<1>9. /\ Cardinality(NewerThan(g)) <= Cardinality(Playable \ Evicted)
      /\ IsFiniteSet(NewerThan(g))
  BY <1>7, <1>8, FS_Subset
<1>10. Cardinality(NewerThan(g)) \in Nat /\ Cardinality(Playable \ Evicted) \in Nat
  BY <1>8, <1>9, FS_CardinalityType
<1>11. Cardinality(NewerThan(g)) >= KeepLastN BY <1>5 DEF Evicted
<1> QED BY <1>9, <1>10, <1>11, LauncherAssumption

\* The folders of the library are of finitely many games, and more of them have no fewer.
LEMMA MoreGames ==
    ASSUME NEW few, NEW many, many \subseteq Keys, few \subseteq GamesOf(many),
           Cardinality(few) >= KeepLastN
    PROVE  Cardinality(GamesOf(many)) >= KeepLastN
<1>1. GamesOf(many) \subseteq Games BY KeyOfGame DEF GamesOf
<1>2. IsFiniteSet(GamesOf(many)) BY <1>1, LauncherAssumption, FS_Subset DEF Games
<1>3. IsFiniteSet(few) /\ Cardinality(few) <= Cardinality(GamesOf(many))
  BY <1>2, FS_Subset
<1>4. Cardinality(few) \in Nat /\ Cardinality(GamesOf(many)) \in Nat
  BY <1>2, <1>3, FS_CardinalityType
<1> QED BY <1>3, <1>4, LauncherAssumption

\* The policy's plan lists folders of the games to be reduced, and of no other.
LEMMA PlanOfEvicted ==
    ASSUME NEW k, k \in PlanFor("archive", report, Evicted, TRUE).items
    PROVE  k[1] \in Evicted
  BY DEF PlanFor

\* When the report is good, what the policy's plan leaves are the folders of N games.
LEMMA PolicyPlanSpares ==
    ASSUME RecentTyped, disk \subseteq Keys, report.cur \subseteq disk, NEW items,
           items = PlanFor("archive", report, Evicted, TRUE).items, items # {}
    PROVE  Cardinality(GamesOf(disk \ items)) >= KeepLastN
<1>1. Evicted # {} BY PlanOfEvicted
<1>2. Cardinality(Playable \ Evicted) >= KeepLastN BY <1>1, NEvicted
<1>3. Playable \ Evicted \subseteq GamesOf(disk \ items)
  <2> SUFFICES ASSUME NEW g \in Playable, g \notin Evicted PROVE g \in GamesOf(disk \ items)
    OBVIOUS
  <2>1. PICK k \in report.cur : k[1] = g BY DEF Playable
  <2>2. k \in disk /\ k \notin items BY <2>1, PlanOfEvicted
  <2> QED BY <2>1, <2>2 DEF GamesOf
<1> QED BY <1>2, <1>3, MoreGames

\* pump_cleanup runs the plan that is owed, or the policy's on a good report.
LEMMA PumpCleanupKeeps == ASSUME IInv, PumpCleanup PROVE Safe'
<1> DEFINE owed == PlanFor("superseded", Fresh, cleanup.ids, TRUE)
           policy == PlanFor("archive", report, Evicted, TRUE)
<1>1. UNCHANGED <<mode, disk, job, game, queue, scan, report, launching, sheet>>
  BY DEF PumpCleanup, Poll, catalog, workers
<1>2. Safe /\ RecentTyped /\ HasWork("cleanup")
  BY PollFinds DEF IInv, PumpCleanup, Stages
<1>3. /\ maint = NoPlan /\ ~AnyActivity
      /\ cleanup.ids # {} \/ scan.state = None
  BY <1>2 DEF HasWork
<1>4. /\ PlanFields \subseteq DOMAIN owed /\ owed.kind = "superseded"
      /\ PlanFields \subseteq DOMAIN policy
  BY DEF PlanFor, PlanFields
<1>5. \/ UNCHANGED <<maint, busy>>
      \/ RunPlan(owed)
      \/ cleanup.ids = {} /\ policy.items # {} /\ RunPlan(policy)
  <2>1. CASE cleanup.ids # {} BY <2>1 DEF PumpCleanup
  <2>2. CASE cleanup.ids = {} BY <2>2 DEF PumpCleanup
  <2> QED BY <2>1, <2>2
<1> HIDE DEF owed, policy
<1>6. CASE UNCHANGED <<maint, busy>>
  <2>1. SheetTyped' /\ LaunchTyped' BY <1>1, <1>2 DEF Safe, Records, SheetTyped, LaunchTyped
  <2> QED BY <1>1, <1>2, <1>6, <2>1, QuietActs
<1>7. ASSUME NEW plan, PlanFields \subseteq DOMAIN plan, RunPlan(plan),
             plan.kind = "archive" => Cardinality(GamesOf(disk \ plan.items)) >= KeepLastN
      PROVE  Safe'
  <2>1. /\ BusyTyped' /\ PlanTyped' /\ GuardCovers'
        /\ \/ maint' = maint
           \/ maint' # NoPlan /\ maint'.items = plan.items /\ maint'.kind = plan.kind
    BY <1>1, <1>2, <1>7, RunPlanKeeps DEF Safe
  <2>2. Records'
    BY <1>1, <1>2, <2>1 DEF Safe, Records, CatalogTyped, JobTyped, GameTyped, SheetTyped, ScanTyped,
       LaunchTyped
  <2>3. ScanIsGood' /\ ReportIsGood'
    BY <1>1, <1>2, <1>3, <2>1, GoodStays DEF Safe, NothingRemoved
  <2>4. PolicySpares'
    <3>1. CASE maint' = maint BY <1>1, <1>2, <3>1, SparesStays DEF Safe
    <3>2. CASE maint'.items = plan.items /\ maint'.kind = plan.kind
      BY <1>1, <1>7, <3>2 DEF PolicySpares
    <3> QED BY <2>1, <3>1, <3>2
  <2> QED BY <2>1, <2>2, <2>3, <2>4 DEF Safe
<1>8. CASE RunPlan(owed) BY <1>4, <1>7, <1>8
<1>9. CASE cleanup.ids = {} /\ policy.items # {} /\ RunPlan(policy)
  <2>1. job = NoJob
    <3>1. {job.key} \ {NoKey} = {} BY <1>2, <1>3 DEF Safe, GuardCovers, AnyActivity
    <3> QED BY <1>2, <3>1, InUse DEF Safe
  <2>2. NothingRemoved BY <1>3, <2>1 DEF NothingRemoved, NoJob, None
  <2>3. report.cur \subseteq disk BY <1>2, <1>3, <1>9, <2>2 DEF Safe, ReportIsGood
  <2>4. disk \subseteq Keys BY <1>2 DEF Safe, Records, CatalogTyped
  <2>5. policy.items = PlanFor("archive", report, Evicted, TRUE).items BY DEF policy
  <2>6. Cardinality(GamesOf(disk \ policy.items)) >= KeepLastN
    BY <1>2, <1>9, <2>3, <2>4, <2>5, PolicyPlanSpares
  <2> QED BY <1>4, <1>7, <1>9, <2>6
<1> QED BY <1>5, <1>6, <1>8, <1>9

-----------------------------------------------------------------------------
(* What runs beside the user interface thread.                             *)

\* The status worker, the checks and the preparation of a launch touch nothing here.
LEMMA WorkersKeep == ASSUME Safe, StatusWorks \/ CheckWorks \/ LaunchWorks PROVE Safe'
<1>1. UNCHANGED <<mode, disk, queue, busy, job, game, maint, scan, report, sheet>>
  BY DEF StatusWorks, CheckWorks, LaunchWorks, Aside, catalog
<1>2. SheetTyped' BY <1>1 DEF Safe, Records, SheetTyped
<1>3. LaunchTyped'
  <2>1. CASE UNCHANGED launching BY <2>1 DEF Safe, Records, LaunchTyped
  <2>2. CASE LaunchWorks
    <3>1. PICK r \in {"ready", "refused"} : launching' = [launching EXCEPT !.state = r]
      BY <2>2 DEF LaunchWorks
    <3>2. launching.state = "working" BY <2>2 DEF LaunchWorks
    <3>3. {"id", "state"} \subseteq DOMAIN launching /\ launching.id \in Discs
      BY <3>2 DEF Safe, Records, LaunchTyped, None
    <3> QED BY <3>1, <3>3 DEF LaunchTyped
  <2> QED BY <2>1, <2>2 DEF StatusWorks, CheckWorks
<1> QED BY <1>1, <1>2, <1>3, QuietActs

\* The scan keeps what is on the disk when it looks.
LEMMA ScanWorksKeeps == ASSUME Safe, ScanWorks PROVE Safe'
<1>1. /\ UNCHANGED <<mode, disk, queue, busy, job, game, maint, report, sheet, launching>>
      /\ scan.state = "working"
      /\ scan' = [scan EXCEPT !.state = "done", !.cur = @ \cap disk, !.old = @ \cap disk]
  BY DEF ScanWorks, Aside, catalog
<1>2. ScanFields \subseteq DOMAIN scan /\ scan.again \in BOOLEAN BY DEF Safe, Records, ScanTyped
<1>3. /\ DOMAIN scan' = DOMAIN scan /\ scan'.state = "done" /\ scan'.again = scan.again
      /\ scan'.cur = scan.cur \cap disk /\ scan'.old = scan.old \cap disk
  BY <1>1, <1>2 DEF ScanFields
<1>4. ScanTyped' BY <1>2, <1>3 DEF ScanTyped
<1>5. ScanIsGood' BY <1>1, <1>3 DEF ScanIsGood
<1>6. ReportIsGood' BY <1>3 DEF ReportIsGood, None
<1>7. Records'
  BY <1>1, <1>4 DEF Safe, Records, CatalogTyped, BusyTyped, JobTyped, GameTyped, PlanTyped,
                    SheetTyped, LaunchTyped
<1>8. GuardCovers' BY <1>1 DEF Safe, GuardCovers
<1>9. PolicySpares' BY <1>1, SparesStays DEF Safe
<1> QED BY <1>5, <1>6, <1>7, <1>8, <1>9 DEF Safe

\* A build adds its folder; one that failed may have removed it, and is yet to be polled.
LEMMA BuildWorksKeeps == ASSUME Safe, BuildWorks PROVE Safe'
<1>1. UNCHANGED <<mode, queue, busy, game, maint, scan, report, sheet, launching>>
  BY DEF BuildWorks, Aside, catalog
<1>2. job.state \in {"working", "stopping", "published"} BY DEF BuildWorks
<1>3. job \in JobType /\ job # NoJob
  BY <1>2 DEF Safe, Records, JobTyped, NoJob, None
<1>4. maint = NoPlan /\ job.key \in Keys /\ disk \subseteq Keys
  BY <1>3, PlanMeansNoJob DEF Safe, Records, JobType, CatalogTyped
<1>5. /\ job' \in JobType /\ job'.key = job.key /\ disk' \subseteq Keys
      /\ job'.state # "failed" => disk \subseteq disk'
  <2>1. CASE job' = [job EXCEPT !.state = IF @ = "published" THEN "succeeded" ELSE "cancelled"]
             /\ UNCHANGED disk
    BY <1>3, <1>4, <2>1 DEF JobType, JobStates
  <2>2. CASE job' = [job EXCEPT !.state = "published"] /\ disk' = disk \cup {job.key}
    BY <1>3, <1>4, <2>2 DEF JobType, JobStates
  <2>3. CASE /\ job' = [job EXCEPT !.state = "failed"]
             /\ disk' \in {disk} \cup {disk \ {job.key} : d \in {job.id} \cap Carts}
    <3>1. disk' \subseteq disk BY <2>3
    <3>2. job' \in JobType /\ job'.key = job.key /\ job'.state = "failed"
      BY <1>3, <2>3 DEF JobType, JobStates
    <3> QED BY <1>4, <3>1, <3>2
  <2> QED BY <2>1, <2>2, <2>3 DEF BuildWorks
<1>6. Records'
  BY <1>1, <1>5 DEF Safe, Records, CatalogTyped, BusyTyped, JobTyped, GameTyped, PlanTyped,
                    SheetTyped, ScanTyped, LaunchTyped
<1>7. GuardCovers' BY <1>1, <1>5 DEF Safe, GuardCovers
<1>8. ScanIsGood' /\ ReportIsGood'
  <2>1. NothingRemoved' => NothingRemoved /\ disk \subseteq disk'
    BY <1>2, <1>4, <1>5 DEF NothingRemoved
  <2> QED BY <1>1, <2>1, GoodStays DEF Safe
<1>9. PolicySpares' BY <1>1, <1>4, NoPlanSpares
<1> QED BY <1>6, <1>7, <1>8, <1>9 DEF Safe

\* A game that ended keeps its folder until it is polled.
LEMMA GameEndsKeeps == ASSUME Safe, GameEnds PROVE Safe'
<1>1. /\ UNCHANGED <<mode, disk, queue, busy, job, maint, scan, report, sheet, launching>>
      /\ game.state = "running"
  BY DEF GameEnds, Aside, catalog
<1>2. PICK r \in {"clean", "unadmitted", "failed"} : game' = [game EXCEPT !.state = r]
  BY DEF GameEnds
<1>3. game \in GameType BY <1>1 DEF Safe, Records, GameTyped, NoGame, None
<1>4. game' \in GameType /\ game'.key = game.key BY <1>2, <1>3 DEF GameType
<1>5. Records'
  BY <1>1, <1>4 DEF Safe, Records, CatalogTyped, BusyTyped, JobTyped, GameTyped, PlanTyped,
                    SheetTyped, ScanTyped, LaunchTyped
<1>6. GuardCovers' BY <1>1, <1>4 DEF Safe, GuardCovers
<1>7. ScanIsGood' /\ ReportIsGood' BY <1>1, GoodStays DEF Safe, NothingRemoved
<1>8. PolicySpares' BY <1>1, SparesStays DEF Safe
<1> QED BY <1>5, <1>6, <1>7, <1>8 DEF Safe

\* execute_plan removes what its plan lists, and the plan is not the empty one meanwhile.
LEMMA MaintWorksKeeps ==
    ASSUME Safe, MaintWorks
    PROVE  /\ Safe'
           /\ maint'.auto = maint.auto /\ maint'.kind = maint.kind
<1>1. /\ UNCHANGED <<mode, queue, busy, job, game, scan, report, sheet, launching>>
      /\ maint.state = "working"
  BY DEF MaintWorks, Aside, catalog
<1>2. PlanFields \subseteq DOMAIN maint /\ maint # NoPlan /\ disk \subseteq Keys
  BY <1>1, PlanInUse DEF Safe, Records, PlanTyped, CatalogTyped
<1>3. /\ PlanFields \subseteq DOMAIN maint' /\ maint'.state \in {"working", "done"}
      /\ maint'.auto = maint.auto /\ maint'.kind = maint.kind
      /\ disk' \subseteq disk /\ disk \ maint.items \subseteq disk' \ maint'.items
  <2>1. ASSUME NEW k \in maint.items, maint' = [maint EXCEPT !.items = @ \ {k}],
               disk' \in {disk} \cup {disk \ {j} : j \in {i \in {k} : ~EntryBusy(i)}}
        PROVE  /\ PlanFields \subseteq DOMAIN maint' /\ maint'.state \in {"working", "done"}
               /\ maint'.auto = maint.auto /\ maint'.kind = maint.kind
               /\ disk' \subseteq disk /\ disk \ maint.items \subseteq disk' \ maint'.items
    <3>1. disk' = disk \/ disk' = disk \ {k} BY <2>1
    <3>2. /\ DOMAIN maint' = DOMAIN maint /\ maint'.items = maint.items \ {k}
          /\ maint'.state = maint.state /\ maint'.auto = maint.auto /\ maint'.kind = maint.kind
      BY <1>2, <2>1 DEF PlanFields
    <3>3. disk \ maint.items \subseteq disk' \ maint'.items BY <2>1, <3>1, <3>2
    <3> QED BY <1>1, <1>2, <3>1, <3>2, <3>3
  <2>2. CASE maint' = [maint EXCEPT !.state = "done"] /\ UNCHANGED disk
    BY <1>2, <2>2 DEF PlanFields
  <2> QED BY <2>1, <2>2 DEF MaintWorks
<1>4. maint' # NoPlan BY <1>3, PlanInUse
<1>5. Records'
  BY <1>1, <1>2, <1>3 DEF Safe, Records, CatalogTyped, BusyTyped, JobTyped, GameTyped, PlanTyped,
                    SheetTyped, ScanTyped, LaunchTyped
<1>6. GuardCovers' BY <1>1, <1>2, <1>4 DEF Safe, GuardCovers
<1>7. ScanIsGood' /\ ReportIsGood'
  BY <1>4 DEF ScanIsGood, ReportIsGood, NothingRemoved
<1>8. PolicySpares'
  <2> SUFFICES ASSUME maint'.auto = TRUE, maint'.kind = "archive"
               PROVE  Cardinality(GamesOf(disk' \ maint'.items)) >= KeepLastN
    BY DEF PolicySpares
  <2>1. Cardinality(GamesOf(disk \ maint.items)) >= KeepLastN BY <1>3 DEF Safe, PolicySpares
  <2>2. GamesOf(disk \ maint.items) \subseteq GamesOf(disk' \ maint'.items)
    BY <1>3 DEF GamesOf
  <2>3. disk' \ maint'.items \subseteq Keys BY <1>2, <1>3
  <2> QED BY <2>1, <2>2, <2>3, MoreGames
<1> QED BY <1>3, <1>5, <1>6, <1>7, <1>8 DEF Safe

-----------------------------------------------------------------------------
(* The invariant.                                                          *)

\* The places by recency stay numbers.
LEMMA RecentStays == ASSUME RecentTyped, Next PROVE RecentTyped'
<1>1. \A g : Newest(g) \in [Games -> Nat]
  <2> TAKE g
  <2>1. \A h \in Games : recent[h] \in Nat BY DEF RecentTyped
  <2> QED BY <2>1 DEF Newest
<1>2. CASE User
  BY <1>2 DEF User, RequestBuild, StopOrDequeue, OpenSheet, Play, SetMode, ScdPlay, OpenChooser,
     VerifyAgain, catalog, RecentTyped
<1>3. CASE CloseSheet \/ ChooserAnswers
  BY <1>3 DEF CloseSheet, ChooserAnswers, catalog, RecentTyped
<1>4. CASE PollStatus BY <1>1, <1>4 DEF PollStatus, RecentTyped
<1>5. CASE PollScan \/ ScdFinishBuild \/ PollLaunch \/ PollMaintenance \/ PumpCleanup \/ PopQueue
  BY <1>5 DEF PollScan, ScdFinishBuild, PollLaunch, PollMaintenance, PumpCleanup, PopQueue, catalog,
     RecentTyped
<1>6. CASE PollCheck BY <1>1, <1>6 DEF PollCheck, RecentTyped
<1>7. CASE FinishBuild BY <1>1, <1>7 DEF FinishBuild, RecentTyped
<1>8. CASE FinishRun BY <1>1, <1>8 DEF FinishRun, RecentTyped
<1>9. CASE Beside
  <2>1. UNCHANGED recent
    BY <1>9 DEF Beside, StatusWorks, ScanWorks, BuildWorks, CheckWorks, LaunchWorks, GameEnds,
       MaintWorks, Aside, catalog
  <2> QED BY <2>1 DEF RecentTyped
<1> QED BY <1>2, <1>3, <1>4, <1>5, <1>6, <1>7, <1>8, <1>9 DEF Next, Frame

\* A step of the user, of the system's answers or of a worker is between frames.
LEMMA BetweenFrames ==
    ASSUME User \/ CloseSheet \/ ChooserAnswers \/ Beside
    PROVE  Polled'
<1>1. CASE User
  <2>1. at' = "ui"
    BY <1>1 DEF User, RequestBuild, StopOrDequeue, OpenSheet, Play, SetMode, ScdPlay, OpenChooser,
       VerifyAgain, UserActs
  <2> QED BY <2>1 DEF Polled
<1>2. CASE CloseSheet \/ ChooserAnswers
  <2>1. at' = "ui" BY <1>2 DEF CloseSheet, ChooserAnswers
  <2> QED BY <2>1 DEF Polled
<1>3. CASE Beside
  <2>1. at' = "ui"
    BY <1>3 DEF Beside, StatusWorks, ScanWorks, BuildWorks, CheckWorks, LaunchWorks, GameEnds,
       MaintWorks, Aside
  <2> QED BY <2>1 DEF Polled
<1> QED BY <1>1, <1>2, <1>3

\* A poll leaves a next one that has work, or the frame ends.
LEMMA WithinFrame == ASSUME Frame PROVE Polled'
<1>1. PICK stage \in Stages : Proceed(stage)
  <2>1. \A s \in {"status", "scan", "scdbuild", "check", "launch", "maint", "build", "run",
                  "cleanup", "queue"} : s \in Stages
    BY DEF Stages
  <2> QED BY <2>1 DEF Frame, PollStatus, PollScan, ScdFinishBuild, PollCheck, PollLaunch,
             PollMaintenance, FinishBuild, FinishRun, PumpCleanup, PopQueue
<1> QED BY <1>1, ProceedPolled

\* The launcher starts with nothing under way and a report of the disk as it is.
LEMMA InitSafe == ASSUME Init PROVE IInv
<1>1. PICK e \in Earlier : disk = e.disk /\ recent = e.recent BY DEF Init
<1>2. disk \subseteq Keys /\ recent \in [Games -> 1 .. Cardinality(Games)]
  BY <1>1, LauncherAssumption DEF Keys, Modes, Games
<1>3. CatalogTyped
  BY <1>2 DEF Init, CatalogTyped, Modes
<1>4. BusyTyped /\ JobTyped /\ GameTyped /\ LaunchTyped
  BY DEF Init, BusyTyped, BusyType, JobTyped, GameTyped, LaunchTyped
<1>5. PlanTyped /\ SheetTyped /\ ScanTyped
  BY DEF Init, PlanTyped, SheetTyped, ScanTyped, PlanFields, ScanFields, NoPlan
<1>6. GuardCovers BY DEF Init, GuardCovers, NoJob, NoGame
<1>7. report.cur \cup report.old \subseteq disk BY DEF Init, Fresh
<1>8. ScanIsGood /\ ReportIsGood
  BY <1>7 DEF Init, ScanIsGood, ReportIsGood, None
<1>9. PolicySpares BY DEF Init, PolicySpares, NoPlan
<1>10. Polled BY DEF Init, Polled
<1>11. RecentTyped BY <1>2 DEF RecentTyped
<1> QED BY <1>3, <1>4, <1>5, <1>6, <1>8, <1>9, <1>10, <1>11 DEF IInv, Safe, Records

\* Every step keeps the invariant.
LEMMA NextSafe == ASSUME IInv, [Next]_vars PROVE IInv'
<1>1. CASE Next
  <2>1. RecentTyped' BY <1>1, RecentStays DEF IInv
  <2>2. Polled' BY <1>1, BetweenFrames, WithinFrame DEF Next
  <2>3. Safe /\ IInv BY DEF IInv
  <2>4. ASSUME User PROVE Safe'
    BY <2>3, <2>4, RequestBuildKeeps, StopOrDequeueKeeps, OpenSheetKeeps, PlayKeeps, SetModeKeeps,
       ScdPlayKeeps, ChecksKeep DEF User
  <2>5. ASSUME CloseSheet \/ ChooserAnswers PROVE Safe' BY <2>3, <2>5, CloseSheetKeeps, ChecksKeep
  <2>6. ASSUME Frame PROVE Safe'
    BY <2>3, <2>6, PollStatusKeeps, PollScanKeeps, ScdFinishBuildKeeps, PollCheckKeeps,
       PollLaunchKeeps, PollMaintenanceKeeps, FinishBuildKeeps, FinishRunKeeps, PumpCleanupKeeps,
       PopQueueKeeps DEF Frame
  <2>7. ASSUME Beside PROVE Safe'
    BY <2>3, <2>7, WorkersKeep, ScanWorksKeeps, BuildWorksKeeps, GameEndsKeeps, MaintWorksKeeps
       DEF Beside
  <2> QED BY <1>1, <2>1, <2>2, <2>4, <2>5, <2>6, <2>7 DEF Next, IInv
<1>2. CASE UNCHANGED vars
  <2>1. UNCHANGED <<mode, disk, queue, busy, job, game, maint, scan, report, sheet, launching,
                    recent, at, status, check, cleanup>>
    BY <1>2 DEF vars, catalog, workers, discs
  <2>2. SheetTyped' /\ LaunchTyped' BY <2>1 DEF IInv, Safe, Records, SheetTyped, LaunchTyped
  <2>3. Safe' BY <2>1, <2>2, QuietActs DEF IInv
  <2>4. Polled' BY <2>1 DEF IInv, Polled, HasWork, AnyActivity
  <2> QED BY <2>1, <2>3, <2>4 DEF IInv, RecentTyped
<1> QED BY <1>1, <1>2

\* Only a build and a cleanup change what is on the disk.
LEMMA DiskMoves == ASSUME Next, disk' # disk PROVE BuildWorks \/ MaintWorks
<1>1. CASE User
  BY <1>1 DEF User, RequestBuild, StopOrDequeue, OpenSheet, Play, SetMode, ScdPlay, OpenChooser,
     VerifyAgain
<1>2. CASE CloseSheet \/ ChooserAnswers BY <1>2 DEF CloseSheet, ChooserAnswers
<1>3. CASE Frame
  BY <1>3 DEF Frame, PollStatus, PollScan, ScdFinishBuild, PollCheck, PollLaunch,
     PollMaintenance, FinishBuild, FinishRun, PumpCleanup, PopQueue
<1>4. CASE Beside
  BY <1>4 DEF Beside, StatusWorks, ScanWorks, CheckWorks, LaunchWorks, GameEnds
<1> QED BY <1>1, <1>2, <1>3, <1>4 DEF Next

-----------------------------------------------------------------------------
(* The results.                                                            *)

\* The invariant holds in every state of the launcher.
LEMMA AlwaysSafe == Spec => []IInv
<1>1. Init => IInv BY InitSafe
<1>2. IInv /\ [Next]_vars => IInv' BY NextSafe
<1> QED BY <1>1, <1>2, PTL DEF Spec

\* The BusyGuard knows of everything under way, and a cleanup has the folders to itself: for
\* every library and every order of builds, games, cleanups, checks and answers.
THEOREM GuardIsComplete == Spec => []GuardCovers
<1>1. IInv => GuardCovers BY DEF IInv, Safe
<1> QED BY <1>1, AlwaysSafe, PTL

\* When the policy may act, every folder its report lists exists.
THEOREM ReportFresh == Spec => []ReportIsFresh
<1>1. IInv => ReportIsFresh
  <2> SUFFICES ASSUME IInv, maint = NoPlan, ~AnyActivity, scan.state = None
               PROVE  report.cur \cup report.old \subseteq disk
    BY DEF ReportIsFresh
  <2>1. {job.key} \ {NoKey} = {} BY DEF IInv, Safe, GuardCovers, AnyActivity
  <2>2. job = NoJob BY <2>1, InUse DEF IInv, Safe
  <2>3. NothingRemoved BY <2>2 DEF NothingRemoved, NoJob, None
  <2> QED BY <2>3 DEF IInv, Safe, ReportIsGood
<1> QED BY <1>1, AlwaysSafe, PTL

\* execute_plan never removes the folder of the build or of the game.
THEOREM CleanupSparesUse == Spec => NoRemovalUnderUse
<1>1. IInv /\ [Next]_vars
        => [maint'.items # maint.items /\ maint' # NoPlan /\ maint # NoPlan
              => (disk \ disk') \cap {job.key, game.key} = {}]_vars
  <2> SUFFICES ASSUME IInv, maint # NoPlan PROVE disk \cap {job.key, game.key} = {}
    OBVIOUS
  <2>1. job = NoJob /\ game = NoGame BY PlanMeansNoJob DEF IInv, Safe
  <2>2. job.key = NoKey /\ game.key = NoKey BY <2>1 DEF NoJob, NoGame
  <2> QED BY <2>2, NoKeyIsNone DEF IInv, Safe, Records, CatalogTyped
<1> QED BY <1>1, AlwaysSafe, PTL DEF Spec, NoRemovalUnderUse

\* Whatever the keep-last-N policy removes, N games keep a build.
THEOREM PolicyKeepsN == Spec => KeepsN
<1>1. IInv /\ [Next]_vars
        => [maint.auto /\ maint.kind = "archive" /\ disk' # disk
              => Cardinality({k[1] : k \in disk'}) >= KeepLastN]_vars
  <2> SUFFICES ASSUME IInv, Next, maint.auto, maint.kind = "archive", disk' # disk
               PROVE  Cardinality(GamesOf(disk')) >= KeepLastN
    BY DEF GamesOf
  <2>1. maint # NoPlan BY DEF NoPlan, None
  <2>2. ~BuildWorks
    <3>1. job = NoJob BY <2>1, PlanMeansNoJob DEF IInv, Safe
    <3> QED BY <3>1 DEF BuildWorks, NoJob, None
  <2>3. MaintWorks BY <2>2, DiskMoves
  <2>4. Safe' /\ maint'.auto = maint.auto /\ maint'.kind = "archive"
    BY <2>3, MaintWorksKeeps DEF IInv
  <2>5. Cardinality(GamesOf(disk' \ maint'.items)) >= KeepLastN
    BY <2>4 DEF Safe, PolicySpares
  <2>6. GamesOf(disk' \ maint'.items) \subseteq GamesOf(disk') /\ disk' \subseteq Keys
    BY <2>4 DEF GamesOf, Safe, Records, CatalogTyped
  <2> QED BY <2>5, <2>6, MoreGames
<1> QED BY <1>1, AlwaysSafe, PTL DEF Spec, KeepsN
=============================================================================
