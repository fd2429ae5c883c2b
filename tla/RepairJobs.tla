----------------------------- MODULE RepairJobs -----------------------------
(***************************************************************************)
(* The repair worker (pkg/repair/repair.go): jobs that look through the    *)
(* library of the Arrs for broken files and delete what they find, by      *)
(* themselves or when the user has them processed.  RepairService adds     *)
(* repair.json, crashes and restarts.                                      *)
(*                                                                         *)
(* A path of the library holds one version of a file after the other: a    *)
(* new import is another file to the Arr, and the same path to os.Remove.  *)
(* An item of a job is a path with the version it was listed with.  A path *)
(* is a symlink into the folder of a torrent; folders are judged, not      *)
(* files.                                                                  *)
(***************************************************************************)
EXTENDS Naturals, FiniteSets

CONSTANTS
    Arrs, Skipped,   \* the configured Arrs, those with skip_repair
    Media, ArrOf,    \* the paths of the library, the Arr of each
    Contents, ContentOf,  \* movies and series, that of each path
    Folders, FolderOf,    \* folders of torrents, that a version of a path leads to
    Foreign,         \* folders under no client's mount, or of a client without a cache
    Keys,            \* job keys
    Named, Wanted,   \* the Arrs and the media a key names; {} stands for all
    Requests,        \* [key, auto, recurrent] that AddJob is called with
    JobIds,          \* addresses of Job structs
    UseWebdav,       \* files are looked up in the cache of the debrid service
    MaxRuns,         \* bound: calls of AddJob
    MaxProcs,        \* bound: calls of ProcessJob
    MaxVersion,      \* bound: imports at one path
    None

Items == Media \X (1..MaxVersion)

ASSUME ConstantsAssumption ==
    /\ Skipped \subseteq Arrs /\ ArrOf \in [Media -> Arrs]
    /\ ContentOf \in [Media -> Contents]
    /\ \A m, n \in Media : ContentOf[m] = ContentOf[n] => ArrOf[m] = ArrOf[n]
    /\ FolderOf \in [Items -> Folders] /\ Foreign \subseteq Folders
    /\ Named \in [Keys -> SUBSET Arrs] /\ Wanted \in [Keys -> SUBSET Media]
    /\ Requests \subseteq [key : Keys, auto : BOOLEAN, recurrent : BOOLEAN]
    /\ {MaxRuns, MaxProcs, MaxVersion} \subseteq Nat \ {0}
    /\ None \notin JobIds

VARIABLES
    jobs,   \* Repair.Jobs: key -> job
    job,    \* the Job structs
    run,    \* control point and locals of every AddJob and its goroutine
    proc,   \* control point and locals of every ProcessJob
    lib,    \* the library
    loaded  \* the cache of the debrid service is filled

vars == <<jobs, job, run, proc, lib, loaded>>

Runs  == 1..MaxRuns
Procs == 1..MaxProcs

JobType == [status : {"started", "pending", "failed", "completed", "processing"},
            arrs : SUBSET Arrs, items : SUBSET Items, auto : BOOLEAN,
            completed : BOOLEAN, failed : BOOLEAN,  \* CompletedAt, FailedAt are set
            excused : BOOLEAN]                      \* history: see Overlaps, SkipItems

ASSUME NoneIsNoJob == None \notin JobType

RunPCs == {"idle", "adding", "pre", "scan", "save", "late", "done"}
ProcPCs == {"idle", "begun", "save", "wait", "finalSave", "done"}

IdleRun == [pc |-> "idle", req |-> None, job |-> None, former |-> FALSE, left |-> {},
            todo |-> {}, held |-> {}, found |-> {}, err |-> FALSE,
            agreed |-> FALSE]  \* history: this request or a later one asked for auto-processing
DoneRun == [IdleRun EXCEPT !.pc = "done"]
IdleProc == [pc |-> "idle", job |-> None, former |-> FALSE, left |-> {}]
DoneProc == [IdleProc EXCEPT !.pc = "done"]

\* Goroutines that have a job in their hands.
Active(c)  == run[c].pc \notin {"idle", "adding", "done"}
RunsOn(j)  == {c \in Runs : Active(c) /\ run[c].job = j}
ProcsOn(j) == {p \in Procs : proc[p].job = j}

\* The shape of the state, as the Go declarations give it: what jobs and
\* goroutines hold are items of the library, and no reference dangles.
TypeOK ==
    /\ jobs \in [Keys -> JobIds \cup {None}]
    /\ \A k \in Keys : jobs[k] # None => job[jobs[k]] # None
    /\ \A j \in JobIds : job[j] = None \/ job[j] \in JobType
    /\ \A c \in Runs :
         /\ run[c].pc \in RunPCs /\ run[c].left \subseteq Arrs
         /\ run[c].todo \cup run[c].held \cup run[c].found \subseteq Items
         /\ Active(c) => job[run[c].job] # None
    /\ \A p \in Procs :
         /\ proc[p].pc \in ProcPCs /\ proc[p].left \subseteq Items
         /\ proc[p].job # None => job[proc[p].job] # None
    /\ lib \in [Media -> [ver : 1..MaxVersion, there : BOOLEAN, bad : BOOLEAN]]
    /\ loaded \in BOOLEAN

InitialLibrary ==
    lib \in [Media -> {[ver |-> 1, there |-> TRUE, bad |-> b] : b \in BOOLEAN}]

Init ==
    /\ jobs = [k \in Keys |-> None]
    /\ job = [j \in JobIds |-> None]
    /\ run = [c \in Runs |-> IdleRun]
    /\ proc = [p \in Procs |-> IdleProc]
    /\ InitialLibrary
    /\ loaded = ~UseWebdav

-----------------------------------------------------------------------------
(* AddJob: called by the schedule, the webhook and the API                 *)

Live(j) ==
    \/ \E k \in Keys : jobs[k] = j
    \/ \E c \in Runs : run[c].job = j
    \/ \E p \in Procs : proc[p].job = j

Update(j, f) == [job EXCEPT ![j] = f]

\* The structs after a step: those that nothing leads to any more are gone.
Collected(js) == [j \in JobIds |-> IF Live(j)' THEN js[j] ELSE None]

\* What getArrs may return: all but the Arrs to skip, or those named; nothing
\* while handleUpdateConfig has cleared the Arrs and not stored them anew.
GetArrs(names) == {{}, IF names = {} THEN Arrs \ Skipped ELSE names}

\* The job is looked up; one that is started is refused.
CheckJob(c, q) ==
    /\ run[c].pc = "idle" /\ \A d \in 1..(c - 1) : run[d].pc # "idle"
    /\ LET j == jobs[q.key] IN
         /\ j # None => job[j].status # "started"
         /\ run' = [run EXCEPT ![c].pc = "adding", ![c].req = q, ![c].job = j]
    /\ UNCHANGED <<jobs, job, proc, lib, loaded>>

NewJobs(k) ==
    {[status |-> "started", arrs |-> as, items |-> {}, auto |-> FALSE, completed |-> FALSE,
      failed |-> FALSE, excused |-> FALSE] : as \in GetArrs(Named[k])}

\* Mutant of Reset: the items of the last run stay.
ResetKeepsItems(f, q) ==
    {[f EXCEPT !.status = "started", !.completed = FALSE, !.failed = FALSE,
               !.auto = q.auto, !.arrs = as] : as \in IF q.recurrent THEN GetArrs({}) ELSE {f.arrs}}

\* Mutant of Reset: CompletedAt and FailedAt stay.
ResetKeepsTimes(f, q) ==
    {[f EXCEPT !.status = "started", !.items = {},
               !.auto = q.auto, !.arrs = as] : as \in IF q.recurrent THEN GetArrs({}) ELSE {f.arrs}}

\* Mutant of Reset: AutoProcess stays.
ResetKeepsAuto(f, q) ==
    {[f EXCEPT !.status = "started", !.items = {}, !.completed = FALSE, !.failed = FALSE,
               !.auto = @ \/ q.auto, !.arrs = as] : as \in IF q.recurrent THEN GetArrs({}) ELSE {f.arrs}}

\* What AddJob makes of the job before it is run.
Reset(f, q) ==
    {[f EXCEPT !.status = "started", !.items = {}, !.completed = FALSE, !.failed = FALSE,
               !.auto = q.auto, !.arrs = as] : as \in IF q.recurrent THEN GetArrs({}) ELSE {f.arrs}}

\* History: a job is marked that is started again while another goroutine is
\* still to change it.
Overlaps(j) ==
    \/ \E c \in RunsOn(j) : run[c].pc # "save" \/ run[c].err
    \/ \E p \in ProcsOn(j) : proc[p].pc # "finalSave"

\* The job is reset and stored, whatever it has become since CheckJob, and is
\* run in a goroutine.
StartJob(c) ==
    /\ run[c].pc = "adding"
    /\ run[c].job = None => \E f \in JobIds : ~Live(f)
    /\ LET q == run[c].req
           new == run[c].job = None
           j == IF new THEN CHOOSE f \in JobIds : ~Live(f) ELSE run[c].job
       IN /\ jobs' = [jobs EXCEPT ![q.key] = j]
          /\ run' = [d \in Runs |->
                       IF d = c THEN [run[c] EXCEPT !.pc = "pre", !.job = j, !.agreed = q.auto]
                       ELSE [run[d] EXCEPT !.agreed = @ \/ (d \in RunsOn(j) /\ q.auto)]]
          /\ UNCHANGED proc
          /\ \E f \in IF new THEN NewJobs(q.key) ELSE {[job[j] EXCEPT !.excused = Overlaps(j)]} :
               \E g \in Reset(f, q) : job' = Collected(Update(j, g))
    /\ UNCHANGED <<lib, loaded>>

-----------------------------------------------------------------------------
(* repair: looking through the Arrs of the job                             *)

PreRunChecks(c) ==
    /\ run[c].pc = "pre"
    /\ run' = [run EXCEPT ![c].pc = "scan", ![c].left = job[run[c].job].arrs]
    /\ UNCHANGED <<jobs, job, proc, lib, loaded>>

\* No cache, or Zurg does not answer: repair returns, after its deferred save.
PreRunFails(c) ==
    /\ run[c].pc = "pre"
    /\ run' = [run EXCEPT ![c].pc = "save", ![c].err = TRUE]
    /\ UNCHANGED <<jobs, job, proc, lib, loaded>>

\* The files of Arr a that the key asks for.
Listed(c, a) ==
    LET wanted == Wanted[run[c].req.key] IN
    {n \in Media : ArrOf[n] = a /\ lib[n].there /\ (wanted # {} => n \in wanted)}

\* A series whose files the Arr does not give is left out without an error.
ListMedia(c, a) ==
    /\ run[c].pc = "scan" /\ a \in run[c].left
    /\ \E listed \in SUBSET Listed(c, a) :
         run' = [run EXCEPT ![c].left = @ \ {a},
                            ![c].todo = @ \cup {<<n, lib[n].ver>> : n \in listed}]
    /\ UNCHANGED <<jobs, job, proc, lib, loaded>>

\* The mount is not there, or another Arr has failed: the Arr is passed over.
SkipArr(c, a) ==
    /\ run[c].pc = "scan" /\ a \in run[c].left
    /\ run' = [run EXCEPT ![c].left = @ \ {a}]
    /\ UNCHANGED <<jobs, job, proc, lib, loaded>>

ListFails(c, a) ==
    /\ run[c].pc = "scan" /\ a \in run[c].left
    /\ run' = [run EXCEPT ![c].left = @ \ {a}, ![c].err = TRUE]
    /\ UNCHANGED <<jobs, job, proc, lib, loaded>>

\* What a path leads to now, whatever it led to when it was listed.
Leads(n, p) == lib[n].there /\ FolderOf[<<n, lib[n].ver>>] = p

\* A worker has a movie or series in hand and looks at a folder of it.
Group(c, t, p) == {x \in run[c].todo : ContentOf[x[1]] = t /\ Leads(x[1], p)}

Sick(p) == \E n \in Media : Leads(n, p) /\ lib[n].bad

\* A path that is gone is no symlink and not looked at.
PassOver(c, x) ==
    /\ run[c].pc = "scan" /\ x \in run[c].todo
    /\ ~lib[x[1]].there
    /\ run' = [run EXCEPT ![c].todo = @ \ {x}]
    /\ UNCHANGED <<jobs, job, proc, lib, loaded>>

\* The folder is found broken, and with it every file of it.  With UseWebdav it
\* is when one of the torrent's files is, or when the cache does not list it:
\* every folder, until the cache is loaded and again when a restart empties it.
\* Without, the first file decides, and any error in reading it or in asking
\* Zurg counts against it.
FoundBroken(c, t, p) ==
    /\ run[c].pc = "scan" /\ Group(c, t, p) # {}
    /\ UseWebdav => p \notin Foreign /\ (~loaded \/ run[c].former \/ Sick(p))
    /\ run' = [run EXCEPT ![c].todo = @ \ Group(c, t, p), ![c].held = @ \cup Group(c, t, p)]
    /\ UNCHANGED <<jobs, job, proc, lib, loaded>>

\* Or well: the first file can be read; with UseWebdav the folder is passed over
\* that no cache is for, as all are once a restart has dropped the caches.
FoundWell(c, t, p) ==
    /\ run[c].pc = "scan" /\ Group(c, t, p) # {}
    /\ \/ ~UseWebdav /\ \E x \in Group(c, t, p) : ~lib[x[1]].bad
       \/ UseWebdav /\ (p \in Foreign \/ run[c].former)
       \/ UseWebdav /\ loaded /\ ~Sick(p)
    /\ run' = [run EXCEPT ![c].todo = @ \ Group(c, t, p)]
    /\ UNCHANGED <<jobs, job, proc, lib, loaded>>

\* IsTorrentBroken re-inserts the torrent, and its files are well again.
FoundHealed(c, t, p) ==
    /\ UseWebdav /\ loaded /\ ~run[c].former /\ p \notin Foreign
    /\ run[c].pc = "scan" /\ Group(c, t, p) # {} /\ Sick(p)
    /\ run' = [run EXCEPT ![c].todo = @ \ Group(c, t, p)]
    /\ lib' = [n \in Media |-> IF Leads(n, p) THEN [lib[n] EXCEPT !.bad = FALSE] ELSE lib[n]]
    /\ UNCHANGED <<jobs, job, proc, loaded>>

\* DeleteFiles removes the paths, whatever is there by now.
DeleteFiles(xs) ==
    lib' = [n \in Media |-> IF \E x \in xs : x[1] = n
                              THEN [lib[n] EXCEPT !.there = FALSE, !.bad = FALSE] ELSE lib[n]]

HeldOf(c, t) == {x \in run[c].held : ContentOf[x[1]] = t}

\* The folders of a movie or series are through: the worker deletes what it found
\* and has the Arr search, or only notes it.
HandleBroken(c, t) ==
    /\ run[c].pc = "scan" /\ HeldOf(c, t) # {}
    /\ \A x \in run[c].todo : ContentOf[x[1]] # t
    /\ IF job[run[c].job].auto THEN DeleteFiles(HeldOf(c, t)) ELSE UNCHANGED lib
    /\ run' = [run EXCEPT ![c].held = @ \ HeldOf(c, t), ![c].found = @ \cup HeldOf(c, t)]
    /\ UNCHANGED <<jobs, job, proc, loaded>>

-----------------------------------------------------------------------------
(* repair: the result, in a row of assignments taken as one step.  The      *)
(* deferred save follows; Saved is its end.                                *)

Scanned(c) == run[c].pc = "scan" /\ run[c].left = {} /\ run[c].todo = {} /\ run[c].held = {}

\* Mutant of Failed: the status is one that JobStatus does not have.
Errored(f) == [f EXCEPT !.status = "error", !.failed = TRUE, !.completed = TRUE]

Failed(f)    == [f EXCEPT !.status = "failed", !.failed = TRUE, !.completed = TRUE]
Completed(f) == [f EXCEPT !.status = "completed", !.completed = TRUE]

ScanFailed(c) ==
    /\ Scanned(c) /\ run[c].err
    /\ job' = Update(run[c].job, Failed(job[run[c].job]))
    /\ run' = [run EXCEPT ![c].pc = "save", ![c].found = {}]
    /\ UNCHANGED <<jobs, proc, lib, loaded>>

NothingFound(c) ==
    /\ Scanned(c) /\ ~run[c].err /\ run[c].found = {}
    /\ job' = Update(run[c].job, Completed(job[run[c].job]))
    /\ run' = [run EXCEPT ![c].pc = "save"]
    /\ UNCHANGED <<jobs, proc, lib, loaded>>

FoundSome(c) ==
    /\ Scanned(c) /\ ~run[c].err /\ run[c].found # {}
    /\ LET f == [job[run[c].job] EXCEPT !.items = run[c].found] IN
         job' = Update(run[c].job, IF f.auto THEN Completed(f) ELSE [f EXCEPT !.status = "pending"])
    /\ run' = [run EXCEPT ![c].pc = "save", ![c].found = {}]
    /\ UNCHANGED <<jobs, proc, lib, loaded>>

Saved(c) ==
    /\ run[c].pc = "save"
    /\ run' = [run EXCEPT ![c] = IF run[c].err THEN [@ EXCEPT !.pc = "late"] ELSE DoneRun]
    /\ UNCHANGED <<jobs, proc>>
    /\ job' = Collected(job)
    /\ UNCHANGED <<lib, loaded>>

\* Mutant of MarkFailed: an error of repair is only logged.
LogFailed(c) ==
    /\ run[c].pc = "late"
    /\ run' = [run EXCEPT ![c] = DoneRun]
    /\ UNCHANGED <<jobs, proc>>
    /\ job' = Collected(job)
    /\ UNCHANGED <<lib, loaded>>

\* The goroutine of AddJob marks a job whose repair returned an error, after
\* the save: by then the job may have been started again.
MarkFailed(c) ==
    /\ run[c].pc = "late"
    /\ run' = [run EXCEPT ![c] = DoneRun]
    /\ UNCHANGED <<jobs, proc>>
    /\ job' = Collected(Update(run[c].job, Failed(job[run[c].job])))
    /\ UNCHANGED <<lib, loaded>>

-----------------------------------------------------------------------------
(* ProcessJob: the user has the broken items of a pending job deleted      *)

Processable(j) == job[j].status = "pending" /\ ~job[j].completed /\ ~job[j].failed

\* The goroutines that delete are started before the status changes.  A pending
\* job has items (PendingIsProcessable), so the branch for none is not taken.
ProcessJob(p, k) ==
    /\ proc[p].pc = "idle" /\ \A q \in 1..(p - 1) : proc[q].pc # "idle"
    /\ LET j == jobs[k] IN
         /\ j # None /\ Processable(j)
         /\ proc' = [proc EXCEPT ![p].pc = "begun", ![p].job = j, ![p].left = job[j].items]
    /\ UNCHANGED <<jobs, job, run, lib, loaded>>

ItemsOf(p, a) == {x \in proc[p].left : ArrOf[x[1]] = a}

DeleteItems(p, a) ==
    /\ ItemsOf(p, a) # {}
    /\ DeleteFiles(ItemsOf(p, a))
    /\ proc' = [proc EXCEPT ![p].left = @ \ ItemsOf(p, a)]
    /\ UNCHANGED <<jobs, job, run, loaded>>

\* An update of the configuration has cleared the Arrs: the items stay, and the
\* job completes all the same.
SkipItems(p, a) ==
    /\ ItemsOf(p, a) # {}
    /\ proc' = [proc EXCEPT ![p].left = @ \ ItemsOf(p, a)]
    /\ job' = Update(proc[p].job, [job[proc[p].job] EXCEPT !.excused = TRUE])
    /\ UNCHANGED <<jobs, run, lib, loaded>>

MarkProcessing(p) ==
    /\ proc[p].pc = "begun"
    /\ job' = Update(proc[p].job, [job[proc[p].job] EXCEPT !.status = "processing"])
    /\ proc' = [proc EXCEPT ![p].pc = "save"]
    /\ UNCHANGED <<jobs, run, lib, loaded>>

\* The goroutine that waits for the others.
MarkProcessed(p) ==
    /\ proc[p].pc = "wait" /\ proc[p].left = {}
    /\ job' = Update(proc[p].job, Completed(job[proc[p].job]))
    /\ proc' = [proc EXCEPT ![p].pc = "finalSave"]
    /\ UNCHANGED <<jobs, run, lib, loaded>>

ProcSaved(p) ==
    /\ proc[p].pc \in {"save", "finalSave"}
    /\ proc' = [proc EXCEPT ![p] = IF @.pc = "save" THEN [@ EXCEPT !.pc = "wait"] ELSE DoneProc]
    /\ UNCHANGED <<jobs, run>>
    /\ job' = Collected(job)
    /\ UNCHANGED <<lib, loaded>>

DeleteJob(k) ==
    /\ jobs[k] # None
    /\ jobs' = [jobs EXCEPT ![k] = None]
    /\ UNCHANGED <<run, proc>>
    /\ job' = Collected(job)
    /\ UNCHANGED <<lib, loaded>>

-----------------------------------------------------------------------------
(* The library and the cache                                               *)

Break(n) ==
    /\ lib[n].there /\ ~lib[n].bad
    /\ lib' = [lib EXCEPT ![n].bad = TRUE]
    /\ UNCHANGED <<jobs, job, run, proc, loaded>>

\* The Arr has found another release.
Import(n) ==
    /\ ~lib[n].there /\ lib[n].ver < MaxVersion
    /\ lib' = [lib EXCEPT ![n] = [ver |-> @.ver + 1, there |-> TRUE, bad |-> FALSE]]
    /\ UNCHANGED <<jobs, job, run, proc, loaded>>

\* Sync has filled the cache.
CacheLoads ==
    /\ ~loaded /\ loaded' = TRUE
    /\ UNCHANGED <<jobs, job, run, proc, lib>>

-----------------------------------------------------------------------------
(* The specification                                                       *)

List(c) == \E a \in Arrs : ListMedia(c, a) \/ SkipArr(c, a) \/ ListFails(c, a)

Judge(c) ==
    \/ \E x \in Items : PassOver(c, x)
    \/ \E t \in Contents, p \in Folders :
         FoundBroken(c, t, p) \/ FoundWell(c, t, p) \/ FoundHealed(c, t, p)

Scan(c) == List(c) \/ Judge(c) \/ \E t \in Contents : HandleBroken(c, t)

Settle(c) == ScanFailed(c) \/ NothingFound(c) \/ FoundSome(c)

\* The steps that wait for what may never come: an answer of Zurg, asked without
\* a timeout, bytes of a file of the mount, the end of another's re-insertion.
MayWait(c) == PreRunChecks(c) \/ PreRunFails(c) \/ Judge(c)

RunStep(c) ==
    \/ StartJob(c) \/ PreRunChecks(c) \/ PreRunFails(c)
    \/ Scan(c) \/ Settle(c) \/ Saved(c) \/ MarkFailed(c)

ProcStep(p) ==
    \/ \E a \in Arrs : DeleteItems(p, a) \/ SkipItems(p, a)
    \/ MarkProcessing(p) \/ MarkProcessed(p) \/ ProcSaved(p)

Call ==
    \/ \E c \in Runs, q \in Requests : CheckJob(c, q)
    \/ \E p \in Procs, k \in Keys : ProcessJob(p, k)
    \/ \E k \in Keys : DeleteJob(k)

World == CacheLoads \/ \E n \in Media : Break(n) \/ Import(n)

Next ==
    \/ \E c \in Runs : RunStep(c)
    \/ \E p \in Procs : ProcStep(p)
    \/ Call \/ World

\* Goroutines run on, as the Arrs answer or run into the client's timeout; but
\* for the steps that may wait.
Fairness ==
    /\ \A c \in Runs : WF_vars(RunStep(c) /\ ~MayWait(c))
    /\ \A p \in Procs : WF_vars(ProcStep(p))

Spec == Init /\ [][Next]_vars /\ Fairness

-----------------------------------------------------------------------------
(* Properties                                                              *)

\* A job that completed has none of its broken items left: what a run or the
\* user's processing took on is deleted before CompletedAt is set, and a rerun
\* that finds nothing does not inherit the items of the run before (AddJob,
\* repairArr, ProcessJob).  Two excuses: the job was started again while
\* goroutines of an earlier start were still to change it, or an Arr was not
\* configured.
CompletedMeansHandled ==
    \A j \in JobIds :
        (job[j] # None /\ job[j].status = "completed" /\ ~job[j].excused) =>
            \A x \in job[j].items : ~(lib[x[1]].there /\ lib[x[1]].ver = x[2])

\* A pending job can be processed: it has items, and ProcessJob does not refuse
\* it for the times an earlier start has left; the latter with the excuse of an
\* overlap as above.
PendingIsProcessable ==
    \A j \in JobIds :
        (job[j] # None /\ job[j].status = "pending") =>
            /\ job[j].items # {}
            /\ job[j].completed \/ job[j].failed => job[j].excused

\* A file is deleted only by a run that found it broken, when the request for
\* that run or a later one for its job asked for auto-processing, and in an Arr
\* with skip_repair only when the request named it; or from a job the user
\* processed (repairArr, ProcessJob).
DeletesAgreed ==
    [][\A n \in Media :
         lib[n].there /\ ~lib'[n].there =>
            \/ \E c \in Runs :
                 /\ \E x \in run[c].held : x[1] = n
                 /\ run[c].agreed
                 /\ ArrOf[n] \notin Skipped \/ ArrOf[n] \in Named[run[c].req.key]
            \/ \E p \in Procs : \E x \in proc[p].left : x[1] = n]_vars

Settled(j) == job[j] = None \/ job[j].status \notin {"started", "processing"}

Waiting(j) == \E c \in RunsOn(j) : run[c].pc = "pre" \/ run[c].todo # {}

\* A job does not stay started, nor in processing, which would refuse every later
\* start: a run or a processing settles it, after errors at any point and
\* whatever is deleted or processed in between (AddJob, repair, ProcessJob).
\* Excuse: a run of it waits for good, as nothing bounds what it asks Zurg, the
\* mount or a re-insertion.
Settles ==
    \A j \in JobIds :
        [](~Settled(j) => <>Settled(j) \/ <>[]Waiting(j))

\* Auto-processing and ProcessJob delete broken media only, as the page that
\* starts them says: files of a folder in which one is broken.  Violated: what is
\* not in the cache counts as broken, and at start-up that is everything.
DeletesOnlyBroken ==
    [][\A n \in Media : lib[n].there /\ ~lib'[n].there =>
         Sick(FolderOf[<<n, lib[n].ver>>])]_vars
=============================================================================
