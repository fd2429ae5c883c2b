--------------------------- MODULE RepairService ----------------------------
(***************************************************************************)
(* RepairJobs with repair.json, crashes and restarts.  Every save marshals *)
(* the jobs and writes the file in two steps of its goroutine: saves are   *)
(* written in any order.  A restart leaves the goroutines of the former    *)
(* service running; Reset has emptied its map of jobs, and that is what    *)
(* they save from then on, to the same file.                               *)
(***************************************************************************)
EXTENDS RepairJobs, Sequences, Functions

CONSTANT MaxSaves  \* bound: saves by AddJob and DeleteJobs that are not written

ASSUME SavesAssumption == MaxSaves \in Nat \ {0}

VARIABLES
    spawned,  \* `go r.saveToFile()` of AddJob and DeleteJobs, not begun
    saves,    \* contents marshalled and not yet written, oldest first
    file      \* repair.json, as far as a start loads it: the pending jobs

fileVars == <<spawned, saves, file>>
allVars  == <<vars, fileVars>>

NoJobs    == [k \in Keys |-> None]
Writers   == {"spawned"} \X {0} \cup {"run"} \X Runs \cup {"proc"} \X Procs

\* What is saved are pending jobs with items.
SnapshotOK(snap) ==
    \A k \in Keys : snap[k] # None =>
        snap[k] \in JobType /\ snap[k].status = "pending" /\ snap[k].items # {}

\* The shape of the file and of the saves.  A start restores jobs that wait for
\* the user, and no other (loadFromFile).
FileTypeOK ==
    /\ spawned \in 0..MaxSaves
    /\ \A n \in 1..Len(saves) : SnapshotOK(saves[n].snap) /\ saves[n].by \in Writers
    /\ SnapshotOK(file.snap) /\ file.lost \in BOOLEAN

ServiceInit ==
    /\ Init
    /\ spawned = 0 /\ saves = <<>>
    /\ file = [snap |-> NoJobs, lost |-> FALSE]

-----------------------------------------------------------------------------
(* saveToFile                                                              *)

\* Mutant of Snapshot: the jobs as they were before the step.
StaleSnapshot(former) ==
    IF former THEN NoJobs
    ELSE [k \in Keys |-> IF jobs[k] # None /\ job[jobs[k]].status = "pending"
                           THEN job[jobs[k]] ELSE None]

\* Mutant of Snapshot: jobs that are not pending are loaded as well.
UnfilteredSnapshot(former) ==
    IF former THEN NoJobs
    ELSE [k \in Keys |-> IF jobs'[k] # None THEN job'[jobs'[k]] ELSE None]

\* The jobs a save reads, of a former service or of this one.  Those that
\* loadFromFile skips are left out.
Snapshot(former) ==
    IF former THEN NoJobs
    ELSE [k \in Keys |-> IF jobs'[k] # None /\ job'[jobs'[k]].status = "pending"
                           THEN job'[jobs'[k]] ELSE None]

\* json.Marshal, by the writer w.
Marshal(w, former) ==
    /\ saves' = Append(saves, [snap |-> Snapshot(former), by |-> w, former |-> former, old |-> FALSE])
    /\ UNCHANGED <<spawned, file>>

\* os.WriteFile.  History: file.lost says that the contents are older than
\* others written before, or a former service's.
Write(w) ==
    \E n \in 1..Len(saves) :
      /\ saves[n].by = w
      /\ file' = [snap |-> saves[n].snap, lost |-> saves[n].old \/ saves[n].former]
      /\ saves' = [m \in 1..(Len(saves) - 1) |->
                     IF m < n THEN [saves[m] EXCEPT !.old = TRUE] ELSE saves[m + 1]]
      /\ UNCHANGED spawned

\* `go r.saveToFile()`.
Spawn ==
    /\ spawned + Cardinality({n \in 1..Len(saves) : saves[n].by[1] = "spawned"}) < MaxSaves
    /\ spawned' = spawned + 1
    /\ UNCHANGED <<saves, file>>

SaveSpawned ==
    /\ spawned > 0 /\ spawned' = spawned - 1
    /\ UNCHANGED vars
    /\ saves' = Append(saves, [snap |-> Snapshot(FALSE), by |-> <<"spawned", 0>>,
                               former |-> FALSE, old |-> FALSE])
    /\ UNCHANGED file

WriteSpawned == Write(<<"spawned", 0>>) /\ UNCHANGED vars

-----------------------------------------------------------------------------
(* The steps of RepairJobs with their saves                                *)

\* The steps after which repair returns, to its deferred save.
Returns(c) == PreRunFails(c) \/ ScanFailed(c) \/ NothingFound(c) \/ FoundSome(c)

ServiceRun(c) ==
    \/ StartJob(c) /\ Spawn
    \/ (PreRunChecks(c) \/ Scan(c) \/ MarkFailed(c)) /\ UNCHANGED fileVars
    \/ Returns(c) /\ Marshal(<<"run", c>>, run[c].former)
    \/ Saved(c) /\ Write(<<"run", c>>)

ServiceProc(p) ==
    \/ (\E a \in Arrs : DeleteItems(p, a) \/ SkipItems(p, a)) /\ UNCHANGED fileVars
    \/ (MarkProcessing(p) \/ MarkProcessed(p)) /\ Marshal(<<"proc", p>>, proc[p].former)
    \/ ProcSaved(p) /\ Write(<<"proc", p>>)

ServiceCall ==
    \/ (\E c \in Runs, q \in Requests : CheckJob(c, q)) /\ UNCHANGED fileVars
    \/ (\E p \in Procs, k \in Keys : ProcessJob(p, k)) /\ UNCHANGED fileVars
    \/ (\E k \in Keys : DeleteJob(k)) /\ Spawn

-----------------------------------------------------------------------------
(* Crashes and restarts                                                    *)

Loadable == {k \in Keys : file.snap[k] # None}

\* loadFromFile: the pending jobs, in structs of their own; the others are kept.
LoadFromFile(free, kept) ==
    /\ ExistsInjection(Loadable, free)
    /\ LET at == CHOOSE f \in Injection(Loadable, free) : TRUE
       IN /\ jobs' = [k \in Keys |-> IF k \in Loadable THEN at[k] ELSE None]
          /\ job' = [j \in JobIds |->
                       IF \E k \in Loadable : at[k] = j
                         THEN file.snap[CHOOSE k \in Loadable : at[k] = j] ELSE kept[j]]

\* The Jobs that goroutines of the former service hold.
Held == [j \in JobIds |-> IF RunsOn(j) # {} \/ ProcsOn(j) # {} THEN job[j] ELSE None]

\* A changed configuration stops the services and starts new ones.  It waits for
\* half a second, in which an AddJob gets through with what it has begun; the
\* goroutines go on, as their context is the background's.
Restart ==
    /\ \A c \in Runs : run[c].pc # "adding"
    /\ LoadFromFile({j \in JobIds : Held[j] = None}, Held)
    /\ run' = [c \in Runs |-> [run[c] EXCEPT !.former = @ \/ Active(c)]]
    /\ proc' = [p \in Procs |-> [proc[p] EXCEPT !.former = @ \/ proc[p].job # None]]
    /\ saves' = [n \in 1..(Len(saves) + spawned) |->
                   IF n <= Len(saves) THEN [saves[n] EXCEPT !.former = TRUE]
                   ELSE [snap |-> NoJobs, by |-> <<"spawned", 0>>, former |-> TRUE, old |-> FALSE]]
    /\ spawned' = 0
    /\ file' = [file EXCEPT !.lost = FALSE]
    /\ loaded' = ~UseWebdav
    /\ UNCHANGED lib

Dies ==
    /\ run' = [c \in Runs |-> IdleRun]
    /\ proc' = [p \in Procs |-> IdleProc]
    /\ spawned' = 0 /\ saves' = <<>>
    /\ loaded' = ~UseWebdav
    /\ UNCHANGED lib

\* The process dies, of the panic of repairArr on an Arr that is not configured
\* or of anything else, and starts again.
Crash ==
    /\ Dies
    /\ LoadFromFile(JobIds, [j \in JobIds |-> None])
    /\ file' = [file EXCEPT !.lost = FALSE]

\* Or in the middle of os.WriteFile: what is left cannot be parsed.
CrashWriting ==
    /\ saves # <<>>
    /\ Dies
    /\ jobs' = NoJobs /\ job' = [j \in JobIds |-> None]
    /\ file' = [snap |-> NoJobs, lost |-> FALSE]

-----------------------------------------------------------------------------
(* The specification                                                       *)

ServiceNext ==
    \/ \E c \in Runs : ServiceRun(c)
    \/ \E p \in Procs : ServiceProc(p)
    \/ SaveSpawned \/ WriteSpawned
    \/ ServiceCall
    \/ World /\ UNCHANGED fileVars
    \/ Restart \/ Crash \/ CrashWriting

\* Every goroutine runs on, but for the steps that may wait.
ServiceFairness ==
    /\ \A c \in Runs : WF_allVars(ServiceRun(c) /\ ~MayWait(c))
    /\ \A p \in Procs : WF_allVars(ServiceProc(p))
    /\ WF_allVars(SaveSpawned) /\ WF_allVars(WriteSpawned)

ServiceSpec == ServiceInit /\ [][ServiceNext]_allVars /\ ServiceFairness

\* With no save being written but a former service's, repair.json has the pending
\* jobs with their items, whoever started, processed, deleted or loaded jobs in
\* between (saveToFile and its callers, loadFromFile).  Excuse: file.lost, older
\* contents or a former service's written last, which nothing in the code prevents.
PendingIsSaved ==
    \A k \in Keys :
        LET j == jobs[k] IN
        (/\ j # None /\ job[j].status = "pending"
         /\ \A n \in 1..Len(saves) : saves[n].former
         /\ ~file.lost)
        => file.snap[k] # None /\ file.snap[k].items = job[j].items
=============================================================================
