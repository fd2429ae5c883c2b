----------------------------- MODULE CachePersist -----------------------------
(***************************************************************************)
(* The files of a debrid Cache, and its starts (pkg/debrid/debrid/         *)
(* cache.go, refresh.go; pkg/debrid/realdebrid; internal/request):         *)
(* one JSON file per torrent, written behind the cache's back by           *)
(* saveTorrent and moved to the trash by removeFromDB; load and Sync,      *)
(* which build the cache from the files and the service's listing; the     *)
(* paging and the retries of that listing; the periodic refresh, which     *)
(* uses the same listing; crashes at any step, and the restart of main.go, *)
(* which starts a new Cache on the same directory while the goroutines of  *)
(* the former ones run on, with memory of their own.                       *)
(*                                                                         *)
(* A torrent is its id and a version.  How torrents share folders, and     *)
(* what deleteTorrent does to the rest of a folder, is in TorrentCache;    *)
(* here every torrent has a folder of its own.                             *)
(***************************************************************************)
EXTENDS Naturals, FiniteSets

CONSTANTS
    N,          \* how many torrents are ever added to the account
    Threads,    \* goroutines that change torrents of a cache
    SaveSlots,  \* capacity of saveSemaphore (50 in the code)
    Limit,      \* entries on a page of the listing (5000 in the code)
    MaxRetries, \* request.Client.maxRetries (3 in the code)
    MaxStarts,  \* bounds the caches of one process: restarts, and one
    MaxEvents,  \* bounds calls, changes of the account, crashes, lasting errors, and a restart
    None        \* no version, no id

Ids    == 1..N      \* in the order in which they are added
Slots  == 1..SaveSlots
Starts == 1..MaxStarts  \* the caches a process makes, one after the other

\* A torrent all of whose files have links, or one that lacks some: what
\* RealDebrid's GetTorrent returns has none.
Versions == {"linked", "bare"}
Complete == {"linked"}

Write == [id : Ids, ver : Versions]

ASSUME ConstantsAssumption ==
    /\ N \in Nat /\ SaveSlots \in Nat /\ MaxRetries \in Nat /\ MaxEvents \in Nat
    /\ Limit \in Nat \ {0} /\ MaxStarts \in Nat \ {0}
    /\ None \notin Nat \cup Versions \cup Write

VARIABLES
    debrid,     \* each torrent's state at the service
    events,     \* how many of them there were
    now,        \* the cache of the running service; those before it are former
    stage,      \* of each cache: before close(ready), after it, after Reset
    job,        \* Sync, or the refreshTorrents in progress
    loaded,     \* what load read: cachedTorrents
    todo,       \* what the job has still to delete, or its workers to process
    validating, \* ids handed to validateAndDeleteTorrents
    cached,     \* the torrents in memory
    loc,        \* control point and locals of every goroutine
    writing,    \* what SaveTorrents has still to write
    saving,     \* the saveTorrent goroutines, by the slot of saveSemaphore they hold
    file,       \* the JSON file of each torrent, shared by all caches
    excuse      \* history: why a file need not be what memory holds

account == <<debrid, events>>
sync    == <<now, stage, job, loaded, todo, validating>>
memory  == <<cached, loc>>
disk    == <<writing, saving, file, excuse>>
vars == <<account, sync, memory, disk>>

-----------------------------------------------------------------------------
(* Data                                                                    *)

\* at is the cache the goroutine works on.
Idle == [pc |-> "idle", at |-> None, id |-> None, ver |-> None, by |-> "none"]
Setting  == [pc : {"set", "save"}, at : Starts, id : Ids, ver : Versions, by : {"caller", "worker"}]
Deleting == [pc : {"trash", "tell"}, at : Starts, id : Ids, ver : {None}, by : {"caller", "validate", "sync"}]
Local    == {Idle} \cup Setting \cup Deleting

Job == [pc : {"load", "list", "purge", "work", "idle", "failed"},
        offset : Nat, attempt : 0..MaxRetries, got : SUBSET Ids]
NewJob(pc) == [pc |-> pc, offset |-> 0, attempt |-> 0, got |-> {}]

Nothing   == [i \in Ids |-> None]
Started   == 1..now
Loaded(c) == {i \in Ids : loaded[c][i] # None}
Cached(c) == {i \in Ids : cached[c][i] # None}

Listed     == {i \in Ids : debrid[i] \in {"downloading", "downloaded"}}
Downloaded == {i \in Ids : debrid[i] = "downloaded"}

\* The service lists the newest torrent first.
Rank(i) == Cardinality({j \in Listed : j > i})

\* What getTorrents keeps of the page at an offset.
Page(offset) == {i \in Downloaded : Rank(i) \in offset..(offset + Limit - 1)}

\* Something is still going to change the file of i, for whichever cache.
Busy(i) ==
    \/ \E c \in Starts, s \in Slots : saving[c][s] # None /\ saving[c][s].id = i
    \/ \E t \in Threads : loc[t].pc \in {"save", "trash"} /\ loc[t].id = i
    \/ \E c \in Starts : \E w \in writing[c] : w.id = i

\* Torrents change in the memory of c.  The write or the removal that follows
\* settles the file, unless another is under way already.
Changes(c, ids) ==
    excuse' = [i \in Ids |-> IF c # now \/ i \notin ids THEN excuse[i]
                             ELSE IF Busy(i) THEN "overlap" ELSE "none"]

\* c changes the file; that of a former cache is not what memory holds now.
Put(c, i, v) ==
    /\ file' = [file EXCEPT ![i] = v]
    /\ excuse' = IF c = now THEN excuse ELSE [excuse EXCEPT ![i] = "former"]

-----------------------------------------------------------------------------
\* The state has the shape the Go declarations give it.
TypeOK ==
    /\ debrid \in [Ids -> {"absent", "downloading", "downloaded", "gone"}]
    /\ events \in 0..MaxEvents
    /\ now \in Starts
    /\ stage \in [Starts -> {"starting", "ready", "reset"}]
    /\ job \in [Starts -> Job]
    /\ loaded \in [Starts -> [Ids -> Complete \cup {None}]]
    /\ todo \in [Starts -> SUBSET Ids] /\ validating \in [Starts -> SUBSET Ids]
    /\ cached \in [Starts -> [Ids -> Versions \cup {None}]]
    /\ loc \in [Threads -> Local]
    /\ writing \in [Starts -> SUBSET Write]
    /\ \A c \in Starts : writing[c] # {} => job[c].pc = "work"
    /\ saving \in [Starts -> [Slots -> Write \cup {None}]]
    /\ file \in [Ids -> Versions \cup {None}]
    /\ excuse \in [Ids -> {"none", "overlap", "unread", "former"}]

\* The account as it was found, torrents being added in their order.
InitAccount ==
    /\ debrid \in [Ids -> {"absent", "downloading", "downloaded", "gone"}]
    /\ \A i, j \in Ids : i < j /\ debrid[i] = "absent" => debrid[j] = "absent"

\* The cache directory as an earlier run left it.
InitFiles ==
    /\ file \in [Ids -> Versions \cup {None}]
    /\ \A i \in Ids : file[i] # None => debrid[i] \in {"downloaded", "gone"}

\* The same for every cache: what New makes is there for those to come.
Each(x) == [c \in Starts |-> x]

NoSaves == [s \in Slots |-> None]
NoCalls == [t \in Threads |-> Idle]
NoExcuse == [i \in Ids |-> "none"]

\* Torrents that were added, removed or left without links while the program
\* did not run: each counts as an event.
Changed == {i \in Ids : debrid[i] # "absent" /\ ~(debrid[i] = "downloaded" /\ file[i] = "linked")}

\* The program is started, and has made its first cache.
Init ==
    /\ InitAccount /\ InitFiles
    /\ events = Cardinality(Changed) /\ events <= MaxEvents
    /\ now = 1 /\ stage = Each("starting")
    /\ job = Each(NewJob("load")) /\ loaded = Each(Nothing)
    /\ todo = Each({}) /\ validating = Each({})
    /\ cached = Each(Nothing) /\ loc = NoCalls
    /\ writing = Each({}) /\ saving = Each(NoSaves) /\ excuse = NoExcuse

\* What may happen from outside, a bounded number of times.
Event == events < MaxEvents /\ events' = events + 1
NoEvent == UNCHANGED events

-----------------------------------------------------------------------------
(* The account                                                             *)

\* The owner adds a torrent, which the service may have to download first.
AccountAdd(i) ==
    /\ Event /\ debrid[i] = "absent"
    /\ \A j \in Ids : j < i => debrid[j] # "absent"
    /\ \E s \in {"downloading", "downloaded"} : debrid' = [debrid EXCEPT ![i] = s]
    /\ UNCHANGED <<sync, memory, disk>>

AccountFinish(i) ==
    /\ Event /\ debrid[i] = "downloading"
    /\ debrid' = [debrid EXCEPT ![i] = "downloaded"]
    /\ UNCHANGED <<sync, memory, disk>>

AccountRemove(i) ==
    /\ Event /\ i \in Listed
    /\ debrid' = [debrid EXCEPT ![i] = "gone"]
    /\ UNCHANGED <<sync, memory, disk>>

-----------------------------------------------------------------------------
(* The files                                                               *)

FreeSlots(c) == {s \in Slots : saving[c][s] = None}

WriteInGoroutine(c, w) ==
    /\ \E s \in FreeSlots(c) : /\ \A r \in FreeSlots(c) : s <= r
                               /\ saving' = [saving EXCEPT ![c][s] = w]
    /\ UNCHANGED <<file, excuse>>

\* SaveTorrent writes in a goroutine, with no slot free inline.
SaveTorrent(c, w) ==
    \/ FreeSlots(c) # {} /\ WriteInGoroutine(c, w)
    \/ FreeSlots(c) = {} /\ Put(c, w.id, w.ver) /\ UNCHANGED saving

\* saveTorrent renames the temporary file over <id>.json.
SaveLands(c, s) ==
    /\ saving[c][s] # None
    /\ Put(c, saving[c][s].id, saving[c][s].ver)
    /\ saving' = [saving EXCEPT ![c][s] = None]
    /\ UNCHANGED <<account, sync, memory, writing>>

-----------------------------------------------------------------------------
(* setTorrent and deleteTorrent                                            *)

Goto(t, l) == loc' = [loc EXCEPT ![t] = l]

\* A torrent the service answered with is about to be set.
EnterSet(t, c, i, v, by) == Goto(t, [pc |-> "set", at |-> c, id |-> i, ver |-> v, by |-> by])

\* AddTorrent and refreshTorrent set what they were answered with, links or
\* not, in the cache they have, which a restart may have made a former one.
Caller(t, c, i) ==
    /\ Event /\ c \in Started /\ loc[t] = Idle /\ i \in Downloaded
    /\ \E v \in Versions : EnterSet(t, c, i, v, "caller")
    /\ UNCHANGED <<debrid, sync, cached, disk>>

Set(t) ==
    /\ loc[t].pc = "set"
    /\ cached' = [cached EXCEPT ![loc[t].at][loc[t].id] = loc[t].ver]
    /\ Changes(loc[t].at, {loc[t].id})
    /\ Goto(t, [loc[t] EXCEPT !.pc = "save"])
    /\ UNCHANGED <<account, sync, writing, saving, file>>

Save(t) ==
    /\ loc[t].pc = "save"
    /\ SaveTorrent(loc[t].at, [id |-> loc[t].id, ver |-> loc[t].ver])
    /\ Goto(t, Idle)
    /\ UNCHANGED <<account, sync, cached, writing>>

\* removeId, then in the deferred function removeFromDB and the service.
DeleteTorrent(t, c, i, by) ==
    /\ loc[t] = Idle /\ cached[c][i] # None
    /\ cached' = [cached EXCEPT ![c][i] = None]
    /\ Changes(c, {i})
    /\ Goto(t, [pc |-> "trash", at |-> c, id |-> i, ver |-> None, by |-> by])
    /\ UNCHANGED <<writing, saving, file>>

\* DeleteTorrent and DeleteTorrents; the mutex the former takes is in
\* TorrentCache.
CallerDeletes(t, c, i) ==
    /\ Event /\ stage[c] # "starting"
    /\ DeleteTorrent(t, c, i, "caller")
    /\ UNCHANGED <<debrid, sync>>

\* Mutant of RemoveFromDB: the file stays where it is.
FileStays(c, i) == UNCHANGED <<file, excuse>>

RemoveFromDB(c, i) == Put(c, i, None)

Trash(t) ==
    /\ loc[t].pc = "trash"
    /\ RemoveFromDB(loc[t].at, loc[t].id)
    /\ IF loc[t].by = "caller" THEN Goto(t, [loc[t] EXCEPT !.pc = "tell"]) ELSE Goto(t, Idle)
    /\ UNCHANGED <<account, sync, cached, writing, saving>>

\* client.DeleteTorrent, whose error is ignored.
Tell(t) ==
    /\ loc[t].pc = "tell"
    /\ \/ debrid' = [debrid EXCEPT ![loc[t].id] = "gone"]
       \/ UNCHANGED debrid
    /\ Goto(t, Idle)
    /\ UNCHANGED <<events, sync, cached, disk>>

-----------------------------------------------------------------------------
(* The listing, paged and retried                                          *)

JobIs(c, j) == job' = [job EXCEPT ![c] = j]

\* A start that cannot list ends with an error, and is never ready; a refresh
\* gives up until the next.
JobFails(c) == JobIs(c, NewJob(IF stage[c] = "starting" THEN "failed" ELSE "idle"))

\* Mutant of Retry: the last attempt is not made.
RetryTooFew(c) == job[c].attempt + 1 < MaxRetries

Retry(c) == job[c].attempt < MaxRetries

\* request.Client.Do: an answer or an error that is worth another attempt.  A
\* former cache whose requests fail does no more than one that goes no further,
\* which it may anyway.
ListFault(c) ==
    /\ c = now /\ job[c].pc = "list"
    /\ IF job[c].attempt < MaxRetries THEN NoEvent ELSE Event
    /\ IF Retry(c) THEN JobIs(c, [job[c] EXCEPT !.attempt = @ + 1]) ELSE JobFails(c)
    /\ UNCHANGED <<debrid, now, stage, loaded, todo, validating, memory, disk>>

\* An error that is not, as an answer that is no JSON.
ListRefused(c) ==
    /\ c = now /\ job[c].pc = "list" /\ Event
    /\ JobFails(c)
    /\ UNCHANGED <<debrid, now, stage, loaded, todo, validating, memory, disk>>

\* GetTorrents counts the torrents it kept, not the entries of the page.
NextOffset(offset) == offset + Cardinality(Page(offset))

ListPage(c) ==
    /\ job[c].pc = "list" /\ Page(job[c].offset) # {}
    /\ JobIs(c, [pc |-> "list", offset |-> NextOffset(job[c].offset), attempt |-> 0,
                 got |-> job[c].got \cup Page(job[c].offset)])
    /\ UNCHANGED <<account, now, stage, loaded, todo, validating, memory, disk>>

\* A page without a downloaded torrent ends the listing.
ListEnds(c) == job[c].pc = "list" /\ Page(job[c].offset) = {}

-----------------------------------------------------------------------------
(* Start                                                                   *)

\* Mutant of Loadable: files without links count, too.
AnyFile(i) == file[i] # None

Loadable(i) == file[i] \in Complete

\* Files that load passes over: those it cannot read, and once the context
\* is done all that are left.  They stay where they are, like those without
\* links, although the comment there says that these are deleted.
Skips(c, skipped) == IF skipped = {} \/ c # now THEN NoEvent ELSE Event

Load(c) ==
    /\ c \in Started /\ job[c].pc = "load"
    /\ \E skipped \in SUBSET {i \in Ids : Loadable(i)} :
          /\ Skips(c, skipped)
          /\ loaded' = [loaded EXCEPT ![c] =
                  [i \in Ids |-> IF Loadable(i) /\ i \notin skipped THEN file[i] ELSE None]]
    /\ JobIs(c, NewJob("list"))
    /\ excuse' = [i \in Ids |-> IF /\ c = now /\ file[i] # None
                                  /\ loaded'[c][i] = None /\ cached[c][i] = None
                               THEN "unread" ELSE excuse[i]]
    /\ UNCHANGED <<debrid, now, stage, todo, validating, memory, writing, saving, file>>

\* What was loaded and is not listed is deletedTorrents.
SyncCompare(c) ==
    /\ stage[c] = "starting" /\ ListEnds(c)
    /\ todo' = [todo EXCEPT ![c] = Loaded(c) \ job[c].got]
    /\ JobIs(c, [job[c] EXCEPT !.pc = "purge"])
    /\ UNCHANGED <<account, now, stage, loaded, validating, memory, disk>>

\* deleteTorrent finds only what a caller has added to the cache by then.
SyncDeletes(t, c, i) ==
    /\ job[c].pc = "purge" /\ i \in todo[c]
    /\ todo' = [todo EXCEPT ![c] = @ \ {i}]
    /\ \A u \in Threads : ~(loc[u].by = "sync" /\ loc[u].at = c)
    /\ \/ DeleteTorrent(t, c, i, "sync")
       \/ cached[c][i] = None /\ UNCHANGED <<memory, disk>>
    /\ UNCHANGED <<account, now, stage, job, loaded, validating>>

\* Mutant of SyncSets: torrents the service does not list are left out.
OnlyListed(c) == Loaded(c) \cap job[c].got

\* All that was loaded is set, the deleted ones with it.
SyncSets(c) == Loaded(c)

SyncSet(c) ==
    /\ job[c].pc = "purge" /\ todo[c] = {}
    /\ \A u \in Threads : ~(loc[u].by = "sync" /\ loc[u].at = c)
    /\ cached' = [cached EXCEPT ![c] =
            [i \in Ids |-> IF i \in SyncSets(c) THEN loaded[c][i] ELSE cached[c][i]]]
    /\ Changes(c, SyncSets(c))
    /\ writing' = [writing EXCEPT ![c] = {w \in Write : cached'[c][w.id] = w.ver}]
    /\ todo' = [todo EXCEPT ![c] = job[c].got \ Loaded(c)]
    /\ loaded' = [loaded EXCEPT ![c] = Nothing]
    /\ JobIs(c, NewJob("work"))
    /\ UNCHANGED <<account, now, stage, validating, loc, saving, file>>

\* SaveTorrents writes all that is in the cache by then; what was not loaded
\* is then handed to workers.
SaveTorrents(c, w) ==
    /\ w \in writing[c]
    /\ SaveTorrent(c, w)
    /\ writing' = [writing EXCEPT ![c] = @ \ {w}]
    /\ UNCHANGED <<account, sync, memory>>

-----------------------------------------------------------------------------
(* The refresh, and the workers it shares with Sync                        *)

\* The context of a former cache is done, and its refreshes begin no more.
RefreshStart(c) ==
    /\ c = now /\ stage[c] = "ready" /\ job[c].pc = "idle"
    /\ JobIs(c, NewJob("list"))
    /\ UNCHANGED <<account, now, stage, loaded, todo, validating, memory, disk>>

\* An empty listing may be an error and ends the refresh; so does a listing
\* without new torrents.
RefreshCompare(c) ==
    /\ stage[c] # "starting" /\ ListEnds(c)
    /\ JobIs(c, NewJob(IF job[c].got \subseteq Cached(c) THEN "idle" ELSE "work"))
    /\ IF job[c].got = {}
       THEN UNCHANGED validating
       ELSE validating' = [validating EXCEPT ![c] = @ \cup (Cached(c) \ job[c].got)]
    /\ todo' = [todo EXCEPT ![c] = job[c].got \ Cached(c)]
    /\ UNCHANGED <<account, now, stage, loaded, memory, disk>>

\* ProcessTorrent: UpdateTorrent adds the links; it may fail, and the torrent
\* may turn out to have none.
Process(t, c, i) ==
    /\ job[c].pc = "work" /\ writing[c] = {} /\ i \in todo[c] /\ loc[t] = Idle
    /\ todo' = [todo EXCEPT ![c] = @ \ {i}]
    /\ \/ i \in Downloaded /\ EnterSet(t, c, i, "linked", "worker") /\ NoEvent
       \/ i \in Downloaded /\ UNCHANGED loc /\ Event
       \/ i \notin Downloaded /\ UNCHANGED loc /\ NoEvent
    /\ UNCHANGED <<debrid, now, stage, job, loaded, validating, cached, disk>>

\* The workers of a Sync, not those of a refresh, stop when the context is done.
WorkersQuit(c) ==
    /\ c # now /\ stage[c] = "starting"
    /\ job[c].pc = "work" /\ writing[c] = {} /\ todo[c] # {}
    /\ todo' = [todo EXCEPT ![c] = {}]
    /\ UNCHANGED <<account, now, stage, job, loaded, validating, memory, disk>>

WorkersDone(c) ==
    /\ writing[c] = {} /\ todo[c] = {}
    /\ \A t \in Threads : ~(loc[t].by = "worker" /\ loc[t].at = c)

\* The workers are waited for; a start then schedules the refresh and closes
\* the channel ready.
JobDone(c) ==
    /\ job[c].pc = "work" /\ WorkersDone(c)
    /\ stage' = [stage EXCEPT ![c] = IF @ = "starting" THEN "ready" ELSE @]
    /\ JobIs(c, NewJob("idle"))
    /\ UNCHANGED <<account, now, loaded, todo, validating, memory, disk>>

\* client.GetTorrent(i) returns an error.
GetTorrentFails(i) == IF i \in Listed THEN Event ELSE NoEvent

Validated(c, i) ==
    /\ i \in validating[c]
    /\ validating' = [validating EXCEPT ![c] = @ \ {i}]
    /\ UNCHANGED <<debrid, now, stage, job, loaded, todo>>

ValidateKeeps(c, i) ==
    /\ Validated(c, i)
    /\ i \in Listed \/ cached[c][i] = None
    /\ UNCHANGED <<events, memory, disk>>

ValidateDeletes(t, c, i) ==
    /\ Validated(c, i) /\ GetTorrentFails(i)
    /\ DeleteTorrent(t, c, i, "validate")

-----------------------------------------------------------------------------
(* Crashes and restarts                                                    *)

\* The process ends at any step, and is started again.
Crash ==
    /\ Event
    /\ now' = 1 /\ stage' = Each("starting")
    /\ job' = Each(NewJob("load")) /\ loaded' = Each(Nothing)
    /\ todo' = Each({}) /\ validating' = Each({})
    /\ cached' = Each(Nothing) /\ loc' = NoCalls
    /\ writing' = Each({}) /\ saving' = Each(NoSaves) /\ excuse' = NoExcuse
    /\ UNCHANGED <<debrid, file>>

\* main.go, when the configuration was saved: the context of the services is
\* cancelled, no goroutine is waited for, and a new cache is made and started
\* on the same directory.  Everything of the former cache goes on.  To bound
\* what is checked nothing more happens from outside.
Restart ==
    /\ events < MaxEvents /\ events' = MaxEvents
    /\ now + 1 \in Starts
    /\ now' = now + 1
    /\ excuse' = NoExcuse
    /\ UNCHANGED <<debrid, stage, job, loaded, todo, validating, memory, writing, saving, file>>

\* Start, whose context is done, calls Reset at some time.
Reset(c) ==
    /\ c \in Started /\ c # now /\ stage[c] = "ready"
    /\ stage' = [stage EXCEPT ![c] = "reset"]
    /\ cached' = [cached EXCEPT ![c] = Nothing]
    /\ UNCHANGED <<account, now, job, loaded, todo, validating, loc, disk>>

-----------------------------------------------------------------------------
Account == \E i \in Ids : AccountAdd(i) \/ AccountFinish(i) \/ AccountRemove(i)
Continue(t) == Set(t) \/ Save(t) \/ Trash(t) \/ Tell(t)
Call(t, c, i) == Caller(t, c, i) \/ CallerDeletes(t, c, i)
Proceed(c) == Load(c) \/ ListPage(c) \/ SyncCompare(c) \/ SyncSet(c)
              \/ (\E w \in writing[c] : SaveTorrents(c, w))
              \/ RefreshStart(c) \/ RefreshCompare(c) \/ JobDone(c)
Work(t, c, i) == SyncDeletes(t, c, i) \/ Process(t, c, i)

Next ==
    \/ Account \/ Crash \/ Restart
    \/ \E t \in Threads : Continue(t)
    \/ \E c \in Starts, i \in Ids :
          \/ \E t \in Threads : Call(t, c, i) \/ Work(t, c, i) \/ ValidateDeletes(t, c, i)
          \/ ValidateKeeps(c, i)
    \/ \E c \in Starts :
          \/ Proceed(c) \/ ListFault(c) \/ ListRefused(c) \/ WorkersQuit(c) \/ Reset(c)
          \/ \E s \in Slots : SaveLands(c, s)

Spec == Init /\ [][Next]_vars

-----------------------------------------------------------------------------
(* What is kept, whatever is interleaved and whenever the program ends     *)

\* Once the start of the running service has taken over what it loaded, and
\* nothing is on its way to the file of a torrent, the file holds what memory
\* holds: no save is lost and no removal, over all that the cache does itself.
\* There are three exceptions: two changes of the torrent overlapped, whose
\* writes nothing orders ("overlap"); load could not read the file or found it
\* without links, and leaves it although memory has no such torrent, where the
\* comment at cache.go:311 says that it deletes it ("unread"); a goroutine of
\* a former service has written or removed it since the restart ("former").
Synced == job[now].pc = "work" \/ stage[now] # "starting"
FileFollows ==
    Synced => \A i \in Ids : Busy(i) \/ excuse[i] # "none" \/ file[i] = cached[now][i]

-----------------------------------------------------------------------------
(* The write-behind store it implements                                    *)

\* The versions of i that some goroutine is about to write.
OnTheWay(i) ==
    {v \in Versions :
        \/ \E c \in Starts, s \in Slots : saving[c][s] = [id |-> i, ver |-> v]
        \/ \E t \in Threads : loc[t].pc = "save" /\ loc[t].id = i /\ loc[t].ver = v
        \/ \E c \in Starts : [id |-> i, ver |-> v] \in writing[c]}

\* The torrents whose file is about to be moved to the trash.
Trashing == {i \in Ids : \E t \in Threads : loc[t].pc = "trash" /\ loc[t].id = i}

Store == INSTANCE TorrentStore WITH
    served   <- cached,
    stored   <- file,
    pending  <- [i \in Ids |-> OnTheWay(i)],
    dropping <- Trashing,
    image    <- loaded

\* Starts, crashes and the goroutines that outlive a restart keep the promise
\* of TorrentStore: a file only ever takes a version that some cache served
\* and has not yet written, goes only after a cache dropped its torrent, and
\* what a start serves before it has asked the service was in the files,
\* complete.
ImplementsStore == Store!Spec

-----------------------------------------------------------------------------
(* The running service goes on, and its scheduler refreshes.  Nothing is   *)
(* asked of former ones, and nobody starts again what failed to start.     *)

Fairness ==
    /\ WF_vars(\E c \in Starts : c = now /\ Proceed(c))
    /\ \A t \in Threads : WF_vars(Continue(t))
    /\ SF_vars(\E t \in Threads, c \in Starts, i \in Ids : c = now /\ Work(t, c, i))
    /\ WF_vars(\E c \in Starts, i \in Ids : c = now /\ ValidateKeeps(c, i))
    /\ SF_vars(\E t \in Threads, c \in Starts, i \in Ids : c = now /\ ValidateDeletes(t, c, i))

FairSpec == Spec /\ Fairness

\* A whole page of torrents the service is still downloading hides the older
\* ones from GetTorrents.
Hidden ==
    \E k \in 0..N :
        /\ \E i \in Downloaded : Rank(i) >= k + Limit
        /\ \A i \in Listed : Rank(i) \in k..(k + Limit - 1) => i \notin Downloaded

\* Once callers and account are calm and requests fail no more often than they
\* are retried (there is a bounded number of events), the cache comes to be
\* ready and to hold the torrents the account has downloaded, whatever crashed
\* or was restarted before, whatever the files held, and whatever the former
\* caches still do.  It does not if its start failed, since webdav.go and
\* main.go only log that; nor for an account that is empty, which
\* refreshTorrents takes for an error, and for torrents hidden from its listing.
Recovers ==
    <>[](\/ job[now].pc = "failed"
         \/ /\ stage[now] = "ready"
            /\ Downloaded # {} /\ ~Hidden => Cached(now) = Downloaded)
=============================================================================
