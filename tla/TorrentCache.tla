---------------------------- MODULE TorrentCache ----------------------------
(***************************************************************************)
(* The in-memory view a debrid Cache keeps of one debrid account           *)
(* (pkg/debrid/debrid/cache.go, torrent.go, refresh.go, misc.go):          *)
(* torrentCache.byID and byName, the operations that change them           *)
(* (setTorrent, deleteTorrent and their callers), the periodic refresh     *)
(* with its worker pool and its validate-then-delete goroutines, and the   *)
(* JSON file that is kept per torrent.                                     *)
(*                                                                         *)
(* CachedTorrent embeds a *types.Torrent, and copy() copies the pointer,   *)
(* so the two maps share the structs they point to and an assignment to    *)
(* t.Files or t.Id is seen through every other reference.  Torrent structs *)
(* are therefore the cells of an explicit heap.                            *)
(*                                                                         *)
(* A step of a goroutine is what the code does in one critical section of  *)
(* torrentCache.mu, or between two of them.                                *)
(***************************************************************************)
EXTENDS Naturals, FiniteSets

CONSTANTS
    Ids,        \* torrent ids of the debrid service
    Names,      \* folder and torrent names
    FileNames,  \* names of files inside torrents
    Objects,    \* addresses of Torrent structs; bounds how many are live
    Threads,    \* goroutines that run operations on the cache
    None,       \* absent map entry, nil pointer, no holder
    Refresher,  \* the scheduled goroutine that runs refreshTorrents
    NameOf,     \* torrent.Name of an id
    FolderOf,   \* the folder GetTorrentFolder names for an id
    FolderById, \* whether folder_naming is "id"
    FilesOf,    \* the names of the files of an id
    AddedOf,    \* its AddedOn, as a number
    SaveSlots,  \* capacity of saveSemaphore (50 in the code)
    Flaky,      \* whether calls to the service may fail or list only a part
    Ops         \* the operations the callers use in this instance

Slots == 1..SaveSlots

Operations == {"DeleteTorrent", "DeleteTorrents", "refreshTorrent", "AddTorrent"}

ASSUME ConstantsAssumption ==
    /\ None \notin Ids \cup Names \cup Objects \cup Threads
    /\ Refresher \notin Threads \cup {None}
    /\ FolderById \in BOOLEAN /\ Flaky \in BOOLEAN
    /\ FolderById => Ids \subseteq Names
    /\ NameOf \in [Ids -> Names]
    /\ FolderOf \in [Ids -> Names]
    /\ FilesOf \in [Ids -> SUBSET FileNames]
    /\ AddedOf \in [Ids -> Nat]
    /\ SaveSlots \in Nat
    /\ Ops \subseteq Operations

VARIABLES
    debrid,      \* [Ids -> {"absent", "present", "gone"}], the service's side
    heap,        \* the Torrent structs
    byID,        \* torrentCache.byID: id -> struct
    byName,      \* torrentCache.byName: folder -> struct
    refreshMu,   \* holder of torrentsRefreshMu
    refresh,     \* the refreshTorrents call in progress
    newTorrents, \* ids its workers still have to process (workChan)
    validating,  \* ids handed to validateAndDeleteTorrents
    loc,         \* control point and locals of every goroutine
    disk,        \* ids that have a JSON file
    saving,      \* the saveTorrent goroutines, by the slot of saveSemaphore they hold
    open         \* whether callers and the account's owner are still active

cacheVars   == <<byID, byName>>
refreshVars == <<refreshMu, refresh, newTorrents, validating>>
diskVars    == <<disk, saving>>
vars == <<debrid, heap, cacheVars, refreshVars, loc, diskVars, open>>

-----------------------------------------------------------------------------
(* Data                                                                    *)

FileMap == [FileNames -> Ids \cup {None}]      \* Files, by owner (TorrentId)
Torrent == [id : Ids, origin : Ids, files : FileMap]
Blank   == [id |-> None, origin |-> None, files |-> [f \in FileNames |-> None]]

PCs == {"idle", "lock", "setLookup", "setMerge", "setStore", "save",
        "generate", "delGet", "delRemove", "delName", "delEntry", "delDB"}

Local == [pc : PCs, id : Ids \cup {None}, obj : Objects \cup {None},
          old : Objects \cup {None}, next : {"idle", "generate", "delDB"},
          by : {"none", "caller", "refresh", "validate"}]

Idle == [pc |-> "idle", id |-> None, obj |-> None, old |-> None,
         next |-> "idle", by |-> "none"]

Present   == {i \in Ids : debrid[i] = "present"}
CachedIds == {i \in Ids : byID[i] # None}
Owners(files) == {files[f] : f \in FileNames} \ {None}

\* What the service answers for torrent i: a fresh struct.
Fetched(i) == [id |-> i, origin |-> i,
               files |-> [f \in FileNames |-> IF f \in FilesOf[i] THEN i ELSE None]]

\* Mutant of GetTorrentFolder: the torrent's name, whatever folder_naming says.
FolderByName(t) == NameOf[t.origin]

GetTorrentFolder(t) == IF FolderById THEN t.id ELSE FolderOf[t.origin]

Overlay(below, above) ==
    [f \in FileNames |-> IF above[f] # None THEN above[f] ELSE below[f]]

\* Mutant of mergeFiles: the later torrent's files replace the others.
LatestFiles(o, t) == IF AddedOf[t.origin] < AddedOf[o.origin] THEN o.files ELSE t.files

\* sort.Slice is an insertion sort on two elements, so a tie keeps the order.
mergeFiles(o, t) ==
    IF AddedOf[t.origin] < AddedOf[o.origin]
      THEN Overlay(t.files, o.files)
      ELSE Overlay(o.files, t.files)

\* Mutant of Remaining: the deleted torrent's files are not filtered out.
AllFiles(files, i) == files

\* The files of an entry that belong to other torrents than i.
Remaining(files, i) == [f \in FileNames |-> IF files[f] = i THEN None ELSE files[f]]

\* Structs some map or some goroutine still points to.
Live == ({byID[i] : i \in Ids} \cup {byName[n] : n \in Names}
         \cup {loc[t].obj : t \in Threads} \cup {loc[t].old : t \in Threads}) \ {None}

\* The heap after a step: h, without the structs nothing points to any more.
HeapBecomes(h) == heap' = [o \in Objects |-> IF o \in Live' THEN h[o] ELSE Blank]

-----------------------------------------------------------------------------
\* The state has the shape the Go declarations give it.
TypeOK ==
    /\ debrid \in [Ids -> {"absent", "present", "gone"}]
    /\ heap \in [Objects -> Torrent \cup {Blank}]
    /\ byID \in [Ids -> Objects \cup {None}]
    /\ byName \in [Names -> Objects \cup {None}]
    /\ refreshMu \in Threads \cup {Refresher, None}
    /\ refresh \in [pc : {"idle", "listed", "waiting"}, list : SUBSET Ids]
    /\ newTorrents \in SUBSET Ids
    /\ validating \in SUBSET Ids
    /\ loc \in [Threads -> Local]
    /\ disk \in SUBSET Ids
    /\ saving \in [Slots -> Ids \cup {None}]
    /\ open \in BOOLEAN

\* The cache of an account that was empty when Start() synchronised it.
Init ==
    /\ debrid = [i \in Ids |-> "absent"]
    /\ heap = [o \in Objects |-> Blank]
    /\ byID = [i \in Ids |-> None]
    /\ byName = [n \in Names |-> None]
    /\ refreshMu = None
    /\ refresh = [pc |-> "idle", list |-> {}]
    /\ newTorrents = {}
    /\ validating = {}
    /\ loc = [t \in Threads |-> Idle]
    /\ disk = {}
    /\ saving = [s \in Slots |-> None]
    /\ open = TRUE

-----------------------------------------------------------------------------
(* The debrid account, changed by its owner or by other programs           *)

DebridAdd(i) ==
    /\ open /\ debrid[i] = "absent"
    /\ debrid' = [debrid EXCEPT ![i] = "present"]
    /\ UNCHANGED <<heap, cacheVars, refreshVars, loc, diskVars, open>>

DebridRemove(i) ==
    /\ open /\ debrid[i] = "present"
    /\ debrid' = [debrid EXCEPT ![i] = "gone"]
    /\ UNCHANGED <<heap, cacheVars, refreshVars, loc, diskVars, open>>

\* From here on nobody calls in and the account no longer changes.
CallersStop ==
    /\ open
    /\ open' = FALSE
    /\ UNCHANGED <<debrid, heap, cacheVars, refreshVars, loc, diskVars>>

\* client.GetTorrent(i) may succeed, may fail.
GetTorrentOk(i) == debrid[i] = "present"

\* Mutant of GetTorrentFails: what the listing misses counts as deleted.
AssumedGone(i) == TRUE

GetTorrentFails(i) == debrid[i] # "present" \/ Flaky

-----------------------------------------------------------------------------
(* setTorrent, shared by every operation: the goroutine enters it with the *)
(* struct in obj and leaves for loc.next                                   *)

Goto(t, l) == loc' = [loc EXCEPT ![t] = l]

\* Enter setTorrent with a struct the service has just answered with.
EnterSet(t, i, by, next) ==
    \E o \in Objects \ Live :
        /\ Goto(t, [Idle EXCEPT !.pc = "setLookup", !.id = i, !.obj = o,
                                !.by = by, !.next = next])
        /\ HeapBecomes([heap EXCEPT ![o] = Fetched(i)])

SetLookup(t) ==
    /\ loc[t].pc = "setLookup"
    /\ LET o == byName[GetTorrentFolder(heap[loc[t].obj])]
       IN  IF o # None /\ heap[o].id # heap[loc[t].obj].id
             THEN Goto(t, [loc[t] EXCEPT !.pc = "setMerge", !.old = o])
             ELSE Goto(t, [loc[t] EXCEPT !.pc = "setStore"])
    /\ UNCHANGED <<debrid, cacheVars, refreshVars, diskVars, open>>
    /\ HeapBecomes(heap)

\* updatedTorrent.Files = mergedFiles writes through the shared pointer.
SetMerge(t) ==
    /\ loc[t].pc = "setMerge"
    /\ Goto(t, [loc[t] EXCEPT !.pc = "setStore", !.old = None])
    /\ UNCHANGED <<debrid, cacheVars, refreshVars, diskVars, open>>
    /\ HeapBecomes([heap EXCEPT ![loc[t].obj].files =
                                    mergeFiles(heap[loc[t].old], heap[loc[t].obj])])

SetStore(t) ==
    /\ loc[t].pc = "setStore"
    /\ LET torrent == heap[loc[t].obj] IN
         /\ byID' = [byID EXCEPT ![torrent.id] = loc[t].obj]
         /\ byName' = [byName EXCEPT ![GetTorrentFolder(torrent)] = loc[t].obj]
    /\ Goto(t, [loc[t] EXCEPT !.pc = "save"])
    /\ UNCHANGED <<debrid, refreshVars, diskVars, open>>
    /\ HeapBecomes(heap)

FreeSlots == {s \in Slots : saving[s] = None}

WriteInGoroutine(i) ==
    /\ \E s \in FreeSlots : /\ \A r \in FreeSlots : s <= r
                            /\ saving' = [saving EXCEPT ![s] = i]
    /\ UNCHANGED disk

\* Mutant of SaveTorrent: with no slot free the save is skipped.
SaveOrSkip(i) ==
    \/ FreeSlots # {} /\ WriteInGoroutine(i)
    \/ FreeSlots = {} /\ UNCHANGED <<disk, saving>>

\* SaveTorrent marshals at once and writes in a goroutine; with no slot free
\* it writes inline.
SaveTorrent(i) ==
    \/ FreeSlots # {} /\ WriteInGoroutine(i)
    \/ FreeSlots = {} /\ disk' = disk \cup {i} /\ UNCHANGED saving

\* setTorrent's last step: the file is named after the id the struct has by
\* now, and the goroutine goes on with what called setTorrent.
Save(t) ==
    /\ loc[t].pc = "save"
    /\ SaveTorrent(heap[loc[t].obj].id)
    /\ Goto(t, CASE loc[t].next = "idle" -> Idle
                 [] loc[t].next = "generate" -> [loc[t] EXCEPT !.pc = "generate", !.next = "idle"]
                 [] loc[t].next = "delDB" -> [loc[t] EXCEPT !.pc = "delDB", !.obj = None])
    /\ UNCHANGED <<debrid, cacheVars, refreshVars, open>>
    /\ HeapBecomes(heap)

\* saveTorrent renames the temporary file over <id>.json.
SaveLands(s) ==
    /\ saving[s] # None
    /\ disk' = disk \cup {saving[s]}
    /\ saving' = [saving EXCEPT ![s] = None]
    /\ UNCHANGED <<debrid, heap, cacheVars, refreshVars, loc, open>>

-----------------------------------------------------------------------------
(* Operations that set a torrent                                           *)

\* refreshTorrent: GetTorrent, then setTorrent; an error returns nil.
RefreshTorrent(t, i) ==
    /\ open /\ "refreshTorrent" \in Ops
    /\ loc[t] = Idle
    /\ GetTorrentOk(i)
    /\ UNCHANGED <<debrid, cacheVars, refreshVars, diskVars, open>>
    /\ EnterSet(t, i, "caller", "idle")

\* AddTorrent: the importer hands over a torrent the service has.
AddTorrent(t, i) ==
    /\ open /\ "AddTorrent" \in Ops
    /\ loc[t] = Idle
    /\ GetTorrentOk(i)
    /\ UNCHANGED <<debrid, cacheVars, refreshVars, diskVars, open>>
    /\ EnterSet(t, i, "caller", "generate")

\* go GenerateDownloadLinks(ct): a failed call ends it, a successful one sets
\* the same struct again, whatever has happened to it meanwhile.
GenerateDownloadLinks(t) ==
    /\ loc[t].pc = "generate"
    /\ \/ Goto(t, Idle)
       \/ Goto(t, [loc[t] EXCEPT !.pc = "setLookup"])
    /\ UNCHANGED <<debrid, cacheVars, refreshVars, diskVars, open>>
    /\ HeapBecomes(heap)

-----------------------------------------------------------------------------
(* deleteTorrent and its callers                                           *)

\* DeleteTorrent takes torrentsRefreshMu, DeleteTorrents does not.
DeleteTorrent(t, i) ==
    /\ open /\ "DeleteTorrent" \in Ops
    /\ loc[t] = Idle
    /\ Goto(t, [Idle EXCEPT !.pc = "lock", !.id = i, !.by = "caller"])
    /\ UNCHANGED <<debrid, heap, cacheVars, refreshVars, diskVars, open>>

DeleteTorrents(t, i) ==
    /\ open /\ "DeleteTorrents" \in Ops
    /\ loc[t] = Idle
    /\ Goto(t, [Idle EXCEPT !.pc = "delGet", !.id = i, !.by = "caller"])
    /\ UNCHANGED <<debrid, heap, cacheVars, refreshVars, diskVars, open>>

Lock(t) ==
    /\ loc[t].pc = "lock"
    /\ refreshMu = None
    /\ refreshMu' = t
    /\ Goto(t, [loc[t] EXCEPT !.pc = "delGet"])
    /\ UNCHANGED <<debrid, heap, cacheVars, refresh, newTorrents, validating, diskVars, open>>

\* Mutant of Unlock: every deleteTorrent releases the mutex.
UnlockAlways(t) == refreshMu' = None

\* The deferred Unlock of DeleteTorrent, by the goroutine that holds it.
Unlock(t) == refreshMu' = IF refreshMu = t THEN None ELSE refreshMu

\* getByID, in a critical section of its own: an unknown id ends the call.
DelGet(t) ==
    /\ loc[t].pc = "delGet"
    /\ IF byID[loc[t].id] = None
         THEN Goto(t, Idle) /\ Unlock(t)
         ELSE /\ Goto(t, [loc[t] EXCEPT !.pc = "delRemove", !.obj = byID[loc[t].id]])
              /\ UNCHANGED refreshMu
    /\ UNCHANGED <<debrid, cacheVars, refresh, newTorrents, validating, diskVars, open>>
    /\ HeapBecomes(heap)

DelRemove(t) ==
    /\ loc[t].pc = "delRemove"
    /\ byID' = [byID EXCEPT ![loc[t].id] = None]
    /\ Goto(t, [loc[t] EXCEPT !.pc = "delName"])
    /\ UNCHANGED <<debrid, byName, refreshVars, diskVars, open>>
    /\ HeapBecomes(heap)

\* Mutant of NewIds: newId keeps its initial "".
NoNewId(files) == {None}

\* The ids newId may take, the order of a map being random.
NewIds(files) == Owners(files)

\* The entry looked up is the one under torrent.Name.  What is left of its
\* files decides: none, the entry goes; some, the entry's struct takes the id
\* of one of their owners and is set again.
DelName(t) ==
    /\ loc[t].pc = "delName"
    /\ UNCHANGED <<debrid, cacheVars, refreshVars, diskVars, open>>
    /\ LET o == byName[NameOf[heap[loc[t].obj].origin]]
           newFiles == Remaining(heap[o].files, loc[t].id)
       IN  \/ /\ o = None
              /\ Goto(t, [loc[t] EXCEPT !.pc = "delDB", !.obj = None])
              /\ HeapBecomes(heap)
           \/ /\ o # None /\ Owners(newFiles) = {}
              /\ Goto(t, [loc[t] EXCEPT !.pc = "delEntry"])
              /\ HeapBecomes(heap)
           \/ /\ o # None
              /\ Goto(t, [loc[t] EXCEPT !.pc = "setLookup", !.obj = o, !.next = "delDB"])
              /\ \E newId \in NewIds(newFiles) :
                    HeapBecomes([heap EXCEPT ![o].files = newFiles, ![o].id = newId])

\* remove(torrentName): whatever is under the name by now.
DelEntry(t) ==
    /\ loc[t].pc = "delEntry"
    /\ byName' = [byName EXCEPT ![NameOf[heap[loc[t].obj].origin]] = None]
    /\ Goto(t, [loc[t] EXCEPT !.pc = "delDB", !.obj = None])
    /\ UNCHANGED <<debrid, byID, refreshVars, diskVars, open>>
    /\ HeapBecomes(heap)

\* removeFromDB moves the file to the trash, if it is there.
RemoveFromDB(i) == disk' = disk \ {i}

\* The deferred removeFromDB and client.DeleteTorrent (its error is ignored).
DelDB(t) ==
    /\ loc[t].pc = "delDB"
    /\ RemoveFromDB(loc[t].id)
    /\ \/ loc[t].by = "caller" /\ debrid' = [debrid EXCEPT ![loc[t].id] = "gone"]
       \/ (loc[t].by # "caller" \/ Flaky) /\ UNCHANGED debrid
    /\ Goto(t, Idle)
    /\ Unlock(t)
    /\ UNCHANGED <<cacheVars, refresh, newTorrents, validating, saving, open>>
    /\ HeapBecomes(heap)

-----------------------------------------------------------------------------
(* refreshTorrents: TryLock, GetTorrents, compare, hand out, wait          *)

\* The list is taken under the lock.  A failed TryLock, an error and an empty
\* answer ("Maybe an error occurred") return without a change.
RefreshList ==
    /\ refresh.pc = "idle" /\ refreshMu = None
    /\ refreshMu' = Refresher
    /\ \E list \in SUBSET Present :
         /\ list # {} /\ (Flaky \/ list = Present)
         /\ refresh' = [pc |-> "listed", list |-> list]
    /\ UNCHANGED <<debrid, heap, cacheVars, newTorrents, validating, loc, diskVars, open>>

\* Mutant of Deleted: the difference taken the other way round.
Swapped == refresh.list \ CachedIds

Deleted == CachedIds \ refresh.list

RefreshCompare ==
    /\ refresh.pc = "listed"
    /\ validating' = validating \cup Deleted
    /\ newTorrents' = refresh.list \ CachedIds
    /\ IF newTorrents' = {}
         THEN refreshMu' = None /\ refresh' = [pc |-> "idle", list |-> {}]
         ELSE refresh' = [pc |-> "waiting", list |-> {}] /\ UNCHANGED refreshMu
    /\ UNCHANGED <<debrid, heap, cacheVars, loc, diskVars, open>>

\* A worker takes a torrent; ProcessTorrent fails or finds it incomplete ...
ProcessSkip(i) ==
    /\ Flaky /\ i \in newTorrents
    /\ newTorrents' = newTorrents \ {i}
    /\ UNCHANGED <<debrid, heap, cacheVars, refreshMu, refresh, validating, loc, diskVars, open>>

\* ... or sets it.
ProcessTorrent(t, i) ==
    /\ i \in newTorrents /\ loc[t] = Idle
    /\ newTorrents' = newTorrents \ {i}
    /\ UNCHANGED <<debrid, cacheVars, refreshMu, refresh, validating, diskVars, open>>
    /\ EnterSet(t, i, "refresh", "idle")

\* wg.Wait() returns when the workers are done.
RefreshDone ==
    /\ refresh.pc = "waiting" /\ newTorrents = {}
    /\ \A t \in Threads : loc[t].by # "refresh"
    /\ refreshMu' = None /\ refresh' = [pc |-> "idle", list |-> {}]
    /\ UNCHANGED <<debrid, heap, cacheVars, newTorrents, validating, loc, diskVars, open>>

\* validateAndDeleteTorrents: a torrent the service still answers for stays.
ValidateKeeps(i) ==
    /\ i \in validating /\ GetTorrentOk(i)
    /\ validating' = validating \ {i}
    /\ UNCHANGED <<debrid, heap, cacheVars, refreshMu, refresh, newTorrents, loc, diskVars, open>>

ValidateDeletes(t, i) ==
    /\ i \in validating /\ GetTorrentFails(i) /\ loc[t] = Idle
    /\ validating' = validating \ {i}
    /\ Goto(t, [Idle EXCEPT !.pc = "delGet", !.id = i, !.by = "validate"])
    /\ UNCHANGED <<debrid, heap, cacheVars, refreshMu, refresh, newTorrents, diskVars, open>>

-----------------------------------------------------------------------------
Continue(t) ==
    \/ SetLookup(t) \/ SetMerge(t) \/ SetStore(t) \/ Save(t)
    \/ GenerateDownloadLinks(t)
    \/ Lock(t) \/ DelGet(t) \/ DelRemove(t) \/ DelName(t) \/ DelEntry(t) \/ DelDB(t)

Call(t, i) ==
    RefreshTorrent(t, i) \/ AddTorrent(t, i) \/ DeleteTorrent(t, i) \/ DeleteTorrents(t, i)

Background ==
    \/ RefreshList \/ RefreshCompare \/ RefreshDone
    \/ \E i \in Ids : ProcessSkip(i) \/ ValidateKeeps(i)
    \/ \E t \in Threads, i \in Ids : ProcessTorrent(t, i) \/ ValidateDeletes(t, i)
    \/ \E s \in Slots : SaveLands(s)

Account == \E i \in Ids : DebridAdd(i) \/ DebridRemove(i)

Next ==
    \/ Account
    \/ CallersStop
    \/ \E t \in Threads, i \in Ids : Call(t, i)
    \/ \E t \in Threads : Continue(t)
    \/ Background

Spec == Init /\ [][Next]_vars

-----------------------------------------------------------------------------
(* What the code keeps, whatever the interleaving                          *)

\* Nothing under a folder comes from a torrent of another folder: the entry's
\* struct and every file merged into it belong there, although several
\* goroutines merge, trim and re-label shared structs without a lock.
FolderCoherent ==
    \A n \in Names : byName[n] # None =>
        LET torrent == heap[byName[n]] IN
          /\ FolderOf[torrent.origin] = n
          /\ \A f \in FileNames : torrent.files[f] # None =>
                /\ FolderOf[torrent.files[f]] = n
                /\ f \in FilesOf[torrent.files[f]]

\* DeleteTorrent's critical section and a refresh exclude each other through
\* torrentsRefreshMu, also while the refresh's workers are still setting.
Deleting(t) == loc[t].by = "caller" /\ refreshMu = t
RefreshExclusive ==
    /\ \A t \in Threads : Deleting(t) => refresh.pc = "idle"
    /\ refresh.pc # "idle" => refreshMu = Refresher
    /\ (\E t \in Threads : loc[t].by = "refresh") \/ newTorrents # {} => refresh.pc = "waiting"

\* A torrent the service has is dropped from the cache only by a caller's
\* delete: a listing that is older than the torrent, or that misses it, is not
\* enough, because validateAndDeleteTorrents asks again before it deletes.
NoFalseDeletion ==
    [][\A i \in Ids :
         byID[i] # None /\ byID'[i] = None /\ debrid[i] = "present"
           => \E t \in Threads : loc[t].by = "caller" /\ loc[t].pc = "delRemove" /\ loc[t].id = i]_vars

-----------------------------------------------------------------------------
(* What a folder serves                                                    *)

Served(n, f) == IF byName[n] = None THEN None ELSE heap[byName[n]].files[f]

AtRest == \A t \in Threads : loc[t].pc \in {"idle", "lock", "generate"}

\* Between operations every file of every cached torrent is served in the
\* torrent's folder, by that torrent or by another of the folder.
ViewComplete ==
    AtRest => \A i \in CachedIds : \A f \in FilesOf[i] : Served(FolderOf[i], f) # None

\* Between operations nothing is served from a torrent that was deleted, unless
\* its folder is not named like it: deleteTorrent does not find the entry then.
ViewCurrent ==
    AtRest => \A n \in Names, f \in FileNames :
        Served(n, f) \in CachedIds \cup {None} \cup {i \in Ids : NameOf[i] # FolderOf[i]}

\* Between operations a cached torrent has its file on disk, or a write of it
\* is pending, so a restart finds it again.
Persisted ==
    AtRest => \A i \in CachedIds : i \in disk \/ \E s \in Slots : saving[s] = i

-----------------------------------------------------------------------------
(* The scheduler keeps calling refreshTorrents, goroutines keep running    *)

Fairness ==
    /\ WF_vars(CallersStop)
    /\ \A t \in Threads : WF_vars(Continue(t) /\ loc[t].pc # "lock") /\ SF_vars(Lock(t))
    /\ WF_vars(RefreshList) /\ WF_vars(RefreshCompare) /\ WF_vars(RefreshDone)
    /\ \A i \in Ids : /\ WF_vars(ValidateKeeps(i))
                      /\ SF_vars(\E t \in Threads : ProcessTorrent(t, i))
                      /\ SF_vars(\E t \in Threads : ValidateDeletes(t, i))

FairSpec == Spec /\ Fairness

\* Once nobody calls in and the account is left alone, the cached ids come to
\* be the torrents of the account and stay so, whatever was interleaved
\* before; an account that became empty is the exception refreshTorrents makes.
Converges ==
    <>[](Present # {} => CachedIds = Present)
=============================================================================
