--------------------------- MODULE TorrentStorage ---------------------------
(***************************************************************************)
(* The torrents the qBittorrent API shows (pkg/qbit/storage.go): a map     *)
(* from (hash, category) to shared *Torrent structs, written to            *)
(* torrents.json by a goroutine of its own after every change, and read    *)
(* back when the services are started again.                               *)
(*                                                                         *)
(* A goroutine of an earlier start keeps its old, emptied storage and      *)
(* writes the same file.  os.WriteFile is one step here.                   *)
(***************************************************************************)
EXTENDS Naturals, FiniteSets

CONSTANTS
    Imports,     \* magnets that are added; each makes one *Torrent
    Hashes, HashOf,
    Categories,  \* "uncategorized" among them
    MaxSaves,    \* bound: saves that may be in flight
    MaxRestarts, \* bound: restarts of the services
    None

VARIABLES
    start,    \* how often the services were restarted
    up,       \* FALSE between qb.Reset() and qbit.New()
    torrents, \* the map of every start
    entry,    \* the *Torrent structs
    file,     \* torrents.json
    relabels, \* torrents a request has listed and is about to relabel
    saves,    \* saveToFile goroutines; equal ones, which write the same, count once
    folder,   \* the files under DownloadFolder/category/name
    removed   \* folders that a deletion has removed (history)

mapVars  == <<torrents, entry>>
diskVars == <<file, folder, removed>>
storageVars == <<start, up, mapVars, relabels, saves, diskVars>>

Starts == 0..MaxRestarts

\* keyPair(hash, category)
Keys == Hashes \X Categories

\* A struct is made by Process for an import, or by json.Unmarshal at a start after
\* the first, under a key.
Parsed == (Starts \ {0}) \X Keys
Objects == Imports \cup Parsed

\* One round of a request's loop, under the start whose storage it has; without
\* a category it sets or removes tags.
Relabel == [start : Starts, of : Objects, category : Categories \cup {None}]

\* ID and Hash are those of the import; ContentPath is a category's folder.
Torrent == [of : Imports, category : Categories,
            state : {"downloading", "error", "pausedUP"},
            content : Categories \cup {None}]

Unused == CHOOSE e \in Torrent : e.state = "downloading"

\* The file holds the structs by value.
Saved == [Keys -> Torrent \cup {None}]

HashIn(x) == HashOf[entry[x].of]
Listed(s) == {k \in Keys : torrents[s][k] # None}

StorageTypeOK ==
    /\ start \in Starts /\ up \in BOOLEAN
    /\ torrents \in [Starts -> [Keys -> Objects \cup {None}]]
    /\ entry \in [Objects -> Torrent]
    /\ file \in Saved
    /\ relabels \in SUBSET Relabel
    /\ saves \in SUBSET [start : Starts, data : Saved \cup {None}]
    /\ folder \in [Categories \X Hashes -> SUBSET Nat]
    /\ removed \in SUBSET (Categories \X Hashes)

Nothing == [k \in Keys |-> None]

StorageInit(created) ==
    /\ start = 0 /\ up = TRUE
    /\ torrents = [s \in Starts |-> Nothing]
    /\ entry = [x \in Objects |-> IF x \in Imports THEN created[x] ELSE Unused]
    /\ file = Nothing /\ relabels = {} /\ saves = {}
    /\ folder = [p \in Categories \X Hashes |-> {}] /\ removed = {}

-----------------------------------------------------------------------------
(* Changing the map                                                        *)

\* go saveToFile()
GoSave(s) ==
    /\ Cardinality(saves) < MaxSaves
    /\ saves' = saves \cup {[start |-> s, data |-> None]}

Put(map, hash, category, x) == [map EXCEPT ![<<hash, category>>] = x]

\* Add, AddOrUpdate and Update: the struct x, with its new contents, under the
\* category it has by now.
AddOrUpdate(s, x, torrent) ==
    /\ entry' = [entry EXCEPT ![x] = torrent]
    /\ torrents' = [torrents EXCEPT ![s] = Put(@, HashOf[torrent.of], torrent.category, x)]
    /\ GoSave(s)

\* handleSetCategory, handleAddTorrentTags, handleRemoveTorrentTags: the structs
\* of some hashes.  GetAll does not look at the keys.
GetAll(hashes, category) ==
    LET ks == {k \in Listed(start) : HashIn(torrents[start][k]) \in hashes}
    IN  /\ up
        /\ relabels' = relabels \cup
             {[start |-> start, of |-> torrents[start][k], category |-> category] : k \in ks}
        /\ UNCHANGED <<start, up, mapVars, saves, diskVars>>

Relabelled(r) == [entry[r.of] EXCEPT !.category = IF r.category = None THEN @ ELSE r.category]

\* Mutant of SetCategory: the old key is deleted, the new one forgotten.
SetCategoryDropping(r) ==
    /\ r \in relabels /\ relabels' = relabels \ {r}
    /\ entry' = [entry EXCEPT ![r.of] = Relabelled(r)]
    /\ torrents' = [torrents EXCEPT ![r.start][<<HashIn(r.of), entry[r.of].category>>] = None]
    /\ GoSave(r.start)
    /\ UNCHANGED <<start, up, diskVars>>

\* Then one by one, without the lock in between: a struct that was deleted
\* meanwhile is put back, and keys of former categories stay.
SetCategory(r) ==
    /\ r \in relabels /\ relabels' = relabels \ {r}
    /\ AddOrUpdate(r.start, r.of, Relabelled(r))
    /\ UNCHANGED <<start, up, diskVars>>

\* os.RemoveAll(torrent.ContentPath) of the structs xs
RemoveFolders(xs) ==
    LET places == {<<entry[x].content, HashIn(x)>> : x \in {y \in xs : entry[y].content # None}}
    IN  /\ folder' = [p \in DOMAIN folder |-> IF p \in places THEN {} ELSE folder[p]]
        /\ removed' = removed \cup places

RemoveKeys(ks) ==
    /\ torrents' = [torrents EXCEPT ![start] = [k \in Keys |-> IF k \in ks THEN None ELSE @[k]]]
    /\ RemoveFolders({torrents[start][k] : k \in ks})
    /\ GoSave(start)
    /\ UNCHANGED <<start, up, entry, relabels, file>>

\* Delete(hash, category): the key asked for, or without a category any key
\* whose struct has the hash.
Delete(k) == up /\ k \in Listed(start) /\ RemoveKeys({k})

\* DeleteMultiple(hashes)
DeleteMultiple(h) ==
    LET ks == {k \in Listed(start) : HashIn(torrents[start][k]) = h}
    IN  up /\ ks # {} /\ RemoveKeys(ks)

-----------------------------------------------------------------------------
(* saveToFile                                                              *)

Snapshot(s) ==
    [k \in Keys |-> IF torrents[s][k] = None THEN None ELSE entry[torrents[s][k]]]

\* MarshalIndent under the read lock ...
SaveReads(save) ==
    /\ save \in saves /\ save.data = None
    /\ saves' = (saves \ {save}) \cup {[save EXCEPT !.data = Snapshot(save.start)]}
    /\ UNCHANGED <<start, up, mapVars, relabels, diskVars>>

\* ... and os.WriteFile without it.
SaveWrites(save) ==
    /\ save \in saves /\ save.data # None
    /\ file' = save.data
    /\ saves' = saves \ {save}
    /\ UNCHANGED <<start, up, mapVars, relabels, folder, removed>>

-----------------------------------------------------------------------------
(* Restarting the services in the running process                          *)

\* qb.Reset(): the storage is emptied; goroutines, requests and saves go on with it.
Reset ==
    /\ up /\ start < MaxRestarts
    /\ up' = FALSE
    /\ torrents' = [torrents EXCEPT ![start] = Nothing]
    /\ UNCHANGED <<start, entry, relabels, saves, diskVars>>

\* qbit.New() reads the file into structs of its own.
Load ==
    /\ ~up
    /\ up' = TRUE /\ start' = start + 1
    /\ torrents' = [torrents EXCEPT ![start'] =
                      [k \in Keys |-> IF file[k] = None THEN None ELSE <<start', k>>]]
    /\ entry' = [x \in Objects |->
                   IF x \in {start'} \X {k \in Keys : file[k] # None} THEN file[x[2]] ELSE entry[x]]
    /\ UNCHANGED <<relabels, saves, diskVars>>
=============================================================================
