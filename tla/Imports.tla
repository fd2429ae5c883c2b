------------------------------- MODULE Imports -------------------------------
(***************************************************************************)
(* Adding a magnet (pkg/qbit): Process hands it to a debrid client         *)
(* (debrid.ProcessTorrent), and, once the client takes it, ProcessFiles    *)
(* polls the client, puts the files in place and reports the result        *)
(* through the storage, while API calls relabel and delete torrents and    *)
(* the services may be restarted.                                          *)
(*                                                                         *)
(* A torrent's name, folder and files are those of its hash.               *)
(***************************************************************************)
EXTENDS TorrentStorage, DebridClients

CONSTANTS
    CategoryOf,     \* the category an import asks for; its arr's name
    Symlinks,       \* imports with isSymlink
    Override,       \* imports with overrideDownloadUncached
    ArrUncached,    \* the arr's DownloadUncached, None where it is nil
    Clients, KindOf,
    ClientUncached, \* a client's DownloadUncached
    WithCache,      \* clients with a WebDAV cache
    Files,          \* numbers of a torrent's files
    MaxDownloads,   \* capacity of downloadSemaphore
    MaxCalls,       \* bound: calls of API operations, and restarts
    Ops             \* the API operations used in this instance

Operations == {"SetCategory", "Delete", "DeleteMultiple"}

\* Structs are named by the import they were made for or, as json.Unmarshal makes
\* others, by a start and their key in the file.
ASSUME ConstantsAssumption ==
    /\ IsFiniteSet(Imports) /\ Imports # {} /\ Imports \cap Parsed = {}
    /\ HashOf \in [Imports -> Hashes]
    /\ CategoryOf \in [Imports -> Categories]
    /\ Symlinks \subseteq Imports /\ Override \subseteq Imports
    /\ ArrUncached \in [Imports -> BOOLEAN \cup {None}]
    /\ KindOf \in [Clients -> Kinds] /\ ClientUncached \in [Clients -> BOOLEAN]
    /\ WithCache \subseteq Clients /\ Files \subseteq Nat /\ IsFiniteSet(Files)
    /\ MaxDownloads \in Nat \ {0} /\ MaxSaves \in Nat \ {0} /\ MaxRestarts \in Nat
    /\ MaxCalls \in Nat
    /\ Ops \subseteq Operations
    /\ None \notin Imports \cup Parsed \cup Categories \cup Clients \cup BOOLEAN \cup Torrent \cup Saved

VARIABLES
    at,       \* every import's goroutine: control point and locals
    remote,   \* its torrent at the service
    deleting, \* imports whose torrent a goroutine is about to delete there
    calls,    \* API operations called, and restarts, so far
    alive     \* FALSE after a panic outside of any recover

vars == <<storageVars, at, remote, deleting, calls, alive>>

PCs == {"new", "submit", "check", "rejected", "loop", "place", "link", "download",
        "update", "done", "abandoned"}

Local == [pc : PCs, start : Starts, client : Clients \cup {None}, tried : SUBSET Clients,
          uncached : BOOLEAN, files : [Files -> {"todo", "running", "done", "failed"}]]

\* The shape of the state, as the Go declarations give it.
TypeOK ==
    /\ StorageTypeOK
    /\ at \in [Imports -> Local]
    /\ remote \in [Imports -> Phases]
    /\ deleting \in SUBSET Imports
    /\ calls \in 0..MaxCalls /\ alive \in BOOLEAN

\* createTorrentFromMagnet
Created(o) == [of |-> o, category |-> CategoryOf[o], state |-> "downloading", content |-> None]

Init ==
    /\ StorageInit([o \in Imports |-> Created(o)])
    /\ at = [o \in Imports |->
               [pc |-> "new", start |-> 0, client |-> None, tried |-> {}, uncached |-> FALSE,
                files |-> [f \in Files |-> "todo"]]]
    /\ remote = [o \in Imports |-> "none"]
    /\ deleting = {} /\ calls = 0 /\ alive = TRUE

\* The goroutine returns; its locals are gone.
Ended(o, pc) == [at[o] EXCEPT !.pc = pc, !.client = None, !.tried = {}, !.uncached = FALSE,
                              !.files = [f \in Files |-> "todo"]]

Become(o, l) == at' = [at EXCEPT ![o] = l]
Goto(o, pc) == Become(o, [at[o] EXCEPT !.pc = pc])

\* go client.DeleteTorrent(id)
GoDelete(o) == deleting' = deleting \cup {o}

Store(o, torrent) ==
    /\ AddOrUpdate(at[o].start, o, torrent)
    /\ UNCHANGED <<start, up, relabels, diskVars>>

\* Mutant of UpdateTorrentMin: the folder is named after the torrent.
UpdateTorrentMinByName(torrent) == [torrent EXCEPT !.content = torrent.of]

\* UpdateTorrentMin: of what it copies, ContentPath matters here.
UpdateTorrentMin(torrent) == [torrent EXCEPT !.content = torrent.category]

MarkAsFailed(o) == Store(o, [entry[o] EXCEPT !.state = "error"])

-----------------------------------------------------------------------------
(* Process and debrid.ProcessTorrent                                       *)

Process(o) ==
    /\ up /\ at[o].pc = "new"
    /\ Become(o, [at[o] EXCEPT !.pc = "submit", !.start = start,
                               !.uncached = IF o \in Override THEN TRUE
                                            ELSE ArrUncached[o] = TRUE])
    /\ UNCHANGED <<storageVars, remote, deleting>>

UncachedFor(o, c) ==
    IF o \notin Override /\ ArrUncached[o] = None THEN ClientUncached[c] ELSE at[o].uncached

\* The clients are tried in the order of a Go map.
SubmitMagnet(o, c) ==
    /\ at[o].pc = "submit" /\ c \notin at[o].tried
    /\ Become(o, [at[o] EXCEPT !.pc = "check", !.client = c, !.tried = {},
                               !.uncached = UncachedFor(o, c)])
    /\ \E phase \in SubmittedPhases(KindOf[c]) : remote' = [remote EXCEPT ![o] = phase]
    /\ UNCHANGED <<storageVars, deleting>>

\* An error, or an answer without an id: the next client.
SubmitFails(o, c) ==
    /\ at[o].pc = "submit" /\ c \notin at[o].tried
    /\ LET tried == at[o].tried \cup {c} IN
         Become(o, [at[o] EXCEPT !.pc = IF tried = Clients THEN "rejected" ELSE "submit",
                                 !.tried = tried, !.uncached = UncachedFor(o, c)])
    /\ UNCHANGED <<storageVars, remote, deleting>>

-----------------------------------------------------------------------------
(* CheckStatus, by ProcessTorrent and then in the loop of ProcessFiles     *)

\* RealDebrid: choose the files and look again, within one call.
SelectFiles(o) ==
    /\ at[o].pc \in {"check", "loop"} /\ remote[o] = "selecting"
    /\ \E phase \in {"downloading", "downloaded", "failed"} : remote' = [remote EXCEPT ![o] = phase]
    /\ UNCHANGED <<storageVars, at, deleting>>

CheckStatusOk(o) ==
    ReturnsTorrent(KindOf[at[o].client], remote[o], at[o].uncached, o \in Symlinks)

\* Any of its requests may fail as well.
CheckStatusFails(o) == remote[o] # "none"

\* Downloaded: out of the loop, or not into it.
AfterCheck(o) ==
    IF Status(KindOf[at[o].client], remote[o]) = "downloaded" THEN "place" ELSE "loop"


\* ProcessTorrent deletes what was not downloaded, Process returns the error.
Rejected(o) ==
    /\ at[o].pc = "check" /\ CheckStatusFails(o)
    /\ Become(o, Ended(o, "rejected")) /\ GoDelete(o)
    /\ UNCHANGED <<storageVars, remote>>

Accepted(o) ==
    /\ at[o].pc = "check" /\ CheckStatusOk(o)
    /\ Store(o, UpdateTorrentMin(entry[o]))
    /\ Goto(o, AfterCheck(o))
    /\ UNCHANGED <<remote, deleting>>

CheckAgain(o) ==
    /\ at[o].pc = "loop" /\ CheckStatusOk(o)
    /\ entry' = [entry EXCEPT ![o] = UpdateTorrentMin(@)]
    /\ Goto(o, AfterCheck(o))
    /\ UNCHANGED <<start, up, torrents, relabels, saves, diskVars, remote, deleting>>

CheckAgainFails(o) ==
    /\ at[o].pc = "loop" /\ CheckStatusFails(o)
    /\ GoDelete(o) /\ MarkAsFailed(o)
    /\ Become(o, Ended(o, "done"))
    /\ UNCHANGED remote

-----------------------------------------------------------------------------
(* ProcessFiles: putting the files in place                                *)

Place(o) == <<CategoryOf[o], HashOf[o]>>

\* Engine.Reset takes the caches away from goroutines of an earlier start.
UseWebdav(o) == at[o].client \in WithCache /\ at[o].start = start /\ up

\* cache.AddTorrent and createSymlinksWebdav; or ProcessSymlink, once
\* getTorrentPath has found the folder in the mount.
StartLinks(o) ==
    /\ at[o].pc = "place" /\ o \in Symlinks
    /\ Goto(o, "link")
    /\ UNCHANGED <<storageVars, remote, deleting>>

\* The only failure that leaves the torrent at the service.
CacheFails(o) ==
    /\ at[o].pc = "place" /\ o \in Symlinks /\ UseWebdav(o)
    /\ MarkAsFailed(o)
    /\ Become(o, Ended(o, "abandoned"))
    /\ UNCHANGED <<remote, deleting>>

PutFile(o, f) == folder' = [folder EXCEPT ![Place(o)] = @ \cup {f}]

\* The mount shows the file.
LinkFile(o, f) ==
    /\ at[o].pc = "link" /\ at[o].files[f] = "todo"
    /\ PutFile(o, f)
    /\ Become(o, [at[o] EXCEPT !.files[f] = "done"])
    /\ UNCHANGED <<start, up, mapVars, relabels, file, saves, removed, remote, deleting>>

\* MkdirAll fails, or the mount does not show the files for thirty minutes.
PlaceFails(o) ==
    /\ \/ at[o].pc = "place"
       \/ at[o].pc = "link" /\ \E f \in Files : at[o].files[f] = "todo"
    /\ GoDelete(o) /\ MarkAsFailed(o)
    /\ Become(o, Ended(o, "done"))
    /\ UNCHANGED remote

\* ProcessManualFile: downloadFiles starts them one by one ...
StartDownloads(o) ==
    /\ at[o].pc = "place" /\ o \notin Symlinks
    /\ Goto(o, "download")
    /\ UNCHANGED <<storageVars, remote, deleting>>

Downloading(s) == {p \in Imports \X Files : at[p[1]].start = s /\ at[p[1]].files[p[2]] = "running"}

\* qb.Reset() closes the semaphore.
Closed(s) == s # start \/ ~up

\* A file without a download link is only logged.
SkipFile(o, f) ==
    /\ at[o].pc = "download" /\ at[o].files[f] = "todo"
    /\ Become(o, [at[o] EXCEPT !.files[f] = "failed"])
    /\ UNCHANGED <<storageVars, remote, deleting>>

DownloadFile(o, f) ==
    /\ at[o].pc = "download" /\ at[o].files[f] = "todo" /\ ~Closed(at[o].start)
    /\ Cardinality(Downloading(at[o].start)) < MaxDownloads
    /\ Become(o, [at[o] EXCEPT !.files[f] = "running"])
    /\ UNCHANGED <<storageVars, remote, deleting>>

\* ... and its errors are logged only.  The progress callback updates the
\* struct.
DownloadEnds(o, f) ==
    /\ at[o].pc = "download" /\ at[o].files[f] = "running"
    /\ \/ PutFile(o, f) /\ Become(o, [at[o] EXCEPT !.files[f] = "done"])
       \/ UNCHANGED folder /\ Become(o, [at[o] EXCEPT !.files[f] = "failed"])
    /\ entry' = [entry EXCEPT ![o] = UpdateTorrentMin(@)]
    /\ UNCHANGED <<start, up, torrents, relabels, file, saves, removed, remote, deleting>>

\* A send on the closed semaphore panics, and nothing recovers; nor from Torbox's
\* answer without data.
Panics(o) ==
    /\ \/ /\ at[o].pc = "download" /\ Closed(at[o].start)
          /\ \E f \in Files : at[o].files[f] = "todo"
       \/ at[o].pc = "loop" /\ ListsNothing(KindOf[at[o].client], remote[o])
    /\ alive' = FALSE
    /\ UNCHANGED <<storageVars, at, remote, deleting, calls>>

\* wg.Wait(), or no file left to link: TorrentPath is set.
Placed(o) ==
    /\ \/ at[o].pc = "link" /\ \A f \in Files : at[o].files[f] = "done"
       \/ at[o].pc = "download" /\ \A f \in Files : at[o].files[f] \in {"done", "failed"}
    /\ Goto(o, "update")
    /\ entry' = [entry EXCEPT ![o].content = CategoryOf[o]]
    /\ UNCHANGED <<start, up, torrents, relabels, saves, diskVars, remote, deleting>>

\* Mutant of IsReady: any path is enough.
AnyPath(o) == TRUE

\* Links keep the service's progress, downloads count their own bytes.
IsReady(o) == o \in Symlinks \/ \A f \in Files : at[o].files[f] = "done"

\* UpdateTorrent calls itself every 100 ms until the torrent is ready; the
\* timer of ten minutes is a new one each time.
UpdateTorrent(o) ==
    /\ at[o].pc = "update" /\ IsReady(o)
    /\ Store(o, [entry[o] EXCEPT !.state = "pausedUP"])
    /\ Become(o, Ended(o, "done"))
    /\ UNCHANGED <<remote, deleting>>

-----------------------------------------------------------------------------
(* The service, and API calls with what they do there                      *)

RemoteEnds(o) ==
    /\ remote[o] = "downloading"
    /\ \E phase \in {"downloaded", "failed"} : remote' = [remote EXCEPT ![o] = phase]
    /\ UNCHANGED <<storageVars, at, deleting>>

\* The goroutine GoDelete started; its error is ignored.
DeleteRemote(o) ==
    /\ o \in deleting
    /\ deleting' = deleting \ {o}
    /\ remote' = [remote EXCEPT ![o] = "gone"]
    /\ UNCHANGED <<storageVars, at>>

\* Also for the tags, without a category.
ApiSetCategory(hashes, category) ==
    /\ "SetCategory" \in Ops /\ GetAll(hashes, category)
    /\ UNCHANGED <<at, remote, deleting>>

\* With removeFromDebrid the torrent is deleted there under the storage's lock.
ApiDelete(k) ==
    /\ "Delete" \in Ops /\ Delete(k)
    /\ \/ UNCHANGED remote
       \/ remote' = [remote EXCEPT ![entry[torrents[start][k]].of] = "gone"]
    /\ UNCHANGED <<at, deleting>>

\* ... here by a goroutine.
ApiDeleteMultiple(h) ==
    /\ "DeleteMultiple" \in Ops /\ DeleteMultiple(h)
    /\ \/ UNCHANGED deleting
       \/ deleting' = deleting \cup {entry[torrents[start][k]].of : k \in
                          {l \in Listed(start) : HashIn(torrents[start][l]) = h}}
    /\ UNCHANGED <<at, remote>>

-----------------------------------------------------------------------------
Api ==
    \/ \E hashes \in (SUBSET Hashes) \ {{}}, category \in Categories \cup {None} :
         ApiSetCategory(hashes, category)
    \/ \E k \in Keys : ApiDelete(k)
    \/ \E h \in Hashes : ApiDeleteMultiple(h)

Restart == Reset /\ UNCHANGED <<at, remote, deleting>>

\* What comes from outside, as often as the instance allows.
Outside ==
    /\ calls < MaxCalls /\ calls' = calls + 1
    /\ Api \/ Restart

Save(save) == (SaveReads(save) \/ SaveWrites(save)) /\ UNCHANGED <<at, remote, deleting>>

\* What the goroutine of an import does next, beside its downloads.
Continue(o) ==
    \/ \E c \in Clients : SubmitMagnet(o, c) \/ SubmitFails(o, c)
    \/ SelectFiles(o) \/ Rejected(o) \/ Accepted(o) \/ CheckAgain(o) \/ CheckAgainFails(o)
    \/ StartLinks(o) \/ CacheFails(o) \/ PlaceFails(o) \/ StartDownloads(o)
    \/ \E f \in Files : LinkFile(o, f) \/ SkipFile(o, f) \/ DownloadFile(o, f)
    \/ Placed(o) \/ UpdateTorrent(o)

Background ==
    \/ \E o \in Imports : Process(o) \/ Continue(o) \/ RemoteEnds(o) \/ DeleteRemote(o)
    \/ \E o \in Imports, f \in Files : DownloadEnds(o, f)
    \/ \E r \in relabels : SetCategory(r) /\ UNCHANGED <<at, remote, deleting>>
    \/ \E save \in saves : Save(save)
    \/ Load /\ UNCHANGED <<at, remote, deleting>>

Next ==
    /\ alive
    /\ \/ Background /\ UNCHANGED <<calls, alive>>
       \/ Outside /\ UNCHANGED alive
       \/ \E o \in Imports : Panics(o)

Spec == Init /\ [][Next]_vars

\* Goroutines go on, requests to a debrid service end (they have a timeout), the
\* service finishes or gives up what it downloads.  No request has to fail: where
\* a client can answer, only the answer is fair.  Nothing makes a download end, and
\* nothing makes the mount show a folder: these have no timeout.
Answered(o) == at[o].pc \in {"check", "loop"} /\ CheckStatusOk(o)

WaitsForMount(o) == at[o].pc = "place" /\ o \in Symlinks /\ ~UseWebdav(o)

Goes(o) ==
    /\ at[o].pc \notin {"new", "rejected", "done", "abandoned"}
    /\ IF Answered(o) THEN Accepted(o) \/ CheckAgain(o)
       ELSE ~WaitsForMount(o) /\ Continue(o)

Runs(step) == alive /\ step /\ UNCHANGED <<calls, alive>>

Fairness ==
    /\ \A o \in Imports : /\ WF_vars(Runs(Goes(o)) \/ (alive /\ Panics(o)))
                          /\ WF_vars(Runs(RemoteEnds(o))) /\ WF_vars(Runs(DeleteRemote(o)))
    /\ WF_vars(Runs(\E save \in saves : Save(save)))

FairSpec == Spec /\ Fairness

-----------------------------------------------------------------------------
(* Properties                                                              *)

\* A torrent is shown to the arrs as pausedUP, also after a restart, only when
\* all its files are in its folder, until somebody deletes the folder: errors
\* of single downloads, which the code only logs, do not slip through.
CompleteMeansPlaced ==
    \A x \in Objects :
        LET place == Place(entry[x].of) IN
          entry[x].state = "pausedUP" => folder[place] = Files \/ place \in removed

\* An accepted torrent can be found by its hash from the answer to the request
\* on, whatever is relabelled, until its hash is deleted or the services are
\* restarted: the arr would otherwise grab the release again.
AcceptedIsListed ==
    \A o \in Imports :
        /\ at[o].pc \notin {"new", "submit", "check", "rejected"}
        /\ at[o].start = start /\ up
        /\ \A category \in Categories : <<category, HashOf[o]>> \notin removed
        => \E k \in Listed(start) : HashIn(torrents[start][k]) = HashOf[o]

\* What a client took ends, for good, as a complete torrent or deleted at the
\* service, or the program is gone.  The exceptions: a cache that refuses the
\* torrent; a mount that never shows its folder, which getTorrentPath polls for
\* without end; a download that never ends, here or where a slot of the semaphore
\* is waited for; one that failed, after which UpdateTorrent never returns; and a
\* torrent DebridLink has given up, whose status stays "downloading".
Forgotten(o) ==
    \/ at[o].pc = "abandoned"
    \/ WaitsForMount(o)
    \/ at[o].pc = "download" /\ Downloading(at[o].start) # {}
    \/ \E f \in Files : at[o].files[f] = "failed"
    \/ at[o].pc = "loop" /\ KindOf[at[o].client] = "debridlink" /\ remote[o] = "failed"

=============================================================================
