------------------------------ MODULE Reinsert ------------------------------
(***************************************************************************)
(* Repairing a broken torrent by adding its magnet again                   *)
(* (pkg/debrid/debrid/repair.go): reInsertTorrent with its table of        *)
(* requests in flight, on which later callers wait, and the set of         *)
(* torrents that failed and are not tried again.                           *)
(*                                                                         *)
(* One release is followed through its re-insertions: every accepted       *)
(* submission gets a fresh id from the service.  The cache is kept at the  *)
(* level of ids; TorrentCache has what one setTorrent or deleteTorrent     *)
(* does.                                                                   *)
(***************************************************************************)
EXTENDS Naturals, FiniteSets

CONSTANTS
    Threads,   \* goroutines: streams, repair workers, link generation
    Requests,  \* addresses of reInsertRequest structs; bounds how many are live
    MaxId,     \* bound: ids the service hands out
    Errors,    \* whether SubmitMagnet, CheckStatus, DeleteTorrent and GetTorrent may fail
    None

ASSUME ConstantsAssumption ==
    /\ MaxId \in Nat \ {0}
    /\ Errors \in BOOLEAN
    /\ IsFiniteSet(Threads)
    /\ None \notin Requests \cup Nat

VARIABLES
    cached,   \* torrents.byID
    debrid,   \* ids of the release the service has
    nextId,   \* the id the service gives next
    bad,      \* cached ids with Bad set
    dropped,  \* ghost: ids that were taken for deleted and not cached again since
    failed,   \* failedToReinsert
    inFlight, \* repairRequest: id -> request
    result,   \* what a request was completed with; None while done is open, and
              \* Lost (history) once the call that should close it has failed
    erred,    \* requests that were completed with an error as well
    loc       \* control point and locals of every goroutine

debridVars == <<debrid, nextId>>
cacheVars  == <<cached, bad, dropped>>
answerVars == <<result, erred>>
vars == <<cacheVars, debridVars, failed, inFlight, answerVars, loc>>

Ids == 1..MaxId
Lost == 0

PCs == {"idle", "load", "store", "wait", "submit", "status", "set", "delete",
        "deleteRemote", "complete", "markOk", "unmark", "findOk", "clearBad",
        "markFailed", "findFailed", "setBad", "cleanup"}

Idle == [pc |-> "idle", old |-> None, new |-> None, req |-> None]

\* Goroutines that run a re-insertion themselves.
Running(t) == loc[t].pc \notin {"idle", "load", "wait"}

Referenced(r) == (\E i \in Ids : inFlight[i] = r) \/ (\E t \in Threads : loc[t].req = r)

\* The shape of the state, as the Go declarations give it.
TypeOK ==
    /\ cached \in SUBSET Ids /\ bad \in SUBSET Ids /\ failed \in SUBSET Ids
    /\ dropped \in SUBSET Ids /\ erred \in SUBSET Requests
    /\ debrid \in SUBSET Ids /\ nextId \in 1..(MaxId + 1)
    /\ inFlight \in [Ids -> Requests \cup {None}]
    /\ result \in [Requests -> Ids \cup {None, Lost}]
    /\ loc \in [Threads -> [pc : PCs, old : Ids \cup {None}, new : Ids \cup {None},
                            req : Requests \cup {None}]]

\* The release is in the account and in the cache, with id 1.
Init ==
    /\ cached = {1} /\ bad = {} /\ dropped = {} /\ failed = {}
    /\ debrid = {1} /\ nextId = 2
    /\ inFlight = [i \in Ids |-> None]
    /\ result = [r \in Requests |-> None] /\ erred = {}
    /\ loc = [t \in Threads |-> Idle]

Goto(t, pc) == loc' = [loc EXCEPT ![t].pc = pc]

-----------------------------------------------------------------------------
(* Entering reInsertTorrent                                                *)

\* A caller found i broken (IsTorrentBroken, fetchDownloadLink, repairWorker).
\* An id that has failed before returns an error at once.  The guard on nextId
\* is the bound: a call is let in while an id is left for its submission.
Call(t, i) ==
    /\ loc[t] = Idle /\ i \in cached
    /\ i \notin failed
    /\ nextId + Cardinality({u \in Threads : loc[u].pc \in {"load", "store", "submit"}}) <= MaxId
    /\ loc' = [loc EXCEPT ![t] = [Idle EXCEPT !.pc = "load", !.old = i]]
    /\ UNCHANGED <<cacheVars, debridVars, failed, inFlight, answerVars>>

LoadRequest(t) ==
    /\ loc[t].pc = "load"
    /\ IF inFlight[loc[t].old] # None
         THEN loc' = [loc EXCEPT ![t].pc = "wait", ![t].req = inFlight[loc[t].old]]
         ELSE Goto(t, "store")
    /\ UNCHANGED <<cacheVars, debridVars, failed, inFlight, answerVars>>

\* A request of its own, stored over whatever is there by now.
StoreRequest(t) ==
    /\ loc[t].pc = "store"
    /\ \E r \in Requests :
         /\ ~Referenced(r)
         /\ inFlight' = [inFlight EXCEPT ![loc[t].old] = r]
         /\ loc' = [loc EXCEPT ![t].pc = "submit", ![t].req = r]
         /\ result' = [result EXCEPT ![r] = None] /\ erred' = erred \ {r}
    /\ UNCHANGED <<cacheVars, debridVars, failed>>

\* Wait() returns when Complete has closed done: without an error the caller goes
\* on with the result, with one it gives up.
WaitReturns(t) ==
    /\ loc[t].pc = "wait"
    /\ result[loc[t].req] \notin {None, Lost}
    /\ loc' = [loc EXCEPT ![t] = Idle]
    /\ UNCHANGED <<cacheVars, debridVars, failed, inFlight, answerVars>>

-----------------------------------------------------------------------------
(* Submitting and checking the new torrent                                 *)

\* Mutant of SubmitMagnet: that the service gave an id is not tested.
SubmitUntested(t) ==
    /\ loc[t].pc = "submit"
    /\ \/ /\ debrid' = debrid \cup {nextId} /\ nextId' = nextId + 1
          /\ loc' = [loc EXCEPT ![t].pc = "status", ![t].new = nextId]
       \/ Goto(t, "status") /\ UNCHANGED debridVars
    /\ UNCHANGED <<cacheVars, failed, inFlight, answerVars>>

SubmitMagnet(t) ==
    /\ loc[t].pc = "submit"
    /\ debrid' = debrid \cup {nextId} /\ nextId' = nextId + 1
    /\ loc' = [loc EXCEPT ![t].pc = "status", ![t].new = nextId]
    /\ UNCHANGED <<cacheVars, failed, inFlight, answerVars>>

SubmitFails(t) ==
    /\ Errors /\ loc[t].pc = "submit"
    /\ Goto(t, "markFailed")
    /\ UNCHANGED <<cacheVars, debridVars, failed, inFlight, answerVars>>

\* Mutant of StatusReady: the old torrent is deleted without the new one set.
ReadyWithoutSet(t) ==
    /\ loc[t].pc = "status"
    /\ Goto(t, "delete")
    /\ UNCHANGED <<cacheVars, debridVars, failed, inFlight, answerVars>>

StatusReady(t) ==
    /\ loc[t].pc = "status"
    /\ Goto(t, "set")
    /\ UNCHANGED <<cacheVars, debridVars, failed, inFlight, answerVars>>

\* Not downloaded: the new torrent is deleted from the service.
StatusFails(t) ==
    /\ Errors /\ loc[t].pc = "status"
    /\ debrid' = debrid \ {loc[t].new}
    /\ Goto(t, "markFailed")
    /\ UNCHANGED <<cacheVars, nextId, failed, inFlight, answerVars>>

\* Downloaded, but a file has an empty link: the new torrent stays there.
LinkEmpty(t) ==
    /\ Errors /\ loc[t].pc = "status"
    /\ Goto(t, "markFailed")
    /\ UNCHANGED <<cacheVars, debridVars, failed, inFlight, answerVars>>

-----------------------------------------------------------------------------
(* Replacing the old torrent                                               *)

SetNew(t) ==
    /\ loc[t].pc = "set"
    /\ cached' = cached \cup {loc[t].new} /\ bad' = bad \ {loc[t].new}
    /\ dropped' = dropped \ {loc[t].new}
    /\ Goto(t, "delete")
    /\ UNCHANGED <<debridVars, failed, inFlight, answerVars>>

\* DeleteTorrent: from the cache, then (deferred) from the service.
DeleteOld(t) ==
    /\ loc[t].pc = "delete"
    /\ cached' = cached \ {loc[t].old} /\ bad' = bad \ {loc[t].old}
    /\ UNCHANGED dropped
    /\ Goto(t, IF loc[t].old \in cached THEN "deleteRemote" ELSE "complete")
    /\ UNCHANGED <<debridVars, failed, inFlight, answerVars>>

\* Its error is ignored.
DeleteOldRemote(t) ==
    /\ loc[t].pc = "deleteRemote"
    /\ debrid' = debrid \ {loc[t].old} \/ (Errors /\ debrid' = debrid)
    /\ Goto(t, "complete")
    /\ UNCHANGED <<cacheVars, nextId, failed, inFlight, answerVars>>

\* Mutant of Complete: waiters get the torrent the call began with.
CompleteWithOld(t) ==
    /\ loc[t].pc = "complete"
    /\ result' = [result EXCEPT ![loc[t].req] = loc[t].old] /\ UNCHANGED erred
    /\ Goto(t, "markOk")
    /\ UNCHANGED <<cacheVars, debridVars, failed, inFlight>>

\* Mutant of Complete: forgotten, as it is on the error paths.
CompleteForgotten(t) ==
    /\ loc[t].pc = "complete"
    /\ Goto(t, "markOk")
    /\ UNCHANGED <<cacheVars, debridVars, failed, inFlight, answerVars>>

\* err is what time.Parse left in it: an error whenever the new torrent has no time
\* it was added, as with Real-Debrid's client, which gives it none here.
Complete(t) ==
    /\ loc[t].pc = "complete"
    /\ result' = [result EXCEPT ![loc[t].req] = loc[t].new]
    /\ erred' = erred \/ erred' = erred \cup {loc[t].req}
    /\ Goto(t, "markOk")
    /\ UNCHANGED <<cacheVars, debridVars, failed, inFlight>>

\* markAsSuccessfullyReinserted(oldID): only an id marked as failed meanwhile,
\* and only if it is still, or again, cached, has its Bad flag cleared.
MarkOk(t) ==
    /\ loc[t].pc = "markOk"
    /\ Goto(t, IF loc[t].old \in failed THEN "unmark" ELSE "cleanup")
    /\ UNCHANGED <<cacheVars, debridVars, failed, inFlight, answerVars>>

Unmark(t) ==
    /\ loc[t].pc = "unmark"
    /\ failed' = failed \ {loc[t].old}
    /\ Goto(t, "findOk")
    /\ UNCHANGED <<cacheVars, debridVars, inFlight, answerVars>>

FindOk(t) ==
    /\ loc[t].pc = "findOk"
    /\ Goto(t, IF loc[t].old \in cached THEN "clearBad" ELSE "cleanup")
    /\ UNCHANGED <<cacheVars, debridVars, failed, inFlight, answerVars>>

ClearBad(t) ==
    /\ loc[t].pc = "clearBad"
    /\ cached' = cached \cup {loc[t].old} /\ bad' = bad \ {loc[t].old}
    /\ dropped' = dropped \ {loc[t].old}
    /\ Goto(t, "cleanup")
    /\ UNCHANGED <<debridVars, failed, inFlight, answerVars>>

-----------------------------------------------------------------------------
(* Failing, and the deferred cleanup                                       *)

\* markAsFailedToReinsert(oldID): the mark, the look-up and setTorrent are
\* three steps.
MarkFailed(t) ==
    /\ loc[t].pc = "markFailed"
    /\ failed' = failed \cup {loc[t].old}
    /\ result' = [result EXCEPT ![loc[t].req] = Lost] /\ UNCHANGED erred
    /\ Goto(t, "findFailed")
    /\ UNCHANGED <<cacheVars, debridVars, inFlight>>

FindFailed(t) ==
    /\ loc[t].pc = "findFailed"
    /\ Goto(t, IF loc[t].old \in cached THEN "setBad" ELSE "cleanup")
    /\ UNCHANGED <<cacheVars, debridVars, failed, inFlight, answerVars>>

SetBad(t) ==
    /\ loc[t].pc = "setBad"
    /\ cached' = cached \cup {loc[t].old} /\ bad' = bad \cup {loc[t].old}
    /\ dropped' = dropped \ {loc[t].old}
    /\ Goto(t, "cleanup")
    /\ UNCHANGED <<debridVars, failed, inFlight, answerVars>>

\* Mutant of Cleanup: the entry is removed after a success only.
CleanupOnSuccess(t) ==
    /\ loc[t].pc = "cleanup"
    /\ inFlight' = [inFlight EXCEPT ![loc[t].old] =
                       IF result[loc[t].req] = Lost THEN @ ELSE None]
    /\ loc' = [loc EXCEPT ![t] = Idle]
    /\ UNCHANGED <<cacheVars, debridVars, failed, answerVars>>

\* The deferred repairRequest.Delete(oldID), on every way out.
Cleanup(t) ==
    /\ loc[t].pc = "cleanup"
    /\ inFlight' = [inFlight EXCEPT ![loc[t].old] = None]
    /\ loc' = [loc EXCEPT ![t] = Idle]
    /\ UNCHANGED <<cacheVars, debridVars, failed, answerVars>>

-----------------------------------------------------------------------------
(* refreshTorrents, as far as it concerns these ids                        *)

RefreshAdds(i) ==
    /\ i \in debrid \ cached
    /\ cached' = cached \cup {i} /\ dropped' = dropped \ {i}
    /\ UNCHANGED <<bad, debridVars, failed, inFlight, answerVars, loc>>

\* validateAndDeleteTorrents for an id that the listing did not have: it is gone,
\* or it was not there yet, or not downloaded, when the listing was made. An error
\* of GetTorrent is taken for its deletion.
RefreshDrops(i) ==
    /\ i \in cached
    /\ i \notin debrid \/ Errors
    /\ cached' = cached \ {i} /\ bad' = bad \ {i}
    /\ dropped' = dropped \cup ({i} \cap debrid)
    /\ UNCHANGED <<debridVars, failed, inFlight, answerVars, loc>>

-----------------------------------------------------------------------------
Continue(t) ==
    \/ LoadRequest(t) \/ StoreRequest(t) \/ WaitReturns(t)
    \/ SubmitMagnet(t) \/ SubmitFails(t) \/ StatusReady(t) \/ StatusFails(t) \/ LinkEmpty(t)
    \/ SetNew(t) \/ DeleteOld(t) \/ DeleteOldRemote(t) \/ Complete(t)
    \/ MarkOk(t) \/ Unmark(t) \/ FindOk(t) \/ ClearBad(t)
    \/ MarkFailed(t) \/ FindFailed(t) \/ SetBad(t) \/ Cleanup(t)

Next ==
    \/ \E t \in Threads : Continue(t) \/ \E i \in Ids : Call(t, i)
    \/ \E i \in Ids : RefreshAdds(i) \/ RefreshDrops(i)

Spec == Init /\ [][Next]_vars

-----------------------------------------------------------------------------
(* Properties                                                              *)

\* No call loses the release, whatever fails and whoever else re-inserts it: some
\* id of it is in the account and cached, because the old id is deleted only when the
\* new one has been set. Or the refresh took that id for deleted by mistake; then it
\* is still in the account, and the next refresh that lists it caches it again.
ContentKept == (cached \cup dropped) \cap debrid # {}

\* Nobody can come to wait for a request nobody works on: an entry of
\* repairRequest belongs to a call that is still running, on every way out and
\* also when two calls have stored over each other.
InFlightIsRunning ==
    \A i \in Ids : inFlight[i] # None =>
        \E t \in Threads : Running(t) /\ loc[t].old = i /\ loc[t].req = inFlight[i]

\* Who waits for another call and goes on without an error does so with the newer
\* id that replaced the one it came with, and not before that call has put it into
\* the cache. Who is told of an error (time.Parse's) is told so of a torrent that has
\* been replaced all the same: the errors of a call that failed reach no waiter.
GoesOn(t)  == loc[t].pc = "wait" /\ loc'[t].pc = "idle" /\ loc[t].req \notin erred
GivesUp(t) == loc[t].pc = "wait" /\ loc'[t].pc = "idle" /\ loc[t].req \in erred
WaiterGetsReplacement ==
    [][\A t \in Threads :
         LET new == result[loc[t].req] IN
           /\ GoesOn(t) =>
                /\ new > loc[t].old
                /\ \A u \in Threads : loc[u].new = new => loc[u].pc \notin {"status", "set"}
           /\ GivesUp(t) => new > loc[t].old]_vars

\* Whoever waits for a request will be answered: it is complete, or its owner is
\* at work, unless that call failed (Lost).  The error returns do not complete
\* the request, so that then a waiter waits for ever.
WaitersServed ==
    \A t \in Threads : loc[t].pc = "wait" =>
        \/ result[loc[t].req] # None
        \/ \E u \in Threads : Running(u) /\ loc[u].req = loc[t].req
=============================================================================
