------------------------------- MODULE Listing -------------------------------
(***************************************************************************)
(* The directory listings of the WebDAV server (pkg/debrid/debrid,         *)
(* torrent.go and refresh.go) and the debouncer that refreshes them        *)
(* (internal/utils/debouncer.go): every change of the torrents marks the   *)
(* listing as unsorted and all but those of GenerateDownloadLinks have it  *)
(* refreshed, at once or after a pause; each refresh stores its views in   *)
(* goroutines of their own.                                                *)
(*                                                                         *)
(* TorrentCache has what the changes do to the maps.  Here byName is the   *)
(* number of its changes and a view is the number it was made from; which  *)
(* torrents a view shows is a function of that byName.  Time is left out:  *)
(* a timer fires whenever it likes.                                        *)
(***************************************************************************)
EXTENDS Naturals

CONSTANTS
    Threads,    \* goroutines that change or list torrents
    Custom,     \* the directories of the configuration
    MaxChanges, \* bound: changes of byName
    None

\* listing, and what refreshListing stores in folderListing besides Custom.
Unwaited == {"__all__", "__bad__"}
Views == Custom \cup Unwaited

ASSUME ConstantsAssumption ==
    /\ MaxChanges \in Nat /\ Custom \cap Unwaited = {}
    /\ None \notin BOOLEAN

Counts == 0..MaxChanges

VARIABLES
    byName,     \* how often it was changed
    sortNeeded,
    views,      \* listing and folderListing: view -> the byName it shows
    stores,     \* goroutines with a view to store that nobody waits for
    timer,      \* listingDebouncer: None, or the argument its timer will pass
    loc,        \* control point and locals of every goroutine
    stored,     \* ghost: view -> the latest byName that was ever stored for it
    silent      \* ghost: the last change is one that has nothing refreshed

vars == <<byName, sortNeeded, views, stores, timer, loc, stored, silent>>

\* AddTorrent's goroutine sets the torrent once more, with no callback: nothing is
\* refreshed.
GenerateDownloadLinks == [change |-> "set", via |-> "none", rclone |-> FALSE]

\* What the cache's operations do: set or remove a torrent, then call the
\* debouncer or refresh at once, with rclone or without.
Operations ==
    {o \in [change : {"set", "remove"}, via : {"debouncer", "refresh"}, rclone : BOOLEAN] :
       o.change = "remove" => o.rclone}
    \cup {GenerateDownloadLinks}

\* A goroutine between two operations.
Idle == [pc |-> "idle", via |-> "refresh", rclone |-> FALSE, all |-> 0, left |-> {}]

\* The shape of the state, as the Go declarations give it; no view shows what
\* is not there yet, and only a goroutine in refreshListing has views to wait for.
TypeOK ==
    /\ byName \in Counts /\ sortNeeded \in BOOLEAN
    /\ stored \in [Views -> 0..byName]
    /\ views \in [Views -> 0..byName] /\ \A w \in Views : views[w] <= stored[w]
    /\ stores \in [Unwaited \X Counts -> Nat]
    /\ timer \in {None} \cup BOOLEAN
    /\ loc \in [Threads ->
         [pc : {"idle", "flag", "notify", "refresh", "wait", "rclone"},
          via : {"debouncer", "refresh", "none"}, rclone : BOOLEAN, all : Counts,
          left : SUBSET Custom]]
    /\ \A t \in Threads : loc[t].left # {} => loc[t].pc = "wait"
    /\ silent \in BOOLEAN

\* newTorrentCache: no torrents and nothing listed.
Init ==
    /\ byName = 0 /\ sortNeeded = FALSE
    /\ views = [w \in Views |-> 0]
    /\ stores = [s \in Unwaited \X Counts |-> 0]
    /\ timer = None
    /\ loc = [t \in Threads |-> Idle]
    /\ stored = [w \in Views |-> 0]
    /\ silent = FALSE

-----------------------------------------------------------------------------
(* Changes                                                                 *)

Goto(t, pc) == loc' = [loc EXCEPT ![t].pc = pc]

\* set raises sortNeeded after it released the lock, remove and removeId before.
\* setTorrents, DeleteTorrents and validateAndDeleteTorrents change several
\* torrents before they call the debouncer.
Change(t) ==
    /\ byName < MaxChanges
    /\ byName' = byName + 1
    /\ \E o \in Operations :
         /\ \/ loc[t] = Idle
            \/ loc[t].pc = "notify" /\ o.via = loc[t].via /\ o.rclone = loc[t].rclone
         /\ loc' = [loc EXCEPT ![t] = [Idle EXCEPT
                      !.pc = IF o.change = "set" THEN "flag" ELSE "notify",
                      !.via = o.via, !.rclone = o.rclone]]
         /\ sortNeeded' = (sortNeeded \/ o.change = "remove")
         /\ silent' = (o.via = "none")
    /\ UNCHANGED <<views, stores, timer, stored>>

Flag(t) ==
    /\ loc[t].pc = "flag"
    /\ sortNeeded' = TRUE
    /\ Goto(t, "notify")
    /\ UNCHANGED <<byName, views, stores, timer, stored, silent>>

\* Mutant of Call: the pending timer is stopped, but not started again.
CallStops(arg) == timer' = IF timer = None THEN arg ELSE None

\* Debouncer.Call: the new timer replaces the pending one and its argument.
Call(arg) == timer' = arg

\* The operation's callback, if it has one.
Notify(t) ==
    /\ loc[t].pc = "notify"
    /\ \/ /\ loc[t].via = "debouncer" /\ Call(loc[t].rclone)
          /\ loc' = [loc EXCEPT ![t] = Idle]
       \/ /\ loc[t].via = "refresh" /\ Goto(t, "refresh")
          /\ UNCHANGED timer
       \/ /\ loc[t].via = "none" /\ loc' = [loc EXCEPT ![t] = Idle]
          /\ UNCHANGED timer
    /\ UNCHANGED <<byName, sortNeeded, views, stores, stored, silent>>

\* The timer's own goroutine calls RefreshListings.
TimerFires(t) ==
    /\ loc[t] = Idle /\ timer # None
    /\ loc' = [loc EXCEPT ![t] = [Idle EXCEPT !.pc = "refresh", !.rclone = timer]]
    /\ timer' = None
    /\ UNCHANGED <<byName, sortNeeded, views, stores, stored, silent>>

\* getListing's slow path, for a PROPFIND of __all__ or torrents.
GetListing(t) ==
    /\ loc[t] = Idle /\ sortNeeded
    /\ loc' = [loc EXCEPT ![t] = [Idle EXCEPT !.pc = "refresh"]]
    /\ UNCHANGED <<byName, sortNeeded, views, stores, timer, stored, silent>>

-----------------------------------------------------------------------------
(* refreshListing                                                          *)

\* One goroutine for each view; the wait group is done with the first two as
\* soon as they are started.
StartStores(t) ==
    loc' = [loc EXCEPT ![t] = [@ EXCEPT !.pc = "wait", !.all = byName, !.left = Custom]]

\* The torrents are copied and the flag is cleared under one lock.
CopyAll(t) ==
    /\ loc[t].pc = "refresh"
    /\ sortNeeded' = FALSE
    /\ StartStores(t)
    /\ stores' = [s \in DOMAIN stores |-> IF s[2] = byName THEN stores[s] + 1 ELSE stores[s]]
    /\ UNCHANGED <<byName, views, timer, stored, silent>>

\* Whatever a refresh that copied later has stored by now is overwritten.
Store(w, all) ==
    /\ views' = [views EXCEPT ![w] = all]
    /\ stored' = [stored EXCEPT ![w] = IF @ < all THEN all ELSE @]

StoreUnwaited(w, all) ==
    /\ stores[<<w, all>>] > 0
    /\ stores' = [stores EXCEPT ![<<w, all>>] = @ - 1]
    /\ Store(w, all)
    /\ UNCHANGED <<byName, sortNeeded, timer, loc, silent>>

StoreCustom(t, d) ==
    /\ loc[t].pc = "wait" /\ d \in loc[t].left
    /\ loc' = [loc EXCEPT ![t].left = @ \ {d}]
    /\ Store(d, loc[t].all)
    /\ UNCHANGED <<byName, sortNeeded, stores, timer, silent>>

Leave(t) == IF loc[t].rclone THEN Goto(t, "rclone") ELSE loc' = [loc EXCEPT ![t] = Idle]

\* Mutants of Wait: nothing is waited for; the flag is cleared only here.
WaitForNone(t) ==
    /\ loc[t].pc = "wait" /\ Leave(t)
    /\ UNCHANGED <<byName, sortNeeded, views, stores, timer, stored, silent>>
WaitAndClear(t) ==
    /\ loc[t].pc = "wait" /\ loc[t].left = {} /\ Leave(t)
    /\ sortNeeded' = FALSE
    /\ UNCHANGED <<byName, views, stores, timer, stored, silent>>

Wait(t) ==
    /\ loc[t].pc = "wait" /\ loc[t].left = {} /\ Leave(t)
    /\ UNCHANGED <<byName, sortNeeded, views, stores, timer, stored, silent>>

\* vfs/forget and vfs/refresh: rclone lists the directories anew; errors are logged.
RefreshRclone(t) ==
    /\ loc[t].pc = "rclone"
    /\ loc' = [loc EXCEPT ![t] = Idle]
    /\ UNCHANGED <<byName, sortNeeded, views, stores, timer, stored, silent>>

-----------------------------------------------------------------------------
Continue(t) ==
    \/ Flag(t) \/ Notify(t) \/ CopyAll(t) \/ Wait(t) \/ RefreshRclone(t)
    \/ \E d \in Custom : StoreCustom(t, d)

Next ==
    \/ \E t \in Threads : Change(t) \/ TimerFires(t) \/ GetListing(t) \/ Continue(t)
    \/ \E w \in Unwaited, all \in Counts : StoreUnwaited(w, all)

Spec == Init /\ [][Next]_vars

\* Goroutines run on and the timer fires once it is not called again; nobody
\* has to list a directory.
Fairness ==
    /\ \A t \in Threads : WF_vars(Continue(t))
    /\ WF_vars(\E t \in Threads : TimerFires(t))
    /\ \A w \in Unwaited, all \in Counts : WF_vars(StoreUnwaited(w, all))

FairSpec == Spec /\ Fairness

-----------------------------------------------------------------------------
(* Properties                                                              *)

\* A refresh that copied earlier has stored after one that copied the torrents
\* as they are.
Overtaken(w) == views[w] < stored[w] /\ stored[w] = byName

\* A goroutine that copied the torrents as they are is still to store the view.
OnItsWay(w) ==
    \/ w \in Unwaited /\ stores[<<w, byName>>] > 0
    \/ \E t \in Threads : loc[t].pc = "wait" /\ w \in loc[t].left /\ loc[t].all = byName

\* A view that is older than the torrents and that no refresh is about to bring
\* up to date is flagged, or about to be: no refresh takes the flag of a change it
\* missed. (A view that was overtaken is older and nothing flags it.)
FlagKept ==
    \A w \in Views :
        \/ views[w] = byName \/ Overtaken(w) \/ OnItsWay(w)
        \/ sortNeeded \/ \E t \in Threads : loc[t].pc = "flag"

\* When rclone is told, every directory of the configuration shows what was
\* copied or something newer, unless it has shown that already and a refresh that
\* copied earlier has stored it since.
CustomBeforeRclone ==
    \A t \in Threads : loc[t].pc = "rclone" =>
        \A d \in Custom :
            \/ views[d] >= loc[t].all
            \/ views[d] < stored[d] /\ stored[d] >= loc[t].all

\* Once nothing is changed any more every view comes to show the torrents as
\* they are, unless it was overtaken: then it stays behind until the next change;
\* or the last change is GenerateDownloadLinks': then the flag stays up, and only
\* a PROPFIND of __all__ has the listings refreshed.
Listed ==
    <>[]( \/ \A w \in Views : views[w] = byName \/ Overtaken(w)
          \/ silent /\ sortNeeded)
=============================================================================
