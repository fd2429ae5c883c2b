---------------------------- MODULE DownloadLinks ----------------------------
(***************************************************************************)
(* The cache of download links (pkg/debrid/debrid/download_link.go): open  *)
(* WebDAV files ask it for the url of their bytes; it keeps one url per    *)
(* restricted link, lets one goroutine fetch a missing url while others    *)
(* wait, and remembers which urls were refused.                            *)
(*                                                                         *)
(* The stream is that of WebdavFile, here with many readers and the cache  *)
(* behind it.  A re-insertion is one step (Reinsert has its own), and time *)
(* is left out: an entry may expire whenever it likes.                     *)
(***************************************************************************)
EXTENDS Naturals

CONSTANTS
    Readers,  \* open files, each with its goroutine
    Files,    \* the files of one torrent
    MaxLinks, \* bound: how many links a file has, one after another
    Urls,     \* what the service may give for them
    Kind,     \* the debrid client
    None

Clients == {"realdebrid", "alldebrid", "debridlink", "torbox"}

\* The keys of downloadLinks and downloadLinkRequests: restricted links, and
\* the empty string.
Empty == <<>>
Keys == (Files \X (1..MaxLinks)) \cup {Empty}

ASSUME ConstantsAssumption ==
    /\ MaxLinks \in Nat \ {0}
    /\ Urls \subseteq [file : Files, link : 1..MaxLinks, n : Nat]
    /\ \A f \in Files, l \in 1..MaxLinks : \E u \in Urls : u.file = f /\ u.link = l /\ u.n = 0
    /\ Kind \in Clients
    /\ None \notin Files \cup Readers \cup Urls \cup Keys

VARIABLES
    current,  \* which links the files of the cached torrent have
    links,    \* downloadLinks: key -> url; None is no entry, or an expired one
    requests, \* downloadLinkRequests: key -> the reader that made the request
    invalid,  \* invalidDownloadLinks
    loc       \* control point and locals of every reader; bad is a ghost: the
              \* url this Read marked, unless the service gave it again since

cacheVars == <<links, requests, invalid>>
vars == <<current, cacheVars, loc>>

PCs == {"closed", "idle", "check", "load", "store", "wait", "unrestrict",
        "reinsert", "update", "complete", "delete", "request", "mark", "remove"}

Locals ==
    [pc : PCs, file : Files \cup {None}, key : Keys \cup {None},
     own : Urls \cup {None}, got : Urls \cup {None}, bad : Urls \cup {None},
     fetch : (1..MaxLinks) \cup {None}, on : Readers \cup {None},
     again : BOOLEAN, late : BOOLEAN]

Closed == [pc |-> "closed", file |-> None, key |-> None, own |-> None, got |-> None, bad |-> None,
           fetch |-> None, on |-> None, again |-> FALSE, late |-> FALSE]

\* Readers that fetch a url, with a request of their own.
Fetching(t) == loc[t].pc \in {"unrestrict", "reinsert", "update", "complete"}

\* The shape of the state, as the Go declarations give it.
TypeOK ==
    /\ current \in 1..MaxLinks
    /\ links \in [Keys -> Urls \cup {None}]
    /\ requests \in [Keys -> Readers \cup {None}]
    /\ invalid \in SUBSET Urls
    /\ loc \in [Readers -> Locals]

\* New has made the maps, and the torrent has its first links.
Init ==
    /\ current = 1
    /\ links = [k \in Keys |-> None] /\ requests = [k \in Keys |-> None]
    /\ invalid = {}
    /\ loc = [t \in Readers |-> Closed]

-----------------------------------------------------------------------------
(* The clients                                                             *)

\* Torbox's files have no restricted link.
Linked == Kind # "torbox"

\* DebridLink's urls come with the torrent and are returned again and again.
Fixed == Kind = "debridlink"

\* AllDebrid's GenerateDownloadLinks takes every url for an error.
Generates == Kind # "alldebrid"

\* Only RealDebrid has GetDownloads list what the account unrestricted before.
Lists == Kind = "realdebrid"

\* Mutant of FileLink: the client fills in no link.
LinkDropped(f, l) == Empty

FileLink(f, l) == IF Linked THEN <<f, l>> ELSE Empty

\* DownloadLink.Link, under which a url is cached: the link the client or the
\* service was asked for.
LinkOf(u) == FileLink(u.file, u.link)

\* What GetDownloadLink may return for a file's link.
Given(f, l) == {u \in Urls : u.file = f /\ u.link = l /\ (Fixed => u.n = 0)}

\* A url that the service gave just now.
Renewed(u) ==
    [t \in Readers |-> IF loc[t].bad = u /\ ~Fixed
                         THEN [loc[t] EXCEPT !.bad = None] ELSE loc[t]]

-----------------------------------------------------------------------------
Goto(t, pc) == loc' = [loc EXCEPT ![t].pc = pc]

\* The locals of a File between two Reads.
AtRest(r) == [Closed EXCEPT !.pc = "idle", !.file = r.file, !.key = r.key, !.own = r.own]

\* getDownloadLink with the cache's answer: the url is kept, or Read ends.
Answer(r, u) ==
    IF u = None THEN AtRest(r)
    ELSE [AtRest(r) EXCEPT !.pc = "request", !.own = u, !.got = u,
                           !.bad = r.bad, !.again = r.again]

(* An open file                                                            *)

Open(t) ==
    /\ loc[t].pc = "closed"
    /\ \E f \in Files :
         loc' = [loc EXCEPT ![t] = [Closed EXCEPT !.pc = "idle", !.file = f,
                                                  !.key = FileLink(f, current)]]
    /\ UNCHANGED <<current, cacheVars>>

Close(t) ==
    /\ loc[t].pc = "idle"
    /\ loc' = [loc EXCEPT ![t] = Closed]
    /\ UNCHANGED <<current, cacheVars>>

\* Read calls stream, which begins with the url the file has.
Read(t) ==
    /\ loc[t].pc = "idle"
    /\ IF loc[t].own = None THEN Goto(t, "check")
       ELSE loc' = [loc EXCEPT ![t].pc = "request", ![t].got = loc[t].own]
    /\ UNCHANGED <<current, cacheVars>>

-----------------------------------------------------------------------------
(* GetDownloadLink                                                         *)

\* Mutant of Check: the urls that were refused are not looked up.
CheckExpiryOnly(t) ==
    /\ loc[t].pc = "check"
    /\ LET u == links[loc[t].key] IN
         IF u # None THEN loc' = [loc EXCEPT ![t] = Answer(@, u)]
         ELSE Goto(t, "load")
    /\ UNCHANGED <<current, cacheVars>>

Check(t) ==
    /\ loc[t].pc = "check"
    /\ LET u == links[loc[t].key] IN
         IF u \notin invalid \cup {None} THEN loc' = [loc EXCEPT ![t] = Answer(@, u)]
         ELSE Goto(t, "load")
    /\ UNCHANGED <<current, cacheVars>>

\* A request that is complete and not deleted yet answers at once.
LoadRequest(t) ==
    /\ loc[t].pc = "load"
    /\ LET o == requests[loc[t].key] IN
         IF o = None THEN Goto(t, "store")
         ELSE IF loc[o].pc = "delete" THEN loc' = [loc EXCEPT ![t] = Answer(@, loc[o].got)]
         ELSE loc' = [loc EXCEPT ![t].pc = "wait", ![t].on = o]
    /\ UNCHANGED <<current, cacheVars>>

\* Whatever another reader has stored by now is overwritten.  fetchDownloadLink
\* begins with the link that the file has now.
StoreRequest(t) ==
    /\ loc[t].pc = "store"
    /\ requests' = [requests EXCEPT ![loc[t].key] = t]
    /\ loc' = [loc EXCEPT ![t].pc = "unrestrict", ![t].fetch = current]
    /\ UNCHANGED <<current, links, invalid>>

\* The readers that wait get the result together with its owner.
Completing(t, waiters) ==
    [w \in Readers |->
        IF w = t THEN [loc[t] EXCEPT !.pc = "delete"]
        ELSE IF w \in waiters THEN Answer(loc[w], loc[t].got)
        ELSE loc[w]]

Waiting(t) == {w \in Readers : loc[w].pc = "wait" /\ loc[w].on = t}

\* Mutant of Complete: a failed fetch returns without.
CompleteOnSuccess(t) ==
    /\ loc[t].pc = "complete"
    /\ loc' = Completing(t, IF loc[t].got = None THEN {} ELSE Waiting(t))
    /\ UNCHANGED <<current, cacheVars>>

Complete(t) ==
    /\ loc[t].pc = "complete"
    /\ loc' = Completing(t, Waiting(t))
    /\ UNCHANGED <<current, cacheVars>>

\* Also the entry of another reader is deleted.
DeleteRequest(t) ==
    /\ loc[t].pc = "delete"
    /\ requests' = [requests EXCEPT ![loc[t].key] = None]
    /\ loc' = [loc EXCEPT ![t] = Answer(@, loc[t].got)]
    /\ UNCHANGED <<current, links, invalid>>

-----------------------------------------------------------------------------
(* fetchDownloadLink                                                       *)

\* While the traffic is exceeded RealDebrid's client asks again and again: its
\* retries are not counted down.
Unrestrict(t) ==
    /\ loc[t].pc = "unrestrict" /\ Linked
    /\ \E u \in Given(loc[t].file, loc[t].fetch) :
         loc' = [Renewed(u) EXCEPT ![t].pc = "update", ![t].got = u]
    /\ UNCHANGED <<current, cacheVars>>

HosterUnavailable(t) ==
    /\ loc[t].pc = "unrestrict" /\ ~loc[t].late /\ Kind = "realdebrid"
    /\ Goto(t, "reinsert")
    /\ UNCHANGED <<current, cacheVars>>

\* The torrent was added again, by this call or by one it waited for: all its
\* files have new links.
Reinserted(t) ==
    /\ loc[t].pc = "reinsert"
    /\ \E l \in (loc[t].fetch + 1)..MaxLinks :
         /\ l \in {current, current + 1}
         /\ current' = l
         /\ loc' = [loc EXCEPT ![t].pc = "unrestrict", ![t].fetch = l, ![t].late = TRUE]
    /\ UNCHANGED cacheVars

\* The torrent is gone, the client or the re-insertion returns an error.  For a
\* file without a link that is always so: the new torrent's have none either.
FetchFails(t) ==
    /\ loc[t].pc \in {"unrestrict", "reinsert"}
    /\ Goto(t, "complete")
    /\ UNCHANGED <<current, cacheVars>>

\* updateDownloadLink.  After a re-insertion "" is returned with the url.
Update(t) ==
    /\ loc[t].pc = "update"
    /\ links' = [links EXCEPT ![LinkOf(loc[t].got)] = loc[t].got]
    /\ loc' = [loc EXCEPT ![t].pc = "complete",
                          ![t].got = IF loc[t].late THEN None ELSE @]
    /\ UNCHANGED <<current, requests, invalid>>

-----------------------------------------------------------------------------
(* stream                                                                  *)

\* 200 or 206, or the request fails without an answer: the url is kept.
Served(t) ==
    /\ loc[t].pc = "request"
    /\ loc' = [loc EXCEPT ![t] = AtRest(@)]
    /\ UNCHANGED <<current, cacheVars>>

\* 503 for traffic, or 404: the file drops the url and stream looks for another,
\* after a 404 only once.
Refused(t) ==
    /\ loc[t].pc = "request" /\ ~loc[t].again
    /\ \E notFound \in BOOLEAN :
         loc' = [loc EXCEPT ![t].pc = "mark", ![t].own = None, ![t].again = notFound]
    /\ UNCHANGED <<current, cacheVars>>

\* Any other status gives up.
GivenUp(t) ==
    /\ loc[t].pc = "request" /\ ~loc[t].again
    /\ loc' = [loc EXCEPT ![t] = [AtRest(@) EXCEPT !.own = None]]
    /\ UNCHANGED <<current, cacheVars>>

\* The other url is refused too: it is marked, but kept by the file.
RefusedAgain(t) ==
    /\ loc[t].pc = "request" /\ loc[t].again
    /\ Goto(t, "mark")
    /\ UNCHANGED <<current, cacheVars>>

\* Mutant of Mark: it is given the file's url, which is cleared by then.
MarkOwn(t) ==
    /\ loc[t].pc = "mark"
    /\ invalid' = invalid \cup {loc[t].own}
    /\ loc' = [loc EXCEPT ![t].pc = "remove", ![t].got = None, ![t].bad = loc[t].got]
    /\ UNCHANGED <<current, links, requests>>

\* MarkDownloadLinkAsInvalid: the mark, then the entry of the file's link,
\* whichever url it has by now.
Mark(t) ==
    /\ loc[t].pc = "mark"
    /\ invalid' = invalid \cup {loc[t].got}
    /\ loc' = [loc EXCEPT ![t].pc = "remove", ![t].got = None, ![t].bad = loc[t].got]
    /\ UNCHANGED <<current, links, requests>>

Remove(t) ==
    /\ loc[t].pc = "remove"
    /\ links' = [links EXCEPT ![loc[t].key] = None]
    /\ loc' = [loc EXCEPT ![t] =
                  IF @.own # None THEN AtRest(@)
                  ELSE [AtRest(@) EXCEPT !.pc = "check", !.bad = loc[t].bad, !.again = loc[t].again]]
    /\ UNCHANGED <<current, requests, invalid>>

-----------------------------------------------------------------------------
(* What fills and empties the cache besides                                *)

\* AddTorrent's GenerateDownloadLinks, for one file: the client gets a url and it
\* is stored.
Generate(f) ==
    /\ Generates
    /\ \E u \in Given(f, current) :
         /\ links' = [links EXCEPT ![LinkOf(u)] = u]
         /\ loc' = Renewed(u)
    /\ UNCHANGED <<current, requests, invalid>>

\* refreshDownloadLinks, for one link: the url that the account listed for it, or
\* none (Expire) if that is too old.
RefreshLink(u) ==
    /\ Lists /\ u.link <= current
    /\ links' = [links EXCEPT ![LinkOf(u)] = u]
    /\ UNCHANGED <<current, requests, invalid, loc>>

\* The entry is older than autoExpiresLinksAfterDuration.
Expire(k) ==
    /\ links[k] # None
    /\ links' = [links EXCEPT ![k] = None]
    /\ UNCHANGED <<current, requests, invalid, loc>>

\* resetInvalidLinks, at midnight.
ResetInvalid ==
    /\ invalid # {}
    /\ invalid' = {}
    /\ loc' = [t \in Readers |-> [loc[t] EXCEPT !.bad = None]]
    /\ UNCHANGED <<current, links, requests>>

-----------------------------------------------------------------------------
Continue(t) ==
    \/ Check(t) \/ LoadRequest(t) \/ StoreRequest(t) \/ Complete(t) \/ DeleteRequest(t)
    \/ Unrestrict(t) \/ HosterUnavailable(t) \/ Reinserted(t) \/ FetchFails(t) \/ Update(t)
    \/ Served(t) \/ Refused(t) \/ GivenUp(t) \/ RefusedAgain(t) \/ Mark(t) \/ Remove(t)

Next ==
    \/ \E t \in Readers : Open(t) \/ Close(t) \/ Read(t) \/ Continue(t)
    \/ \E f \in Files : Generate(f)
    \/ \E u \in Urls : RefreshLink(u)
    \/ \E k \in Keys : Expire(k)
    \/ ResetInvalid

Spec == Init /\ [][Next]_vars

-----------------------------------------------------------------------------
(* Properties                                                              *)

\* A file is read from a url of its own, although urls go from hand to hand
\* under keys: the cache's, the requests', a generated one's.
RightFile ==
    \A t \in Readers : loc[t].pc = "request" => loc[t].got.file = loc[t].file

\* Whoever waits, waits for a reader that is fetching, also when two fetch for
\* one key and each deletes the other's entry of downloadLinkRequests.
WaitersServed == \A t \in Readers : loc[t].pc = "wait" => Fetching(loc[t].on)

\* A Read that marked a url does not request it again, unless the service gives
\* it anew or midnight passes: neither the refresh nor an entry of another link
\* brings it back.  It may, though, from a request the reader waited for: that
\* fetch may have got the url before it was marked.
NotAgain ==
    [][\A t \in Readers :
         loc[t].pc \in {"check", "delete"} /\ loc'[t].pc = "request"
           => loc'[t].got # loc[t].bad]_vars

=============================================================================
