---------------------------- MODULE DebridClients ----------------------------
(***************************************************************************)
(* The four debrid clients (pkg/debrid/realdebrid, alldebrid, debrid_link, *)
(* torbox) as far as an import depends on them: how each reads the state a *)
(* service reports, and what CheckStatus makes of it.  HTTP and JSON are   *)
(* left out; a request can fail wherever one is made.                      *)
(***************************************************************************)

Kinds == {"realdebrid", "alldebrid", "debridlink", "torbox"}

\* A torrent at its service: "selecting" is RealDebrid's
\* waiting_files_selection, "none" before it is submitted, "gone" once deleted.
Phases == {"none", "selecting", "downloading", "downloaded", "failed", "gone"}

\* RealDebrid's names are used as they are; everything CheckStatus does not
\* know is an error.
RealDebridStatus(phase) == IF phase \in {"failed", "gone"} THEN "error" ELSE phase

\* getAlldebridStatus: codes 0 to 3, 4, and the rest.
AllDebridStatus(phase) ==
    IF phase \in {"downloading", "downloaded"} THEN phase ELSE "error"

\* A seedbox entry is downloaded at status 100 and otherwise downloading, also
\* when the service has given it up; one that is not listed is an error.
DebridLinkStatus(phase) ==
    IF phase = "gone" THEN "error"
    ELSE IF phase = "downloaded" THEN "downloaded" ELSE "downloading"

\* getTorboxStatus: finished, one of the names of a download, and the rest.
TorboxStatus(phase) ==
    IF phase \in {"downloading", "downloaded"} THEN phase ELSE "error"

\* Torbox's answer for a torrent it does not list has no data, and the code reads
\* it all the same: unless the request fails, it panics.
ListsNothing(kind, phase) == kind = "torbox" /\ phase = "gone"

Status(kind, phase) ==
    CASE kind = "realdebrid" -> RealDebridStatus(phase)
      [] kind = "alldebrid"  -> AllDebridStatus(phase)
      [] kind = "debridlink" -> DebridLinkStatus(phase)
      [] kind = "torbox"     -> TorboxStatus(phase)

\* Where a submitted magnet may be found by the first CheckStatus.
SubmittedPhases(kind) ==
    {"downloading", "downloaded", "failed"} \cup
    (IF kind = "realdebrid" THEN {"selecting"} ELSE {})

-----------------------------------------------------------------------------
(* CheckStatus: what it returns for a status it can conclude from          *)

\* Whether GenerateDownloadLinks can succeed: AllDebrid's reports "download
\* link is empty" for every link that is not.
LinksWork(kind) == kind # "alldebrid"

\* With isSymlink no links are made, except that DebridLink's has nothing to do.
NeedsLinks(kind, isSymlink) == ~isSymlink /\ kind # "debridlink"

ReturnsTorrent(kind, phase, uncached, isSymlink) ==
    \/ /\ Status(kind, phase) = "downloaded"
       /\ NeedsLinks(kind, isSymlink) => LinksWork(kind)
    \/ Status(kind, phase) = "downloading" /\ uncached
=============================================================================
