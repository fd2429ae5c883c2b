----------------------------- MODULE WebdavFile -----------------------------
(***************************************************************************)
(* An open file of the WebDAV server (pkg/webdav/file.go).  Read and Seek  *)
(* give random access to content that arrives as HTTP bodies, each opened  *)
(* at the offset of its request: a body may break off anywhere, requests   *)
(* are refused, download links go bad and are replaced.                    *)
(*                                                                         *)
(* One goroutine uses a File (http.ServeContent); between the steps of a   *)
(* Read the service decides.  Bytes are known by their position.           *)
(***************************************************************************)
EXTENDS Integers

CONSTANTS
    Size,         \* bytes in the file; File.size is the content's true size
    Links,        \* download links the link cache may hand out
    HonoursRange, \* whether the service answers a Range request with that range
    None

ASSUME ConstantsAssumption ==
    /\ Size \in Nat
    /\ HonoursRange \in BOOLEAN
    /\ None \notin Links \cup Int

VARIABLES
    kind,         \* what OpenFile built
    offset,       \* File.offset
    reader,       \* File.reader: the position of its next byte, or None
    seekPending,  \* File.seekPending
    downloadLink, \* File.downloadLink
    pc,           \* where the goroutine is inside Read
    tried,        \* stream's local downloadLink: the link being requested
    bodies,       \* ghost: response bodies opened and not closed
    invalid,      \* the cache's invalidDownloadLinks
    refused,      \* ghost: links a request was refused on
    delivered     \* ghost: what the last Read returned

fileVars == <<kind, offset, reader, seekPending, downloadLink>>
linkVars == <<invalid, refused>>
vars == <<fileVars, pc, tried, bodies, linkVars, delivered>>

Kinds == {"remote", "content", "metadata"}
PCs == {"idle", "link", "request", "relink", "rerequest", "read"}

\* The shape of the state, as the Go declarations give it.
TypeOK ==
    /\ kind \in Kinds /\ pc \in PCs
    /\ offset \in Nat /\ reader \in Nat \cup {None}
    /\ seekPending \in BOOLEAN
    /\ downloadLink \in Links \cup {None} /\ tried \in Links \cup {None}
    /\ bodies \in Nat
    /\ invalid \in SUBSET Links /\ refused \in SUBSET Links
    /\ delivered \in [at : Nat, n : Nat]

\* handleGet asks for the download link before it reads; a file with metadata
\* only (HEAD, PROPFIND) or with content in memory has none.
Init ==
    /\ kind \in Kinds
    /\ downloadLink \in IF kind = "remote" THEN Links ELSE {None}
    /\ offset = 0 /\ reader = None /\ seekPending = FALSE
    /\ pc = "idle" /\ tried = None /\ bodies = 0
    /\ invalid = {} /\ refused = {}
    /\ delivered = [at |-> 0, n |-> 0]

-----------------------------------------------------------------------------
(* Seek and Close                                                          *)

Clip(o) == IF o < 0 THEN 0 ELSE IF o > Size THEN Size ELSE o

\* Mutant of Seek: a position before the start is kept.
SeekBeforeStart(o) ==
    /\ pc = "idle"
    /\ offset' = IF o > Size THEN Size ELSE o
    /\ seekPending' = (seekPending \/ o # offset)
    /\ UNCHANGED <<kind, reader, downloadLink, pc, tried, bodies, linkVars, delivered>>

\* o is the position whence and the argument ask for.
Seek(o) ==
    /\ pc = "idle"
    /\ offset' = Clip(o)
    /\ seekPending' = (seekPending \/ Clip(o) # offset)
    /\ UNCHANGED <<kind, reader, downloadLink, pc, tried, bodies, linkVars, delivered>>

Close ==
    /\ pc = "idle"
    /\ reader # None
    /\ reader' = None /\ bodies' = bodies - 1
    /\ UNCHANGED <<kind, offset, seekPending, downloadLink, pc, tried, linkVars, delivered>>

-----------------------------------------------------------------------------
(* Read                                                                    *)

\* Content in memory.  At its end Read returns io.EOF, without effect.
ReadContent ==
    /\ pc = "idle" /\ kind = "content"
    /\ \E n \in 1..(Size - offset) :
         /\ delivered' = [at |-> offset, n |-> n]
         /\ offset' = offset + n
    /\ UNCHANGED <<kind, reader, seekPending, downloadLink, pc, tried, bodies, linkVars>>

\* Mutant of ReadOn: a pending Seek is overlooked.
ReadOnRegardless ==
    /\ pc = "idle" /\ kind = "remote"
    /\ reader # None
    /\ pc' = "read"
    /\ UNCHANGED <<fileVars, tried, bodies, linkVars, delivered>>

\* The open body still is where the offset is.
ReadOn ==
    /\ pc = "idle" /\ kind = "remote"
    /\ reader # None /\ ~seekPending
    /\ pc' = "read"
    /\ UNCHANGED <<fileVars, tried, bodies, linkVars, delivered>>

\* Mutant of Reposition: the old body is dropped without Close.
RepositionLeaks ==
    /\ pc = "idle" /\ kind = "remote"
    /\ reader = None \/ seekPending
    /\ reader' = None
    /\ pc' = "link"
    /\ UNCHANGED <<kind, offset, seekPending, downloadLink, tried, bodies, linkVars, delivered>>

\* No body, or one left behind by a Seek: that is closed and stream called.
Reposition ==
    /\ pc = "idle" /\ kind = "remote"
    /\ reader = None \/ seekPending
    /\ reader' = None
    /\ bodies' = IF reader # None THEN bodies - 1 ELSE bodies
    /\ pc' = "link"
    /\ UNCHANGED <<kind, offset, seekPending, downloadLink, tried, linkVars, delivered>>

\* Read returns without a byte.
Return == pc' = "idle" /\ tried' = None

\* The response body becomes the reader.
Open ==
    /\ reader' = IF HonoursRange THEN offset ELSE 0
    /\ seekPending' = FALSE
    /\ bodies' = bodies + 1
    /\ pc' = "read" /\ tried' = None

\* n bytes of the body, or its end or an error, which close it.
ReadBody ==
    /\ pc = "read"
    /\ \E n \in 0..(Size - reader), err \in BOOLEAN :
         /\ n = 0 => err
         /\ delivered' = [at |-> reader, n |-> n]
         /\ offset' = offset + n
         /\ reader' = IF err THEN None ELSE reader + n
         /\ bodies' = IF err THEN bodies - 1 ELSE bodies
    /\ pc' = "idle"
    /\ UNCHANGED <<kind, seekPending, downloadLink, tried, linkVars>>

-----------------------------------------------------------------------------
(* stream                                                                  *)

\* getDownloadLink: the file's own link, or one from the link cache.
GetLink(from, to) ==
    /\ pc = from
    /\ \E l \in Links :
         /\ downloadLink # None => l = downloadLink
         /\ downloadLink' = l /\ tried' = l
    /\ pc' = to
    /\ UNCHANGED <<kind, offset, reader, seekPending, bodies, linkVars, delivered>>

\* The link cache has none: "" or an error.
NoLink ==
    /\ pc \in {"link", "relink"}
    /\ downloadLink = None
    /\ Return
    /\ UNCHANGED <<fileVars, bodies, linkVars, delivered>>

StreamLink == GetLink("link", "request")

\* Mutant of RegenerateLink: the mark comes after the new link was fetched into
\* the same variable.
RegenerateThenMark ==
    /\ pc = "relink"
    /\ \E l \in Links :
         /\ downloadLink' = l /\ tried' = l
         /\ invalid' = invalid \cup {l}
    /\ pc' = "rerequest"
    /\ UNCHANGED <<kind, offset, reader, seekPending, bodies, refused, delivered>>

RegenerateLink == GetLink("relink", "rerequest")

\* 200 or 206.
Accepted ==
    /\ pc \in {"request", "rerequest"}
    /\ Open
    /\ UNCHANGED <<kind, offset, downloadLink, linkVars, delivered>>

\* client.Do returns an error.
RequestFails ==
    /\ pc \in {"request", "rerequest"}
    /\ Return
    /\ UNCHANGED <<fileVars, bodies, linkVars, delivered>>

\* 503 for traffic: the link is marked and stream starts again.
TrafficExceeded ==
    /\ pc = "request"
    /\ downloadLink' = None
    /\ refused' = refused \cup {tried}
    /\ invalid' = invalid \cup {tried}
    /\ pc' = "link" /\ tried' = None
    /\ UNCHANGED <<kind, offset, reader, seekPending, bodies, delivered>>

\* 404: the link is marked and a new one requested once.
NotFound ==
    /\ pc = "request"
    /\ downloadLink' = None
    /\ refused' = refused \cup {tried}
    /\ invalid' = invalid \cup {tried}
    /\ pc' = "relink" /\ tried' = None
    /\ UNCHANGED <<kind, offset, reader, seekPending, bodies, delivered>>

\* Any other status: the link is given up without a mark.
Refused ==
    /\ pc = "request"
    /\ downloadLink' = None
    /\ refused' = refused \cup {tried}
    /\ Return
    /\ UNCHANGED <<kind, offset, reader, seekPending, bodies, invalid, delivered>>

\* The second request is refused: that link is marked too, but kept by the file.
RefusedAgain ==
    /\ pc = "rerequest"
    /\ refused' = refused \cup {tried}
    /\ invalid' = invalid \cup {tried}
    /\ Return
    /\ UNCHANGED <<fileVars, bodies, delivered>>

Next ==
    \/ \E o \in -1..(Size + 1) : Seek(o)
    \/ Close
    \/ ReadContent \/ ReadOn \/ Reposition \/ ReadBody
    \/ StreamLink \/ RegenerateLink \/ NoLink
    \/ Accepted \/ RequestFails
    \/ TrafficExceeded \/ NotFound \/ Refused \/ RefusedAgain

Spec == Init /\ [][Next]_vars

-----------------------------------------------------------------------------
(* Properties                                                              *)

RA == INSTANCE RandomAccess

\* However often the body is reopened, broken off or left behind by a Seek, the
\* file is a random access file: every Read returns the bytes at the offset.
RandomAccessSpec == RA!Spec

\* A body is closed unless it is the reader, whichever way Read leaves
\* (sharedClient keeps at most 50 connections per host).
BodiesClosed == bodies = IF reader = None THEN 0 ELSE 1

\* MarkDownloadLinkAsInvalid gets the link that was refused, also where stream
\* has replaced it in between.
InvalidWereRefused == invalid \subseteq refused
=============================================================================
