---------------------------- MODULE TorrentStore ----------------------------
(***************************************************************************)
(* What the caches and their JSON files promise together: a write-behind   *)
(* store.  What a cache serves is what the service was asked for; each     *)
(* such version is on its way to the file until it gets there; a torrent   *)
(* that is dropped has its file moved to the trash some time later.  A     *)
(* cache that starts serves what complete files it could read, and nothing *)
(* else, until the service has been asked again.  The caches a process     *)
(* makes share the files and nothing else.  Nothing is said of when writes *)
(* arrive, nor in which order: the code gives no such promise.             *)
(*                                                                         *)
(* CachePersist implements this specification.                             *)
(***************************************************************************)
CONSTANTS Starts, Ids, Versions, Complete, None

VARIABLES
    served,   \* what each cache answers with, per torrent
    stored,   \* what its file holds
    pending,  \* the versions on their way to the file
    dropping, \* torrents whose file is about to be moved to the trash
    image     \* what the start of each cache read

vars == <<served, stored, pending, dropping, image>>

Nothing == [i \in Ids |-> None]

\* Nothing is served, read or under way: a process that begins.
Blank ==
    /\ served = [c \in Starts |-> Nothing] /\ image = [c \in Starts |-> Nothing]
    /\ pending = [i \in Ids |-> {}] /\ dropping = {}

Init == stored \in [Ids -> Versions \cup {None}] /\ Blank

\* A version from the service is served, and with that on its way to the file.
Serve(c, i, v) ==
    /\ served' = [served EXCEPT ![c][i] = v]
    /\ pending' = [pending EXCEPT ![i] = @ \cup {v}]
    /\ UNCHANGED <<stored, dropping, image>>

\* A write arrives, perhaps one of several of the same version.
Land(i, v) ==
    /\ v \in pending[i]
    /\ stored' = [stored EXCEPT ![i] = v]
    /\ \/ UNCHANGED pending
       \/ pending' = [pending EXCEPT ![i] = @ \ {v}]
    /\ UNCHANGED <<served, dropping, image>>

Drop(c, i) ==
    /\ served[c][i] # None
    /\ served' = [served EXCEPT ![c][i] = None]
    /\ dropping' = dropping \cup {i}
    /\ UNCHANGED <<stored, pending, image>>

Trash(i) ==
    /\ i \in dropping
    /\ stored' = [stored EXCEPT ![i] = None]
    /\ \/ UNCHANGED dropping
       \/ dropping' = dropping \ {i}
    /\ UNCHANGED <<served, pending, image>>

\* Of every torrent: its file if that is complete, or nothing.
Read(c) ==
    /\ \E read \in [Ids -> Complete \cup {None}] :
          /\ \A i \in Ids : read[i] \in {stored[i], None}
          /\ image' = [image EXCEPT ![c] = read]
    /\ UNCHANGED <<served, stored, pending, dropping>>

\* What was read is served, and all that is served then written again.
Reload(c) ==
    /\ served' = [served EXCEPT ![c] =
            [i \in Ids |-> IF image[c][i] # None THEN image[c][i] ELSE served[c][i]]]
    /\ pending' = [i \in Ids |-> pending[i] \cup ({served'[c][i]} \ {None})]
    /\ image' = [image EXCEPT ![c] = Nothing]
    /\ UNCHANGED <<stored, dropping>>

\* A former cache serves nothing any more; no file is dropped with that.
Reset(c) ==
    /\ served' = [served EXCEPT ![c] = Nothing]
    /\ UNCHANGED <<stored, pending, dropping, image>>

\* The process ends: only the files are left.
Crash == Blank' /\ UNCHANGED stored

Next ==
    \/ \E c \in Starts, i \in Ids : Drop(c, i) \/ \E v \in Versions : Serve(c, i, v)
    \/ \E i \in Ids : Trash(i) \/ \E v \in Versions : Land(i, v)
    \/ \E c \in Starts : Read(c) \/ Reload(c) \/ Reset(c)
    \/ Crash

Spec == Init /\ [][Next]_vars
=============================================================================
