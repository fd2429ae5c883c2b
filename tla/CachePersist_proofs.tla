------------------------- MODULE CachePersist_proofs -------------------------
(***************************************************************************)
(* Proofs about CachePersist: types, that the files follow the memory, and *)
(* that it implements TorrentStore.                                        *)
(***************************************************************************)
EXTENDS CachePersist, FiniteSetTheorems, TLAPS

USE ConstantsAssumption

(***************************************************************************)
(* Values                                                                  *)
(***************************************************************************)
LEMMA NewJobs ==
  ASSUME NEW pc \in {"load", "list", "purge", "work", "idle", "failed"}
  PROVE  NewJob(pc) \in Job /\ NewJob(pc).pc = pc
  BY DEF NewJob, Job

LEMMA JobFields ==
  ASSUME NEW j \in Job
  PROVE  /\ j.offset \in Nat /\ j.attempt \in 0..MaxRetries /\ j.got \in SUBSET Ids
         /\ [j EXCEPT !.pc = "purge"] \in Job /\ [j EXCEPT !.pc = "purge"].pc = "purge"
         /\ \A k \in 0..MaxRetries : [j EXCEPT !.attempt = k] \in Job /\ [j EXCEPT !.attempt = k].pc = j.pc
  BY DEF Job

LEMMA LocalFields ==
  ASSUME NEW l \in Local
  PROVE  /\ l.pc \in {"set", "save"} =>
               l.at \in Starts /\ l.id \in Ids /\ l.ver \in Versions /\ l \in Setting
         /\ l.pc \in {"trash", "tell"} => l.at \in Starts /\ l.id \in Ids /\ l \in Deleting
  BY DEF Local, Idle, Setting, Deleting

LEMMA LocalValues ==
  /\ Idle \in Local
  /\ \A c \in Starts, i \in Ids, v \in Versions, by \in {"caller", "worker"} :
        [pc |-> "set", at |-> c, id |-> i, ver |-> v, by |-> by] \in Local
  /\ \A c \in Starts, i \in Ids, by \in {"caller", "validate", "sync"} :
        [pc |-> "trash", at |-> c, id |-> i, ver |-> None, by |-> by] \in Local
  /\ \A l \in Setting : [l EXCEPT !.pc = "save"] \in Local
  /\ \A l \in Deleting : [l EXCEPT !.pc = "tell"] \in Local
  BY DEF Local, Idle, Setting, Deleting

LEMMA WriteFields ==
  /\ \A w \in Write : w.id \in Ids /\ w.ver \in Versions
  /\ \A i \in Ids, v \in Versions : [id |-> i, ver |-> v] \in Write
  BY DEF Write

\* A function of functions changed at one place.
LEMMA OneChanged ==
  ASSUME NEW S, NEW A, NEW B, NEW f \in [S -> [A -> B]], NEW c \in S, NEW a \in A, NEW b \in B
  PROVE  [f EXCEPT ![c][a] = b] \in [S -> [A -> B]]
  OBVIOUS

LEMMA FiniteNumber == ASSUME NEW S \in SUBSET Ids PROVE Cardinality(S) \in Nat
  <1>1. IsFiniteSet(1..N)
    BY FS_Interval
  <1> QED
    BY <1>1, FS_Subset, FS_CardinalityType DEF Ids

LEMMA TypeInit == Init => TypeOK
  <1> SUFFICES ASSUME Init PROVE TypeOK
    OBVIOUS
  <1>1. job \in [Starts -> Job] /\ loc \in [Threads -> Local]
    BY NewJobs, LocalValues DEF Init, Each, NoCalls
  <1>2. Nothing \in [Ids -> Complete \cup {None}] /\ Nothing \in [Ids -> Versions \cup {None}]
        /\ NoSaves \in [Slots -> Write \cup {None}]
    BY DEF Nothing, NoSaves
  <1>3. events \in 0..MaxEvents
    <2>1. Changed \in SUBSET Ids
      BY DEF Changed
    <2> QED
      BY <2>1, FiniteNumber DEF Init
  <1>4. /\ now \in Starts /\ stage \in [Starts -> {"starting", "ready", "reset"}]
        /\ loaded \in [Starts -> [Ids -> Complete \cup {None}]]
        /\ cached \in [Starts -> [Ids -> Versions \cup {None}]]
        /\ saving \in [Starts -> [Slots -> Write \cup {None}]]
    BY <1>2 DEF Init, Each, Starts
  <1>5. /\ todo \in [Starts -> SUBSET Ids] /\ validating \in [Starts -> SUBSET Ids]
        /\ writing = [c \in Starts |-> {}]
        /\ excuse \in [Ids -> {"none", "overlap", "unread", "former"}]
    BY DEF Init, Each, NoExcuse
  <1> QED
    BY <1>1, <1>3, <1>4, <1>5 DEF Init, InitAccount, InitFiles, TypeOK

LEMMA TypeStep == TypeOK /\ [Next]_vars => TypeOK'
  <1> SUFFICES ASSUME TypeOK, [Next]_vars PROVE TypeOK'
    OBVIOUS
  <1>t. /\ debrid \in [Ids -> {"absent", "downloading", "downloaded", "gone"}]
        /\ events \in 0..MaxEvents
        /\ now \in Starts
        /\ stage \in [Starts -> {"starting", "ready", "reset"}]
        /\ job \in [Starts -> Job]
        /\ loaded \in [Starts -> [Ids -> Complete \cup {None}]]
        /\ todo \in [Starts -> SUBSET Ids] /\ validating \in [Starts -> SUBSET Ids]
        /\ cached \in [Starts -> [Ids -> Versions \cup {None}]]
        /\ loc \in [Threads -> Local]
        /\ writing \in [Starts -> SUBSET Write]
        /\ \A c \in Starts : writing[c] # {} => job[c].pc = "work"
        /\ saving \in [Starts -> [Slots -> Write \cup {None}]]
        /\ file \in [Ids -> Versions \cup {None}]
        /\ excuse \in [Ids -> {"none", "overlap", "unread", "former"}]
    BY DEF TypeOK
  <1> USE <1>t DEF account, sync, memory, disk
  <1>0. /\ Event => events' \in 0..MaxEvents
        /\ NoEvent => events' \in 0..MaxEvents
    BY DEF Event, NoEvent
  <1>p. ASSUME NEW c \in Starts, NEW i \in Ids, NEW v \in Versions \cup {None}, Put(c, i, v)
        PROVE  /\ file' \in [Ids -> Versions \cup {None}]
               /\ excuse' \in [Ids -> {"none", "overlap", "unread", "former"}]
    BY <1>p DEF Put
  <1>c. ASSUME NEW c \in Starts, NEW ids, Changes(c, ids)
        PROVE  excuse' \in [Ids -> {"none", "overlap", "unread", "former"}]
    BY <1>c DEF Changes
  <1>j. ASSUME NEW c \in Starts, NEW j \in Job, JobIs(c, j), writing[c] = {} \/ j.pc = "work"
        PROVE  /\ job' \in [Starts -> Job]
               /\ writing' = writing => \A d \in Starts : writing'[d] # {} => job'[d].pc = "work"
    BY <1>j DEF JobIs
  <1>n. \A c \in Starts : job[c].pc # "work" => writing[c] = {}
    OBVIOUS
  <1>1. ASSUME NEW i \in Ids, AccountAdd(i) PROVE TypeOK'
    BY <1>1, <1>0 DEF AccountAdd, TypeOK
  <1>2. ASSUME NEW i \in Ids, AccountFinish(i) PROVE TypeOK'
    BY <1>2, <1>0 DEF AccountFinish, TypeOK
  <1>3. ASSUME NEW i \in Ids, AccountRemove(i) PROVE TypeOK'
    BY <1>3, <1>0 DEF AccountRemove, TypeOK
  <1>4. ASSUME Crash PROVE TypeOK'
    <2>1. job' \in [Starts -> Job] /\ loc' \in [Threads -> Local]
      BY <1>4, NewJobs, LocalValues DEF Crash, Each, NoCalls
    <2>2. Nothing \in [Ids -> Complete \cup {None}] /\ Nothing \in [Ids -> Versions \cup {None}]
          /\ NoSaves \in [Slots -> Write \cup {None}]
      BY DEF Nothing, NoSaves
    <2>3. /\ now' \in Starts /\ stage' \in [Starts -> {"starting", "ready", "reset"}]
          /\ loaded' \in [Starts -> [Ids -> Complete \cup {None}]]
          /\ cached' \in [Starts -> [Ids -> Versions \cup {None}]]
          /\ saving' \in [Starts -> [Slots -> Write \cup {None}]]
      BY <1>4, <2>2 DEF Crash, Each, Starts
    <2>4. /\ todo' \in [Starts -> SUBSET Ids] /\ validating' \in [Starts -> SUBSET Ids]
          /\ writing' = [c \in Starts |-> {}]
          /\ excuse' \in [Ids -> {"none", "overlap", "unread", "former"}]
      BY <1>4 DEF Crash, Each, NoExcuse
    <2> QED
      BY <1>4, <1>0, <2>1, <2>3, <2>4 DEF Crash, TypeOK
  <1>5. ASSUME Restart PROVE TypeOK'
    BY <1>5 DEF Restart, NoExcuse, TypeOK
  <1>6. ASSUME NEW t \in Threads, Set(t) PROVE TypeOK'
    <2>1. loc[t] \in Setting /\ loc[t].at \in Starts /\ loc[t].id \in Ids /\ loc[t].ver \in Versions
      BY <1>6, LocalFields DEF Set
    <2>2. loc' \in [Threads -> Local]
      BY <1>6, <2>1, LocalValues DEF Set, Goto
    <2>3. cached' \in [Starts -> [Ids -> Versions \cup {None}]]
      BY <1>6, <2>1, OneChanged DEF Set
    <2> QED
      BY <1>6, <2>1, <2>2, <2>3, <1>c DEF Set, TypeOK
  <1>s. ASSUME NEW c \in Starts, NEW w \in Write, SaveTorrent(c, w)
        PROVE  /\ saving' \in [Starts -> [Slots -> Write \cup {None}]]
               /\ file' \in [Ids -> Versions \cup {None}]
               /\ excuse' \in [Ids -> {"none", "overlap", "unread", "former"}]
    <2>1. CASE WriteInGoroutine(c, w)
      <3>1. PICK s \in Slots : saving' = [saving EXCEPT ![c][s] = w]
        BY <2>1 DEF WriteInGoroutine, FreeSlots
      <3>2. saving' \in [Starts -> [Slots -> Write \cup {None}]]
        BY <3>1, OneChanged
      <3> QED
        BY <2>1, <3>2 DEF WriteInGoroutine
    <2>2. CASE Put(c, w.id, w.ver) /\ UNCHANGED saving
      BY <2>2, <1>p, WriteFields
    <2> QED
      BY <1>s, <2>1, <2>2 DEF SaveTorrent
  <1>7. ASSUME NEW t \in Threads, Save(t) PROVE TypeOK'
    <2>1. [id |-> loc[t].id, ver |-> loc[t].ver] \in Write /\ loc[t].at \in Starts
      BY <1>7, LocalFields, WriteFields DEF Save
    <2>2. loc' \in [Threads -> Local]
      BY <1>7, LocalValues DEF Save, Goto
    <2> QED
      BY <1>7, <1>s, <2>1, <2>2 DEF Save, TypeOK
  <1>8. ASSUME NEW t \in Threads, Trash(t) PROVE TypeOK'
    <2>1. loc[t] \in Deleting /\ loc[t].at \in Starts /\ loc[t].id \in Ids
      BY <1>8, LocalFields DEF Trash
    <2>2. loc' \in [Threads -> Local]
      BY <1>8, <2>1, LocalValues DEF Trash, Goto
    <2>3. /\ file' \in [Ids -> Versions \cup {None}]
          /\ excuse' \in [Ids -> {"none", "overlap", "unread", "former"}]
      BY <1>8, <2>1, <1>p DEF Trash, RemoveFromDB
    <2> QED
      BY <1>8, <2>2, <2>3 DEF Trash, TypeOK
  <1>9. ASSUME NEW t \in Threads, Tell(t) PROVE TypeOK'
    <2>1. loc' \in [Threads -> Local]
      BY <1>9, LocalValues DEF Tell, Goto
    <2> QED
      BY <1>9, <2>1 DEF Tell, TypeOK
  <1>10. ASSUME NEW t \in Threads, NEW c \in Starts, NEW i \in Ids, Caller(t, c, i) PROVE TypeOK'
    <2>1. PICK v \in Versions : EnterSet(t, c, i, v, "caller")
      BY <1>10 DEF Caller
    <2>2. loc' \in [Threads -> Local]
      BY <2>1, LocalValues DEF Goto, EnterSet
    <2> QED
      BY <1>10, <1>0, <2>2 DEF Caller, TypeOK
  <1>d. ASSUME NEW t \in Threads, NEW c \in Starts, NEW i \in Ids,
               NEW by \in {"caller", "validate", "sync"}, DeleteTorrent(t, c, i, by)
        PROVE  /\ loc' \in [Threads -> Local]
               /\ cached' \in [Starts -> [Ids -> Versions \cup {None}]]
               /\ excuse' \in [Ids -> {"none", "overlap", "unread", "former"}]
               /\ UNCHANGED <<writing, saving, file>>
    <2>1. loc' \in [Threads -> Local]
      BY <1>d, LocalValues DEF DeleteTorrent, Goto
    <2>2. cached' \in [Starts -> [Ids -> Versions \cup {None}]]
      BY <1>d, OneChanged DEF DeleteTorrent
    <2> QED
      BY <1>d, <1>c, <2>1, <2>2 DEF DeleteTorrent
  <1>11. ASSUME NEW t \in Threads, NEW c \in Starts, NEW i \in Ids, CallerDeletes(t, c, i) PROVE TypeOK'
    BY <1>11, <1>0, <1>d DEF CallerDeletes, TypeOK
  <1>12. ASSUME NEW t \in Threads, NEW c \in Starts, NEW i \in Ids, Process(t, c, i) PROVE TypeOK'
    <2>0. [pc |-> "set", at |-> c, id |-> i, ver |-> "linked", by |-> "worker"] \in Local
      BY LocalValues DEF Versions
    <2>1. loc' \in [Threads -> Local]
      BY <1>12, <2>0 DEF Process, Goto, EnterSet
    <2> QED
      BY <1>12, <1>0, <2>1 DEF Process, TypeOK
  <1>v. ASSUME NEW c \in Starts, NEW i \in Ids, Validated(c, i)
        PROVE  validating' \in [Starts -> SUBSET Ids]
    BY <1>v DEF Validated
  <1>13. ASSUME NEW t \in Threads, NEW c \in Starts, NEW i \in Ids, ValidateDeletes(t, c, i) PROVE TypeOK'
    BY <1>13, <1>0, <1>d, <1>v DEF ValidateDeletes, Validated, GetTorrentFails, TypeOK
  <1>14. ASSUME NEW c \in Starts, NEW i \in Ids, ValidateKeeps(c, i) PROVE TypeOK'
    BY <1>14, <1>v DEF ValidateKeeps, Validated, TypeOK
  <1>15. ASSUME NEW t \in Threads, NEW c \in Starts, NEW i \in Ids, SyncDeletes(t, c, i) PROVE TypeOK'
    <2>1. todo' \in [Starts -> SUBSET Ids]
      BY <1>15 DEF SyncDeletes
    <2> QED
      BY <1>15, <1>d, <2>1 DEF SyncDeletes, TypeOK
  <1>16. ASSUME NEW c \in Starts, Load(c) PROVE TypeOK'
    <2>1. job' \in [Starts -> Job] /\ \A d \in Starts : writing'[d] # {} => job'[d].pc = "work"
      BY <1>16, <1>j, <1>n, NewJobs DEF Load
    <2>2. loaded' \in [Starts -> [Ids -> Complete \cup {None}]] /\ events' \in 0..MaxEvents
      BY <1>16, <1>0 DEF Load, Loadable, Skips
    <2>3. excuse' \in [Ids -> {"none", "overlap", "unread", "former"}]
      BY <1>16 DEF Load
    <2> QED
      BY <1>16, <2>1, <2>2, <2>3 DEF Load, TypeOK
  <1>17. ASSUME NEW c \in Starts, ListPage(c) PROVE TypeOK'
    <2> DEFINE j == [pc |-> "list", offset |-> NextOffset(job[c].offset), attempt |-> 0,
                     got |-> job[c].got \cup Page(job[c].offset)]
    <2>0. job[c].offset \in Nat /\ job[c].got \in SUBSET Ids
      BY JobFields
    <2>2. Page(job[c].offset) \in SUBSET Ids
      BY DEF Page, Downloaded
    <2>1. NextOffset(job[c].offset) \in Nat
      BY SMTT(30), FiniteNumber, <2>0, <2>2 DEF NextOffset
    <2>3. j \in Job /\ j.pc = "list"
      BY <2>0, <2>1, <2>2 DEF Job
    <2>4. JobIs(c, j) /\ job[c].pc = "list"
      BY <1>17 DEF ListPage
    <2> HIDE DEF j
    <2>5. job' \in [Starts -> Job] /\ (writing' = writing => \A d \in Starts : writing'[d] # {} => job'[d].pc = "work")
      BY <2>3, <2>4, <1>j, <1>n
    <2> QED
      BY <1>17, <2>5 DEF ListPage, TypeOK
  <1>18. ASSUME NEW c \in Starts, SyncCompare(c) PROVE TypeOK'
    <2>1. [job[c] EXCEPT !.pc = "purge"] \in Job /\ job[c].pc = "list"
      BY <1>18, JobFields DEF SyncCompare, ListEnds
    <2>2. job' \in [Starts -> Job] /\ (writing' = writing => \A d \in Starts : writing'[d] # {} => job'[d].pc = "work")
      BY <1>18, <2>1, <1>j, <1>n DEF SyncCompare
    <2>3. todo' \in [Starts -> SUBSET Ids]
      BY <1>18 DEF SyncCompare, Loaded
    <2> QED
      BY <1>18, <2>2, <2>3 DEF SyncCompare, TypeOK
  <1>19. ASSUME NEW c \in Starts, SyncSet(c) PROVE TypeOK'
    <2>1. NewJob("work") \in Job /\ NewJob("work").pc = "work" /\ job' = [job EXCEPT ![c] = NewJob("work")]
      BY <1>19, NewJobs DEF SyncSet, JobIs
    <2>2. job' \in [Starts -> Job] /\ job'[c].pc = "work" /\ \A d \in Starts : d # c => job'[d] = job[d]
      BY <2>1
    <2>3. cached' \in [Starts -> [Ids -> Versions \cup {None}]]
      BY <1>19 DEF SyncSet, SyncSets, Loaded, Complete, Versions
    <2>4. /\ writing' \in [Starts -> SUBSET Write]
          /\ \A d \in Starts : d # c => writing'[d] = writing[d]
      BY <1>19 DEF SyncSet
    <2>5. loaded' \in [Starts -> [Ids -> Complete \cup {None}]]
      BY <1>19 DEF SyncSet, Nothing
    <2>6. todo' \in [Starts -> SUBSET Ids]
      <3>1. job[c].got \ Loaded(c) \in SUBSET Ids
        BY JobFields
      <3>2. todo' = [todo EXCEPT ![c] = job[c].got \ Loaded(c)]
        BY <1>19 DEF SyncSet
      <3> QED
        BY <3>1, <3>2
    <2>7. excuse' \in [Ids -> {"none", "overlap", "unread", "former"}]
      BY <1>19, <1>c DEF SyncSet
    <2>8. UNCHANGED <<debrid, events, now, stage, validating, loc, saving, file>>
      BY <1>19 DEF SyncSet
    <2>9. \A d \in Starts : writing'[d] # {} => job'[d].pc = "work"
      BY <2>2, <2>4
    <2> QED
      BY <2>2, <2>3, <2>4, <2>5, <2>6, <2>7, <2>8, <2>9 DEF TypeOK
  <1>20. ASSUME NEW c \in Starts, NEW w \in writing[c], SaveTorrents(c, w) PROVE TypeOK'
    <2>1. w \in Write /\ SaveTorrent(c, w)
      BY <1>20 DEF SaveTorrents
    <2>2. /\ writing' \in [Starts -> SUBSET Write]
          /\ \A d \in Starts : writing'[d] \subseteq writing[d]
      BY <1>20 DEF SaveTorrents
    <2> QED
      BY <1>20, <1>s, <2>1, <2>2 DEF SaveTorrents, TypeOK
  <1>21. ASSUME NEW c \in Starts, RefreshStart(c) PROVE TypeOK'
    <2>1. job' \in [Starts -> Job] /\ (writing' = writing => \A d \in Starts : writing'[d] # {} => job'[d].pc = "work")
      BY <1>21, <1>j, <1>n, NewJobs DEF RefreshStart
    <2> QED
      BY <1>21, <2>1 DEF RefreshStart, TypeOK
  <1>22. ASSUME NEW c \in Starts, RefreshCompare(c) PROVE TypeOK'
    <2>1. job' \in [Starts -> Job] /\ (writing' = writing => \A d \in Starts : writing'[d] # {} => job'[d].pc = "work")
      BY <1>22, <1>j, <1>n, NewJobs DEF RefreshCompare, ListEnds
    <2>2. todo' \in [Starts -> SUBSET Ids]
      <3>1. job[c].got \ Cached(c) \in SUBSET Ids
        BY JobFields
      <3> QED
        BY <1>22, <3>1 DEF RefreshCompare
    <2>3. validating' \in [Starts -> SUBSET Ids]
      <3> DEFINE both == validating[c] \cup (Cached(c) \ job[c].got)
      <3>1. both \in SUBSET Ids
        BY DEF Cached
      <3>2. validating' = validating \/ validating' = [validating EXCEPT ![c] = both]
        BY <1>22 DEF RefreshCompare
      <3> HIDE DEF both
      <3> QED
        BY <3>1, <3>2
    <2> QED
      BY <1>22, <2>1, <2>2, <2>3 DEF RefreshCompare, TypeOK
  <1>23. ASSUME NEW c \in Starts, JobDone(c) PROVE TypeOK'
    <2>1. writing[c] = {} /\ UNCHANGED writing
      BY <1>23 DEF JobDone, WorkersDone
    <2>2. job' \in [Starts -> Job] /\ \A d \in Starts : writing'[d] # {} => job'[d].pc = "work"
      BY <1>23, <2>1, <1>j, NewJobs DEF JobDone
    <2>3. stage' \in [Starts -> {"starting", "ready", "reset"}]
      BY <1>23 DEF JobDone
    <2> QED
      BY <1>23, <2>2, <2>3 DEF JobDone, TypeOK
  <1>f. ASSUME NEW c \in Starts, JobFails(c), job[c].pc = "list", UNCHANGED writing
        PROVE  job' \in [Starts -> Job] /\ \A d \in Starts : writing'[d] # {} => job'[d].pc = "work"
    BY <1>f, <1>j, <1>n, NewJobs DEF JobFails
  <1>24. ASSUME NEW c \in Starts, ListFault(c) PROVE TypeOK'
    <2>0. UNCHANGED writing /\ job[c].pc = "list" /\ job[c].attempt \in 0..MaxRetries
      BY <1>24, JobFields DEF ListFault
    <2>1. CASE Retry(c)
      <3>1. job[c].attempt + 1 \in 0..MaxRetries
        BY <2>1, <2>0 DEF Retry
      <3>2. [job[c] EXCEPT !.attempt = @ + 1] \in Job /\ JobIs(c, [job[c] EXCEPT !.attempt = @ + 1])
        BY <1>24, <2>1, <3>1, JobFields DEF ListFault
      <3>3. job' \in [Starts -> Job] /\ \A d \in Starts : writing'[d] # {} => job'[d].pc = "work"
        BY <2>0, <3>2, <1>j, <1>n
      <3> QED
        BY <1>24, <1>0, <3>3 DEF ListFault, TypeOK
    <2>2. CASE ~Retry(c)
      BY <1>24, <2>0, <2>2, <1>0, <1>f DEF ListFault, TypeOK
    <2> QED
      BY <2>1, <2>2
  <1>25. ASSUME NEW c \in Starts, ListRefused(c) PROVE TypeOK'
    BY <1>25, <1>0, <1>f DEF ListRefused, TypeOK
  <1>26. ASSUME NEW c \in Starts, WorkersQuit(c) PROVE TypeOK'
    BY <1>26 DEF WorkersQuit, TypeOK
  <1>27. ASSUME NEW c \in Starts, Reset(c) PROVE TypeOK'
    BY <1>27 DEF Reset, Nothing, TypeOK
  <1>28. ASSUME NEW c \in Starts, NEW s \in Slots, SaveLands(c, s) PROVE TypeOK'
    <2>1. saving[c][s] \in Write
      BY <1>28 DEF SaveLands
    <2>2. saving' \in [Starts -> [Slots -> Write \cup {None}]]
      BY <1>28, OneChanged DEF SaveLands
    <2>3. /\ file' \in [Ids -> Versions \cup {None}]
          /\ excuse' \in [Ids -> {"none", "overlap", "unread", "former"}]
      BY <1>28, <2>1, <1>p, WriteFields DEF SaveLands
    <2> QED
      BY <1>28, <2>2, <2>3 DEF SaveLands, TypeOK
  <1>29. CASE UNCHANGED vars
    BY <1>29 DEF vars, TypeOK
  <1> QED
    BY <1>1, <1>2, <1>3, <1>4, <1>5, <1>6, <1>7, <1>8, <1>9, <1>10, <1>11, <1>12, <1>13, <1>14,
       <1>15, <1>16, <1>17, <1>18, <1>19, <1>20, <1>21, <1>22, <1>23, <1>24, <1>25, <1>26, <1>27,
       <1>28, <1>29
    DEF Next, Account, Continue, Call, Proceed, Work

(* For every number of torrents, goroutines and slots, of pages, retries    *)
(* and restarts, the state of CachePersist keeps its types.                 *)
THEOREM TypeCorrect == Spec => []TypeOK
  BY TypeInit, TypeStep, PTL DEF Spec

(***************************************************************************)
(* What a cache has at which phase: only a start that lists has something  *)
(* loaded, and nothing works yet on the caches that are still to come.     *)
(***************************************************************************)
Phase(c) ==
    /\ job[c].pc = "load" => stage[c] = "starting"
    /\ job[c].pc \in {"load", "work"} \/ stage[c] # "starting" => loaded[c] = Nothing

ToCome(c) ==
    /\ cached[c] = Nothing /\ saving[c] = NoSaves /\ writing[c] = {}
    /\ job[c].pc = "load"

Order ==
    /\ \A c \in Starts : Phase(c) /\ (c > now => ToCome(c))
    /\ \A t \in Threads : loc[t].pc # "idle" => loc[t].at <= now

LEMMA OrderInit == Init => Order
  BY NewJobs DEF Init, Order, Phase, ToCome, Each, NoCalls, Idle, Starts

\* What a goroutine does to its own place.
LEMMA LocOrder ==
  ASSUME Order, now \in Starts, NEW t \in Threads, NEW l, loc \in [Threads -> Local], Goto(t, l),
         l.pc # "idle" => l.at \in Starts /\ l.at <= now
  PROVE  \A u \in Threads : loc'[u].pc # "idle" => loc'[u].at <= now
  BY DEF Order, Goto

LEMMA OrderStep == TypeOK /\ Order /\ [Next]_vars => Order'
  <1> SUFFICES ASSUME TypeOK, Order, [Next]_vars PROVE Order'
    OBVIOUS
  <1>t. /\ now \in Starts /\ now \in Nat
        /\ stage \in [Starts -> {"starting", "ready", "reset"}]
        /\ job \in [Starts -> Job]
        /\ loaded \in [Starts -> [Ids -> Complete \cup {None}]]
        /\ cached \in [Starts -> [Ids -> Versions \cup {None}]]
        /\ loc \in [Threads -> Local]
        /\ writing \in [Starts -> SUBSET Write]
        /\ \A c \in Starts : writing[c] # {} => job[c].pc = "work"
        /\ saving \in [Starts -> [Slots -> Write \cup {None}]]
    BY DEF TypeOK, Starts
  <1>o. /\ \A c \in Starts : Phase(c) /\ (c > now => ToCome(c))
        /\ \A t \in Threads : loc[t].pc # "idle" => loc[t].at <= now
    BY DEF Order
  <1> USE <1>t DEF account, sync, memory, disk
  \* A step on the job and the stage of one cache.
  <1>j. ASSUME NEW c \in Starts, NEW j \in Job, JobIs(c, j), job[c].pc # "load",
               UNCHANGED <<now, cached, loc, saving, writing>>,
               \A d \in Starts : d # c => stage'[d] = stage[d] /\ loaded'[d] = loaded[d],
               Phase(c)'
        PROVE  Order'
    <2>1. \A d \in Starts : d # c => job'[d] = job[d]
      BY <1>j DEF JobIs
    <2>2. ~(c > now)
      BY <1>j, <1>o DEF ToCome
    <2> QED
      BY <1>j, <1>o, <2>1, <2>2 DEF Order, Phase, ToCome
  <1>1. ASSUME UNCHANGED <<now, stage, job, loaded, cached, loc, writing, saving>> PROVE Order'
    BY <1>1 DEF Order, Phase, ToCome
  <1>2. ASSUME Crash PROVE Order'
    BY <1>2, NewJobs DEF Crash, Order, Phase, ToCome, Each, NoCalls, Idle, Starts
  <1>3. ASSUME Restart PROVE Order'
    <2>1. \A t \in Threads : loc[t].pc # "idle" => loc[t].at \in Starts
      BY LocalFields DEF Local, Idle, Setting, Deleting
    <2>2. now' = now + 1 /\ UNCHANGED <<stage, job, loaded, cached, loc, writing, saving>>
      BY <1>3 DEF Restart
    <2>3. \A t \in Threads : loc'[t].pc # "idle" => loc'[t].at <= now'
      BY SMTT(30), <1>o, <2>1, <2>2 DEF Starts
    <2>4. \A c \in Starts : c > now' => c > now
      BY <2>2 DEF Starts
    <2> QED
      BY <1>o, <2>2, <2>3, <2>4 DEF Order, Phase, ToCome
  <1>4. ASSUME NEW t \in Threads, Set(t) PROVE Order'
    <2>1. loc[t].at \in Starts /\ loc[t] \in Setting /\ loc[t].at <= now
      BY <1>4, <1>o, LocalFields DEF Set
    <2>2. \A c \in Starts : c > now => cached'[c] = cached[c]
      BY <1>4, <2>1 DEF Set, Starts
    <2>3. \A u \in Threads : loc'[u].pc # "idle" => loc'[u].at <= now
      BY <1>4, <2>1, LocOrder DEF Set, Setting
    <2> QED
      BY <1>4, <1>o, <2>2, <2>3 DEF Set, Order, Phase, ToCome
  <1>s. ASSUME NEW c \in Starts, NEW w, SaveTorrent(c, w)
        PROVE  \A d \in Starts : d # c => saving'[d] = saving[d]
    BY <1>s DEF SaveTorrent, WriteInGoroutine, FreeSlots
  <1>5. ASSUME NEW t \in Threads, Save(t) PROVE Order'
    <2>1. loc[t].at \in Starts /\ loc[t].at <= now
      BY <1>5, <1>o, LocalFields DEF Save
    <2>2. \A c \in Starts : c > now => saving'[c] = saving[c]
      BY <1>5, <2>1, <1>s DEF Save, Starts
    <2>3. \A u \in Threads : loc'[u].pc # "idle" => loc'[u].at <= now
      BY <1>5, LocOrder DEF Save, Idle
    <2> QED
      BY <1>5, <1>o, <2>2, <2>3 DEF Save, Order, Phase, ToCome
  <1>6. ASSUME NEW t \in Threads, Trash(t) PROVE Order'
    <2>1. loc[t].at \in Starts /\ loc[t] \in Deleting /\ loc[t].at <= now
      BY <1>6, <1>o, LocalFields DEF Trash
    <2>2. \A u \in Threads : loc'[u].pc # "idle" => loc'[u].at <= now
      BY <1>6, <2>1, LocOrder DEF Trash, Deleting, Idle
    <2> QED
      BY <1>6, <1>o, <2>2 DEF Trash, Order, Phase, ToCome
  <1>7. ASSUME NEW t \in Threads, Tell(t) PROVE Order'
    <2>1. \A u \in Threads : loc'[u].pc # "idle" => loc'[u].at <= now
      BY <1>7, LocOrder DEF Tell, Idle
    <2> QED
      BY <1>7, <1>o, <2>1 DEF Tell, Order, Phase, ToCome
  <1>8. ASSUME NEW t \in Threads, NEW c \in Starts, NEW i \in Ids, Caller(t, c, i) PROVE Order'
    <2>1. c <= now
      BY <1>8 DEF Caller, Started, Starts
    <2>2. \A u \in Threads : loc'[u].pc # "idle" => loc'[u].at <= now
      BY <1>8, <2>1, LocOrder DEF Caller, EnterSet
    <2> QED
      BY <1>8, <1>o, <2>2 DEF Caller, Order, Phase, ToCome
  <1>9. ASSUME NEW t \in Threads, NEW c \in Starts, NEW i \in Ids, NEW by,
               DeleteTorrent(t, c, i, by), UNCHANGED <<now, stage, job, loaded>>
        PROVE  Order'
    <2>1. c <= now
      BY <1>9, <1>o DEF DeleteTorrent, ToCome, Nothing, Starts
    <2>2. \A u \in Threads : loc'[u].pc # "idle" => loc'[u].at <= now
      BY <1>9, <2>1, LocOrder DEF DeleteTorrent
    <2>3. \A d \in Starts : d > now => cached'[d] = cached[d]
      BY <1>9, <2>1 DEF DeleteTorrent, Starts
    <2> QED
      BY <1>9, <1>o, <2>2, <2>3 DEF DeleteTorrent, Order, Phase, ToCome
  <1>10. ASSUME NEW t \in Threads, NEW c \in Starts, NEW i \in Ids,
                CallerDeletes(t, c, i) \/ ValidateDeletes(t, c, i)
         PROVE  Order'
    BY <1>10, <1>9 DEF CallerDeletes, ValidateDeletes, Validated
  <1>11. ASSUME NEW t \in Threads, NEW c \in Starts, NEW i \in Ids, SyncDeletes(t, c, i) PROVE Order'
    BY <1>11, <1>9, <1>1 DEF SyncDeletes
  <1>12. ASSUME NEW t \in Threads, NEW c \in Starts, NEW i \in Ids, Process(t, c, i) PROVE Order'
    <2>1. c <= now /\ UNCHANGED <<now, stage, job, loaded, cached, writing, saving>>
      BY <1>12, <1>o DEF Process, ToCome, Starts
    <2>2. CASE EnterSet(t, c, i, "linked", "worker")
      <3>1. \A u \in Threads : loc'[u].pc # "idle" => loc'[u].at <= now
        BY <2>1, <2>2, LocOrder DEF EnterSet
      <3> QED
        BY <1>o, <2>1, <3>1 DEF Order, Phase, ToCome
    <2> QED
      BY <1>12, <1>1, <2>1, <2>2 DEF Process
  <1>13. ASSUME NEW c \in Starts, Load(c) PROVE Order'
    <2>1. c <= now /\ stage[c] = "starting"
      BY <1>13, <1>o DEF Load, Started, Phase
    <2>2. /\ job'[c].pc = "list" /\ \A d \in Starts : d # c => job'[d] = job[d] /\ loaded'[d] = loaded[d]
          /\ UNCHANGED <<now, stage, cached, loc, writing, saving>>
      BY <1>13, NewJobs DEF Load, JobIs
    <2> QED
      BY <1>o, <2>1, <2>2 DEF Order, Phase, ToCome
  <1>14. ASSUME NEW c \in Starts, ListPage(c) PROVE Order'
    <2> DEFINE j == [pc |-> "list", offset |-> NextOffset(job[c].offset), attempt |-> 0,
                     got |-> job[c].got \cup Page(job[c].offset)]
    <2>1. JobIs(c, j) /\ job[c].pc = "list" /\ j.pc = "list"
      BY <1>14 DEF ListPage
    <2> HIDE DEF j
    <2>2. job'[c].pc = "list" /\ \A d \in Starts : d # c => job'[d] = job[d]
      BY <2>1 DEF JobIs
    <2> QED
      BY <1>14, <1>o, <2>1, <2>2 DEF ListPage, Order, Phase, ToCome
  <1>15. ASSUME NEW c \in Starts, SyncCompare(c) PROVE Order'
    <2>1. [job[c] EXCEPT !.pc = "purge"] \in Job /\ [job[c] EXCEPT !.pc = "purge"].pc = "purge"
      BY JobFields
    <2>2. Phase(c)'
      BY <1>15, <1>o, <2>1 DEF SyncCompare, ListEnds, JobIs, Phase
    <2> QED
      BY <1>15, <1>j, <2>1, <2>2 DEF SyncCompare, ListEnds
  <1>16. ASSUME NEW c \in Starts, SyncSet(c) PROVE Order'
    <2>1. c <= now
      BY <1>16, <1>o DEF SyncSet, ToCome, Starts
    <2>2. /\ job'[c].pc = "work" /\ loaded'[c] = Nothing
          /\ \A d \in Starts : d # c => job'[d] = job[d] /\ loaded'[d] = loaded[d]
                                        /\ cached'[d] = cached[d] /\ writing'[d] = writing[d]
          /\ UNCHANGED <<now, stage, loc, saving>>
      BY <1>16, NewJobs DEF SyncSet, JobIs
    <2> QED
      BY <1>o, <2>1, <2>2 DEF Order, Phase, ToCome, Starts
  <1>17. ASSUME NEW c \in Starts, NEW w \in writing[c], SaveTorrents(c, w) PROVE Order'
    <2>1. c <= now
      BY <1>o DEF ToCome, Starts
    <2>2. \A d \in Starts : d # c => saving'[d] = saving[d] /\ writing'[d] = writing[d]
      BY <1>17, <1>s DEF SaveTorrents
    <2> QED
      BY <1>17, <1>o, <2>1, <2>2 DEF SaveTorrents, Order, Phase, ToCome, Starts
  <1>18. ASSUME NEW c \in Starts, RefreshStart(c) PROVE Order'
    BY <1>18, <1>o, <1>j, NewJobs DEF RefreshStart, Phase, JobIs
  <1>19. ASSUME NEW c \in Starts, RefreshCompare(c) PROVE Order'
    <2>1. PICK j \in Job : j.pc \in {"idle", "work"} /\ JobIs(c, j)
      BY <1>19, NewJobs DEF RefreshCompare
    <2>2. Phase(c)'
      BY <1>19, <1>o, <2>1 DEF RefreshCompare, Phase, JobIs
    <2> QED
      BY <1>19, <1>j, <2>1, <2>2 DEF RefreshCompare, ListEnds
  <1>20. ASSUME NEW c \in Starts, JobDone(c) PROVE Order'
    <2>1. Phase(c)'
      BY <1>20, <1>o, NewJobs DEF JobDone, Phase, JobIs
    <2>2. \A d \in Starts : d # c => stage'[d] = stage[d]
      BY <1>20 DEF JobDone
    <2> QED
      BY <1>20, <1>j, <2>1, <2>2, NewJobs DEF JobDone
  <1>21. ASSUME NEW c \in Starts, ListFault(c) \/ ListRefused(c) PROVE Order'
    <2>1. PICK j \in Job : j.pc \in {"list", "idle", "failed"} /\ JobIs(c, j)
      <3>1. CASE JobFails(c)
        BY <3>1, NewJobs DEF JobFails
      <3>2. CASE Retry(c) /\ JobIs(c, [job[c] EXCEPT !.attempt = @ + 1]) /\ job[c].pc = "list"
        <4>1. job[c].attempt + 1 \in 0..MaxRetries
          <5>1. job[c].attempt \in 0..MaxRetries
            BY JobFields
          <5> QED
            BY <3>2, <5>1 DEF Retry
        <4> QED
          BY <3>2, <4>1, JobFields
      <3> QED
        BY <1>21, <3>1, <3>2 DEF ListFault, ListRefused
    <2>2. Phase(c)'
      BY <1>21, <1>o, <2>1 DEF ListFault, ListRefused, Phase, JobIs
    <2> QED
      BY <1>21, <1>j, <2>1, <2>2 DEF ListFault, ListRefused
  <1>22. ASSUME NEW c \in Starts, Reset(c) PROVE Order'
    BY <1>22, <1>o DEF Reset, Order, Phase, ToCome
  <1>23. ASSUME NEW c \in Starts, NEW s \in Slots, SaveLands(c, s) PROVE Order'
    <2>1. c <= now
      BY <1>23, <1>o DEF SaveLands, ToCome, NoSaves, Starts
    <2>2. \A d \in Starts : d # c => saving'[d] = saving[d]
      BY <1>23 DEF SaveLands
    <2> QED
      BY <1>23, <1>o, <2>1, <2>2 DEF SaveLands, Order, Phase, ToCome, Starts
  <1>24. ASSUME \/ \E i \in Ids : AccountAdd(i) \/ AccountFinish(i) \/ AccountRemove(i)
                \/ \E c \in Starts : WorkersQuit(c) \/ \E i \in Ids : ValidateKeeps(c, i)
         PROVE  Order'
    BY <1>24, <1>1 DEF AccountAdd, AccountFinish, AccountRemove, WorkersQuit, ValidateKeeps, Validated
  <1>25. CASE UNCHANGED vars
    BY <1>25, <1>1 DEF vars
  <1> QED
    BY <1>2, <1>3, <1>4, <1>5, <1>6, <1>7, <1>8, <1>10, <1>11, <1>12, <1>13, <1>14, <1>15, <1>16,
       <1>17, <1>18, <1>19, <1>20, <1>21, <1>22, <1>23, <1>24, <1>25
    DEF Next, Account, Continue, Call, Proceed, Work

(***************************************************************************)
(* The file follows the memory of the running service.  The invariant adds *)
(* to FileFollows that whatever its cache is about to write or to remove   *)
(* agrees with memory, and what is true before a start has taken over the  *)
(* files: a torrent is either settled already or not touched yet.          *)
(***************************************************************************)
Own(i) ==
    \/ \E s \in Slots : saving[now][s] # None /\ saving[now][s].id = i
    \/ \E t \in Threads : loc[t].pc \in {"save", "trash"} /\ loc[t].at = now /\ loc[t].id = i
    \/ \E w \in writing[now] : w.id = i

Agrees(i) ==
    /\ \A t \in Threads : loc[t].id = i /\ loc[t].at = now =>
          /\ loc[t].pc = "save" => cached[now][i] = loc[t].ver
          /\ loc[t].pc = "trash" => cached[now][i] = None
    /\ \A s \in Slots :
          saving[now][s] # None /\ saving[now][s].id = i => cached[now][i] = saving[now][s].ver
    /\ \A w \in writing[now] : w.id = i => cached[now][i] = w.ver

Settled(i) == excuse[i] # "none" \/ (Agrees(i) /\ (Busy(i) \/ file[i] = cached[now][i]))

Untaken(i) ==
    /\ cached[now][i] = None /\ ~Own(i)
    /\ job[now].pc = "load" \/ loaded[now][i] # None

Inv == \A i \in Ids : Settled(i) \/ Untaken(i)

LEMMA InvInit == Init => Inv
  BY NewJobs DEF Init, Inv, Untaken, Own, Each, NoCalls, Idle, NoSaves, Nothing, Starts

LEMMA InvImplies == TypeOK /\ Order /\ Inv => FileFollows
  BY DEF TypeOK, Order, Phase, Inv, Settled, Untaken, Nothing, FileFollows, Synced

LEMMA InvStep == TypeOK /\ Order /\ Inv /\ [Next]_vars => Inv'
  <1> SUFFICES ASSUME TypeOK, Order, Inv, [Next]_vars PROVE Inv'
    OBVIOUS
  <1>t. /\ now \in Starts
        /\ job \in [Starts -> Job]
        /\ loaded \in [Starts -> [Ids -> Complete \cup {None}]]
        /\ cached \in [Starts -> [Ids -> Versions \cup {None}]]
        /\ loc \in [Threads -> Local]
        /\ writing \in [Starts -> SUBSET Write]
        /\ saving \in [Starts -> [Slots -> Write \cup {None}]]
        /\ file \in [Ids -> Versions \cup {None}]
        /\ excuse \in [Ids -> {"none", "overlap", "unread", "former"}]
    BY DEF TypeOK
  <1>i. \A i \in Ids : Settled(i) \/ Untaken(i)
    BY DEF Inv
  <1> USE <1>t DEF account, sync, memory, disk
  \* What touches neither the files, nor the memory of the running cache, nor
  \* what is under way, keeps every torrent as it is.
  <1>f. ASSUME UNCHANGED <<now, cached, loc, writing, saving, file, excuse>>,
               job'[now].pc = job[now].pc \/ job[now].pc # "load",
               loaded'[now] = loaded[now]
        PROVE  Inv'
    BY <1>f, <1>i DEF Inv, Settled, Untaken, Own, Agrees, Busy
  <1>1. ASSUME Crash PROVE Inv'
    BY <1>1, NewJobs DEF Crash, Inv, Untaken, Own, Each, NoCalls, Idle, NoSaves, Nothing, Starts
  <1>2. ASSUME Restart PROVE Inv'
    <2>1. now' \in Starts /\ now' > now /\ UNCHANGED <<job, loaded, cached, loc, writing, saving>>
      BY <1>2 DEF Restart, Starts
    <2>2. ToCome(now')
      BY <2>1 DEF Order
    <2>3. ASSUME NEW t \in Threads, loc[t].pc # "idle" PROVE loc[t].at # now'
      <3>1. loc[t].at \in Starts
        BY <2>3, LocalFields DEF Local, Idle, Setting, Deleting
      <3>2. loc[t].at <= now
        BY <2>3 DEF Order
      <3> QED
        BY <2>1, <3>1, <3>2 DEF Starts
    <2> QED
      BY <2>1, <2>2, <2>3 DEF ToCome, Inv, Untaken, Own, NoSaves, Nothing
  <1>3. ASSUME NEW t \in Threads, Set(t) PROVE Inv'
    <2>0. loc[t].at \in Starts /\ loc[t].id \in Ids /\ loc[t].ver \in Versions
      BY <1>3, LocalFields DEF Set
    <2> PICK c \in Starts, k \in Ids, v \in Versions : c = loc[t].at /\ k = loc[t].id /\ v = loc[t].ver
      BY <2>0
    <2>1. v # None
      BY DEF Versions
    <2>2. /\ loc'[t].pc = "save" /\ loc'[t].at = c /\ loc'[t].id = k /\ loc'[t].ver = v
          /\ loc[t].pc = "set" /\ \A u \in Threads : u # t => loc'[u] = loc[u]
      BY <1>3, LocalFields DEF Set, Goto, Setting
    <2>3. /\ cached'[c][k] = v
          /\ \A d \in Starts, i \in Ids : d # c \/ i # k => cached'[d][i] = cached[d][i]
      BY <1>3, <2>1 DEF Set
    <2>4. Changes(c, {k}) /\ UNCHANGED <<now, job, loaded, writing, saving, file>>
      BY <1>3 DEF Set
    <2>5. ASSUME NEW i \in Ids, i # k \/ c # now PROVE Settled(i)' \/ Untaken(i)'
      <3>1. excuse'[i] = excuse[i] /\ cached'[now][i] = cached[now][i]
        BY <2>3, <2>4, <2>5 DEF Changes
      <3>2. (Own(i)' <=> Own(i)) /\ (Agrees(i) => Agrees(i)')
        <4>1. Own(i)' <=> Own(i)
          BY <2>2, <2>4, <2>5 DEF Own
        <4>2. \A u \in Threads : loc'[u].pc \in {"save", "trash"} /\ loc'[u].id = i /\ loc'[u].at = now
                                 => loc'[u] = loc[u]
          BY <2>2, <2>5
        <4>3. Agrees(i) => Agrees(i)'
          BY <2>4, <3>1, <4>2 DEF Agrees
        <4> QED
          BY <4>1, <4>3
      <3>3. Busy(i) => Busy(i)'
        BY <2>2, <2>4 DEF Busy
      <3> QED
        BY <1>i, <2>4, <3>1, <3>2, <3>3 DEF Settled, Untaken
    <2>6. ASSUME c = now PROVE Settled(k)'
      <3>1. CASE Busy(k)
        BY <2>1, <2>4, <2>6, <3>1 DEF Changes, Settled
      <3>2. CASE ~Busy(k)
        <4>1. Agrees(k)'
          <5>1. \A u \in Threads : loc[u].pc \in {"save", "trash"} => loc[u].id # k
            BY <3>2 DEF Busy
          <5>2. \A r \in Slots : saving[now][r] # None => saving[now][r].id # k
            BY <3>2 DEF Busy
          <5>3. \A x \in writing[now] : x.id # k
            BY <3>2 DEF Busy
          <5>4. cached'[now][k] = v
            BY <2>3, <2>6
          <5> QED
            BY <2>2, <2>4, <5>1, <5>2, <5>3, <5>4 DEF Agrees
        <4>2. Busy(k)'
          BY <2>2 DEF Busy
        <4> QED
          BY <4>1, <4>2 DEF Settled
      <3> QED
        BY <3>1, <3>2
    <2> QED
      BY <2>5, <2>6 DEF Inv
  \* A cache puts something in a file and has done with it.
  <1>p. ASSUME NEW c \in Starts, NEW k \in Ids, NEW v \in Versions \cup {None}, Put(c, k, v),
               UNCHANGED <<now, job, loaded, cached>>,
               c = now => (excuse[k] # "none" \/ cached[now][k] = v) /\ Own(k),
               \A i \in Ids : /\ Own(i)' => Own(i)
                              /\ Agrees(i) => Agrees(i)'
                              /\ i # k => (Busy(i) <=> Busy(i)')
        PROVE  Inv'
    <2>1. ASSUME NEW i \in Ids, i # k PROVE Settled(i)' \/ Untaken(i)'
      <3>1. excuse'[i] = excuse[i] /\ file'[i] = file[i]
        BY <1>p, <2>1 DEF Put
      <3> QED
        BY <1>p, <1>i, <2>1, <3>1 DEF Settled, Untaken
    <2>2. CASE c # now
      <3>1. excuse'[k] = "former"
        BY <1>p, <2>2 DEF Put
      <3> QED
        BY <2>1, <3>1 DEF Inv, Settled
    <2>3. CASE c = now
      <3>1. excuse' = excuse /\ file'[k] = v
        BY <1>p, <2>3 DEF Put
      <3>2. Settled(k)
        BY <1>p, <1>i, <2>3 DEF Untaken
      <3>3. Settled(k)'
        BY <1>p, <2>3, <3>1, <3>2 DEF Settled
      <3> QED
        BY <2>1, <3>3 DEF Inv
    <2> QED
      BY <2>2, <2>3
  \* A goroutine or SaveTorrents hands a write over.
  <1>s. ASSUME NEW c \in Starts, NEW w \in Write, SaveTorrent(c, w),
               UNCHANGED <<now, job, loaded, cached>>,
               c = now => Own(w.id) /\ (Agrees(w.id) => cached[now][w.id] = w.ver),
               \A i \in Ids : i # w.id =>
                  /\ \A t \in Threads : loc[t].id = i \/ loc'[t].id = i => loc'[t] = loc[t]
                  /\ \A d \in Starts, x \in Write : x.id = i => (x \in writing'[d] <=> x \in writing[d]),
               \A t \in Threads : loc'[t].pc \in {"save", "trash"} => loc'[t] = loc[t],
               \A d \in Starts : writing'[d] \subseteq writing[d]
        PROVE  Inv'
    <2>0. w.id \in Ids /\ w.ver \in Versions /\ w # None
      BY WriteFields
    <2>1. CASE FreeSlots(c) # {} /\ WriteInGoroutine(c, w)
      <3>1. PICK s \in Slots : saving[c][s] = None /\ saving' = [saving EXCEPT ![c][s] = w]
        BY <2>1 DEF WriteInGoroutine, FreeSlots
      <3>2. saving'[c][s] = w /\ \A d \in Starts, r \in Slots : d # c \/ r # s => saving'[d][r] = saving[d][r]
        BY <3>1
      <3>3. UNCHANGED <<file, excuse>>
        BY <2>1 DEF WriteInGoroutine
      <3>4. ASSUME NEW i \in Ids, i # w.id PROVE Settled(i)' \/ Untaken(i)'
        <4>1. Own(i)' => Own(i)
          BY <1>s, <2>0, <3>2, <3>4 DEF Own
        <4>2. Agrees(i) => Agrees(i)'
          BY <1>s, <2>0, <3>2, <3>4 DEF Agrees
        <4>3. Busy(i) => Busy(i)'
          <5>1. CASE \E d \in Starts, r \in Slots : saving[d][r] # None /\ saving[d][r].id = i
            BY <3>1, <3>2, <5>1 DEF Busy
          <5>2. CASE \E t \in Threads : loc[t].pc \in {"save", "trash"} /\ loc[t].id = i
            BY <1>s, <3>4, <5>2 DEF Busy
          <5>3. CASE \E d \in Starts : \E x \in writing[d] : x.id = i
            BY <1>s, <3>4, <5>3 DEF Busy
          <5> QED
            BY <5>1, <5>2, <5>3 DEF Busy
        <4> QED
          BY <1>s, <1>i, <3>3, <4>1, <4>2, <4>3 DEF Settled, Untaken
      <3>5. Settled(w.id)' \/ Untaken(w.id)'
        <4>1. Busy(w.id)'
          BY <2>0, <3>2 DEF Busy
        <4>2. CASE c = now
          <5>1. Settled(w.id)
            BY <1>s, <1>i, <2>0, <4>2 DEF Untaken
          <5>2. Agrees(w.id) => Agrees(w.id)'
            <6>1. ASSUME Agrees(w.id), NEW r \in Slots, saving'[now][r] # None, saving'[now][r].id = w.id
                  PROVE  cached[now][w.id] = saving'[now][r].ver
              <7>1. CASE r = s
                BY <1>s, <3>2, <4>2, <6>1, <7>1
              <7>2. CASE r # s
                <8>1. saving'[now][r] = saving[now][r]
                  BY <3>2, <7>2
                <8> QED
                  BY <6>1, <8>1 DEF Agrees
              <7> QED
                BY <7>1, <7>2
            <6>2. ASSUME Agrees(w.id), NEW t \in Threads, loc'[t].id = w.id, loc'[t].at = now
                  PROVE  /\ loc'[t].pc = "save" => cached[now][w.id] = loc'[t].ver
                         /\ loc'[t].pc = "trash" => cached[now][w.id] = None
              BY <1>s, <6>2 DEF Agrees
            <6>3. ASSUME Agrees(w.id), NEW x \in writing'[now], x.id = w.id
                  PROVE  cached[now][w.id] = x.ver
              BY <1>s, <6>3 DEF Agrees
            <6> QED
              BY <1>s, <6>1, <6>2, <6>3 DEF Agrees
          <5> QED
            BY <3>3, <4>1, <5>1, <5>2 DEF Settled
        <4>3. CASE c # now
          <5>1. Agrees(w.id) => Agrees(w.id)'
            <6>1. \A r \in Slots : saving'[now][r] = saving[now][r]
              BY <3>2, <4>3
            <6>2. ASSUME Agrees(w.id), NEW t \in Threads, loc'[t].id = w.id, loc'[t].at = now
                  PROVE  /\ loc'[t].pc = "save" => cached[now][w.id] = loc'[t].ver
                         /\ loc'[t].pc = "trash" => cached[now][w.id] = None
              BY <1>s, <6>2 DEF Agrees
            <6>3. ASSUME Agrees(w.id), NEW x \in writing'[now], x.id = w.id
                  PROVE  cached[now][w.id] = x.ver
              BY <1>s, <6>3 DEF Agrees
            <6> QED
              BY <1>s, <6>1, <6>2, <6>3 DEF Agrees
          <5>2. Own(w.id)' => Own(w.id)
            BY <1>s, <2>0, <3>2, <4>3 DEF Own
          <5> QED
            BY <1>s, <1>i, <2>0, <3>3, <4>1, <5>1, <5>2 DEF Settled, Untaken
        <4> QED
          BY <4>2, <4>3
      <3> QED
        BY <2>0, <3>4, <3>5 DEF Inv
    <2>2. CASE Put(c, w.id, w.ver) /\ UNCHANGED saving
      <3>1. \A i \in Ids : /\ Own(i)' => Own(i)
                           /\ Agrees(i) => Agrees(i)'
        BY <1>s, <2>2 DEF Own, Agrees
      <3>2. ASSUME NEW i \in Ids, i # w.id PROVE Busy(i) <=> Busy(i)'
        BY <1>s, <2>2, <3>2 DEF Busy
      <3>3. c = now => (excuse[w.id] # "none" \/ cached[now][w.id] = w.ver) /\ Own(w.id)
        BY <1>s, <1>i, <2>0 DEF Settled, Untaken
      <3> QED
        BY <1>s, <1>p, <2>0, <2>2, <3>1, <3>2, <3>3
    <2> QED
      BY <1>s, <2>1, <2>2 DEF SaveTorrent
  <1>4. ASSUME NEW t \in Threads, Save(t) PROVE Inv'
    <2>0. loc[t].at \in Starts /\ [id |-> loc[t].id, ver |-> loc[t].ver] \in Write
      BY <1>4, LocalFields, WriteFields DEF Save
    <2> PICK c \in Starts, w \in Write : c = loc[t].at /\ w = [id |-> loc[t].id, ver |-> loc[t].ver]
      BY <2>0
    <2>1. loc[t].pc = "save" /\ w.id = loc[t].id /\ w.ver = loc[t].ver /\ w.id \in Ids
      BY <1>4, WriteFields DEF Save
    <2>2. loc'[t] = Idle /\ \A u \in Threads : u # t => loc'[u] = loc[u]
      BY <1>4 DEF Save, Goto
    <2>3. SaveTorrent(c, w) /\ UNCHANGED <<now, job, loaded, cached, writing>>
      BY <1>4 DEF Save
    <2>4. c = now => Own(w.id) /\ (Agrees(w.id) => cached[now][w.id] = w.ver)
      BY <2>1 DEF Own, Agrees
    <2>5. \A u \in Threads : loc'[u].pc \in {"save", "trash"} => loc'[u] = loc[u]
      BY <2>2 DEF Idle
    <2>6. ASSUME NEW i \in Ids, i # w.id, NEW u \in Threads, loc[u].id = i \/ loc'[u].id = i
          PROVE  loc'[u] = loc[u]
      BY <2>1, <2>2, <2>6 DEF Idle, Ids
    <2>7. \A i \in Ids : i # w.id =>
             /\ \A u \in Threads : loc[u].id = i \/ loc'[u].id = i => loc'[u] = loc[u]
             /\ \A d \in Starts, x \in Write : x.id = i => (x \in writing'[d] <=> x \in writing[d])
      BY <2>3, <2>6
    <2>8. \A d \in Starts : writing'[d] \subseteq writing[d]
      BY <2>3
    <2> QED
      BY <1>s, <2>3, <2>4, <2>5, <2>7, <2>8
  <1>5. ASSUME NEW c \in Starts, NEW w \in writing[c], SaveTorrents(c, w) PROVE Inv'
    <2>1. w \in Write /\ SaveTorrent(c, w) /\ UNCHANGED <<now, job, loaded, cached, loc>>
      BY <1>5 DEF SaveTorrents
    <2>2. writing'[c] = writing[c] \ {w} /\ \A d \in Starts : d # c => writing'[d] = writing[d]
      BY <1>5 DEF SaveTorrents
    <2>3. c = now => Own(w.id) /\ (Agrees(w.id) => cached[now][w.id] = w.ver)
      BY DEF Own, Agrees
    <2>4. \A d \in Starts : writing'[d] \subseteq writing[d]
      BY <2>2
    <2>5. \A i \in Ids : i # w.id => \A d \in Starts, x \in Write : x.id = i =>
             (x \in writing'[d] <=> x \in writing[d])
      BY <2>2
    <2> QED
      BY <1>s, <2>1, <2>3, <2>4, <2>5
  <1>6. ASSUME NEW t \in Threads, Trash(t) PROVE Inv'
    <2>1. /\ loc[t].at \in Starts /\ loc[t].id \in Ids /\ loc[t] \in Deleting /\ loc[t].pc = "trash"
      BY <1>6, LocalFields DEF Trash
    <2>2. loc'[t].pc \in {"idle", "tell"} /\ \A u \in Threads : u # t => loc'[u] = loc[u]
      BY <1>6, <2>1 DEF Trash, Goto, Idle, Deleting
    <2>3. Put(loc[t].at, loc[t].id, None) /\ UNCHANGED <<now, job, loaded, cached, writing, saving>>
      BY <1>6 DEF Trash, RemoveFromDB
    <2>4. \A i \in Ids : (Own(i)' => Own(i)) /\ (Agrees(i) => Agrees(i)')
      BY <2>2, <2>3 DEF Own, Agrees
    <2>5. ASSUME NEW i \in Ids, i # loc[t].id PROVE Busy(i) <=> Busy(i)'
      BY <2>1, <2>2, <2>3, <2>5 DEF Busy
    <2>6. loc[t].at = now => (excuse[loc[t].id] # "none" \/ cached[now][loc[t].id] = None) /\ Own(loc[t].id)
      <3> SUFFICES ASSUME loc[t].at = now
                   PROVE  (excuse[loc[t].id] # "none" \/ cached[now][loc[t].id] = None) /\ Own(loc[t].id)
        OBVIOUS
      <3>1. Own(loc[t].id)
        BY <2>1 DEF Own
      <3>2. Settled(loc[t].id)
        BY <1>i, <2>1, <3>1 DEF Untaken
      <3> QED
        BY <2>1, <3>1, <3>2 DEF Settled, Agrees
    <2> QED
      BY <1>p, <2>1, <2>3, <2>4, <2>5, <2>6
  \* A goroutine enters, leaves or passes over something else than a write.
  <1>q. ASSUME NEW t \in Threads, loc[t].pc \notin {"save", "trash"}, loc'[t].pc \notin {"save", "trash"},
               \A u \in Threads : u # t => loc'[u] = loc[u],
               UNCHANGED <<now, job, loaded, cached, writing, saving, file, excuse>>
        PROVE  Inv'
    <2> SUFFICES ASSUME NEW i \in Ids PROVE Settled(i)' \/ Untaken(i)'
      BY DEF Inv
    <2>1. Own(i)' <=> Own(i)
      BY <1>q DEF Own
    <2>2. Agrees(i)' <=> Agrees(i)
      BY <1>q DEF Agrees
    <2>3. Busy(i)' <=> Busy(i)
      BY <1>q DEF Busy
    <2> QED
      BY <1>q, <1>i, <2>1, <2>2, <2>3 DEF Settled, Untaken
  <1>7. ASSUME NEW t \in Threads, Tell(t) PROVE Inv'
    BY <1>7, <1>q DEF Tell, Goto, Idle
  <1>8. ASSUME NEW t \in Threads, NEW c \in Starts, NEW i \in Ids, Caller(t, c, i) \/ Process(t, c, i)
        PROVE  Inv'
    <2>1. UNCHANGED <<now, job, loaded, cached, writing, saving, file, excuse>> /\ loc[t].pc = "idle"
      BY <1>8 DEF Caller, Process, Idle
    <2>2. loc'[t].pc \in {"idle", "set"} /\ \A u \in Threads : u # t => loc'[u] = loc[u]
      BY <1>8, <2>1 DEF Caller, Process, EnterSet, Goto
    <2> QED
      BY <2>1, <2>2, <1>q
  <1>9. ASSUME NEW t \in Threads, NEW c \in Starts, NEW k \in Ids, NEW by,
               DeleteTorrent(t, c, k, by), UNCHANGED <<now, job, loaded>>
        PROVE  Inv'
    <2>1. /\ loc'[t].pc = "trash" /\ loc'[t].at = c /\ loc'[t].id = k /\ loc[t].pc = "idle"
          /\ \A u \in Threads : u # t => loc'[u] = loc[u]
      BY <1>9 DEF DeleteTorrent, Goto, Idle
    <2>2. /\ cached'[c][k] = None
          /\ \A d \in Starts, i \in Ids : d # c \/ i # k => cached'[d][i] = cached[d][i]
      BY <1>9 DEF DeleteTorrent
    <2>3. Changes(c, {k}) /\ UNCHANGED <<now, job, loaded, writing, saving, file>>
      BY <1>9 DEF DeleteTorrent
    <2>4. ASSUME NEW i \in Ids, i # k \/ c # now PROVE Settled(i)' \/ Untaken(i)'
      <3>1. excuse'[i] = excuse[i] /\ cached'[now][i] = cached[now][i]
        BY <2>2, <2>3, <2>4 DEF Changes
      <3>2. (Own(i)' <=> Own(i)) /\ (Agrees(i) => Agrees(i)')
        <4>1. \A u \in Threads : loc'[u].pc \in {"save", "trash"} /\ loc'[u].id = i /\ loc'[u].at = now
                                 => loc'[u] = loc[u]
          BY <2>1, <2>4
        <4>2. \A u \in Threads : loc[u].pc \in {"save", "trash"} => loc'[u] = loc[u]
          BY <2>1
        <4>3. Own(i)' <=> Own(i)
          BY <2>3, <4>1, <4>2 DEF Own
        <4>4. Agrees(i) => Agrees(i)'
          BY <2>3, <3>1, <4>1 DEF Agrees
        <4> QED
          BY <4>3, <4>4
      <3>3. Busy(i) => Busy(i)'
        BY <2>1, <2>3 DEF Busy
      <3> QED
        BY <1>i, <2>3, <3>1, <3>2, <3>3 DEF Settled, Untaken
    <2>5. ASSUME c = now PROVE Settled(k)'
      <3>1. CASE Busy(k)
        BY <2>3, <2>5, <3>1 DEF Changes, Settled
      <3>2. CASE ~Busy(k)
        <4>1. Agrees(k)'
          <5>1. \A u \in Threads : loc[u].pc \in {"save", "trash"} => loc[u].id # k
            BY <3>2 DEF Busy
          <5>2. \A r \in Slots : saving[now][r] # None => saving[now][r].id # k
            BY <3>2 DEF Busy
          <5>3. \A x \in writing[now] : x.id # k
            BY <3>2 DEF Busy
          <5>4. cached'[now][k] = None
            BY <2>2, <2>5
          <5> QED
            BY <2>1, <2>3, <5>1, <5>2, <5>3, <5>4 DEF Agrees
        <4>2. Busy(k)'
          BY <2>1 DEF Busy
        <4> QED
          BY <4>1, <4>2 DEF Settled
      <3> QED
        BY <3>1, <3>2
    <2> QED
      BY <2>4, <2>5 DEF Inv
  <1>10. ASSUME NEW t \in Threads, NEW c \in Starts, NEW i \in Ids,
                CallerDeletes(t, c, i) \/ ValidateDeletes(t, c, i)
         PROVE  Inv'
    BY <1>10, <1>9 DEF CallerDeletes, ValidateDeletes, Validated
  <1>11. ASSUME NEW t \in Threads, NEW c \in Starts, NEW i \in Ids, SyncDeletes(t, c, i) PROVE Inv'
    BY <1>11, <1>9, <1>f DEF SyncDeletes
  <1>12. ASSUME NEW c \in Starts, Load(c) PROVE Inv'
    <2>1. /\ UNCHANGED <<now, cached, loc, writing, saving, file>>
          /\ \A d \in Starts : d # c => job'[d] = job[d] /\ loaded'[d] = loaded[d]
          /\ excuse' = [i \in Ids |-> IF /\ c = now /\ file[i] # None
                                         /\ loaded'[c][i] = None /\ cached[c][i] = None
                                      THEN "unread" ELSE excuse[i]]
      BY <1>12 DEF Load, JobIs
    <2>2. CASE c # now
      BY <2>1, <2>2, <1>i DEF Inv, Settled, Untaken, Own, Agrees, Busy
    <2>3. CASE c = now
      <3> SUFFICES ASSUME NEW i \in Ids PROVE Settled(i)' \/ Untaken(i)'
        BY DEF Inv
      <3>1. (Own(i)' <=> Own(i)) /\ (Agrees(i)' <=> Agrees(i)) /\ (Busy(i)' <=> Busy(i))
        BY <2>1 DEF Own, Agrees, Busy
      <3>2. CASE Settled(i)
        BY <2>1, <3>1, <3>2 DEF Settled
      <3>3. CASE Untaken(i)
        <4>1. cached[now][i] = None /\ ~Own(i) /\ Agrees(i)
          BY <3>3 DEF Untaken, Own, Agrees
        <4>2. CASE loaded'[now][i] # None
          BY <2>1, <3>1, <4>1, <4>2 DEF Untaken
        <4>3. CASE loaded'[now][i] = None /\ file[i] # None
          BY <2>1, <2>3, <4>1, <4>3 DEF Settled
        <4>4. CASE file[i] = None
          BY <2>1, <3>1, <4>1, <4>4 DEF Settled
        <4> QED
          BY <4>2, <4>3, <4>4
      <3> QED
        BY <1>i, <3>2, <3>3
    <2> QED
      BY <2>2, <2>3
  <1>13. ASSUME NEW c \in Starts, SyncSet(c) PROVE Inv'
    <2>1. /\ UNCHANGED <<now, loc, saving, file>> /\ Changes(c, Loaded(c))
          /\ \A d \in Starts : d # c => job'[d] = job[d] /\ loaded'[d] = loaded[d]
                                        /\ cached'[d] = cached[d] /\ writing'[d] = writing[d]
          /\ cached'[c] = [i \in Ids |-> IF loaded[c][i] # None THEN loaded[c][i] ELSE cached[c][i]]
          /\ writing'[c] = {w \in Write : cached'[c][w.id] = w.ver}
          /\ job[c].pc = "purge"
      BY <1>13 DEF SyncSet, SyncSets, Loaded, JobIs
    <2>2. writing[c] = {}
      BY <2>1 DEF TypeOK
    <2>3. CASE c # now
      <3>1. excuse' = excuse
        BY <2>1, <2>3 DEF Changes
      <3>2. \A i \in Ids : Busy(i) => Busy(i)'
        BY <2>1, <2>2 DEF Busy
      <3> QED
        BY <1>i, <2>1, <2>3, <3>1, <3>2 DEF Inv, Settled, Untaken, Own, Agrees
    <2>4. CASE c = now
      <3> SUFFICES ASSUME NEW i \in Ids PROVE Settled(i)'
        BY DEF Inv
      <3>w. \A w \in writing'[now] : w.id = i => cached'[now][i] = w.ver
        BY <2>1, <2>4
      <3>b. Busy(i) => Busy(i)'
        BY <2>1, <2>2 DEF Busy
      <3>1. CASE loaded[now][i] = None
        <4>1. excuse'[i] = excuse[i] /\ cached'[now][i] = cached[now][i]
          BY <2>1, <2>4, <3>1 DEF Changes, Loaded
        <4>2. Settled(i)
          BY <1>i, <2>1, <2>4, <3>1 DEF Untaken
        <4>3. Agrees(i) => Agrees(i)'
          BY <2>1, <3>w, <4>1 DEF Agrees
        <4> QED
          BY <2>1, <3>b, <4>1, <4>2, <4>3 DEF Settled
      <3>2. CASE loaded[now][i] # None
        <4>1. CASE Busy(i)
          BY <2>1, <2>4, <3>2, <4>1 DEF Changes, Loaded, Settled
        <4>2. CASE ~Busy(i)
          <5>1. Agrees(i)'
            BY <2>1, <3>w, <4>2 DEF Agrees, Busy
          <5>2. cached'[now][i] \in Versions
            BY <2>1, <2>4, <3>2 DEF Complete, Versions
          <5>3. [id |-> i, ver |-> cached'[now][i]] \in writing'[now]
            BY <2>1, <2>4, <5>2, WriteFields
          <5>4. Busy(i)'
            BY <2>1, <5>3 DEF Busy
          <5> QED
            BY <5>1, <5>4 DEF Settled
        <4> QED
          BY <4>1, <4>2
      <3> QED
        BY <3>1, <3>2
    <2> QED
      BY <2>3, <2>4
  <1>14. ASSUME NEW c \in Starts, NEW s \in Slots, SaveLands(c, s) PROVE Inv'
    <2>0. saving[c][s] \in Write /\ saving[c][s] # None
      BY <1>14 DEF SaveLands
    <2> PICK w \in Write : w = saving[c][s]
      BY <2>0
    <2>1. w.id \in Ids /\ w.ver \in Versions
      BY WriteFields
    <2>2. Put(c, w.id, w.ver) /\ UNCHANGED <<now, job, loaded, cached, loc, writing>>
      BY <1>14 DEF SaveLands
    <2>3. saving'[c][s] = None /\ \A d \in Starts, r \in Slots : d # c \/ r # s => saving'[d][r] = saving[d][r]
      BY <1>14 DEF SaveLands
    <2>4. \A i \in Ids : (Own(i)' => Own(i)) /\ (Agrees(i) => Agrees(i)')
      <3>1. \A r \in Slots : saving'[now][r] # None => saving'[now][r] = saving[now][r]
        BY <2>3
      <3>2. ASSUME NEW i \in Ids PROVE Own(i)' => Own(i)
        BY <2>2, <3>1 DEF Own
      <3>3. ASSUME NEW i \in Ids PROVE Agrees(i) => Agrees(i)'
        BY <2>2, <3>1 DEF Agrees
      <3> QED
        BY <3>2, <3>3
    <2>5. ASSUME NEW i \in Ids, i # w.id PROVE Busy(i) <=> Busy(i)'
      <3>1. ASSUME NEW d \in Starts, NEW r \in Slots
            PROVE  (saving'[d][r] # None /\ saving'[d][r].id = i) <=> (saving[d][r] # None /\ saving[d][r].id = i)
        <4>1. CASE d = c /\ r = s
          BY <2>3, <2>5, <4>1
        <4>2. CASE d # c \/ r # s
          BY <2>3, <4>2
        <4> QED
          BY <4>1, <4>2
      <3> QED
        BY <2>2, <3>1 DEF Busy
    <2>6. c = now => (excuse[w.id] # "none" \/ cached[now][w.id] = w.ver) /\ Own(w.id)
      <3> SUFFICES ASSUME c = now PROVE (excuse[w.id] # "none" \/ cached[now][w.id] = w.ver) /\ Own(w.id)
        OBVIOUS
      <3>1. Own(w.id)
        BY <2>0 DEF Own
      <3>2. Settled(w.id)
        BY <1>i, <2>1, <3>1 DEF Untaken
      <3> QED
        BY <2>0, <3>1, <3>2 DEF Settled, Agrees
    <2> QED
      BY <1>p, <2>1, <2>2, <2>4, <2>5, <2>6
  <1>15. ASSUME NEW c \in Starts, Reset(c) PROVE Inv'
    <2>1. cached'[now] = cached[now] /\ UNCHANGED <<now, job, loaded, loc, writing, saving, file, excuse>>
      BY <1>15 DEF Reset
    <2> SUFFICES ASSUME NEW i \in Ids PROVE Settled(i)' \/ Untaken(i)'
      BY DEF Inv
    <2>2. (Own(i)' <=> Own(i)) /\ (Busy(i)' <=> Busy(i))
      BY <2>1 DEF Own, Busy
    <2>3. Agrees(i)' <=> Agrees(i)
      BY <2>1 DEF Agrees
    <2> QED
      BY <1>i, <2>1, <2>2, <2>3 DEF Settled, Untaken
  <1>16. ASSUME NEW c \in Starts,
                \/ ListPage(c) \/ SyncCompare(c) \/ RefreshStart(c) \/ RefreshCompare(c) \/ JobDone(c)
                \/ ListFault(c) \/ ListRefused(c) \/ WorkersQuit(c)
                \/ \E i \in Ids : ValidateKeeps(c, i)
         PROVE  Inv'
    <2>1. UNCHANGED <<now, loaded, cached, loc, writing, saving, file, excuse>>
      BY <1>16 DEF ListPage, SyncCompare, RefreshStart, RefreshCompare, JobDone, ListFault, ListRefused,
                   WorkersQuit, ValidateKeeps, Validated
    <2>2. job'[now] = job[now] \/ job[now].pc # "load"
      BY <1>16 DEF ListPage, SyncCompare, RefreshStart, RefreshCompare, JobDone, ListFault, ListRefused,
                   WorkersQuit, ValidateKeeps, Validated, ListEnds, JobIs, JobFails
    <2> QED
      BY <2>1, <2>2, <1>f
  <1>17. ASSUME NEW i \in Ids, AccountAdd(i) \/ AccountFinish(i) \/ AccountRemove(i) PROVE Inv'
    BY <1>17, <1>f DEF AccountAdd, AccountFinish, AccountRemove
  <1>18. CASE UNCHANGED vars
    BY <1>18, <1>f DEF vars
  <1> QED
    BY <1>1, <1>2, <1>3, <1>4, <1>5, <1>6, <1>7, <1>8, <1>10, <1>11, <1>12, <1>13, <1>14, <1>15, <1>16,
       <1>17, <1>18
    DEF Next, Account, Continue, Call, Proceed, Work

\* Over crashes and restarts, for every number of torrents, goroutines and
\* slots: with nothing on its way, and but for the three excuses, the file of
\* a torrent holds what the memory of the running service holds.
THEOREM FilesFollow == Spec => []FileFollows
  <1>1. Init => TypeOK /\ Order /\ Inv
    BY TypeInit, OrderInit, InvInit
  <1>2. TypeOK /\ Order /\ Inv /\ [Next]_vars => (TypeOK /\ Order /\ Inv)'
    BY TypeStep, OrderStep, InvStep
  <1> QED
    BY <1>1, <1>2, InvImplies, PTL DEF Spec

(***************************************************************************)
(* The caches and their files are a write-behind store                     *)
(***************************************************************************)
LEMMA StoreInit == Init => Store!Init
  <1> SUFFICES ASSUME Init PROVE Store!Init
    OBVIOUS
  <1>1. ASSUME NEW i \in Ids PROVE OnTheWay(i) = {}
    BY WriteFields, <1>1 DEF Init, OnTheWay, Each, NoSaves, NoCalls, Idle, Write
  <1>2. Trashing = {}
    BY DEF Init, Trashing, NoCalls, Idle
  <1> QED
    BY <1>1, <1>2 DEF Init, InitFiles, Each, Nothing, Store!Init, Store!Blank, Store!Nothing

\* A step that the store does not notice.
LEMMA StoreStutters ==
  ASSUME UNCHANGED <<cached, file, loaded>>, \A i \in Ids : OnTheWay(i)' = OnTheWay(i),
         Trashing' = Trashing
  PROVE  UNCHANGED Store!vars
  BY DEF Store!vars

\* Neither the goroutines nor the writes under way change.
LEMMA SameWork ==
  ASSUME UNCHANGED <<loc, writing, saving>>
  PROVE  Trashing' = Trashing /\ \A i \in Ids : OnTheWay(i)' = OnTheWay(i)
  BY DEF Trashing, OnTheWay

\* A write arrives; what else is on its way does not change.
LEMMA StoreLands ==
  ASSUME NEW i \in Ids, NEW v \in Versions, v \in OnTheWay(i),
         file' = [file EXCEPT ![i] = v], UNCHANGED <<cached, loaded>>, Trashing' = Trashing,
         \A j \in Ids, x \in Versions : j # i \/ x # v => (x \in OnTheWay(j)' <=> x \in OnTheWay(j))
  PROVE  Store!Next
  <1>1. \A j \in Ids : j # i => OnTheWay(j)' = OnTheWay(j)
    BY DEF OnTheWay
  <1>2. OnTheWay(i)' = OnTheWay(i) \/ OnTheWay(i)' = OnTheWay(i) \ {v}
    <2>1. OnTheWay(i)' \subseteq Versions /\ OnTheWay(i) \subseteq Versions
      BY DEF OnTheWay
    <2>2. \A x \in Versions : x # v => (x \in OnTheWay(i)' <=> x \in OnTheWay(i))
      OBVIOUS
    <2> QED
      BY <2>1, <2>2
  <1>3. Store!Land(i, v)
    BY <1>1, <1>2 DEF Store!Land
  <1> QED
    BY <1>3 DEF Store!Next

\* SaveTorrent passes a write on, or makes it.
LEMMA StoreSaves ==
  ASSUME TypeOK, NEW c \in Starts, NEW w \in Write, SaveTorrent(c, w), w.ver \in OnTheWay(w.id),
         UNCHANGED <<cached, loaded>>, Trashing' = Trashing,
         \A x \in Write : x # w =>
            ((\/ \E t \in Threads : loc'[t].pc = "save" /\ loc'[t].id = x.id /\ loc'[t].ver = x.ver
              \/ \E d \in Starts : x \in writing'[d])
             <=>
             (\/ \E t \in Threads : loc[t].pc = "save" /\ loc[t].id = x.id /\ loc[t].ver = x.ver
              \/ \E d \in Starts : x \in writing[d]))
  PROVE  Store!Next \/ UNCHANGED Store!vars
  <1>0. w.id \in Ids /\ w.ver \in Versions /\ w # None /\ w = [id |-> w.id, ver |-> w.ver]
    BY WriteFields DEF Write
  <1>1. CASE FreeSlots(c) # {} /\ WriteInGoroutine(c, w)
    <2>1. PICK s \in Slots : saving[c][s] = None /\ saving' = [saving EXCEPT ![c][s] = w]
      BY <1>1 DEF WriteInGoroutine, FreeSlots
    <2>2. saving'[c][s] = w /\ \A d \in Starts, r \in Slots : d # c \/ r # s => saving'[d][r] = saving[d][r]
      BY <2>1 DEF TypeOK
    <2>3. ASSUME NEW x \in Write, x # w
          PROVE  (\E d \in Starts, r \in Slots : saving'[d][r] = x) <=> (\E d \in Starts, r \in Slots : saving[d][r] = x)
      <3>1. ASSUME NEW d \in Starts, NEW r \in Slots PROVE saving'[d][r] = x <=> saving[d][r] = x
        <4>1. CASE d = c /\ r = s
          BY <2>1, <2>2, <2>3, <4>1
        <4>2. CASE d # c \/ r # s
          BY <2>2, <4>2
        <4> QED
          BY <4>1, <4>2
      <3> QED
        BY <3>1
    <2>4. ASSUME NEW j \in Ids, NEW v \in Versions PROVE v \in OnTheWay(j)' <=> v \in OnTheWay(j)
      <3> DEFINE x == [id |-> j, ver |-> v]
      <3>0. x \in Write /\ x.id = j /\ x.ver = v
        BY DEF Write
      <3>1. CASE x = w
        <4>1. v \in OnTheWay(j)
          BY <1>0, <3>0, <3>1
        <4>2. v \in OnTheWay(j)'
          BY <2>2, <3>1 DEF OnTheWay
        <4> QED
          BY <4>1, <4>2
      <3>2. CASE x # w
        <4>1. (\E d \in Starts, r \in Slots : saving'[d][r] = x) <=> (\E d \in Starts, r \in Slots : saving[d][r] = x)
          BY <2>3, <3>0, <3>2
        <4> HIDE DEF x
        <4>2. (\/ \E t \in Threads : loc'[t].pc = "save" /\ loc'[t].id = j /\ loc'[t].ver = v
               \/ \E d \in Starts : x \in writing'[d])
              <=>
              (\/ \E t \in Threads : loc[t].pc = "save" /\ loc[t].id = j /\ loc[t].ver = v
               \/ \E d \in Starts : x \in writing[d])
          BY <3>0, <3>2
        <4> QED
          BY <4>1, <4>2 DEF OnTheWay, x
      <3> QED
        BY <3>1, <3>2
    <2>5. \A j \in Ids : OnTheWay(j)' = OnTheWay(j)
      <3>1. \A j \in Ids : OnTheWay(j)' \subseteq Versions /\ OnTheWay(j) \subseteq Versions
        BY DEF OnTheWay
      <3> QED
        BY <2>4, <3>1
    <2> QED
      BY <1>1, <2>5, StoreStutters DEF WriteInGoroutine
  <1>2. CASE Put(c, w.id, w.ver) /\ UNCHANGED saving
    <2>1. ASSUME NEW j \in Ids, NEW v \in Versions, j # w.id \/ v # w.ver
          PROVE  v \in OnTheWay(j)' <=> v \in OnTheWay(j)
      <3> DEFINE x == [id |-> j, ver |-> v]
      <3>0. x \in Write /\ x.id = j /\ x.ver = v
        BY DEF Write
      <3>1. x # w
        BY <2>1, <3>0
      <3> HIDE DEF x
      <3>2. (\/ \E t \in Threads : loc'[t].pc = "save" /\ loc'[t].id = j /\ loc'[t].ver = v
             \/ \E d \in Starts : x \in writing'[d])
            <=>
            (\/ \E t \in Threads : loc[t].pc = "save" /\ loc[t].id = j /\ loc[t].ver = v
             \/ \E d \in Starts : x \in writing[d])
        BY <3>0, <3>1
      <3> QED
        BY <1>2, <3>2 DEF OnTheWay, x
    <2>2. file' = [file EXCEPT ![w.id] = w.ver]
      BY <1>2 DEF Put
    <2> QED
      BY <1>0, <2>1, <2>2, StoreLands
  <1> QED
    BY <1>1, <1>2 DEF SaveTorrent

\* deleteTorrent's first step, whoever calls it.
LEMMA StoreDrops ==
  ASSUME NEW t \in Threads, NEW c \in Starts, NEW i \in Ids, NEW by, DeleteTorrent(t, c, i, by), TypeOK,
         UNCHANGED loaded
  PROVE  Store!Next
  <1>1. /\ loc'[t].pc = "trash" /\ loc'[t].id = i /\ loc[t].pc = "idle"
        /\ \A u \in Threads : u # t => loc'[u] = loc[u]
        /\ UNCHANGED <<writing, saving, file>>
    BY DEF DeleteTorrent, Goto, Idle, TypeOK
  <1>2. \A j \in Ids : OnTheWay(j)' = OnTheWay(j)
    <2>1. ASSUME NEW j \in Ids, NEW v \in Versions
          PROVE  (\E u \in Threads : loc'[u].pc = "save" /\ loc'[u].id = j /\ loc'[u].ver = v)
                 <=> (\E u \in Threads : loc[u].pc = "save" /\ loc[u].id = j /\ loc[u].ver = v)
      BY <1>1
    <2> QED
      BY <1>1, <2>1 DEF OnTheWay
  <1>3. Trashing' = Trashing \cup {i}
    BY <1>1 DEF Trashing
  <1>4. Store!Drop(c, i)
    BY <1>1, <1>2, <1>3 DEF DeleteTorrent, Store!Drop
  <1> QED
    BY <1>4 DEF Store!Next

LEMMA StoreStep == TypeOK /\ [Next]_vars => [Store!Next]_(Store!vars)
  <1> SUFFICES ASSUME TypeOK, [Next]_vars PROVE Store!Next \/ UNCHANGED Store!vars
    OBVIOUS
  <1> USE DEF account, sync, memory, disk
  <1>1. ASSUME NEW t \in Threads, Set(t) PROVE Store!Next
    <2>0. loc[t].at \in Starts /\ loc[t].id \in Ids /\ loc[t].ver \in Versions
      BY <1>1, LocalFields DEF Set, TypeOK
    <2> PICK c \in Starts, k \in Ids, v \in Versions : c = loc[t].at /\ k = loc[t].id /\ v = loc[t].ver
      BY <2>0
    <2>2. /\ loc'[t].pc = "save" /\ loc'[t].id = k /\ loc'[t].ver = v /\ loc[t].pc = "set"
          /\ \A u \in Threads : u # t => loc'[u] = loc[u]
      BY <1>1, LocalFields DEF Set, Goto, Setting, TypeOK
    <2>3. /\ cached' = [cached EXCEPT ![c][k] = v] /\ UNCHANGED <<writing, saving, file, loaded>>
      BY <1>1 DEF Set
    <2>4. OnTheWay(k)' = OnTheWay(k) \cup {v} /\ \A i \in Ids : i # k => OnTheWay(i)' = OnTheWay(i)
      <3>1. ASSUME NEW i \in Ids, NEW x \in Versions
            PROVE  (\E u \in Threads : loc'[u].pc = "save" /\ loc'[u].id = i /\ loc'[u].ver = x)
                   <=> \/ \E u \in Threads : loc[u].pc = "save" /\ loc[u].id = i /\ loc[u].ver = x
                       \/ i = k /\ x = v
        BY <2>2
      <3>2. ASSUME NEW i \in Ids, NEW x \in Versions
            PROVE  x \in OnTheWay(i)' <=> x \in OnTheWay(i) \/ (i = k /\ x = v)
        BY <2>3, <3>1 DEF OnTheWay
      <3>3. \A i \in Ids : OnTheWay(i)' \subseteq Versions /\ OnTheWay(i) \subseteq Versions
        BY DEF OnTheWay
      <3> QED
        BY <3>2, <3>3
    <2>5. Trashing' = Trashing
      BY <2>2 DEF Trashing
    <2>6. Store!Serve(c, k, v)
      BY <2>3, <2>4, <2>5 DEF Store!Serve
    <2> QED
      BY <2>6 DEF Store!Next
  <1>2. ASSUME NEW t \in Threads, Save(t) PROVE Store!Next \/ UNCHANGED Store!vars
    <2>0. loc[t].at \in Starts /\ [id |-> loc[t].id, ver |-> loc[t].ver] \in Write
      BY <1>2, LocalFields, WriteFields DEF Save, TypeOK
    <2> PICK c \in Starts, w \in Write : c = loc[t].at /\ w = [id |-> loc[t].id, ver |-> loc[t].ver]
      BY <2>0
    <2>1. /\ loc[t].pc = "save" /\ w.id = loc[t].id /\ w.ver = loc[t].ver /\ w.id \in Ids /\ w.ver \in Versions
          /\ SaveTorrent(c, w) /\ UNCHANGED <<cached, loaded, writing>>
      BY <1>2, WriteFields DEF Save
    <2>2. loc'[t].pc = "idle" /\ \A u \in Threads : u # t => loc'[u] = loc[u]
      BY <1>2 DEF Save, Goto, Idle, TypeOK
    <2>3. Trashing' = Trashing
      BY <2>1, <2>2 DEF Trashing
    <2>4. w.ver \in OnTheWay(w.id)
      BY <2>1 DEF OnTheWay
    <2>5. ASSUME NEW x \in Write, x # w
          PROVE  (\E u \in Threads : loc'[u].pc = "save" /\ loc'[u].id = x.id /\ loc'[u].ver = x.ver)
                 <=> (\E u \in Threads : loc[u].pc = "save" /\ loc[u].id = x.id /\ loc[u].ver = x.ver)
      <3>1. ~(x.id = w.id /\ x.ver = w.ver)
        BY <2>5 DEF Write
      <3> QED
        BY <2>1, <2>2, <3>1
    <2> QED
      BY <2>1, <2>3, <2>4, <2>5, StoreSaves
  <1>3. ASSUME NEW c \in Starts, NEW w \in writing[c], SaveTorrents(c, w)
        PROVE  Store!Next \/ UNCHANGED Store!vars
    <2>1. w \in Write /\ w.id \in Ids /\ w.ver \in Versions /\ w = [id |-> w.id, ver |-> w.ver]
      <3>1. w \in Write
        BY DEF TypeOK
      <3> QED
        BY <3>1 DEF Write
    <2>2. SaveTorrent(c, w) /\ UNCHANGED <<cached, loaded, loc>>
      BY <1>3 DEF SaveTorrents
    <2>3. \A d \in Starts, x \in Write : x # w => (x \in writing'[d] <=> x \in writing[d])
      BY <1>3 DEF SaveTorrents, TypeOK
    <2>4. Trashing' = Trashing
      BY <2>2 DEF Trashing
    <2>5. w.ver \in OnTheWay(w.id)
      BY <2>1 DEF OnTheWay
    <2> QED
      BY <2>1, <2>2, <2>3, <2>4, <2>5, StoreSaves
  <1>4. ASSUME NEW t \in Threads, Trash(t) PROVE Store!Next
    <2>0. loc[t].id \in Ids
      BY <1>4, LocalFields DEF Trash, TypeOK
    <2> PICK k \in Ids : k = loc[t].id
      BY <2>0
    <2>1. /\ loc[t].pc = "trash" /\ loc[t].id = k /\ loc'[t].pc \in {"idle", "tell"}
          /\ \A u \in Threads : u # t => loc'[u] = loc[u]
      BY <1>4, LocalFields DEF Trash, Goto, Idle, TypeOK, Deleting
    <2>2. file' = [file EXCEPT ![k] = None] /\ UNCHANGED <<cached, loaded, writing, saving>>
      BY <1>4 DEF Trash, RemoveFromDB, Put
    <2>3. ASSUME NEW i \in Ids, NEW v \in Versions
          PROVE  (\E u \in Threads : loc'[u].pc = "save" /\ loc'[u].id = i /\ loc'[u].ver = v)
                 <=> (\E u \in Threads : loc[u].pc = "save" /\ loc[u].id = i /\ loc[u].ver = v)
      BY <2>1
    <2>4. \A i \in Ids : OnTheWay(i)' = OnTheWay(i)
      BY <2>2, <2>3 DEF OnTheWay
    <2>5. k \in Trashing /\ (Trashing' = Trashing \/ Trashing' = Trashing \ {k})
      <3>1. k \in Trashing
        BY <2>1 DEF Trashing
      <3>2. ASSUME NEW i \in Ids, i # k PROVE i \in Trashing' <=> i \in Trashing
        BY <2>1, <3>2 DEF Trashing
      <3>3. Trashing' \subseteq Ids /\ Trashing \subseteq Ids
        BY DEF Trashing
      <3> QED
        BY <3>1, <3>2, <3>3
    <2>6. Store!Trash(k)
      BY <2>2, <2>4, <2>5 DEF Store!Trash
    <2> QED
      BY <2>6 DEF Store!Next
  <1>5. ASSUME NEW t \in Threads, NEW c \in Starts, NEW i \in Ids,
               CallerDeletes(t, c, i) \/ ValidateDeletes(t, c, i)
        PROVE  Store!Next
    BY <1>5, StoreDrops DEF CallerDeletes, ValidateDeletes, Validated
  <1>6. ASSUME NEW t \in Threads, NEW c \in Starts, NEW i \in Ids, SyncDeletes(t, c, i)
        PROVE  Store!Next \/ UNCHANGED Store!vars
    <2>1. CASE DeleteTorrent(t, c, i, "sync")
      BY <1>6, <2>1, StoreDrops DEF SyncDeletes
    <2>2. CASE UNCHANGED <<memory, disk>>
      BY <1>6, <2>2, SameWork, StoreStutters DEF SyncDeletes
    <2> QED
      BY <1>6, <2>1, <2>2 DEF SyncDeletes
  \* A goroutine goes on to something that the store does not know.
  <1>q. ASSUME NEW t \in Threads, loc[t].pc \notin {"save", "trash"}, loc'[t].pc \notin {"save", "trash"},
               \A u \in Threads : u # t => loc'[u] = loc[u],
               UNCHANGED <<cached, file, loaded, writing, saving>>
        PROVE  UNCHANGED Store!vars
    <2>1. Trashing' = Trashing
      BY <1>q DEF Trashing
    <2>2. ASSUME NEW i \in Ids, NEW v \in Versions
          PROVE  (\E u \in Threads : loc'[u].pc = "save" /\ loc'[u].id = i /\ loc'[u].ver = v)
                 <=> (\E u \in Threads : loc[u].pc = "save" /\ loc[u].id = i /\ loc[u].ver = v)
      BY <1>q
    <2>3. \A i \in Ids : OnTheWay(i)' = OnTheWay(i)
      BY <1>q, <2>2 DEF OnTheWay
    <2> QED
      BY <1>q, <2>1, <2>3, StoreStutters
  <1>7. ASSUME NEW t \in Threads, Tell(t) PROVE UNCHANGED Store!vars
    BY <1>7, <1>q DEF Tell, Goto, Idle, TypeOK
  <1>8. ASSUME NEW t \in Threads, NEW c \in Starts, NEW i \in Ids, Caller(t, c, i) \/ Process(t, c, i)
        PROVE  UNCHANGED Store!vars
    <2>1. UNCHANGED <<cached, file, loaded, writing, saving>> /\ loc[t].pc = "idle"
      BY <1>8 DEF Caller, Process, Idle
    <2>2. loc'[t].pc \in {"idle", "set"} /\ \A u \in Threads : u # t => loc'[u] = loc[u]
      BY <1>8, <2>1 DEF Caller, Process, EnterSet, Goto, TypeOK
    <2> QED
      BY <2>1, <2>2, <1>q
  <1>9. ASSUME NEW c \in Starts, NEW s \in Slots, SaveLands(c, s) PROVE Store!Next
    <2>0. saving[c][s] \in Write /\ saving[c][s] # None
      BY <1>9 DEF SaveLands, TypeOK
    <2> PICK w \in Write : w = saving[c][s]
      BY <2>0
    <2>1. w.id \in Ids /\ w.ver \in Versions /\ w = [id |-> w.id, ver |-> w.ver]
      BY DEF Write
    <2>2. /\ UNCHANGED <<cached, loaded, loc, writing>> /\ file' = [file EXCEPT ![w.id] = w.ver]
          /\ saving'[c][s] = None
          /\ \A d \in Starts, r \in Slots : d # c \/ r # s => saving'[d][r] = saving[d][r]
      BY <1>9 DEF SaveLands, Put, TypeOK
    <2>3. w.ver \in OnTheWay(w.id)
      BY <2>1 DEF OnTheWay
    <2>4. ASSUME NEW j \in Ids, NEW v \in Versions, j # w.id \/ v # w.ver
          PROVE  v \in OnTheWay(j)' <=> v \in OnTheWay(j)
      <3> DEFINE x == [id |-> j, ver |-> v]
      <3>0. x \in Write /\ x.id = j /\ x.ver = v /\ x # None
        <4>1. x \in Write /\ x.id = j /\ x.ver = v
          BY DEF Write
        <4> QED
          BY <4>1
      <3>1. x # w
        BY <2>4, <3>0
      <3> HIDE DEF x
      <3>2. ASSUME NEW d \in Starts, NEW r \in Slots PROVE saving'[d][r] = x <=> saving[d][r] = x
        <4>1. CASE d = c /\ r = s
          BY <2>2, <3>0, <3>1, <4>1
        <4>2. CASE d # c \/ r # s
          BY <2>2, <4>2
        <4> QED
          BY <4>1, <4>2
      <3> QED
        BY <2>2, <3>2 DEF OnTheWay, x
    <2>5. Trashing' = Trashing
      BY <2>2 DEF Trashing
    <2> QED
      BY <2>1, <2>2, <2>3, <2>4, <2>5, StoreLands
  <1>10. ASSUME NEW c \in Starts, Load(c) PROVE Store!Next
    <2>1. PICK skipped \in SUBSET {i \in Ids : Loadable(i)} :
             loaded' = [loaded EXCEPT ![c] =
                [i \in Ids |-> IF Loadable(i) /\ i \notin skipped THEN file[i] ELSE None]]
      BY <1>10 DEF Load
    <2> DEFINE read == [i \in Ids |-> IF Loadable(i) /\ i \notin skipped THEN file[i] ELSE None]
    <2>2. read \in [Ids -> Complete \cup {None}] /\ \A i \in Ids : read[i] \in {file[i], None}
      BY DEF Loadable
    <2>3. loaded' = [loaded EXCEPT ![c] = read]
      BY <2>1
    <2>4. UNCHANGED <<cached, file, loc, writing, saving>>
      BY <1>10 DEF Load
    <2> HIDE DEF read
    <2>5. Store!Read(c)
      BY <2>2, <2>3, <2>4, SameWork DEF Store!Read
    <2> QED
      BY <2>5 DEF Store!Next
  <1>11. ASSUME NEW c \in Starts, SyncSet(c) PROVE Store!Next
    <2>1. /\ UNCHANGED <<file, saving, loc>> /\ loaded' = [loaded EXCEPT ![c] = Nothing]
          /\ writing' = [writing EXCEPT ![c] = {w \in Write : cached'[c][w.id] = w.ver}]
          /\ job[c].pc = "purge"
      BY <1>11 DEF SyncSet
    <2>2. Trashing' = Trashing
      BY <2>1 DEF Trashing
    <2>3. cached' = [cached EXCEPT ![c] =
                [i \in Ids |-> IF loaded[c][i] # None THEN loaded[c][i] ELSE cached[c][i]]]
      BY <1>11 DEF SyncSet, SyncSets, Loaded
    <2>a. writing[c] = {} /\ writing \in [Starts -> SUBSET Write]
      BY <2>1 DEF TypeOK
    <2>b. cached'[c] \in [Ids -> Versions \cup {None}]
      <3>1. TypeOK'
        BY TypeStep
      <3>2. cached' \in [Starts -> [Ids -> Versions \cup {None}]]
        BY <3>1 DEF TypeOK
      <3> QED
        BY <3>2
    <2>c. writing'[c] = {w \in Write : cached'[c][w.id] = w.ver}
      BY <2>1, <2>a
    <2>d. \A d \in Starts : d # c => writing'[d] = writing[d]
      BY <2>1, <2>a
    <2>4. /\ writing[c] = {} /\ cached'[c] \in [Ids -> Versions \cup {None}]
          /\ writing'[c] = {w \in Write : cached'[c][w.id] = w.ver}
          /\ \A d \in Starts : d # c => writing'[d] = writing[d]
      BY <2>a, <2>b, <2>c, <2>d
    <2>5. ASSUME NEW i \in Ids, NEW v \in Versions
          PROVE  (\E d \in Starts : [id |-> i, ver |-> v] \in writing'[d])
                 <=> \/ \E d \in Starts : [id |-> i, ver |-> v] \in writing[d]
                     \/ cached'[c][i] = v
      <3> DEFINE x == [id |-> i, ver |-> v]
      <3>1. x \in Write /\ x.id = i /\ x.ver = v
        BY DEF Write
      <3> HIDE DEF x
      <3>2. x \in writing'[c] <=> cached'[c][i] = v
        BY <2>4, <3>1
      <3>3. \A d \in Starts : d # c => (x \in writing'[d] <=> x \in writing[d])
        BY <2>4
      <3>4. x \notin writing[c]
        BY <2>4
      <3> QED
        BY <3>2, <3>3, <3>4 DEF x
    <2>6. ASSUME NEW i \in Ids PROVE OnTheWay(i)' = OnTheWay(i) \cup ({cached'[c][i]} \ {None})
      <3>1. \A v \in Versions : v \in OnTheWay(i)' <=> v \in OnTheWay(i) \/ cached'[c][i] = v
        BY <2>1, <2>5 DEF OnTheWay
      <3>2. OnTheWay(i)' \subseteq Versions /\ OnTheWay(i) \subseteq Versions
        BY DEF OnTheWay
      <3>3. cached'[c][i] \in Versions \cup {None} /\ None \notin Versions
        BY <2>4
      <3> QED
        BY <3>1, <3>2, <3>3
    <2>7. Store!Reload(c)
      BY <2>1, <2>2, <2>3, <2>6 DEF Store!Reload, Store!Nothing, Nothing
    <2> QED
      BY <2>7 DEF Store!Next
  <1>12. ASSUME NEW c \in Starts, Reset(c) PROVE Store!Next
    <2>1. UNCHANGED <<file, loaded, loc, writing, saving>> /\ cached' = [cached EXCEPT ![c] = Nothing]
      BY <1>12 DEF Reset
    <2>2. Store!Reset(c)
      BY <2>1, SameWork DEF Store!Reset, Store!Nothing, Nothing
    <2> QED
      BY <2>2 DEF Store!Next
  <1>13. ASSUME Crash PROVE Store!Next
    <2>1. ASSUME NEW i \in Ids PROVE OnTheWay(i)' = {}
      BY <1>13, <2>1, WriteFields DEF Crash, OnTheWay, Each, NoSaves, NoCalls, Idle, Write
    <2>2. Trashing' = {}
      BY <1>13 DEF Crash, Trashing, NoCalls, Idle
    <2>3. Store!Crash
      BY <1>13, <2>1, <2>2 DEF Crash, Each, Store!Crash, Store!Blank, Store!Nothing, Nothing
    <2> QED
      BY <2>3 DEF Store!Next
  <1>14. ASSUME \/ Restart
                \/ \E c \in Starts : \/ ListPage(c) \/ SyncCompare(c) \/ RefreshStart(c) \/ RefreshCompare(c)
                                     \/ JobDone(c) \/ ListFault(c) \/ ListRefused(c) \/ WorkersQuit(c)
                                     \/ \E i \in Ids : ValidateKeeps(c, i)
                \/ \E i \in Ids : AccountAdd(i) \/ AccountFinish(i) \/ AccountRemove(i)
         PROVE  UNCHANGED Store!vars
    <2>1. UNCHANGED <<cached, file, loaded, writing, saving, loc>>
      BY <1>14 DEF Restart, ListPage, SyncCompare, RefreshStart, RefreshCompare, JobDone, ListFault,
         ListRefused, WorkersQuit, ValidateKeeps, Validated, AccountAdd, AccountFinish, AccountRemove
    <2> QED
      BY <2>1, SameWork, StoreStutters
  <1>15. CASE UNCHANGED vars
    BY <1>15, SameWork, StoreStutters DEF vars
  <1> QED
    BY <1>1, <1>2, <1>3, <1>4, <1>5, <1>6, <1>7, <1>8, <1>9, <1>10, <1>11, <1>12, <1>13, <1>14, <1>15
    DEF Next, Account, Continue, Call, Proceed, Work

\* Whatever crashes, restarts and is interleaved, the caches and their files
\* are a write-behind store: for every number of torrents, goroutines, slots
\* and restarts.
THEOREM Implementation == Spec => ImplementsStore
  BY StoreInit, StoreStep, TypeInit, TypeStep, PTL DEF Spec, ImplementsStore, Store!Spec
=============================================================================
