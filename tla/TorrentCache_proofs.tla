------------------------ MODULE TorrentCache_proofs ------------------------
(* Proofs about TorrentCache, for every value of its constants. *)
EXTENDS TorrentCache, TLAPS

\* Control points at which a goroutine holds the struct it works on.
HoldsObj == {"setLookup", "setMerge", "setStore", "save", "generate",
             "delRemove", "delName", "delEntry"}

\* A goroutine that is not idle works on an id, and holds the structs its
\* control point needs.
LocalsOK ==
    \A t \in Threads :
        /\ loc[t].pc # "idle" => loc[t].id # None
        /\ loc[t].pc \in HoldsObj => loc[t].obj # None
        /\ loc[t].pc = "setMerge" => loc[t].old # None

\* No reference dangles: whatever is pointed to is a torrent.
LiveOK == \A o \in Live : heap[o] \in Torrent

Inv == TypeOK /\ LocalsOK /\ LiveOK

-----------------------------------------------------------------------------
LEMMA LiveObjects == ASSUME TypeOK PROVE Live \subseteq Objects
  BY DEF TypeOK, Live, Local

LEMMA LiveMembers ==
  /\ \A i \in Ids : byID[i] # None => byID[i] \in Live
  /\ \A n \in Names : byName[n] # None => byName[n] \in Live
  /\ \A t \in Threads : loc[t].obj # None => loc[t].obj \in Live
  /\ \A t \in Threads : loc[t].old # None => loc[t].old \in Live
  BY DEF Live

\* Operators on torrents stay within their types.
LEMMA OverlayType ==
  ASSUME NEW x \in FileMap, NEW y \in FileMap PROVE Overlay(x, y) \in FileMap
  BY DEF Overlay, FileMap

LEMMA MergeType ==
  ASSUME NEW x \in Torrent, NEW y \in Torrent PROVE mergeFiles(x, y) \in FileMap
  BY OverlayType DEF mergeFiles, Torrent

LEMMA RemainingType ==
  ASSUME NEW x \in FileMap, NEW i PROVE Remaining(x, i) \in FileMap
  BY DEF Remaining, FileMap

LEMMA FetchedType == ASSUME NEW i \in Ids PROVE Fetched(i) \in Torrent
  BY DEF Fetched, Torrent, FileMap

LEMMA FolderType ==
  ASSUME NEW x \in Torrent PROVE GetTorrentFolder(x) \in Names
  BY ConstantsAssumption DEF GetTorrentFolder, Torrent

\* A heap of torrents stays one when a step keeps what is live after it.
LEMMA HeapStep ==
  ASSUME NEW h, HeapBecomes(h), Live' \subseteq Objects,
         \A o \in Live' : h[o] \in Torrent
  PROVE  /\ heap' \in [Objects -> Torrent \cup {Blank}]
         /\ \A o \in Live' : heap'[o] \in Torrent /\ heap'[o] = h[o]
  BY DEF HeapBecomes

LEMMA InitInv == Init => Inv
  <1> SUFFICES ASSUME Init PROVE Inv
    OBVIOUS
  <1>1. TypeOK
    BY ConstantsAssumption DEF Init, TypeOK, Local, Idle, PCs
  <1>2. LocalsOK
    BY DEF Init, LocalsOK, Idle, HoldsObj
  <1>3. LiveOK
    BY DEF Init, LiveOK, Live, Idle
  <1> QED BY <1>1, <1>2, <1>3 DEF Inv

-----------------------------------------------------------------------------
(* How the parts of Inv survive a step                                     *)

\* TypeOK without the heap.
TypeRest ==
    /\ debrid \in [Ids -> {"absent", "present", "gone"}]
    /\ byID \in [Ids -> Objects \cup {None}]
    /\ byName \in [Names -> Objects \cup {None}]
    /\ refreshMu \in Threads \cup {Refresher, None}
    /\ refresh \in [pc : {"idle", "listed", "waiting"}, list : SUBSET Ids]
    /\ newTorrents \in SUBSET Ids
    /\ validating \in SUBSET Ids
    /\ loc \in [Threads -> Local]
    /\ disk \in SUBSET Ids
    /\ saving \in [Slots -> Ids \cup {None}]
    /\ open \in BOOLEAN

LEMMA TypeSplit ==
  TypeOK <=> TypeRest /\ heap \in [Objects -> Torrent \cup {Blank}]
  BY DEF TypeOK, TypeRest

\* A step that leaves the heap the live part of h.
LEMMA ConcludeHeap ==
  ASSUME NEW h, HeapBecomes(h), TypeRest', LocalsOK', \A o \in Live' : h[o] \in Torrent
  PROVE  Inv'
  <1>1. Live' \subseteq Objects
    BY DEF TypeRest, Live, Local
  <1>2. /\ heap' \in [Objects -> Torrent \cup {Blank}]
        /\ \A o \in Live' : heap'[o] \in Torrent
    BY <1>1, HeapStep
  <1> QED BY <1>2, TypeSplit DEF Inv, LiveOK, TypeOK, TypeRest

\* A step that does not touch the heap.
LEMMA ConcludeSame ==
  ASSUME Inv, heap' = heap, TypeRest', LocalsOK', Live' \subseteq Live
  PROVE  Inv'
  BY DEF Inv, LiveOK, TypeOK, TypeRest

\* What becomes live when goroutine t goes on with locals l.
LEMMA LiveGoto ==
  ASSUME TypeOK, NEW t \in Threads, NEW l, Goto(t, l), UNCHANGED cacheVars
  PROVE  Live' \subseteq Live \cup ({l.obj, l.old} \ {None})
  <1>1. \A u \in Threads : loc'[u] = IF u = t THEN l ELSE loc[u]
    BY DEF Goto, TypeOK
  <1> QED BY <1>1 DEF Live, cacheVars

\* What t's new locals have to satisfy.
LEMMA LocalsGoto ==
  ASSUME Inv, NEW t \in Threads, NEW l \in Local, Goto(t, l),
         l.pc # "idle" => l.id # None,
         l.pc \in HoldsObj => l.obj # None,
         l.pc = "setMerge" => l.old # None
  PROVE  LocalsOK' /\ loc' \in [Threads -> Local]
  <1>1. \A u \in Threads : loc'[u] = IF u = t THEN l ELSE loc[u]
    BY DEF Goto, Inv, TypeOK
  <1>2. loc' \in [Threads -> Local]
    BY DEF Goto, Inv, TypeOK
  <1> QED BY <1>1, <1>2 DEF Inv, LocalsOK

\* The step of an operation that stays in the cache and in the heap.
LEMMA StepGoto ==
  ASSUME Inv, NEW t \in Threads, NEW l \in Local, Goto(t, l),
         l.pc # "idle" => l.id # None,
         l.pc \in HoldsObj => l.obj # None,
         l.pc = "setMerge" => l.old # None,
         {l.obj, l.old} \ {None} \subseteq Live,
         UNCHANGED cacheVars,
         NEW h, HeapBecomes(h), \A o \in Live : h[o] \in Torrent,
         loc' \in [Threads -> Local] => TypeRest'
  PROVE  Inv'
  <1>1. LocalsOK' /\ loc' \in [Threads -> Local]
    BY LocalsGoto
  <1>2. Live' \subseteq Live
    BY LiveGoto DEF Inv
  <1> QED BY <1>1, <1>2, ConcludeHeap

-----------------------------------------------------------------------------
(* setTorrent keeps Inv                                                    *)

LEMMA EnterSetInv ==
  ASSUME Inv, NEW t \in Threads, NEW i \in Ids,
         NEW by \in {"caller", "refresh"}, NEW next \in {"idle", "generate"},
         EnterSet(t, i, by, next), UNCHANGED cacheVars,
         loc' \in [Threads -> Local] => TypeRest'
  PROVE  Inv'
  <1>1. PICK o \in Objects \ Live :
          /\ Goto(t, [Idle EXCEPT !.pc = "setLookup", !.id = i, !.obj = o,
                                  !.by = by, !.next = next])
          /\ HeapBecomes([heap EXCEPT ![o] = Fetched(i)])
    BY Zenon DEF EnterSet
  <1> DEFINE l == [Idle EXCEPT !.pc = "setLookup", !.id = i, !.obj = o,
                               !.by = by, !.next = next]
  <1>2. o # None
    BY ConstantsAssumption
  <1>3. l \in Local /\ l.pc = "setLookup" /\ l.id # None /\ l.obj = o /\ l.old = None
    BY Zenon, <1>2, ConstantsAssumption DEF Local, PCs, Idle
  <1>4. LocalsOK' /\ loc' \in [Threads -> Local]
    <2>1. Goto(t, l)
      BY <1>1
    <2> HIDE DEF l
    <2> QED BY <2>1, <1>2, <1>3, LocalsGoto
  <1>5. Live' \subseteq Live \cup {o}
    <2>1. Goto(t, l)
      BY <1>1
    <2> HIDE DEF l
    <2> QED BY <2>1, <1>3, LiveGoto DEF Inv
  <1>6. \A x \in Live' : [heap EXCEPT ![o] = Fetched(i)][x] \in Torrent
    BY <1>5, FetchedType, LiveObjects DEF Inv, LiveOK, TypeOK
  <1> QED BY Zenon, <1>1, <1>4, <1>6, ConcludeHeap

LEMMA SetLookupInv ==
  ASSUME Inv, NEW t \in Threads, SetLookup(t) PROVE Inv'
  <1> DEFINE torrent == heap[loc[t].obj]
             o == byName[GetTorrentFolder(torrent)]
             merge == [loc[t] EXCEPT !.pc = "setMerge", !.old = o]
             store == [loc[t] EXCEPT !.pc = "setStore"]
  <1>1. /\ loc[t] \in Local /\ loc[t].pc = "setLookup" /\ loc[t].id # None /\ loc[t].obj # None
        /\ torrent \in Torrent
    BY LiveMembers DEF SetLookup, Inv, TypeOK, LocalsOK, LiveOK, HoldsObj
  <1>2. o \in Objects \cup {None}
    BY <1>1, FolderType DEF Inv, TypeOK
  <1>3. o # None => o \in Live
    BY <1>1, FolderType, LiveMembers
  <1>4. /\ merge \in Local /\ merge.pc = "setMerge" /\ merge.id = loc[t].id
        /\ merge.obj = loc[t].obj /\ merge.old = o
    BY Zenon, <1>1, <1>2 DEF Local, PCs
  <1>5. /\ store \in Local /\ store.pc = "setStore" /\ store.id = loc[t].id
        /\ store.obj = loc[t].obj /\ store.old = loc[t].old
    BY <1>1 DEF Local, PCs
  <1>6. /\ HeapBecomes(heap) /\ UNCHANGED cacheVars
        /\ loc' \in [Threads -> Local] => TypeRest'
    BY DEF SetLookup, Inv, TypeOK, TypeRest, cacheVars, refreshVars, diskVars
  <1>7. \A x \in Live : heap[x] \in Torrent
    BY DEF Inv, LiveOK
  <1>8. {loc[t].obj, loc[t].old} \ {None} \subseteq Live
    BY LiveMembers
  <1>9. \/ Goto(t, merge) /\ o # None
        \/ Goto(t, store)
    BY DEF SetLookup
  <1>10. CASE Goto(t, merge) /\ o # None
    <2> HIDE DEF merge, o
    <2> QED BY <1>10, <1>1, <1>3, <1>4, <1>6, <1>7, <1>8, StepGoto
  <1>11. CASE Goto(t, store)
    <2> HIDE DEF store
    <2> QED BY <1>11, <1>1, <1>5, <1>6, <1>7, <1>8, StepGoto
  <1> QED BY <1>9, <1>10, <1>11

LEMMA SetMergeInv ==
  ASSUME Inv, NEW t \in Threads, SetMerge(t) PROVE Inv'
  <1> DEFINE l == [loc[t] EXCEPT !.pc = "setStore", !.old = None]
             merged == mergeFiles(heap[loc[t].old], heap[loc[t].obj])
             h == [heap EXCEPT ![loc[t].obj].files = merged]
  <1>1. /\ loc[t] \in Local /\ loc[t].id # None /\ loc[t].obj # None /\ loc[t].old # None
        /\ loc[t].obj \in Live /\ loc[t].old \in Live
        /\ heap[loc[t].obj] \in Torrent /\ heap[loc[t].old] \in Torrent
    BY LiveMembers DEF SetMerge, Inv, TypeOK, LocalsOK, LiveOK, HoldsObj
  <1>2. /\ l \in Local /\ l.pc = "setStore" /\ l.id = loc[t].id /\ l.obj = loc[t].obj /\ l.old = None
    BY Zenon, <1>1 DEF Local, PCs
  <1>3. merged \in FileMap
    BY <1>1, MergeType
  <1>4. \A x \in Live : h[x] \in Torrent
    <2> HIDE DEF merged
    <2>1. [heap[loc[t].obj] EXCEPT !.files = merged] \in Torrent
      BY <1>1, <1>3 DEF Torrent
    <2> QED BY <2>1, <1>1, LiveObjects DEF Inv, TypeOK, LiveOK
  <1>5. /\ HeapBecomes(h) /\ UNCHANGED cacheVars /\ Goto(t, l)
        /\ loc' \in [Threads -> Local] => TypeRest'
    BY DEF SetMerge, Inv, TypeOK, TypeRest, cacheVars, refreshVars, diskVars
  <1> HIDE DEF l, h
  <1> QED BY <1>1, <1>2, <1>4, <1>5, StepGoto

LEMMA SetStoreInv ==
  ASSUME Inv, NEW t \in Threads, SetStore(t) PROVE Inv'
  <1> DEFINE l == [loc[t] EXCEPT !.pc = "save"]
             torrent == heap[loc[t].obj]
  <1>1. /\ loc[t] \in Local /\ loc[t].id # None /\ loc[t].obj # None
        /\ loc[t].obj \in Live /\ loc[t].obj \in Objects /\ torrent \in Torrent
    BY LiveMembers, LiveObjects DEF SetStore, Inv, TypeOK, LocalsOK, LiveOK, HoldsObj
  <1>2. /\ l \in Local /\ l.pc = "save" /\ l.id = loc[t].id /\ l.obj = loc[t].obj /\ l.old = loc[t].old
    BY <1>1 DEF Local, PCs
  <1>3. torrent.id \in Ids /\ GetTorrentFolder(torrent) \in Names
    BY <1>1, FolderType DEF Torrent
  <1>4. /\ HeapBecomes(heap) /\ Goto(t, l)
        /\ byID' = [byID EXCEPT ![torrent.id] = loc[t].obj]
        /\ byName' = [byName EXCEPT ![GetTorrentFolder(torrent)] = loc[t].obj]
    BY DEF SetStore
  <1>5. LocalsOK' /\ loc' \in [Threads -> Local]
    <2> HIDE DEF l
    <2> QED BY <1>1, <1>2, <1>4, LocalsGoto
  <1>6. TypeRest'
    BY <1>1, <1>3, <1>5 DEF SetStore, Inv, TypeOK, TypeRest, refreshVars, diskVars
  <1>7. Live' \subseteq Live
    <2>1. \A u \in Threads : loc'[u].obj = loc[u].obj /\ loc'[u].old = loc[u].old
      <3> HIDE DEF l
      <3> QED BY <1>2, <1>4 DEF Goto, Inv, TypeOK
    <2>2. \A i \in Ids : byID'[i] = byID[i] \/ byID'[i] = loc[t].obj
      BY <1>4 DEF Inv, TypeOK
    <2>3. \A n \in Names : byName'[n] = byName[n] \/ byName'[n] = loc[t].obj
      BY <1>4 DEF Inv, TypeOK
    <2> QED BY <1>1, <2>1, <2>2, <2>3 DEF Live
  <1>8. \A x \in Live' : heap[x] \in Torrent
    BY <1>7 DEF Inv, LiveOK
  <1> QED BY <1>4, <1>5, <1>6, <1>8, ConcludeHeap

LEMMA SaveTorrentType ==
  ASSUME TypeOK, NEW i \in Ids, SaveTorrent(i)
  PROVE  disk' \in SUBSET Ids /\ saving' \in [Slots -> Ids \cup {None}]
  BY DEF TypeOK, SaveTorrent, WriteInGoroutine, FreeSlots

LEMMA SaveInv ==
  ASSUME Inv, NEW t \in Threads, Save(t) PROVE Inv'
  <1> DEFINE gen == [loc[t] EXCEPT !.pc = "generate", !.next = "idle"]
             del == [loc[t] EXCEPT !.pc = "delDB", !.obj = None]
  <1>1. /\ loc[t] \in Local /\ loc[t].id # None /\ loc[t].obj # None
        /\ loc[t].obj \in Live /\ heap[loc[t].obj] \in Torrent
    BY LiveMembers DEF Save, Inv, TypeOK, LocalsOK, LiveOK, HoldsObj
  <1>2. disk' \in SUBSET Ids /\ saving' \in [Slots -> Ids \cup {None}]
    BY <1>1, SaveTorrentType DEF Save, Inv, Torrent
  <1>3. /\ HeapBecomes(heap) /\ UNCHANGED cacheVars
        /\ loc' \in [Threads -> Local] => TypeRest'
    BY <1>2 DEF Save, Inv, TypeOK, TypeRest, cacheVars, refreshVars
  <1>4. \A x \in Live : heap[x] \in Torrent
    BY DEF Inv, LiveOK
  <1>5. {loc[t].obj, loc[t].old} \ {None} \subseteq Live
    BY LiveMembers
  <1>6. \/ Goto(t, Idle) \/ Goto(t, gen) \/ Goto(t, del)
    BY <1>1 DEF Save, Local
  <1>7. CASE Goto(t, Idle)
    <2>1. Idle \in Local /\ Idle.pc = "idle" /\ Idle.obj = None /\ Idle.old = None
      BY DEF Idle, Local, PCs
    <2> QED BY <1>7, <2>1, <1>3, <1>4, StepGoto DEF HoldsObj
  <1>8. CASE Goto(t, gen)
    <2>1. gen \in Local /\ gen.pc = "generate" /\ gen.id = loc[t].id /\ gen.obj = loc[t].obj /\ gen.old = loc[t].old
      BY Zenon, <1>1 DEF Local, PCs
    <2> HIDE DEF gen
    <2> QED BY <1>8, <2>1, <1>1, <1>3, <1>4, <1>5, StepGoto
  <1>9. CASE Goto(t, del)
    <2>1. del \in Local /\ del.pc = "delDB" /\ del.id = loc[t].id /\ del.obj = None /\ del.old = loc[t].old
      BY Zenon, <1>1 DEF Local, PCs
    <2> HIDE DEF del
    <2> QED BY <1>9, <2>1, <1>1, <1>3, <1>4, <1>5, StepGoto DEF HoldsObj
  <1> QED BY <1>6, <1>7, <1>8, <1>9

LEMMA GenerateInv ==
  ASSUME Inv, NEW t \in Threads, GenerateDownloadLinks(t) PROVE Inv'
  <1> DEFINE l == [loc[t] EXCEPT !.pc = "setLookup"]
  <1>1. /\ loc[t] \in Local /\ loc[t].id # None /\ loc[t].obj # None
        /\ {loc[t].obj, loc[t].old} \ {None} \subseteq Live
    BY LiveMembers DEF GenerateDownloadLinks, Inv, TypeOK, LocalsOK, HoldsObj
  <1>2. /\ HeapBecomes(heap) /\ UNCHANGED cacheVars
        /\ loc' \in [Threads -> Local] => TypeRest'
        /\ \A x \in Live : heap[x] \in Torrent
    BY DEF GenerateDownloadLinks, Inv, TypeOK, LiveOK, TypeRest, cacheVars, refreshVars, diskVars
  <1>3. CASE Goto(t, Idle)
    <2>1. Idle \in Local /\ Idle.pc = "idle" /\ Idle.obj = None /\ Idle.old = None
      BY DEF Idle, Local, PCs
    <2> QED BY <1>3, <2>1, <1>2, StepGoto DEF HoldsObj
  <1>4. CASE Goto(t, l)
    <2>1. l \in Local /\ l.pc = "setLookup" /\ l.id = loc[t].id /\ l.obj = loc[t].obj /\ l.old = loc[t].old
      BY <1>1 DEF Local, PCs
    <2> HIDE DEF l
    <2> QED BY <1>4, <2>1, <1>1, <1>2, StepGoto
  <1> QED BY <1>3, <1>4 DEF GenerateDownloadLinks

-----------------------------------------------------------------------------
(* deleteTorrent keeps Inv                                                 *)

LEMMA DelGetInv ==
  ASSUME Inv, NEW t \in Threads, DelGet(t) PROVE Inv'
  <1> DEFINE l == [loc[t] EXCEPT !.pc = "delRemove", !.obj = byID[loc[t].id]]
  <1>1. /\ loc[t] \in Local /\ loc[t].id \in Ids /\ loc[t].id # None
        /\ {loc[t].old} \ {None} \subseteq Live
    BY LiveMembers DEF DelGet, Inv, TypeOK, LocalsOK, Local
  <1>2. /\ HeapBecomes(heap) /\ UNCHANGED cacheVars
        /\ loc' \in [Threads -> Local] => TypeRest'
        /\ \A x \in Live : heap[x] \in Torrent
    BY DEF DelGet, Unlock, Inv, TypeOK, LiveOK, TypeRest, cacheVars, diskVars
  <1>3. CASE Goto(t, Idle)
    <2>1. Idle \in Local /\ Idle.pc = "idle" /\ Idle.obj = None /\ Idle.old = None
      BY DEF Idle, Local, PCs
    <2> QED BY <1>3, <2>1, <1>2, StepGoto DEF HoldsObj
  <1>4. CASE byID[loc[t].id] # None /\ Goto(t, l)
    <2>1. byID[loc[t].id] \in Objects /\ byID[loc[t].id] \in Live
      BY <1>1, <1>4, LiveMembers DEF Inv, TypeOK
    <2>2. /\ l \in Local /\ l.pc = "delRemove" /\ l.id = loc[t].id
          /\ l.obj = byID[loc[t].id] /\ l.old = loc[t].old
      BY Zenon, <1>1, <2>1 DEF Local, PCs
    <2>3. Goto(t, l)
      BY <1>4
    <2> HIDE DEF l
    <2> QED BY <2>3, <1>4, <2>1, <2>2, <1>1, <1>2, StepGoto
  <1> QED BY <1>3, <1>4 DEF DelGet

LEMMA DelRemoveInv ==
  ASSUME Inv, NEW t \in Threads, DelRemove(t) PROVE Inv'
  <1> DEFINE l == [loc[t] EXCEPT !.pc = "delName"]
  <1>1. /\ loc[t] \in Local /\ loc[t].id \in Ids /\ loc[t].id # None /\ loc[t].obj # None
    BY DEF DelRemove, Inv, TypeOK, LocalsOK, HoldsObj, Local
  <1>2. l \in Local /\ l.pc = "delName" /\ l.id = loc[t].id /\ l.obj = loc[t].obj /\ l.old = loc[t].old
    BY <1>1 DEF Local, PCs
  <1>3. HeapBecomes(heap) /\ Goto(t, l) /\ byID' = [byID EXCEPT ![loc[t].id] = None] /\ byName' = byName
    BY DEF DelRemove
  <1>4. LocalsOK' /\ loc' \in [Threads -> Local]
    <2> HIDE DEF l
    <2> QED BY <1>1, <1>2, <1>3, LocalsGoto
  <1>5. TypeRest'
    BY <1>1, <1>4 DEF DelRemove, Inv, TypeOK, TypeRest, refreshVars, diskVars
  <1>6. Live' \subseteq Live
    <2>1. \A u \in Threads : loc'[u].obj = loc[u].obj /\ loc'[u].old = loc[u].old
      <3> HIDE DEF l
      <3> QED BY <1>2, <1>3 DEF Goto, Inv, TypeOK
    <2>2. \A i \in Ids : byID'[i] = byID[i] \/ byID'[i] = None
      BY <1>3 DEF Inv, TypeOK
    <2> QED BY <1>3, <2>1, <2>2 DEF Live
  <1> QED BY <1>3, <1>4, <1>5, <1>6, ConcludeHeap DEF Inv, LiveOK

LEMMA DelNameInv ==
  ASSUME Inv, NEW t \in Threads, DelName(t) PROVE Inv'
  <1> DEFINE o == byName[NameOf[heap[loc[t].obj].origin]]
             rest == Remaining(heap[o].files, loc[t].id)
             db == [loc[t] EXCEPT !.pc = "delDB", !.obj = None]
             entry == [loc[t] EXCEPT !.pc = "delEntry"]
             set == [loc[t] EXCEPT !.pc = "setLookup", !.obj = o, !.next = "delDB"]
  <1>1. /\ loc[t] \in Local /\ loc[t].id \in Ids /\ loc[t].id # None /\ loc[t].obj # None
        /\ {loc[t].obj, loc[t].old} \ {None} \subseteq Live
        /\ heap[loc[t].obj] \in Torrent
    BY ZenonT(40), LiveMembers DEF DelName, Inv, TypeOK, LocalsOK, LiveOK, HoldsObj, Local
  <1>2. /\ UNCHANGED cacheVars
        /\ loc' \in [Threads -> Local] => TypeRest'
        /\ \A x \in Live : heap[x] \in Torrent
    BY Zenon DEF DelName, Inv, TypeOK, LiveOK, TypeRest, cacheVars, refreshVars, diskVars
  <1>3. CASE Goto(t, db) /\ HeapBecomes(heap)
    <2>1. db \in Local /\ db.pc = "delDB" /\ db.id = loc[t].id /\ db.obj = None /\ db.old = loc[t].old
      BY Zenon, <1>1 DEF Local, PCs
    <2> HIDE DEF db
    <2> QED BY <1>3, <2>1, <1>1, <1>2, StepGoto DEF HoldsObj
  <1>4. CASE Goto(t, entry) /\ HeapBecomes(heap)
    <2>1. entry \in Local /\ entry.pc = "delEntry" /\ entry.id = loc[t].id /\ entry.obj = loc[t].obj /\ entry.old = loc[t].old
      BY <1>1 DEF Local, PCs
    <2> HIDE DEF entry
    <2> QED BY <1>4, <2>1, <1>1, <1>2, StepGoto
  <1>5. ASSUME o # None, Goto(t, set), NEW newId \in NewIds(rest),
               HeapBecomes([heap EXCEPT ![o].files = rest, ![o].id = newId])
        PROVE  Inv'
    <2> DEFINE h == [heap EXCEPT ![o].files = rest, ![o].id = newId]
    <2>1. o \in Live /\ o \in Objects
      <3>1. NameOf[heap[loc[t].obj].origin] \in Names
        BY <1>1, ConstantsAssumption DEF Torrent
      <3> QED BY Zenon, <3>1, <1>5, LiveMembers DEF Inv, TypeOK
    <2>2. heap[o] \in Torrent
      BY <1>2, <2>1
    <2>3. rest \in FileMap
      BY Zenon, <2>2, RemainingType DEF Torrent
    <2>4. newId \in Ids
      <3> HIDE DEF rest
      <3> QED BY Zenon, <2>3, <1>5 DEF NewIds, Owners, FileMap
    <2>5. \A x \in Live : h[x] \in Torrent
      <3> HIDE DEF rest, o
      <3>1. [[heap[o] EXCEPT !.files = rest] EXCEPT !.id = newId] \in Torrent
        BY Zenon, <2>2, <2>3, <2>4 DEF Torrent
      <3> QED BY <3>1, <2>1, <1>2, LiveObjects DEF Inv, TypeOK
    <2>6. set \in Local /\ set.pc = "setLookup" /\ set.id = loc[t].id /\ set.obj = o /\ set.old = loc[t].old
      <3> HIDE DEF o
      <3> QED BY Zenon, <1>1, <2>1 DEF Local, PCs
    <2>7. Goto(t, set) /\ HeapBecomes(h)
      BY Zenon, <1>5
    <2> HIDE DEF set, h, o
    <2> QED BY <2>7, <1>5, <2>1, <2>5, <2>6, <1>1, <1>2, StepGoto
  <1> QED BY Zenon, <1>3, <1>4, <1>5 DEF DelName

LEMMA DelEntryInv ==
  ASSUME Inv, NEW t \in Threads, DelEntry(t) PROVE Inv'
  <1> DEFINE l == [loc[t] EXCEPT !.pc = "delDB", !.obj = None]
  <1>1. /\ loc[t] \in Local /\ loc[t].id \in Ids /\ loc[t].id # None
    BY DEF DelEntry, Inv, TypeOK, LocalsOK, Local
  <1>2. l \in Local /\ l.pc = "delDB" /\ l.id = loc[t].id /\ l.obj = None /\ l.old = loc[t].old
    BY Zenon, <1>1 DEF Local, PCs
  <1>3. /\ HeapBecomes(heap) /\ Goto(t, l) /\ byID' = byID
        /\ \A n \in Names : byName'[n] = byName[n] \/ byName'[n] = None
        /\ byName' \in [Names -> Objects \cup {None}]
    BY Zenon DEF DelEntry, Inv, TypeOK
  <1>4. LocalsOK' /\ loc' \in [Threads -> Local]
    <2> HIDE DEF l
    <2> QED BY <1>1, <1>2, <1>3, LocalsGoto DEF HoldsObj
  <1>5. TypeRest'
    BY <1>3, <1>4 DEF DelEntry, Inv, TypeOK, TypeRest, refreshVars, diskVars
  <1>6. Live' \subseteq Live
    <2>1. \A u \in Threads : /\ loc'[u].obj = loc[u].obj \/ loc'[u].obj = None
                            /\ loc'[u].old = loc[u].old
      <3> HIDE DEF l
      <3> QED BY <1>2, <1>3 DEF Goto, Inv, TypeOK
    <2> QED BY <1>3, <2>1 DEF Live
  <1> QED BY <1>3, <1>4, <1>5, <1>6, ConcludeHeap DEF Inv, LiveOK

LEMMA DelDBInv ==
  ASSUME Inv, NEW t \in Threads, DelDB(t) PROVE Inv'
  <1>1. loc[t] \in Local /\ loc[t].id \in Ids
    BY DEF DelDB, Inv, TypeOK, LocalsOK, Local
  <1>2. /\ HeapBecomes(heap) /\ UNCHANGED cacheVars /\ Goto(t, Idle)
        /\ loc' \in [Threads -> Local] => TypeRest'
        /\ \A x \in Live : heap[x] \in Torrent
    BY <1>1 DEF DelDB, RemoveFromDB, Unlock, Inv, TypeOK, LiveOK, TypeRest, cacheVars
  <1>3. Idle \in Local /\ Idle.pc = "idle" /\ Idle.obj = None /\ Idle.old = None
    BY DEF Idle, Local, PCs
  <1> QED BY <1>2, <1>3, StepGoto DEF HoldsObj

-----------------------------------------------------------------------------
(* The remaining actions touch neither the heap nor what is live            *)

\* A step that starts an operation with no struct in hand.
LEMMA BeginInv ==
  ASSUME Inv, NEW t \in Threads, NEW i \in Ids, NEW pc \in {"lock", "delGet"},
         NEW by \in {"caller", "validate"},
         Goto(t, [Idle EXCEPT !.pc = pc, !.id = i, !.by = by]),
         heap' = heap, UNCHANGED cacheVars,
         loc' \in [Threads -> Local] => TypeRest'
  PROVE  Inv'
  <1> DEFINE l == [Idle EXCEPT !.pc = pc, !.id = i, !.by = by]
  <1>1. l \in Local /\ l.pc \notin HoldsObj /\ l.pc # "setMerge" /\ l.id # None
        /\ l.obj = None /\ l.old = None
    BY Zenon, ConstantsAssumption DEF Idle, Local, PCs, HoldsObj
  <1>2. Goto(t, l)
    OBVIOUS
  <1> HIDE DEF l
  <1>3. LocalsOK' /\ loc' \in [Threads -> Local]
    BY <1>1, <1>2, LocalsGoto
  <1>4. Live' \subseteq Live
    BY <1>1, <1>2, LiveGoto DEF Inv
  <1> QED BY <1>3, <1>4, ConcludeSame

LEMMA LockInv ==
  ASSUME Inv, NEW t \in Threads, Lock(t) PROVE Inv'
  <1> DEFINE l == [loc[t] EXCEPT !.pc = "delGet"]
  <1>1. loc[t] \in Local /\ loc[t].id # None
    BY DEF Lock, Inv, TypeOK, LocalsOK
  <1>2. l \in Local /\ l.pc = "delGet" /\ l.id = loc[t].id /\ l.obj = loc[t].obj /\ l.old = loc[t].old
    BY <1>1 DEF Local, PCs
  <1>3. Goto(t, l)
    BY DEF Lock
  <1> HIDE DEF l
  <1>4. LocalsOK' /\ loc' \in [Threads -> Local]
    BY <1>1, <1>2, <1>3, LocalsGoto DEF HoldsObj
  <1>5. TypeRest'
    BY <1>4 DEF Lock, Inv, TypeOK, TypeRest, cacheVars, diskVars
  <1>6. Live' \subseteq Live
    <2>1. UNCHANGED cacheVars
      BY DEF Lock, cacheVars
    <2> QED BY <2>1, <1>2, <1>3, LiveMembers, LiveGoto DEF Inv
  <1> QED BY <1>4, <1>5, <1>6, ConcludeSame DEF Lock

\* A step that leaves heap, maps and goroutines alone.
LEMMA OtherInv ==
  ASSUME Inv, UNCHANGED <<heap, cacheVars, loc>>, TypeRest'
  PROVE  Inv'
  <1>1. Live' \subseteq Live
    BY DEF Live, cacheVars
  <1>2. LocalsOK'
    BY DEF Inv, LocalsOK
  <1> QED BY <1>1, <1>2, ConcludeSame

LEMMA CallInv ==
  ASSUME Inv, NEW t \in Threads, NEW i \in Ids, Call(t, i) PROVE Inv'
  <1>1. CASE RefreshTorrent(t, i)
    BY <1>1, EnterSetInv DEF RefreshTorrent, Inv, TypeOK, TypeRest, cacheVars, refreshVars, diskVars
  <1>2. CASE AddTorrent(t, i)
    BY <1>2, EnterSetInv DEF AddTorrent, Inv, TypeOK, TypeRest, cacheVars, refreshVars, diskVars
  <1>3. CASE DeleteTorrent(t, i)
    BY Zenon, <1>3, BeginInv DEF DeleteTorrent, Inv, TypeOK, TypeRest, cacheVars, refreshVars, diskVars
  <1>4. CASE DeleteTorrents(t, i)
    BY Zenon, <1>4, BeginInv DEF DeleteTorrents, Inv, TypeOK, TypeRest, cacheVars, refreshVars, diskVars
  <1> QED BY <1>1, <1>2, <1>3, <1>4 DEF Call

LEMMA ContinueInv ==
  ASSUME Inv, NEW t \in Threads, Continue(t) PROVE Inv'
  BY SetLookupInv, SetMergeInv, SetStoreInv, SaveInv, GenerateInv, LockInv,
     DelGetInv, DelRemoveInv, DelNameInv, DelEntryInv, DelDBInv DEF Continue

LEMMA BackgroundInv ==
  ASSUME Inv, Background PROVE Inv'
  <1>1. CASE RefreshList
    BY <1>1, OtherInv DEF RefreshList, Present, Inv, TypeOK, TypeRest, cacheVars, diskVars
  <1>2. CASE RefreshCompare
    BY <1>2, OtherInv
       DEF RefreshCompare, Deleted, CachedIds, Inv, TypeOK, TypeRest, cacheVars, diskVars
  <1>3. CASE RefreshDone
    BY <1>3, OtherInv DEF RefreshDone, Inv, TypeOK, TypeRest, cacheVars, diskVars
  <1>4. ASSUME NEW i \in Ids, ProcessSkip(i) PROVE Inv'
    BY <1>4, OtherInv DEF ProcessSkip, Inv, TypeOK, TypeRest, cacheVars, diskVars
  <1>5. ASSUME NEW i \in Ids, ValidateKeeps(i) PROVE Inv'
    BY <1>5, OtherInv DEF ValidateKeeps, Inv, TypeOK, TypeRest, cacheVars, diskVars
  <1>6. ASSUME NEW t \in Threads, NEW i \in Ids, ProcessTorrent(t, i) PROVE Inv'
    BY <1>6, EnterSetInv DEF ProcessTorrent, Inv, TypeOK, TypeRest, cacheVars, diskVars
  <1>7. ASSUME NEW t \in Threads, NEW i \in Ids, ValidateDeletes(t, i) PROVE Inv'
    BY Zenon, <1>7, BeginInv DEF ValidateDeletes, Inv, TypeOK, TypeRest, cacheVars, diskVars
  <1>8. ASSUME NEW s \in Slots, SaveLands(s) PROVE Inv'
    BY <1>8, OtherInv DEF SaveLands, Inv, TypeOK, TypeRest, cacheVars, refreshVars
  <1> QED BY <1>1, <1>2, <1>3, <1>4, <1>5, <1>6, <1>7, <1>8 DEF Background

LEMMA NextInv == Inv /\ [Next]_vars => Inv'
  <1> SUFFICES ASSUME Inv, [Next]_vars PROVE Inv'
    OBVIOUS
  <1>1. ASSUME NEW i \in Ids, DebridAdd(i) \/ DebridRemove(i) PROVE Inv'
    BY <1>1, OtherInv
       DEF DebridAdd, DebridRemove, Inv, TypeOK, TypeRest, cacheVars, refreshVars, diskVars
  <1>2. CASE CallersStop
    BY Zenon, <1>2, OtherInv DEF CallersStop, Inv, TypeOK, TypeRest, cacheVars, refreshVars, diskVars
  <1>3. CASE UNCHANGED vars
    BY <1>3, OtherInv DEF vars, Inv, TypeOK, TypeRest, cacheVars, refreshVars, diskVars
  <1> QED BY <1>1, <1>2, <1>3, CallInv, ContinueInv, BackgroundInv DEF Next, Account

THEOREM InvHolds == Spec => []Inv
  BY InitInv, NextInv, PTL DEF Spec

\* In every behaviour, with any number of torrents, goroutines and folders, the
\* maps, the structs they share and the goroutines' locals keep their types; in
\* particular deleteTorrent never leaves an entry under the empty id.
THEOREM TypeCorrect == Spec => []TypeOK
  <1>1. Inv => TypeOK
    BY DEF Inv
  <1> QED BY <1>1, InvHolds, PTL

-----------------------------------------------------------------------------
(* The refresh mutex                                                       *)

\* refreshMu, refresh and newTorrents decide RefreshExclusive together with
\* who called the goroutines' current operations.
Exclusive ==
    /\ refresh.pc # "idle" => refreshMu = Refresher
    /\ (\E t \in Threads : loc[t].by = "refresh") \/ newTorrents # {} => refresh.pc = "waiting"

\* A holder that is not the Refresher leaves the refresh idle.
LEMMA ExclusiveSuffices == Exclusive => RefreshExclusive
  BY ConstantsAssumption DEF Exclusive, RefreshExclusive, Deleting

LEMMA ExclusiveInit == Init => Exclusive
  BY DEF Init, Exclusive, Idle

\* A step of goroutine t that makes no worker of it and, if it releases the
\* mutex, held it.
LEMMA ExclusiveGoto ==
  ASSUME TypeOK, Exclusive, NEW t \in Threads, NEW l, Goto(t, l),
         l.by # "refresh" \/ l.by = loc[t].by,
         Unlock(t) \/ UNCHANGED refreshMu,
         UNCHANGED refresh, UNCHANGED newTorrents
  PROVE  Exclusive'
  <1>1. \A u \in Threads : loc'[u] = IF u = t THEN l ELSE loc[u]
    BY DEF Goto, TypeOK
  <1>2. refreshMu = Refresher => refreshMu' = Refresher
    BY ConstantsAssumption DEF Unlock
  <1> QED BY <1>1, <1>2 DEF Exclusive

LEMMA ExclusiveContinue ==
  ASSUME TypeOK, Exclusive, NEW t \in Threads, Continue(t) PROVE Exclusive'
  <1>1. loc[t] \in Local
    BY DEF TypeOK
  <1>2. ASSUME NEW l, Goto(t, l), l.by \in {loc[t].by, "none"},
               Unlock(t) \/ UNCHANGED refreshMu,
               UNCHANGED refresh, UNCHANGED newTorrents
        PROVE  Exclusive'
    BY <1>2, ExclusiveGoto
  <1>3. CASE SetLookup(t)
    <2>1. PICK o : Goto(t, [loc[t] EXCEPT !.pc = "setMerge", !.old = o])
                   \/ Goto(t, [loc[t] EXCEPT !.pc = "setStore"])
      BY Zenon, <1>3 DEF SetLookup
    <2> QED BY Zenon, <1>1, <1>2, <1>3, <2>1 DEF SetLookup, refreshVars, Local
  <1>4. CASE SetMerge(t) \/ SetStore(t)
    BY Zenon, <1>1, <1>2, <1>4 DEF SetMerge, SetStore, refreshVars, Local
  <1>5. CASE Save(t)
    <2>1. \/ Goto(t, Idle)
          \/ Goto(t, [loc[t] EXCEPT !.pc = "generate", !.next = "idle"])
          \/ Goto(t, [loc[t] EXCEPT !.pc = "delDB", !.obj = None])
      BY <1>1, <1>5 DEF Save, Local
    <2>2. UNCHANGED refreshVars
      BY <1>5 DEF Save
    <2> QED BY Zenon, <1>1, <1>2, <2>1, <2>2 DEF refreshVars, Local, Idle
  <1>6. CASE GenerateDownloadLinks(t)
    BY <1>1, <1>2, <1>6 DEF GenerateDownloadLinks, refreshVars, Local, Idle
  <1>7. CASE Lock(t)
    <2>1. \A u \in Threads : loc'[u].by = loc[u].by
      BY <1>1, <1>7 DEF Lock, Goto, TypeOK, Local
    <2>2. refreshMu = None /\ UNCHANGED refresh /\ UNCHANGED newTorrents
      BY <1>7 DEF Lock
    <2> QED BY <2>1, <2>2, ConstantsAssumption DEF Exclusive
  <1>8. CASE DelGet(t)
    <2>1. \/ Goto(t, Idle)
          \/ Goto(t, [loc[t] EXCEPT !.pc = "delRemove", !.obj = byID[loc[t].id]])
      BY <1>8 DEF DelGet
    <2>2. /\ Unlock(t) \/ UNCHANGED refreshMu
          /\ UNCHANGED refresh /\ UNCHANGED newTorrents
      BY <1>8 DEF DelGet
    <2> QED BY Zenon, <1>1, <1>2, <2>1, <2>2 DEF Local, Idle
  <1>9. CASE DelRemove(t) \/ DelEntry(t)
    BY Zenon, <1>1, <1>2, <1>9 DEF DelRemove, DelEntry, refreshVars, Local
  <1>10. CASE DelName(t)
    <2>1. PICK o : \/ Goto(t, [loc[t] EXCEPT !.pc = "delDB", !.obj = None])
                   \/ Goto(t, [loc[t] EXCEPT !.pc = "delEntry"])
                   \/ Goto(t, [loc[t] EXCEPT !.pc = "setLookup", !.obj = o, !.next = "delDB"])
      BY Zenon, <1>10 DEF DelName
    <2>2. UNCHANGED refreshVars
      BY Zenon, <1>10 DEF DelName
    <2> QED BY Zenon, <1>1, <1>2, <2>1, <2>2 DEF refreshVars, Local
  <1>11. CASE DelDB(t)
    BY <1>1, <1>2, <1>11 DEF DelDB, Idle
  <1> QED BY <1>3, <1>4, <1>5, <1>6, <1>7, <1>8, <1>9, <1>10, <1>11 DEF Continue

LEMMA ExclusiveCall ==
  ASSUME TypeOK, Exclusive, NEW t \in Threads, NEW i \in Ids, Call(t, i) PROVE Exclusive'
  <1>1. PICK o, pc, next :
          \/ Goto(t, [Idle EXCEPT !.pc = pc, !.id = i, !.obj = o, !.by = "caller", !.next = next])
          \/ Goto(t, [Idle EXCEPT !.pc = pc, !.id = i, !.by = "caller"])
    BY Zenon DEF Call, RefreshTorrent, AddTorrent, DeleteTorrent, DeleteTorrents, EnterSet
  <1>2. UNCHANGED refreshVars
    BY DEF Call, RefreshTorrent, AddTorrent, DeleteTorrent, DeleteTorrents
  <1> QED BY Zenon, <1>1, <1>2, ExclusiveGoto DEF refreshVars, Idle

LEMMA ExclusiveBackground ==
  ASSUME TypeOK, Exclusive, Background PROVE Exclusive'
  <1>1. CASE RefreshList \/ RefreshCompare \/ RefreshDone
    BY <1>1 DEF RefreshList, RefreshCompare, RefreshDone, Exclusive
  <1>2. CASE \E i \in Ids : ProcessSkip(i) \/ ValidateKeeps(i)
    BY <1>2 DEF ProcessSkip, ValidateKeeps, Exclusive
  <1>3. ASSUME NEW t \in Threads, NEW i \in Ids, ProcessTorrent(t, i) PROVE Exclusive'
    <2>1. /\ refresh.pc = "waiting"
          /\ UNCHANGED <<refreshMu, refresh>>
      BY <1>3 DEF ProcessTorrent, Exclusive
    <2> QED BY <2>1 DEF Exclusive
  <1>4. ASSUME NEW t \in Threads, NEW i \in Ids, ValidateDeletes(t, i) PROVE Exclusive'
    BY Zenon, <1>4, ExclusiveGoto DEF ValidateDeletes, Idle
  <1>5. CASE \E s \in Slots : SaveLands(s)
    BY <1>5 DEF SaveLands, refreshVars, Exclusive
  <1> QED BY <1>1, <1>2, <1>3, <1>4, <1>5 DEF Background

LEMMA ExclusiveNext == TypeOK /\ Exclusive /\ [Next]_vars => Exclusive'
  <1> SUFFICES ASSUME TypeOK, Exclusive, [Next]_vars PROVE Exclusive'
    OBVIOUS
  <1>1. CASE Account \/ CallersStop \/ UNCHANGED vars
    BY <1>1 DEF Account, DebridAdd, DebridRemove, CallersStop, vars, refreshVars, Exclusive
  <1> QED BY <1>1, ExclusiveContinue, ExclusiveCall, ExclusiveBackground DEF Next

\* For any number of goroutines, a caller's DeleteTorrent and a refresh, from
\* its listing to the end of its last worker, never hold the cache together.
THEOREM RefreshExclusion == Spec => []RefreshExclusive
  <1>1. Spec => []Exclusive
    BY ExclusiveInit, ExclusiveNext, TypeCorrect, PTL DEF Spec
  <1> QED BY <1>1, ExclusiveSuffices, PTL

-----------------------------------------------------------------------------
(***************************************************************************)
(* Merged folders stay pure: where folder_naming is anything but "id", no  *)
(* interleaving of setTorrent and deleteTorrent puts a file into another   *)
(* torrent's folder, although both write through structs they share.       *)
(***************************************************************************)

\* The folder of a struct's torrent; it never changes while the struct is live.
Folder(o) == FolderOf[heap[o].origin]

\* All files of a torrent come from torrents of its folder that have them, and
\* the id it goes by is one of that folder.
Pure(torrent) ==
    /\ FolderOf[torrent.id] = FolderOf[torrent.origin]
    /\ \A f \in FileNames : torrent.files[f] # None =>
          /\ FolderOf[torrent.files[f]] = FolderOf[torrent.origin]
          /\ f \in FilesOf[torrent.files[f]]

\* Control points at which a deletion holds the struct it found under the id.
DelPCs == {"delRemove", "delName", "delEntry"}

\* Every struct in use is pure, every entry is under its folder and under ids of
\* its folder, and what is about to be merged or deleted belongs to one folder.
Folders ==
    /\ \A o \in Live : Pure(heap[o])
    /\ \A n \in Names : byName[n] # None => Folder(byName[n]) = n
    /\ \A i \in Ids : byID[i] # None => Folder(byID[i]) = FolderOf[i]
    /\ \A t \in Threads :
        /\ loc[t].pc = "setMerge" => Folder(loc[t].old) = Folder(loc[t].obj)
        /\ loc[t].pc \in DelPCs => Folder(loc[t].obj) = FolderOf[loc[t].id]

-----------------------------------------------------------------------------
(* Operators keep torrents pure                                            *)

LEMMA FetchedPure == ASSUME NEW i \in Ids PROVE Pure(Fetched(i))
BY ConstantsAssumption DEF Pure, Fetched

LEMMA RemainingPure ==
  ASSUME NEW x \in Torrent, Pure(x), NEW i
  PROVE  \A f \in FileNames : Remaining(x.files, i)[f] # None =>
             /\ FolderOf[Remaining(x.files, i)[f]] = FolderOf[x.origin]
             /\ f \in FilesOf[Remaining(x.files, i)[f]]
BY DEF Pure, Remaining, Torrent, FileMap

LEMMA MergePure ==
  ASSUME NEW x \in Torrent, NEW y \in Torrent, Pure(x), Pure(y),
         FolderOf[x.origin] = FolderOf[y.origin]
  PROVE  \A f \in FileNames : mergeFiles(x, y)[f] # None =>
             /\ FolderOf[mergeFiles(x, y)[f]] = FolderOf[y.origin]
             /\ f \in FilesOf[mergeFiles(x, y)[f]]
<1>1. \A f \in FileNames : mergeFiles(x, y)[f] # None =>
          mergeFiles(x, y)[f] = x.files[f] \/ mergeFiles(x, y)[f] = y.files[f]
  BY DEF mergeFiles, Overlay, Torrent, FileMap
<1> QED
  BY <1>1 DEF Pure

-----------------------------------------------------------------------------
(* How Folders survives a step                                             *)

LEMMA FoldersInit == Init => Folders
BY DEF Init, Folders, Live, Idle, DelPCs

\* Locals that refer to what is live, and merge or delete within a folder.
Safe(l) ==
    /\ {l.obj, l.old} \ {None} \subseteq Live
    /\ l.pc = "setMerge" => /\ l.obj \in Live /\ l.old \in Live
                            /\ Folder(l.old) = Folder(l.obj)
    /\ l.pc \in DelPCs => l.obj \in Live /\ Folder(l.obj) = FolderOf[l.id]

\* Changed entries refer to what is live, under its folder.
SafeMaps ==
    /\ \A i \in Ids : \/ byID'[i] \in {byID[i], None}
                      \/ byID'[i] \in Live /\ Folder(byID'[i]) = FolderOf[i]
    /\ \A n \in Names : \/ byName'[n] \in {byName[n], None}
                        \/ byName'[n] \in Live /\ Folder(byName'[n]) = n

\* Structs keep their origins and stay pure.
SafeHeap(h) == \A o \in Live : Pure(h[o]) /\ h[o].origin = heap[o].origin

LEMMA FoldersSameMaps == UNCHANGED cacheVars => SafeMaps
<1> SUFFICES ASSUME UNCHANGED cacheVars PROVE SafeMaps
  OBVIOUS
<1>1. byID' = byID /\ byName' = byName
  BY DEF cacheVars
<1> QED
  BY <1>1 DEF SafeMaps

LEMMA SameHeap == Folders => SafeHeap(heap)
BY DEF SafeHeap, Folders

\* What is live after a step of t whose new references were live before.
LEMMA FoldersLiveStays ==
  ASSUME TypeOK, NEW t \in Threads, NEW l, Goto(t, l), Safe(l), SafeMaps
  PROVE  Live' \subseteq Live
<1>1. \A u \in Threads : loc'[u] = IF u = t THEN l ELSE loc[u]
  BY DEF Goto, TypeOK
<1> QED
  BY <1>1 DEF Live, Safe, SafeMaps

\* A step of goroutine t that leaves the heap the live part of h, where structs
\* keep their origins.
LEMMA FoldersStep ==
  ASSUME Inv, Inv', Folders,
         NEW t \in Threads, NEW l, Goto(t, l), Safe(l), SafeMaps,
         NEW h, HeapBecomes(h), SafeHeap(h)
  PROVE  Folders'
<1>1. Live' \subseteq Live
  BY FoldersLiveStays DEF Inv
<1>2. \A o \in Live' : heap'[o] = h[o]
  BY LiveObjects, <1>1 DEF HeapBecomes, Inv
<1>3. \A o \in Live' : heap'[o].origin = heap[o].origin
  BY <1>1, <1>2 DEF SafeHeap
<1>4. \A o \in Live' : Pure(heap[o])'
  <2>1. \A o \in Live' : Pure(heap'[o])
    BY <1>1, <1>2 DEF SafeHeap
  <2> QED
    BY <2>1 DEF Pure
<1>5. \A n \in Names : byName'[n] # None => Folder(byName[n])' = n
  <2> TAKE n \in Names
  <2> HAVE byName'[n] # None
  <2>1. byName'[n] \in Live'
    BY DEF Live
  <2>2. Folder(byName'[n]) = n
    BY DEF Folders, SafeMaps
  <2>3. heap'[byName'[n]].origin = heap[byName'[n]].origin
    BY <1>3, <2>1
  <2> QED
    BY <2>2, <2>3 DEF Folder
<1>6. \A i \in Ids : byID'[i] # None => Folder(byID[i])' = FolderOf[i]
  <2> TAKE i \in Ids
  <2> HAVE byID'[i] # None
  <2>1. byID'[i] \in Live'
    BY DEF Live
  <2>2. Folder(byID'[i]) = FolderOf[i]
    BY DEF Folders, SafeMaps
  <2>3. heap'[byID'[i]].origin = heap[byID'[i]].origin
    BY <1>3, <2>1
  <2> QED
    BY <2>2, <2>3 DEF Folder
<1>7. \A u \in Threads : loc'[u].pc \in DelPCs => Folder(loc[u].obj)' = FolderOf[loc'[u].id]
  <2> TAKE u \in Threads
  <2> HAVE loc'[u].pc \in DelPCs
  <2>1. loc'[u].obj \in Live'
    BY DEF Inv, LocalsOK, HoldsObj, Live, DelPCs
  <2>2. loc'[u] = IF u = t THEN l ELSE loc[u]
    BY DEF Goto, Inv, TypeOK
  <2>3. Folder(loc'[u].obj) = FolderOf[loc'[u].id]
    BY <2>2 DEF Folders, Safe
  <2>4. heap'[loc'[u].obj].origin = heap[loc'[u].obj].origin
    BY <1>3, <2>1
  <2> QED
    BY <2>3, <2>4 DEF Folder
<1>8. \A u \in Threads : loc'[u].pc = "setMerge" => Folder(loc[u].old)' = Folder(loc[u].obj)'
  <2> TAKE u \in Threads
  <2> HAVE loc'[u].pc = "setMerge"
  <2>1. loc'[u].obj \in Live' /\ loc'[u].old \in Live'
    BY DEF Inv, LocalsOK, HoldsObj, Live
  <2>2. loc'[u] = IF u = t THEN l ELSE loc[u]
    BY DEF Goto, Inv, TypeOK
  <2>3. Folder(loc'[u].old) = Folder(loc'[u].obj)
    BY <2>2 DEF Folders, Safe
  <2>4. /\ heap'[loc'[u].old].origin = heap[loc'[u].old].origin
        /\ heap'[loc'[u].obj].origin = heap[loc'[u].obj].origin
    BY <1>3, <2>1
  <2> QED
    BY <2>3, <2>4 DEF Folder
<1> QED
  BY <1>4, <1>5, <1>6, <1>7, <1>8 DEF Folders

\* A step of goroutine t that touches neither heap nor maps.
LEMMA FoldersGoto ==
  ASSUME Inv, Folders, NEW t \in Threads, NEW l, Goto(t, l), Safe(l),
         heap' = heap, UNCHANGED cacheVars
  PROVE  Folders'
<1>1. Live' \subseteq Live
  BY FoldersLiveStays, FoldersSameMaps DEF Inv
<1>2. byName' = byName /\ byID' = byID
  BY DEF cacheVars
<1>3. \A u \in Threads : loc'[u] = IF u = t THEN l ELSE loc[u]
  BY DEF Goto, Inv, TypeOK
<1> QED
  BY <1>1, <1>2, <1>3 DEF Folders, Folder, Pure, Safe

\* A step that touches no goroutine either.
LEMMA FoldersSame ==
  ASSUME Folders, UNCHANGED <<heap, cacheVars, loc>> PROVE Folders'
<1>1. heap' = heap /\ byID' = byID /\ byName' = byName /\ loc' = loc
  BY DEF cacheVars
<1>2. Live' = Live
  BY <1>1 DEF Live
<1> QED
  BY <1>1, <1>2 DEF Folders, Folder, Pure

-----------------------------------------------------------------------------
(* setTorrent                                                              *)

LEMMA FoldersEnterSet ==
  ASSUME Inv, Inv', Folders, NEW t \in Threads, NEW i \in Ids, NEW by, NEW next,
         EnterSet(t, i, by, next), UNCHANGED cacheVars
  PROVE  Folders'
<1>1. PICK o \in Objects \ Live :
        /\ Goto(t, [Idle EXCEPT !.pc = "setLookup", !.id = i, !.obj = o,
                                !.by = by, !.next = next])
        /\ HeapBecomes([heap EXCEPT ![o] = Fetched(i)])
  BY Zenon DEF EnterSet
<1> DEFINE l == [Idle EXCEPT !.pc = "setLookup", !.id = i, !.obj = o, !.by = by, !.next = next]
<1>2. l.pc = "setLookup" /\ l.obj = o /\ l.old = None
  BY DEF Idle
<1>3. Goto(t, l)
  BY <1>1
<1> HIDE DEF l
<1>4. \A u \in Threads : loc'[u] = IF u = t THEN l ELSE loc[u]
  BY <1>3 DEF Goto, Inv, TypeOK
<1>5. Live' \subseteq Live \cup {o}
  BY <1>2, <1>3, LiveGoto DEF Inv
<1>6. \A x \in Live' : heap'[x] = IF x = o THEN Fetched(i) ELSE heap[x]
  BY <1>1, <1>5, LiveObjects DEF HeapBecomes, Inv, TypeOK
<1>7. \A x \in Live' : Pure(heap[x])'
  <2>1. \A x \in Live' : Pure(heap'[x])
    BY <1>5, <1>6, FetchedPure DEF Folders
  <2> QED
    BY <2>1 DEF Pure
<1>8. \A n \in Names : byName'[n] # None => Folder(byName[n])' = n
  BY <1>6, LiveMembers DEF Folders, Folder, Live, cacheVars
<1>9. \A j \in Ids : byID'[j] # None => Folder(byID[j])' = FolderOf[j]
  BY <1>6, LiveMembers DEF Folders, Folder, Live, cacheVars
<1>10. \A u \in Threads : loc'[u].pc \in DelPCs => Folder(loc[u].obj)' = FolderOf[loc'[u].id]
  <2> TAKE u \in Threads
  <2> HAVE loc'[u].pc \in DelPCs
  <2>1. loc'[u] = loc[u]
    BY <1>2, <1>4 DEF DelPCs
  <2>2. loc[u].obj \in Live /\ loc[u].obj \in Live'
    BY <2>1 DEF Inv, LocalsOK, HoldsObj, Live, DelPCs
  <2> QED
    BY <1>6, <2>1, <2>2 DEF Folders, Folder
<1>11. \A u \in Threads : loc'[u].pc = "setMerge" => Folder(loc[u].old)' = Folder(loc[u].obj)'
  <2> TAKE u \in Threads
  <2> HAVE loc'[u].pc = "setMerge"
  <2>1. loc'[u] = loc[u]
    BY <1>2, <1>4
  <2>2. loc[u].obj \in Live /\ loc[u].old \in Live /\ loc[u].obj \in Live' /\ loc[u].old \in Live'
    BY <2>1 DEF Inv, LocalsOK, HoldsObj, Live
  <2> QED
    BY <1>6, <2>1, <2>2 DEF Folders, Folder
<1> QED
  BY <1>7, <1>8, <1>9, <1>10, <1>11 DEF Folders

\* The entry that is looked up is one of the torrent's folder.
LEMMA FoldersLookup ==
  ASSUME Inv, Inv', Folders, ~FolderById, NEW t \in Threads, SetLookup(t) PROVE Folders'
<1> DEFINE o == byName[GetTorrentFolder(heap[loc[t].obj])]
           merge == [loc[t] EXCEPT !.pc = "setMerge", !.old = o]
           store == [loc[t] EXCEPT !.pc = "setStore"]
<1>1. /\ loc[t] \in Local /\ loc[t].obj # None /\ loc[t].obj \in Live
      /\ {loc[t].obj, loc[t].old} \ {None} \subseteq Live
      /\ heap[loc[t].obj] \in Torrent
  BY LiveMembers DEF SetLookup, Inv, TypeOK, LocalsOK, LiveOK, HoldsObj
<1>2. HeapBecomes(heap) /\ SafeMaps /\ SafeHeap(heap)
  BY FoldersSameMaps, SameHeap DEF SetLookup
<1>3. GetTorrentFolder(heap[loc[t].obj]) = Folder(loc[t].obj) /\ Folder(loc[t].obj) \in Names
  BY <1>1, ConstantsAssumption DEF GetTorrentFolder, Folder, Torrent
<1>4. CASE Goto(t, merge) /\ o # None
  <2>1. o \in Live /\ Folder(o) = Folder(loc[t].obj)
    BY <1>3, <1>4, LiveMembers DEF Folders
  <2>2. merge.pc = "setMerge" /\ merge.obj = loc[t].obj /\ merge.old = o
    BY <1>1 DEF Local
  <2> HIDE DEF merge, o
  <2>3. Safe(merge)
    BY <1>1, <2>1, <2>2 DEF Safe, DelPCs
  <2> QED
    BY <1>2, <1>4, <2>3, FoldersStep
<1>5. CASE Goto(t, store)
  <2>1. store.obj = loc[t].obj /\ store.old = loc[t].old /\ store.pc = "setStore"
    BY <1>1 DEF Local
  <2> HIDE DEF store
  <2>2. Safe(store)
    BY <1>1, <2>1 DEF Safe, DelPCs
  <2> QED
    BY <1>2, <1>5, <2>2, FoldersStep
<1> QED
  BY <1>4, <1>5 DEF SetLookup

\* Both torrents are pure and of one folder, so is what is merged.
LEMMA FoldersMerge ==
  ASSUME Inv, Inv', Folders, NEW t \in Threads, SetMerge(t) PROVE Folders'
<1> DEFINE l == [loc[t] EXCEPT !.pc = "setStore", !.old = None]
           obj == loc[t].obj
           merged == mergeFiles(heap[loc[t].old], heap[obj])
           h == [heap EXCEPT ![obj].files = merged]
<1>1. /\ loc[t] \in Local /\ obj # None /\ obj \in Live /\ loc[t].old \in Live
      /\ heap[obj] \in Torrent /\ heap[loc[t].old] \in Torrent
      /\ Folder(loc[t].old) = Folder(obj)
  BY LiveMembers DEF SetMerge, Inv, TypeOK, LocalsOK, LiveOK, HoldsObj, Folders
<1>2. l.pc = "setStore" /\ l.obj = obj /\ l.old = None
  BY <1>1 DEF Local
<1>3. Goto(t, l) /\ HeapBecomes(h) /\ SafeMaps
  BY FoldersSameMaps DEF SetMerge
<1>4. \A f \in FileNames : merged[f] # None =>
          FolderOf[merged[f]] = FolderOf[heap[obj].origin] /\ f \in FilesOf[merged[f]]
  BY <1>1, MergePure DEF Folders, Folder
<1>5. \A o \in Live : Pure(h[o]) /\ h[o].origin = heap[o].origin
  <2> HIDE DEF merged
  <2> TAKE o \in Live
  <2>1. CASE o = obj
    <3>1. h[o].files = merged /\ h[o].origin = heap[obj].origin /\ h[o].id = heap[obj].id
      BY <1>1, <2>1, LiveObjects DEF Inv, TypeOK, Torrent
    <3> QED
      BY <1>1, <1>4, <2>1, <3>1 DEF Folders, Pure
  <2>2. CASE o # obj
    <3>1. h[o] = heap[o]
      BY <2>2, LiveObjects DEF Inv, TypeOK
    <3> QED
      BY <3>1 DEF Folders
  <2> QED
    BY <2>1, <2>2
<1> HIDE DEF l, h, obj
<1>6. Safe(l) /\ SafeHeap(h)
  BY <1>1, <1>2, <1>5 DEF Safe, SafeHeap, DelPCs
<1> QED
  BY <1>3, <1>6, FoldersStep

\* The struct is stored under its own folder.
LEMMA FoldersStore ==
  ASSUME Inv, Inv', Folders, ~FolderById, NEW t \in Threads, SetStore(t) PROVE Folders'
<1> DEFINE l == [loc[t] EXCEPT !.pc = "save"]
           obj == loc[t].obj
<1>1. /\ loc[t] \in Local /\ obj # None /\ obj \in Live /\ heap[obj] \in Torrent
      /\ {obj, loc[t].old} \ {None} \subseteq Live
  BY LiveMembers DEF SetStore, Inv, TypeOK, LocalsOK, LiveOK, HoldsObj
<1>2. l.pc = "save" /\ l.obj = obj /\ l.old = loc[t].old
  BY <1>1 DEF Local
<1>3. /\ Goto(t, l) /\ HeapBecomes(heap)
      /\ byID' = [byID EXCEPT ![heap[obj].id] = obj]
      /\ byName' = [byName EXCEPT ![Folder(obj)] = obj]
  BY DEF SetStore, GetTorrentFolder, Folder
<1> HIDE DEF l, obj
<1>4. byID \in [Ids -> Objects \cup {None}] /\ byName \in [Names -> Objects \cup {None}]
  BY DEF Inv, TypeOK
<1>5. Safe(l)
  BY <1>1, <1>2 DEF Safe, DelPCs
<1>6. SafeMaps
  <2>1. Folder(obj) = FolderOf[heap[obj].id]
    BY <1>1 DEF Folders, Folder, Pure
  <2> QED
    BY <1>1, <1>3, <1>4, <2>1 DEF SafeMaps
<1> QED
  BY <1>3, <1>5, <1>6, SameHeap, FoldersStep

\* Saving, and going on to the next operation, keeps structs in hand or drops them.
LEMMA FoldersGoOn ==
  ASSUME Inv, Inv', Folders, NEW t \in Threads, Save(t) \/ GenerateDownloadLinks(t) \/ DelDB(t)
  PROVE  Folders'
<1>1. loc[t] \in Local /\ {loc[t].obj, loc[t].old} \ {None} \subseteq Live
  BY LiveMembers DEF Inv, TypeOK
<1>2. PICK l : /\ Goto(t, l)
               /\ l.obj \in {loc[t].obj, None} /\ l.old \in {loc[t].old, None}
               /\ l.pc # "setMerge" /\ l.pc \notin DelPCs
  <2>1. Idle.obj = None /\ Idle.old = None /\ Idle.pc = "idle"
    BY DEF Idle
  <2>2. CASE Save(t)
    <3> DEFINE gen == [loc[t] EXCEPT !.pc = "generate", !.next = "idle"]
               db == [loc[t] EXCEPT !.pc = "delDB", !.obj = None]
    <3>1. Goto(t, Idle) \/ Goto(t, gen) \/ Goto(t, db)
      BY <1>1, <2>2 DEF Save, Local
    <3>2. /\ gen.pc = "generate" /\ gen.obj = loc[t].obj /\ gen.old = loc[t].old
          /\ db.pc = "delDB" /\ db.obj = None /\ db.old = loc[t].old
      BY <1>1 DEF Local
    <3> HIDE DEF gen, db
    <3> QED
      BY <2>1, <3>1, <3>2 DEF DelPCs
  <2>3. CASE GenerateDownloadLinks(t)
    BY <1>1, <2>1, <2>3 DEF GenerateDownloadLinks, Local, DelPCs
  <2>4. CASE DelDB(t)
    BY <2>1, <2>4 DEF DelDB, DelPCs
  <2> QED
    BY <2>2, <2>3, <2>4
<1>3. HeapBecomes(heap) /\ SafeMaps /\ SafeHeap(heap)
  BY FoldersSameMaps, SameHeap DEF Save, GenerateDownloadLinks, DelDB
<1>4. Safe(l)
  BY <1>1, <1>2 DEF Safe
<1> QED
  BY <1>2, <1>3, <1>4, FoldersStep

-----------------------------------------------------------------------------
(* deleteTorrent                                                           *)

LEMMA FoldersDelGet ==
  ASSUME Inv, Inv', Folders, NEW t \in Threads, DelGet(t) PROVE Folders'
<1> DEFINE l == [loc[t] EXCEPT !.pc = "delRemove", !.obj = byID[loc[t].id]]
<1>1. /\ loc[t] \in Local /\ loc[t].id \in Ids
      /\ {loc[t].obj, loc[t].old} \ {None} \subseteq Live
  BY LiveMembers DEF DelGet, Inv, TypeOK, LocalsOK, Local
<1>2. HeapBecomes(heap) /\ SafeMaps /\ SafeHeap(heap)
  BY FoldersSameMaps, SameHeap DEF DelGet
<1>3. CASE Goto(t, Idle)
  <2>1. Idle.obj = None /\ Idle.old = None /\ Idle.pc = "idle"
    BY DEF Idle
  <2>2. Safe(Idle)
    BY <2>1 DEF Safe, DelPCs
  <2> QED
    BY <1>2, <1>3, <2>2, FoldersStep
<1>4. CASE byID[loc[t].id] # None /\ Goto(t, l)
  <2>1. /\ l.pc = "delRemove" /\ l.id = loc[t].id /\ l.obj = byID[loc[t].id]
        /\ l.old = loc[t].old
    BY <1>1 DEF Local
  <2>2. byID[loc[t].id] \in Live /\ Folder(byID[loc[t].id]) = FolderOf[loc[t].id]
    BY <1>1, <1>4, LiveMembers DEF Folders
  <2>3. Goto(t, l)
    BY <1>4
  <2> HIDE DEF l
  <2>4. Safe(l)
    BY <1>1, <2>1, <2>2 DEF Safe
  <2> QED
    BY <1>2, <2>3, <2>4, FoldersStep
<1> QED
  BY <1>3, <1>4 DEF DelGet

LEMMA FoldersDelMaps ==
  ASSUME Inv, Inv', Folders, NEW t \in Threads, DelRemove(t) \/ DelEntry(t) PROVE Folders'
<1> DEFINE name == [loc[t] EXCEPT !.pc = "delName"]
           db == [loc[t] EXCEPT !.pc = "delDB", !.obj = None]
<1>1. /\ loc[t] \in Local /\ {loc[t].obj, loc[t].old} \ {None} \subseteq Live
      /\ loc[t].obj \in Live /\ Folder(loc[t].obj) = FolderOf[loc[t].id]
  <2>1. loc[t].pc \in DelPCs /\ loc[t].obj # None
    BY DEF DelRemove, DelEntry, DelPCs, Inv, LocalsOK, HoldsObj
  <2> QED
    BY <2>1, LiveMembers DEF Inv, TypeOK, Folders
<1>2. /\ name.pc = "delName" /\ name.id = loc[t].id
      /\ name.obj = loc[t].obj /\ name.old = loc[t].old
      /\ db.pc = "delDB" /\ db.obj = None /\ db.old = loc[t].old
  BY <1>1 DEF Local
<1>3. SafeMaps /\ HeapBecomes(heap)
  <2>1. byID \in [Ids -> Objects \cup {None}] /\ byName \in [Names -> Objects \cup {None}]
    BY DEF Inv, TypeOK
  <2>2. CASE DelRemove(t)
    BY <2>1, <2>2 DEF DelRemove, SafeMaps
  <2>3. CASE DelEntry(t)
    BY <2>1, <2>3 DEF DelEntry, SafeMaps
  <2> QED
    BY <2>2, <2>3
<1>4. Goto(t, name) \/ Goto(t, db)
  BY DEF DelRemove, DelEntry
<1> HIDE DEF name, db
<1>5. Safe(name) /\ Safe(db)
  BY <1>1, <1>2 DEF Safe, DelPCs
<1> QED
  BY <1>3, <1>4, <1>5, SameHeap, FoldersStep

\* Files are only taken away; the new id leaves the origin, and with it the
\* folder, as it was.
LEMMA FoldersDelName ==
  ASSUME Inv, Inv', Folders, NEW t \in Threads, DelName(t) PROVE Folders'
<1> DEFINE o == byName[NameOf[heap[loc[t].obj].origin]]
           rest == Remaining(heap[o].files, loc[t].id)
           db == [loc[t] EXCEPT !.pc = "delDB", !.obj = None]
           entry == [loc[t] EXCEPT !.pc = "delEntry"]
           set == [loc[t] EXCEPT !.pc = "setLookup", !.obj = o, !.next = "delDB"]
<1>1. /\ loc[t] \in Local /\ loc[t].obj # None /\ heap[loc[t].obj] \in Torrent
      /\ {loc[t].obj, loc[t].old} \ {None} \subseteq Live
      /\ loc[t].obj \in Live /\ Folder(loc[t].obj) = FolderOf[loc[t].id]
  <2>1. loc[t] \in Local /\ loc[t].obj # None /\ loc[t].pc \in DelPCs
    BY Zenon DEF DelName, Inv, TypeOK, LocalsOK, HoldsObj, DelPCs
  <2> QED
    BY <2>1, LiveMembers DEF Inv, LiveOK, Folders
<1>2. SafeMaps /\ SafeHeap(heap)
  BY Zenon, FoldersSameMaps, SameHeap DEF DelName
<1>3. CASE Goto(t, db) /\ HeapBecomes(heap)
  <2>1. db.pc = "delDB" /\ db.obj = None /\ db.old = loc[t].old
    BY <1>1 DEF Local
  <2> HIDE DEF db
  <2>2. Safe(db)
    BY <1>1, <2>1 DEF Safe, DelPCs
  <2> QED
    BY <1>2, <1>3, <2>2, FoldersStep
<1>4. CASE Goto(t, entry) /\ HeapBecomes(heap)
  <2>1. /\ entry.pc = "delEntry" /\ entry.id = loc[t].id
        /\ entry.obj = loc[t].obj /\ entry.old = loc[t].old
    BY <1>1 DEF Local
  <2> HIDE DEF entry
  <2>2. Safe(entry)
    BY <1>1, <2>1 DEF Safe, DelPCs
  <2> QED
    BY <1>2, <1>4, <2>2, FoldersStep
<1>5. ASSUME o # None, Goto(t, set), NEW newId \in Owners(rest),
             HeapBecomes([heap EXCEPT ![o].files = rest, ![o].id = newId])
      PROVE  Folders'
  <2> DEFINE h == [heap EXCEPT ![o].files = rest, ![o].id = newId]
  <2>1. o \in Live /\ heap[o] \in Torrent
    <3>1. NameOf[heap[loc[t].obj].origin] \in Names
      BY <1>1, ConstantsAssumption DEF Torrent
    <3> QED
      BY Zenon, <3>1, <1>5, LiveMembers DEF Inv, LiveOK
  <2>2. \A f \in FileNames : rest[f] # None =>
            FolderOf[rest[f]] = FolderOf[heap[o].origin] /\ f \in FilesOf[rest[f]]
    <3> HIDE DEF o
    <3> QED
      BY <2>1, RemainingPure DEF Folders
  <2>3. \A x \in Live : Pure(h[x]) /\ h[x].origin = heap[x].origin
    <3> HIDE DEF rest, o
    <3> TAKE x \in Live
    <3>1. CASE x = o
      <4>1. h[x].files = rest /\ h[x].origin = heap[o].origin /\ h[x].id = newId
        BY <2>1, <3>1, LiveObjects DEF Inv, TypeOK, Torrent
      <4>2. FolderOf[newId] = FolderOf[heap[o].origin]
        BY <1>5, <2>2 DEF Owners
      <4> QED
        BY Zenon, <2>2, <3>1, <4>1, <4>2 DEF Pure
    <3>2. CASE x # o
      <4>1. h[x] = heap[x]
        BY <3>2, LiveObjects DEF Inv, TypeOK
      <4> QED
        BY <1>2, <4>1 DEF SafeHeap
    <3> QED
      BY <3>1, <3>2
  <2>4. set.pc = "setLookup" /\ set.obj = o /\ set.old = loc[t].old
    <3> HIDE DEF o
    <3> QED
      BY <1>1 DEF Local
  <2>5. Goto(t, set) /\ HeapBecomes(h)
    BY Zenon, <1>5
  <2> HIDE DEF set, h, o
  <2>6. Safe(set) /\ SafeHeap(h)
    BY <1>1, <2>1, <2>3, <2>4 DEF Safe, SafeHeap, DelPCs
  <2> QED
    BY <1>2, <2>5, <2>6, FoldersStep
<1> QED
  BY Zenon, <1>3, <1>4, <1>5 DEF DelName, NewIds

-----------------------------------------------------------------------------
LEMMA FoldersBegin ==
  ASSUME Inv, Folders, NEW t \in Threads, NEW i, NEW pc \in {"lock", "delGet"}, NEW by,
         Goto(t, [Idle EXCEPT !.pc = pc, !.id = i, !.by = by]),
         heap' = heap, UNCHANGED cacheVars
  PROVE  Folders'
<1> DEFINE l == [Idle EXCEPT !.pc = pc, !.id = i, !.by = by]
<1>1. l.pc = pc /\ l.obj = None /\ l.old = None
  BY DEF Idle
<1>2. Goto(t, l)
  OBVIOUS
<1> HIDE DEF l
<1> QED
  BY <1>1, <1>2, FoldersGoto DEF Safe, DelPCs

LEMMA FoldersCall ==
  ASSUME Inv, Inv', Folders, NEW t \in Threads, NEW i \in Ids, Call(t, i) PROVE Folders'
<1>1. CASE RefreshTorrent(t, i) \/ AddTorrent(t, i)
  BY <1>1, FoldersEnterSet DEF RefreshTorrent, AddTorrent
<1>2. CASE DeleteTorrent(t, i) \/ DeleteTorrents(t, i)
  BY Zenon, <1>2, FoldersBegin DEF DeleteTorrent, DeleteTorrents
<1> QED
  BY <1>1, <1>2 DEF Call

LEMMA FoldersContinue ==
  ASSUME Inv, Inv', Folders, ~FolderById, NEW t \in Threads, Continue(t) PROVE Folders'
<1>1. CASE Lock(t)
  <2> DEFINE l == [loc[t] EXCEPT !.pc = "delGet"]
  <2>1. loc[t] \in Local
    BY DEF Inv, TypeOK
  <2>2. l.pc = "delGet" /\ l.obj = loc[t].obj /\ l.old = loc[t].old
    BY <2>1 DEF Local
  <2>3. Goto(t, l) /\ heap' = heap /\ UNCHANGED cacheVars
    BY <1>1 DEF Lock
  <2> HIDE DEF l
  <2>4. Safe(l)
    BY <2>2, LiveMembers DEF Safe, DelPCs
  <2> QED
    BY <2>3, <2>4, FoldersGoto
<1> QED
  BY <1>1, FoldersLookup, FoldersMerge, FoldersStore, FoldersGoOn, FoldersDelGet,
     FoldersDelMaps, FoldersDelName DEF Continue

LEMMA FoldersBackground ==
  ASSUME Inv, Inv', Folders, Background PROVE Folders'
<1>1. CASE RefreshList \/ RefreshCompare \/ RefreshDone \/ \E s \in Slots : SaveLands(s)
  BY <1>1, FoldersSame DEF RefreshList, RefreshCompare, RefreshDone, SaveLands
<1>2. CASE \E i \in Ids : ProcessSkip(i) \/ ValidateKeeps(i)
  BY <1>2, FoldersSame DEF ProcessSkip, ValidateKeeps
<1>3. ASSUME NEW t \in Threads, NEW i \in Ids, ProcessTorrent(t, i) PROVE Folders'
  BY <1>3, FoldersEnterSet DEF ProcessTorrent
<1>4. ASSUME NEW t \in Threads, NEW i \in Ids, ValidateDeletes(t, i) PROVE Folders'
  BY Zenon, <1>4, FoldersBegin DEF ValidateDeletes
<1> QED
  BY <1>1, <1>2, <1>3, <1>4 DEF Background

LEMMA FoldersNext ==
  ASSUME Inv, Inv', Folders, ~FolderById, [Next]_vars PROVE Folders'
<1>1. CASE Account \/ CallersStop \/ UNCHANGED vars
  BY <1>1, FoldersSame DEF Account, DebridAdd, DebridRemove, CallersStop, vars
<1> QED
  BY <1>1, FoldersCall, FoldersContinue, FoldersBackground DEF Next

\* For any number of torrents, folders and goroutines: what a folder serves
\* belongs there.
THEOREM FolderCoherence == ~FolderById => (Spec => []FolderCoherent)
<1> SUFFICES ASSUME ~FolderById PROVE Spec => []FolderCoherent
  OBVIOUS
<1>1. Inv /\ Folders => FolderCoherent
  BY LiveMembers DEF Folders, Folder, Pure, FolderCoherent
<1>2. Inv /\ Inv' /\ Folders /\ [Next]_vars => Folders'
  BY FoldersNext
<1> QED
  BY <1>1, <1>2, FoldersInit, InvHolds, PTL DEF Spec

-----------------------------------------------------------------------------
(***************************************************************************)
(* Where calls to the service do not fail, only callers delete torrents    *)
(* the account has: the refresh validates what its listing misses, and an  *)
(* id the account lost does not come back.                                 *)
(***************************************************************************)

\* Ids the account has, or had.
Known == {i \in Ids : debrid[i] # "absent"}

\* The ids a struct carries.
Mentions(torrent) == {torrent.id} \cup Owners(torrent.files)

\* Nothing the cache or the refresh works on is an id the account never had, so a
\* failed validation means that the id is gone for good.
SeenStructs == \A o \in Live : Mentions(heap[o]) \subseteq Known
SeenIds == CachedIds \cup validating \cup newTorrents \cup refresh.list \subseteq Known

\* Who is about to remove an id, and why.
Reason(l) ==
    l.pc \in {"delGet", "delRemove"} =>
        \/ l.by = "caller"
        \/ l.by = "validate" /\ debrid[l.id] = "gone"
Reasons == \A t \in Threads : Reason(loc[t]) /\ (loc[t].pc = "lock" => loc[t].by = "caller")

Seen == SeenStructs /\ SeenIds /\ Reasons

-----------------------------------------------------------------------------
LEMMA SeenInit == Init => Seen
BY ConstantsAssumption
   DEF Init, Seen, SeenStructs, SeenIds, Reasons, Reason, Live, Idle, CachedIds, Known

\* The account never forgets an id, and an id that is gone stays so.
LEMMA AccountGrows ==
  ASSUME Inv, [Next]_vars
  PROVE  Known \subseteq Known' /\ \A i \in Ids : debrid[i] = "gone" => debrid'[i] = "gone"
<1> USE DEF Known
<1>1. ASSUME NEW i \in Ids, DebridAdd(i) \/ DebridRemove(i)
      PROVE  Known \subseteq Known' /\ \A j \in Ids : debrid[j] = "gone" => debrid'[j] = "gone"
  BY <1>1 DEF DebridAdd, DebridRemove, Inv, TypeOK
<1>2. ASSUME NEW t \in Threads, DelDB(t)
      PROVE  Known \subseteq Known' /\ \A j \in Ids : debrid[j] = "gone" => debrid'[j] = "gone"
  BY <1>2 DEF DelDB, Inv, TypeOK
<1>3. \/ Account \/ \E t \in Threads : DelDB(t)
      \/ UNCHANGED debrid
  BY Zenon DEF Next, Call, Continue, Background, CallersStop, RefreshTorrent, AddTorrent,
         DeleteTorrent, DeleteTorrents, SetLookup, SetMerge, SetStore, Save,
         GenerateDownloadLinks, Lock, DelGet, DelRemove, DelName, DelEntry, RefreshList,
         RefreshCompare, RefreshDone, ProcessSkip, ValidateKeeps, ProcessTorrent,
         ValidateDeletes, SaveLands, vars
<1> QED
  BY <1>1, <1>2, <1>3 DEF Account

\* What the operators on files mention.
LEMMA MergeMentions ==
  ASSUME NEW x \in Torrent, NEW y \in Torrent
  PROVE  Owners(mergeFiles(x, y)) \subseteq Owners(x.files) \cup Owners(y.files)
BY DEF mergeFiles, Overlay, Owners, Torrent, FileMap

LEMMA RemainingMentions ==
  ASSUME NEW x \in FileMap, NEW i PROVE Owners(Remaining(x, i)) \subseteq Owners(x)
BY DEF Remaining, Owners, FileMap

-----------------------------------------------------------------------------
(* How SeenStructs survives a step                                         *)

RefsLive(l) == {l.obj, l.old} \ {None} \subseteq Live

MapsLive ==
    /\ \A i \in Ids : byID'[i] = byID[i] \/ byID'[i] \in Live \cup {None}
    /\ \A n \in Names : byName'[n] = byName[n] \/ byName'[n] \in Live \cup {None}

SeenHeap(h) == \A o \in Live : Mentions(h[o]) \subseteq Known

LEMMA SeenSameMaps == UNCHANGED cacheVars => MapsLive
<1> SUFFICES ASSUME UNCHANGED cacheVars PROVE MapsLive
  OBVIOUS
<1>1. byID' = byID /\ byName' = byName
  BY DEF cacheVars
<1> QED
  BY <1>1 DEF MapsLive

LEMMA SeenLiveStays ==
  ASSUME TypeOK, NEW t \in Threads, NEW l, Goto(t, l), RefsLive(l), MapsLive
  PROVE  Live' \subseteq Live
<1>1. \A u \in Threads : loc'[u] = IF u = t THEN l ELSE loc[u]
  BY DEF Goto, TypeOK
<1> QED
  BY <1>1 DEF Live, RefsLive, MapsLive

\* A step of t that leaves the heap the live part of h.
LEMMA StructsStep ==
  ASSUME Inv, [Next]_vars, NEW t \in Threads, NEW l, Goto(t, l), RefsLive(l), MapsLive,
         NEW h, HeapBecomes(h), SeenHeap(h)
  PROVE  SeenStructs'
<1>1. Live' \subseteq Live
  BY SeenLiveStays DEF Inv
<1>2. \A o \in Live' : heap'[o] = h[o]
  BY LiveObjects, <1>1 DEF HeapBecomes, Inv
<1>3. \A o \in Live' : Mentions(heap'[o]) \subseteq Known'
  BY <1>1, <1>2, AccountGrows DEF SeenHeap
<1> QED
  BY <1>3 DEF SeenStructs, Mentions, Owners

\* A step that leaves heap and maps alone, and brings nothing new to life.
LEMMA StructsSame ==
  ASSUME Inv, [Next]_vars, SeenStructs, heap' = heap, Live' \subseteq Live
  PROVE  SeenStructs'
<1>1. \A o \in Live' : Mentions(heap'[o]) \subseteq Known'
  BY AccountGrows DEF SeenStructs
<1> QED
  BY <1>1 DEF SeenStructs, Mentions, Owners

-----------------------------------------------------------------------------
(* How SeenIds and Reasons survive a step                                  *)

IdsShrink ==
    /\ CachedIds' \subseteq CachedIds
    /\ validating' \subseteq validating
    /\ newTorrents' \subseteq newTorrents
    /\ refresh'.list \subseteq refresh.list

LEMMA IdsStay == UNCHANGED <<byID, validating, newTorrents, refresh>> => IdsShrink
BY DEF IdsShrink, CachedIds

LEMMA IdsStep == ASSUME Inv, [Next]_vars, SeenIds, IdsShrink PROVE SeenIds'
<1>1. Known \subseteq Known'
  BY AccountGrows
<1> QED
  BY <1>1 DEF SeenIds, IdsShrink

\* Goroutine t goes on with locals l.
LEMMA ReasonsStep ==
  ASSUME Inv, [Next]_vars, Reasons, NEW t \in Threads, NEW l, Goto(t, l),
         l.pc = "lock" => l.by = "caller",
         l.pc \in {"delGet", "delRemove"} =>
             \/ l.by = "caller"
             \/ l.by = "validate" /\ l.id \in Ids /\ debrid[l.id] = "gone"
  PROVE  Reasons'
<1>1. \A u \in Threads : loc'[u] = IF u = t THEN l ELSE loc[u]
  BY DEF Goto, Inv, TypeOK
<1>2. \A u \in Threads : loc[u].pc \in {"delGet", "delRemove"} => loc[u].id \in Ids
  BY DEF Inv, TypeOK, LocalsOK, Local
<1>3. \A i \in Ids : debrid[i] = "gone" => debrid'[i] = "gone"
  BY AccountGrows
<1>4. ASSUME NEW u \in Threads
      PROVE  Reason(loc[u])' /\ (loc'[u].pc = "lock" => loc'[u].by = "caller")
  <2>1. CASE u = t
    BY <1>1, <1>3, <2>1 DEF Reason
  <2>2. CASE u # t
    BY <1>1, <1>2, <1>3, <2>2 DEF Reasons, Reason
  <2> QED
    BY <2>1, <2>2
<1> QED
  BY <1>4 DEF Reasons

LEMMA ReasonsSame == ASSUME Inv, [Next]_vars, Reasons, loc' = loc PROVE Reasons'
<1>1. \A u \in Threads : loc[u].pc \in {"delGet", "delRemove"} => loc[u].id \in Ids
  BY DEF Inv, TypeOK, LocalsOK, Local
<1>2. \A i \in Ids : debrid[i] = "gone" => debrid'[i] = "gone"
  BY AccountGrows
<1> QED
  BY <1>1, <1>2 DEF Reasons, Reason

\* Control points at which no removal is ahead.
Quiet(l) == l.pc \notin {"lock", "delGet", "delRemove"}

\* The step of an operation that removes no id and adds none.
LEMMA SeenStep ==
  ASSUME Inv, [Next]_vars, Seen, NEW t \in Threads, NEW l, Goto(t, l),
         RefsLive(l), MapsLive, Quiet(l), IdsShrink,
         NEW h, HeapBecomes(h), SeenHeap(h)
  PROVE  Seen'
<1>1. SeenStructs'
  BY StructsStep
<1>2. SeenIds'
  BY IdsStep DEF Seen
<1>3. Reasons'
  BY ReasonsStep DEF Quiet, Seen
<1> QED
  BY <1>1, <1>2, <1>3 DEF Seen

\* A step that touches neither goroutines nor the cache.
LEMMA SeenOther ==
  ASSUME Inv, [Next]_vars, Seen, UNCHANGED <<heap, cacheVars, loc>>, SeenIds'
  PROVE  Seen'
<1>1. Live' \subseteq Live
  BY DEF Live, cacheVars
<1>2. SeenStructs'
  BY <1>1, StructsSame DEF Seen
<1>3. Reasons'
  BY ReasonsSame DEF Seen
<1> QED
  BY <1>2, <1>3 DEF Seen

-----------------------------------------------------------------------------
(* setTorrent                                                              *)

LEMMA SeenEnterSet ==
  ASSUME Inv, [Next]_vars, Seen, NEW t \in Threads, NEW i \in Known, NEW by, NEW next,
         EnterSet(t, i, by, next), UNCHANGED cacheVars, IdsShrink
  PROVE  Seen'
<1>1. PICK o \in Objects \ Live :
        /\ Goto(t, [Idle EXCEPT !.pc = "setLookup", !.id = i, !.obj = o,
                                !.by = by, !.next = next])
        /\ HeapBecomes([heap EXCEPT ![o] = Fetched(i)])
  BY Zenon DEF EnterSet
<1> DEFINE l == [Idle EXCEPT !.pc = "setLookup", !.id = i, !.obj = o, !.by = by, !.next = next]
<1>2. l.pc = "setLookup" /\ l.obj = o /\ l.old = None
  BY DEF Idle
<1>3. Goto(t, l)
  BY <1>1
<1> HIDE DEF l
<1>4. Live' \subseteq Live \cup {o}
  BY <1>2, <1>3, LiveGoto DEF Inv
<1>5. \A x \in Live' : heap'[x] = IF x = o THEN Fetched(i) ELSE heap[x]
  BY <1>1, <1>4, LiveObjects DEF HeapBecomes, Inv, TypeOK
<1>6. Mentions(Fetched(i)) \subseteq Known
  BY ConstantsAssumption DEF Mentions, Fetched, Owners
<1>7. \A x \in Live' : Mentions(heap'[x]) \subseteq Known'
  BY <1>4, <1>5, <1>6, AccountGrows DEF Seen, SeenStructs
<1>8. SeenStructs'
  BY <1>7 DEF SeenStructs, Mentions, Owners
<1>9. SeenIds'
  BY IdsStep DEF Seen
<1>10. Reasons'
  BY <1>2, <1>3, ReasonsStep DEF Seen
<1> QED
  BY <1>8, <1>9, <1>10 DEF Seen

LEMMA SeenLookup ==
  ASSUME Inv, [Next]_vars, Seen, NEW t \in Threads, SetLookup(t) PROVE Seen'
<1> DEFINE o == byName[GetTorrentFolder(heap[loc[t].obj])]
           merge == [loc[t] EXCEPT !.pc = "setMerge", !.old = o]
           store == [loc[t] EXCEPT !.pc = "setStore"]
<1>1. /\ loc[t] \in Local /\ RefsLive(loc[t])
      /\ GetTorrentFolder(heap[loc[t].obj]) \in Names
  BY LiveMembers, FolderType
     DEF SetLookup, Inv, TypeOK, LocalsOK, LiveOK, HoldsObj, RefsLive
<1>2. HeapBecomes(heap) /\ MapsLive /\ SeenHeap(heap) /\ IdsShrink
  BY SeenSameMaps, IdsStay DEF SetLookup, Seen, SeenStructs, SeenHeap, cacheVars, refreshVars
<1>3. CASE Goto(t, merge) /\ o # None
  <2>1. o \in Live
    BY <1>1, <1>3, LiveMembers
  <2>2. merge.pc = "setMerge" /\ merge.obj = loc[t].obj /\ merge.old = o
    BY <1>1 DEF Local
  <2> HIDE DEF merge, o
  <2>3. RefsLive(merge) /\ Quiet(merge)
    BY <1>1, <2>1, <2>2 DEF RefsLive, Quiet
  <2> QED
    BY <1>2, <1>3, <2>3, SeenStep
<1>4. CASE Goto(t, store)
  <2>1. store.pc = "setStore" /\ store.obj = loc[t].obj /\ store.old = loc[t].old
    BY <1>1 DEF Local
  <2> HIDE DEF store
  <2>2. RefsLive(store) /\ Quiet(store)
    BY <1>1, <2>1 DEF RefsLive, Quiet
  <2> QED
    BY <1>2, <1>4, <2>2, SeenStep
<1> QED
  BY <1>3, <1>4 DEF SetLookup

LEMMA SeenMerge ==
  ASSUME Inv, [Next]_vars, Seen, NEW t \in Threads, SetMerge(t) PROVE Seen'
<1> DEFINE l == [loc[t] EXCEPT !.pc = "setStore", !.old = None]
           obj == loc[t].obj
           merged == mergeFiles(heap[loc[t].old], heap[obj])
           h == [heap EXCEPT ![obj].files = merged]
<1>1. /\ loc[t] \in Local /\ obj # None /\ obj \in Live /\ loc[t].old \in Live
      /\ heap[obj] \in Torrent /\ heap[loc[t].old] \in Torrent
  BY LiveMembers DEF SetMerge, Inv, TypeOK, LocalsOK, LiveOK, HoldsObj
<1>2. l.pc = "setStore" /\ l.obj = obj /\ l.old = None
  BY <1>1 DEF Local
<1>3. Goto(t, l) /\ HeapBecomes(h) /\ MapsLive /\ IdsShrink
  BY SeenSameMaps, IdsStay DEF SetMerge, cacheVars, refreshVars
<1>4. Owners(merged) \subseteq Known
  <2>1. Owners(merged) \subseteq Owners(heap[loc[t].old].files) \cup Owners(heap[obj].files)
    BY <1>1, MergeMentions
  <2> QED
    BY <1>1, <2>1 DEF Seen, SeenStructs, Mentions
<1>5. \A o \in Live : Mentions(h[o]) \subseteq Known
  <2> HIDE DEF merged
  <2> TAKE o \in Live
  <2>1. CASE o = obj
    <3>1. h[o].files = merged /\ h[o].id = heap[obj].id
      BY <1>1, <2>1, LiveObjects DEF Inv, TypeOK, Torrent
    <3> QED
      BY <1>1, <1>4, <3>1 DEF Seen, SeenStructs, Mentions
  <2>2. CASE o # obj
    <3>1. h[o] = heap[o]
      BY <2>2, LiveObjects DEF Inv, TypeOK
    <3> QED
      BY <3>1 DEF Seen, SeenStructs
  <2> QED
    BY <2>1, <2>2
<1> HIDE DEF l, h, obj
<1>6. RefsLive(l) /\ Quiet(l) /\ SeenHeap(h)
  BY <1>1, <1>2, <1>5 DEF RefsLive, Quiet, SeenHeap
<1> QED
  BY <1>3, <1>6, SeenStep

\* The id that is stored is one the struct carries.
LEMMA SeenStore ==
  ASSUME Inv, [Next]_vars, Seen, NEW t \in Threads, SetStore(t) PROVE Seen'
<1> DEFINE l == [loc[t] EXCEPT !.pc = "save"]
           obj == loc[t].obj
<1>1. /\ loc[t] \in Local /\ obj # None /\ obj \in Live /\ heap[obj] \in Torrent
      /\ RefsLive(loc[t])
  BY LiveMembers DEF SetStore, Inv, TypeOK, LocalsOK, LiveOK, HoldsObj, RefsLive
<1>2. l.pc = "save" /\ l.obj = obj /\ l.old = loc[t].old
  BY <1>1 DEF Local
<1>3. /\ Goto(t, l) /\ HeapBecomes(heap)
      /\ byID' = [byID EXCEPT ![heap[obj].id] = obj]
      /\ byName' = [byName EXCEPT ![GetTorrentFolder(heap[obj])] = obj]
      /\ validating' = validating /\ newTorrents' = newTorrents /\ refresh' = refresh
  BY DEF SetStore, refreshVars
<1> HIDE DEF l, obj
<1>4. byID \in [Ids -> Objects \cup {None}] /\ byName \in [Names -> Objects \cup {None}]
  BY DEF Inv, TypeOK
<1>5. RefsLive(l) /\ MapsLive /\ SeenHeap(heap)
  BY <1>1, <1>2, <1>3, <1>4 DEF RefsLive, MapsLive, SeenHeap, Seen, SeenStructs
<1>6. CachedIds' \subseteq CachedIds \cup {heap[obj].id}
  BY <1>3, <1>4 DEF CachedIds
<1>7. heap[obj].id \in Known /\ Known \subseteq Known'
  BY <1>1, AccountGrows DEF Seen, SeenStructs, Mentions
<1>8. SeenIds'
  BY <1>3, <1>6, <1>7 DEF Seen, SeenIds
<1>9. SeenStructs'
  BY <1>3, <1>5, StructsStep
<1>10. Reasons'
  BY <1>2, <1>3, ReasonsStep DEF Seen
<1> QED
  BY <1>8, <1>9, <1>10 DEF Seen

\* Saving, and going on to the next operation, keeps structs in hand or drops them.
LEMMA SeenGoOn ==
  ASSUME Inv, [Next]_vars, Seen, NEW t \in Threads,
         Save(t) \/ GenerateDownloadLinks(t) \/ DelDB(t)
  PROVE  Seen'
<1>1. loc[t] \in Local /\ RefsLive(loc[t])
  BY LiveMembers DEF Inv, TypeOK, RefsLive
<1>2. PICK l : /\ Goto(t, l)
               /\ l.obj \in {loc[t].obj, None} /\ l.old \in {loc[t].old, None}
               /\ Quiet(l)
  <2>1. Idle.obj = None /\ Idle.old = None /\ Quiet(Idle)
    BY DEF Idle, Quiet
  <2>2. CASE Save(t)
    <3> DEFINE gen == [loc[t] EXCEPT !.pc = "generate", !.next = "idle"]
               db == [loc[t] EXCEPT !.pc = "delDB", !.obj = None]
    <3>1. Goto(t, Idle) \/ Goto(t, gen) \/ Goto(t, db)
      BY <1>1, <2>2 DEF Save, Local
    <3>2. /\ Quiet(gen) /\ gen.obj = loc[t].obj /\ gen.old = loc[t].old
          /\ Quiet(db) /\ db.obj = None /\ db.old = loc[t].old
      BY <1>1 DEF Local, Quiet
    <3> HIDE DEF gen, db
    <3> QED
      BY <2>1, <3>1, <3>2
  <2>3. CASE GenerateDownloadLinks(t)
    <3> DEFINE l == [loc[t] EXCEPT !.pc = "setLookup"]
    <3>1. Goto(t, Idle) \/ Goto(t, l)
      BY <2>3 DEF GenerateDownloadLinks
    <3>2. Quiet(l) /\ l.obj = loc[t].obj /\ l.old = loc[t].old
      BY <1>1 DEF Local, Quiet
    <3> HIDE DEF l
    <3> QED
      BY <2>1, <3>1, <3>2
  <2>4. CASE DelDB(t)
    BY <2>1, <2>4 DEF DelDB
  <2> QED
    BY <2>2, <2>3, <2>4
<1>3. HeapBecomes(heap) /\ MapsLive /\ SeenHeap(heap) /\ IdsShrink
  <2>1. /\ UNCHANGED <<byID, validating, newTorrents, refresh>> /\ UNCHANGED cacheVars
        /\ HeapBecomes(heap)
    BY DEF Save, GenerateDownloadLinks, DelDB, cacheVars, refreshVars
  <2> QED
    BY <2>1, SeenSameMaps, IdsStay DEF Seen, SeenStructs, SeenHeap
<1>4. RefsLive(l)
  BY <1>1, <1>2 DEF RefsLive
<1> QED
  BY <1>2, <1>3, <1>4, SeenStep

-----------------------------------------------------------------------------
(* deleteTorrent                                                           *)

LEMMA SeenLock ==
  ASSUME Inv, [Next]_vars, Seen, NEW t \in Threads, Lock(t) PROVE Seen'
<1> DEFINE l == [loc[t] EXCEPT !.pc = "delGet"]
<1>1. loc[t] \in Local /\ loc[t].pc = "lock" /\ RefsLive(loc[t])
  BY LiveMembers DEF Lock, Inv, TypeOK, RefsLive
<1>2. l.pc = "delGet" /\ l.obj = loc[t].obj /\ l.old = loc[t].old /\ l.by = loc[t].by
  BY <1>1 DEF Local
<1>3. /\ Goto(t, l) /\ heap' = heap /\ UNCHANGED cacheVars
      /\ UNCHANGED <<byID, validating, newTorrents, refresh>>
  BY DEF Lock, cacheVars
<1> HIDE DEF l
<1>4. RefsLive(l)
  BY <1>1, <1>2 DEF RefsLive
<1>5. Live' \subseteq Live
  BY <1>3, <1>4, SeenSameMaps, SeenLiveStays DEF Inv
<1>6. SeenStructs'
  BY <1>3, <1>5, StructsSame DEF Seen
<1>7. SeenIds'
  BY <1>3, IdsStay, IdsStep DEF Seen
<1>8. Reasons'
  BY <1>1, <1>2, <1>3, ReasonsStep DEF Seen, Reasons
<1> QED
  BY <1>6, <1>7, <1>8 DEF Seen

\* The reason found by the validation carries over to the removal.
LEMMA SeenDelGet ==
  ASSUME Inv, [Next]_vars, Seen, NEW t \in Threads, DelGet(t) PROVE Seen'
<1> DEFINE l == [loc[t] EXCEPT !.pc = "delRemove", !.obj = byID[loc[t].id]]
<1>1. /\ loc[t] \in Local /\ loc[t].pc = "delGet" /\ loc[t].id \in Ids /\ RefsLive(loc[t])
  BY LiveMembers DEF DelGet, Inv, TypeOK, LocalsOK, Local, RefsLive
<1>2. HeapBecomes(heap) /\ MapsLive /\ SeenHeap(heap) /\ IdsShrink
  <2>1. /\ UNCHANGED <<byID, validating, newTorrents, refresh>> /\ UNCHANGED cacheVars
        /\ HeapBecomes(heap)
    BY DEF DelGet, cacheVars
  <2> QED
    BY <2>1, SeenSameMaps, IdsStay DEF Seen, SeenStructs, SeenHeap
<1>3. CASE Goto(t, Idle)
  <2>1. RefsLive(Idle) /\ Quiet(Idle)
    BY DEF Idle, RefsLive, Quiet
  <2> QED
    BY <1>2, <1>3, <2>1, SeenStep
<1>4. CASE byID[loc[t].id] # None /\ Goto(t, l)
  <2>1. /\ l.pc = "delRemove" /\ l.obj = byID[loc[t].id] /\ l.old = loc[t].old
        /\ l.by = loc[t].by /\ l.id = loc[t].id
    BY <1>1 DEF Local
  <2>2. Goto(t, l)
    BY <1>4
  <2> HIDE DEF l
  <2>3. RefsLive(l)
    BY <1>1, <1>4, <2>1, LiveMembers DEF RefsLive
  <2>4. SeenStructs'
    BY <1>2, <2>2, <2>3, StructsStep
  <2>5. SeenIds'
    BY <1>2, IdsStep DEF Seen
  <2>6. Reasons'
    BY <1>1, <2>1, <2>2, ReasonsStep DEF Seen, Reasons, Reason
  <2> QED
    BY <2>4, <2>5, <2>6 DEF Seen
<1> QED
  BY <1>3, <1>4 DEF DelGet

LEMMA SeenDelMaps ==
  ASSUME Inv, [Next]_vars, Seen, NEW t \in Threads, DelRemove(t) \/ DelEntry(t) PROVE Seen'
<1> DEFINE name == [loc[t] EXCEPT !.pc = "delName"]
           db == [loc[t] EXCEPT !.pc = "delDB", !.obj = None]
<1>1. loc[t] \in Local /\ RefsLive(loc[t])
  BY LiveMembers DEF Inv, TypeOK, RefsLive
<1>2. /\ name.pc = "delName" /\ name.obj = loc[t].obj /\ name.old = loc[t].old
      /\ db.pc = "delDB" /\ db.obj = None /\ db.old = loc[t].old
  BY <1>1 DEF Local
<1>3. /\ MapsLive /\ CachedIds' \subseteq CachedIds /\ HeapBecomes(heap)
      /\ validating' = validating /\ newTorrents' = newTorrents /\ refresh' = refresh
  <2>1. byID \in [Ids -> Objects \cup {None}] /\ byName \in [Names -> Objects \cup {None}]
    BY DEF Inv, TypeOK
  <2>2. CASE DelRemove(t)
    BY <2>1, <2>2 DEF DelRemove, MapsLive, CachedIds, refreshVars
  <2>3. CASE DelEntry(t)
    BY <2>1, <2>3 DEF DelEntry, MapsLive, CachedIds, refreshVars
  <2> QED
    BY <2>2, <2>3
<1>4. Goto(t, name) \/ Goto(t, db)
  BY DEF DelRemove, DelEntry
<1> HIDE DEF name, db
<1>5. RefsLive(name) /\ RefsLive(db) /\ Quiet(name) /\ Quiet(db)
  BY <1>1, <1>2 DEF RefsLive, Quiet
<1>6. IdsShrink /\ SeenHeap(heap)
  BY <1>3 DEF IdsShrink, SeenHeap, Seen, SeenStructs
<1> QED
  BY <1>3, <1>4, <1>5, <1>6, SeenStep

\* The new id is the owner of a file that was there.
LEMMA SeenDelName ==
  ASSUME Inv, [Next]_vars, Seen, NEW t \in Threads, DelName(t) PROVE Seen'
<1> DEFINE o == byName[NameOf[heap[loc[t].obj].origin]]
           rest == Remaining(heap[o].files, loc[t].id)
           db == [loc[t] EXCEPT !.pc = "delDB", !.obj = None]
           entry == [loc[t] EXCEPT !.pc = "delEntry"]
           set == [loc[t] EXCEPT !.pc = "setLookup", !.obj = o, !.next = "delDB"]
<1>1. loc[t] \in Local /\ RefsLive(loc[t]) /\ heap[loc[t].obj] \in Torrent
  <2>1. loc[t] \in Local /\ loc[t].obj # None
    BY Zenon DEF DelName, Inv, TypeOK, LocalsOK, HoldsObj
  <2> QED
    BY <2>1, LiveMembers DEF Inv, LiveOK, RefsLive
<1>2. MapsLive /\ SeenHeap(heap) /\ IdsShrink
  BY Zenon, SeenSameMaps, IdsStay DEF DelName, Seen, SeenStructs, SeenHeap, cacheVars, refreshVars
<1>3. CASE Goto(t, db) /\ HeapBecomes(heap)
  <2>1. db.pc = "delDB" /\ db.obj = None /\ db.old = loc[t].old
    BY <1>1 DEF Local
  <2> HIDE DEF db
  <2>2. RefsLive(db) /\ Quiet(db)
    BY <1>1, <2>1 DEF RefsLive, Quiet
  <2> QED
    BY <1>2, <1>3, <2>2, SeenStep
<1>4. CASE Goto(t, entry) /\ HeapBecomes(heap)
  <2>1. entry.pc = "delEntry" /\ entry.obj = loc[t].obj /\ entry.old = loc[t].old
    BY <1>1 DEF Local
  <2> HIDE DEF entry
  <2>2. RefsLive(entry) /\ Quiet(entry)
    BY <1>1, <2>1 DEF RefsLive, Quiet
  <2> QED
    BY <1>2, <1>4, <2>2, SeenStep
<1>5. ASSUME o # None, Goto(t, set), NEW newId \in NewIds(rest),
             HeapBecomes([heap EXCEPT ![o].files = rest, ![o].id = newId])
      PROVE  Seen'
  <2> DEFINE h == [heap EXCEPT ![o].files = rest, ![o].id = newId]
  <2>1. o \in Live /\ heap[o] \in Torrent
    <3>1. NameOf[heap[loc[t].obj].origin] \in Names
      BY <1>1, ConstantsAssumption DEF Torrent
    <3> QED
      BY Zenon, <3>1, <1>5, LiveMembers DEF Inv, LiveOK
  <2>2. Owners(rest) \subseteq Known
    <3> HIDE DEF o
    <3>1. Owners(rest) \subseteq Owners(heap[o].files)
      BY <2>1, RemainingMentions DEF Torrent
    <3> QED
      BY <2>1, <3>1 DEF Seen, SeenStructs, Mentions
  <2>3. newId \in Known
    BY Zenon, <1>5, <2>2 DEF NewIds
  <2>4. \A x \in Live : Mentions(h[x]) \subseteq Known
    <3> HIDE DEF rest, o
    <3> TAKE x \in Live
    <3>1. CASE x = o
      <4>1. h[x].files = rest /\ h[x].id = newId
        BY <2>1, <3>1, LiveObjects DEF Inv, TypeOK, Torrent
      <4> QED
        BY <2>2, <2>3, <4>1 DEF Mentions
    <3>2. CASE x # o
      <4>1. h[x] = heap[x]
        BY <3>2, LiveObjects DEF Inv, TypeOK
      <4> QED
        BY <4>1 DEF Seen, SeenStructs
    <3> QED
      BY Zenon, <3>1, <3>2
  <2>5. set.pc = "setLookup" /\ set.obj = o /\ set.old = loc[t].old
    <3> HIDE DEF o
    <3> QED
      BY <1>1 DEF Local
  <2>6. Goto(t, set) /\ HeapBecomes(h)
    BY Zenon, <1>5
  <2> HIDE DEF set, h, o
  <2>7. RefsLive(set) /\ Quiet(set) /\ SeenHeap(h)
    BY <1>1, <2>1, <2>4, <2>5 DEF RefsLive, Quiet, SeenHeap
  <2> QED
    BY <1>2, <2>6, <2>7, SeenStep
<1> QED
  BY Zenon, <1>3, <1>4, <1>5 DEF DelName

-----------------------------------------------------------------------------
(* Callers and the refresh                                                 *)

LEMMA SeenBegin ==
  ASSUME Inv, [Next]_vars, Seen, NEW t \in Threads, NEW i \in Ids,
         NEW pc \in {"lock", "delGet"}, NEW by,
         by = "caller" \/ (by = "validate" /\ pc = "delGet" /\ debrid[i] = "gone"),
         Goto(t, [Idle EXCEPT !.pc = pc, !.id = i, !.by = by]),
         heap' = heap, UNCHANGED cacheVars, IdsShrink
  PROVE  Seen'
<1> DEFINE l == [Idle EXCEPT !.pc = pc, !.id = i, !.by = by]
<1>1. l.pc = pc /\ l.id = i /\ l.by = by /\ l.obj = None /\ l.old = None
  BY DEF Idle
<1>2. Goto(t, l)
  OBVIOUS
<1> HIDE DEF l
<1>3. RefsLive(l)
  BY <1>1 DEF RefsLive
<1>4. Live' \subseteq Live
  BY <1>2, <1>3, SeenSameMaps, SeenLiveStays DEF Inv
<1>5. SeenStructs'
  BY <1>4, StructsSame DEF Seen
<1>6. SeenIds'
  BY IdsStep DEF Seen
<1>7. Reasons'
  BY <1>1, <1>2, ReasonsStep DEF Seen
<1> QED
  BY <1>5, <1>6, <1>7 DEF Seen

LEMMA SeenCall ==
  ASSUME Inv, [Next]_vars, Seen, NEW t \in Threads, NEW i \in Ids, Call(t, i) PROVE Seen'
<1>1. IdsShrink /\ UNCHANGED cacheVars
  BY IdsStay DEF Call, RefreshTorrent, AddTorrent, DeleteTorrent, DeleteTorrents,
                 cacheVars, refreshVars
<1>2. CASE RefreshTorrent(t, i)
  BY <1>1, <1>2, SeenEnterSet DEF RefreshTorrent, GetTorrentOk, Known
<1>3. CASE AddTorrent(t, i)
  BY <1>1, <1>3, SeenEnterSet DEF AddTorrent, GetTorrentOk, Known
<1>4. CASE DeleteTorrent(t, i)
  BY Zenon, <1>1, <1>4, SeenBegin DEF DeleteTorrent
<1>5. CASE DeleteTorrents(t, i)
  BY Zenon, <1>1, <1>5, SeenBegin DEF DeleteTorrents
<1> QED
  BY <1>2, <1>3, <1>4, <1>5 DEF Call

LEMMA SeenContinue ==
  ASSUME Inv, [Next]_vars, Seen, NEW t \in Threads, Continue(t) PROVE Seen'
BY SeenLookup, SeenMerge, SeenStore, SeenGoOn, SeenLock, SeenDelGet, SeenDelMaps,
   SeenDelName DEF Continue

\* What the refresh lists the account has; what it validates or processes was
\* cached or listed.
LEMMA SeenRefresh ==
  ASSUME Inv, [Next]_vars, Seen, RefreshList \/ RefreshCompare \/ RefreshDone PROVE Seen'
<1>1. UNCHANGED <<heap, cacheVars, loc>>
  BY DEF RefreshList, RefreshCompare, RefreshDone
<1>2. CachedIds' = CachedIds /\ Known \subseteq Known'
  BY <1>1, AccountGrows DEF CachedIds, cacheVars
<1>3. Present \subseteq Known
  BY DEF Present, Known
<1>4. SeenIds'
  BY <1>2, <1>3
     DEF RefreshList, RefreshCompare, RefreshDone, Deleted, Seen, SeenIds
<1> QED
  BY <1>1, <1>4, SeenOther

LEMMA SeenBackground ==
  ASSUME Inv, [Next]_vars, Seen, ~Flaky, Background PROVE Seen'
<1>1. CASE RefreshList \/ RefreshCompare \/ RefreshDone
  BY <1>1, SeenRefresh
<1>2. ASSUME NEW i \in Ids, ValidateKeeps(i) PROVE Seen'
  <2>1. UNCHANGED <<heap, cacheVars, loc>> /\ IdsShrink
    BY <1>2 DEF ValidateKeeps, IdsShrink, CachedIds, cacheVars
  <2> QED
    BY <2>1, IdsStep, SeenOther DEF Seen
<1>3. ASSUME NEW i \in Ids, ProcessSkip(i) PROVE Seen'
  BY <1>3 DEF ProcessSkip
<1>4. ASSUME NEW t \in Threads, NEW i \in Ids, ProcessTorrent(t, i) PROVE Seen'
  <2>1. UNCHANGED cacheVars /\ IdsShrink
    BY <1>4 DEF ProcessTorrent, IdsShrink, CachedIds, cacheVars
  <2>2. i \in Known
    BY <1>4 DEF ProcessTorrent, Seen, SeenIds
  <2> QED
    BY <1>4, <2>1, <2>2, SeenEnterSet DEF ProcessTorrent
<1>5. ASSUME NEW t \in Threads, NEW i \in Ids, ValidateDeletes(t, i) PROVE Seen'
  <2>1. UNCHANGED cacheVars /\ heap' = heap /\ IdsShrink
    BY <1>5 DEF ValidateDeletes, IdsShrink, CachedIds, cacheVars
  <2>2. i \in Known
    BY <1>5 DEF ValidateDeletes, Seen, SeenIds
  <2>3. debrid[i] = "gone"
    BY <1>5, <2>2 DEF ValidateDeletes, GetTorrentFails, Known, Inv, TypeOK
  <2> QED
    BY Zenon, <1>5, <2>1, <2>3, SeenBegin DEF ValidateDeletes
<1>6. ASSUME NEW s \in Slots, SaveLands(s) PROVE Seen'
  <2>1. UNCHANGED <<heap, cacheVars, loc>> /\ IdsShrink
    BY <1>6, IdsStay DEF SaveLands, cacheVars, refreshVars
  <2> QED
    BY <2>1, IdsStep, SeenOther DEF Seen
<1> QED
  BY <1>1, <1>2, <1>3, <1>4, <1>5, <1>6 DEF Background

LEMMA SeenNext == ASSUME Inv, Seen, ~Flaky, [Next]_vars PROVE Seen'
<1>1. CASE Account \/ CallersStop \/ UNCHANGED vars
  <2>1. UNCHANGED <<heap, cacheVars, loc>> /\ IdsShrink
    BY <1>1, IdsStay DEF Account, DebridAdd, DebridRemove, CallersStop, vars, cacheVars,
                         refreshVars
  <2> QED
    BY <2>1, IdsStep, SeenOther DEF Seen
<1> QED
  BY <1>1, SeenCall, SeenContinue, SeenBackground DEF Next

-----------------------------------------------------------------------------
(* The theorem                                                             *)

\* Only DelRemove takes an id out of byID.
LEMMA RemovedBy ==
  ASSUME Inv, [Next]_vars, NEW i \in Ids, byID[i] # None, byID'[i] = None
  PROVE  \E t \in Threads : DelRemove(t) /\ loc[t].id = i
<1>1. ASSUME NEW t \in Threads, SetStore(t) PROVE byID'[i] # None
  <2>1. loc[t].obj # None
    BY <1>1 DEF SetStore, Inv, LocalsOK, HoldsObj
  <2> QED
    BY <1>1, <2>1 DEF SetStore, Inv, TypeOK
<1>2. \/ byID' = byID
      \/ \E t \in Threads : SetStore(t) \/ DelRemove(t)
  BY Zenon DEF Next, Account, DebridAdd, DebridRemove, Call, Continue, Background, CallersStop,
         RefreshTorrent, AddTorrent, DeleteTorrent, DeleteTorrents, SetLookup, SetMerge,
         Save, GenerateDownloadLinks, Lock, DelGet, DelName, DelEntry, DelDB, RefreshList,
         RefreshCompare, RefreshDone, ProcessSkip, ValidateKeeps, ProcessTorrent,
         ValidateDeletes, SaveLands, vars, cacheVars
<1>3. PICK t \in Threads : DelRemove(t)
  BY <1>1, <1>2
<1>4. loc[t].id = i
  BY <1>3 DEF DelRemove, Inv, TypeOK
<1> QED
  BY <1>3, <1>4

\* Where calls do not fail, with any interleaving of refreshes, validations and
\* callers: a torrent the account has is removed by a caller only.
THEOREM NoFalseDeletions == ~Flaky => (Spec => NoFalseDeletion)
<1> SUFFICES ASSUME ~Flaky PROVE Spec => NoFalseDeletion
  OBVIOUS
<1> DEFINE Removal ==
      \A i \in Ids :
         byID[i] # None /\ byID'[i] = None /\ debrid[i] = "present"
           => \E t \in Threads : loc[t].by = "caller" /\ loc[t].pc = "delRemove" /\ loc[t].id = i
<1>1. Inv /\ Seen /\ [Next]_vars => Removal
  <2> SUFFICES ASSUME Inv, Seen, [Next]_vars,
                      NEW i \in Ids, byID[i] # None, byID'[i] = None, debrid[i] = "present"
               PROVE  \E t \in Threads :
                        loc[t].by = "caller" /\ loc[t].pc = "delRemove" /\ loc[t].id = i
    OBVIOUS
  <2>1. PICK t \in Threads : DelRemove(t) /\ loc[t].id = i
    BY RemovedBy
  <2>2. loc[t].pc = "delRemove" /\ Reason(loc[t])
    BY <2>1 DEF DelRemove, Seen, Reasons
  <2> QED
    BY <2>1, <2>2 DEF Reason
<1>2. Inv /\ Seen /\ [Next]_vars => Seen'
  BY SeenNext
<1>3. Inv /\ Seen /\ [Next]_vars => [Removal]_vars
  BY <1>1
<1> HIDE DEF Removal
<1>4. Spec => [][Removal]_vars
  BY <1>2, <1>3, SeenInit, InvHolds, PTL DEF Spec
<1> QED
  BY <1>4 DEF NoFalseDeletion, Removal

-----------------------------------------------------------------------------
(***************************************************************************)
(* One operation at a time: what a folder serves, and what is on disk.     *)
(* With a single goroutine for the operations, the refresh, the saves and  *)
(* the account still interleave with it freely.                            *)
(***************************************************************************)

Sequential == \A t, u \in Threads : t = u

\* Control points of setTorrent before it stores.
SetPCs == {"setLookup", "setMerge", "setStore"}

\* What a deletion has taken out of byID stays out until its file is trashed.
Dropping(l) == l.pc \in {"delName", "delEntry", "delDB"} \/ l.next = "delDB"

\* A deletion that relabels an entry sets it under another id than its own.
Relabelling(l) ==
    l.next = "delDB" =>
        \/ l.pc = "delDB"
        \/ l.pc \in SetPCs \cup {"save"} /\ heap[l.obj].id # l.id

\* There is a file, a write of one, or a goroutine about to start the write.
Backed(i) ==
    \/ i \in disk
    \/ \E s \in Slots : saving[s] = i
    \/ \E t \in Threads : loc[t].pc = "save" /\ heap[loc[t].obj].id = i

Durable ==
    /\ \A i \in CachedIds : Backed(i)
    /\ \A t \in Threads : Relabelling(loc[t]) /\ (Dropping(loc[t]) => byID[loc[t].id] = None)

-----------------------------------------------------------------------------
\* The step of the only goroutine.
LEMMA OnlyOne ==
  ASSUME Sequential, Inv, NEW t \in Threads, NEW l, Goto(t, l)
  PROVE  \A u \in Threads : loc'[u] = l /\ loc[u] = loc[t]
BY DEF Sequential, Goto, Inv, TypeOK

\* What is live after a step has the value the step gave it.
LEMMA HeapIs ==
  ASSUME Inv', NEW h, HeapBecomes(h)
  PROVE  \A o \in Live' : heap'[o] = h[o]
<1>1. Live' \subseteq Objects
  BY DEF Inv, TypeOK, Live, Local
<1> QED
  BY <1>1 DEF HeapBecomes

\* The struct the goroutine holds after its step is live.
LEMMA HeldLives ==
  ASSUME Sequential, Inv, NEW t \in Threads, NEW l, Goto(t, l), l.obj # None
  PROVE  l.obj \in Live'
BY OnlyOne DEF Live

LEMMA DurableInit == Init => Durable
BY DEF Init, Durable, CachedIds, Relabelling, Dropping, Idle

\* A step of the goroutine that caches nothing and keeps what is on disk.
LEMMA DurableGoto ==
  ASSUME Inv, Sequential, Durable, NEW t \in Threads, NEW l, Goto(t, l),
         loc[t].pc # "save",
         \A i \in Ids : byID'[i] \in {byID[i], None},
         \A i \in Ids : byID'[i] # None /\ i \in disk => i \in disk',
         saving' = saving,
         Dropping(l) => byID'[l.id] = None,
         l.next = "delDB" =>
             \/ l.pc = "delDB"
             \/ l.pc \in SetPCs \cup {"save"} /\ heap'[l.obj].id # l.id
  PROVE  Durable'
<1>1. \A u \in Threads : loc'[u] = l /\ loc[u] = loc[t]
  BY OnlyOne
<1>2. \A i \in CachedIds' : Backed(i)'
  <2> TAKE i \in CachedIds'
  <2>1. i \in Ids /\ i \in CachedIds /\ byID'[i] # None
    BY DEF CachedIds
  <2>2. i \in disk \/ \E s \in Slots : saving[s] = i
    BY <1>1, <2>1 DEF Durable, Backed
  <2> QED
    BY <2>1, <2>2 DEF Backed
<1>3. \A u \in Threads : Relabelling(loc[u])' /\ (Dropping(loc'[u]) => byID'[loc'[u].id] = None)
  BY <1>1 DEF Relabelling
<1> QED
  BY <1>2, <1>3 DEF Durable, Dropping

\* A step that leaves goroutines, maps, structs and disk as they are.
LEMMA DurableSame ==
  ASSUME Durable, UNCHANGED <<heap, cacheVars, loc, diskVars>> PROVE Durable'
BY DEF Durable, CachedIds, Backed, Relabelling, Dropping, cacheVars, diskVars

LEMMA DurableEnterSet ==
  ASSUME Inv, Sequential, Durable, NEW t \in Threads, NEW i, NEW by,
         NEW next \in {"idle", "generate"}, loc[t] = Idle,
         EnterSet(t, i, by, next), UNCHANGED <<cacheVars, diskVars>>
  PROVE  Durable'
<1>1. PICK o \in Objects \ Live :
        Goto(t, [Idle EXCEPT !.pc = "setLookup", !.id = i, !.obj = o, !.by = by, !.next = next])
  BY Zenon DEF EnterSet
<1> DEFINE l == [Idle EXCEPT !.pc = "setLookup", !.id = i, !.obj = o, !.by = by, !.next = next]
<1>2. l.pc = "setLookup" /\ l.next = next
  BY DEF Idle
<1>3. loc[t].pc # "save" /\ Goto(t, l) /\ ~Dropping(l) /\ l.next # "delDB"
  BY <1>1, <1>2 DEF Dropping, Idle
<1> HIDE DEF l
<1> QED
  BY <1>3, DurableGoto DEF cacheVars, diskVars

LEMMA DurableBegin ==
  ASSUME Inv, Sequential, Durable, NEW t \in Threads, NEW i, NEW pc \in {"lock", "delGet"}, NEW by,
         loc[t] = Idle, Goto(t, [Idle EXCEPT !.pc = pc, !.id = i, !.by = by]),
         UNCHANGED <<cacheVars, diskVars>>
  PROVE  Durable'
<1> DEFINE l == [Idle EXCEPT !.pc = pc, !.id = i, !.by = by]
<1>1. l.pc = pc /\ l.next = "idle"
  BY DEF Idle
<1>2. loc[t].pc # "save" /\ Goto(t, l) /\ ~Dropping(l) /\ l.next # "delDB"
  BY <1>1 DEF Dropping, Idle
<1> HIDE DEF l
<1> QED
  BY <1>2, DurableGoto DEF cacheVars, diskVars

\* Looking up and merging change neither the id of the struct nor what is dropped.
LEMMA DurableSet ==
  ASSUME Inv, Inv', Sequential, Durable, NEW t \in Threads, SetLookup(t) \/ SetMerge(t)
  PROVE  Durable'
<1> DEFINE o == byName[GetTorrentFolder(heap[loc[t].obj])]
           obj == loc[t].obj
           merge == [loc[t] EXCEPT !.pc = "setMerge", !.old = o]
           store == [loc[t] EXCEPT !.pc = "setStore"]
           stored == [loc[t] EXCEPT !.pc = "setStore", !.old = None]
           h == [heap EXCEPT ![obj].files = mergeFiles(heap[loc[t].old], heap[obj])]
<1>1. loc[t] \in Local /\ obj # None /\ obj \in Live /\ heap[obj] \in Torrent /\ obj \in Objects
  BY LiveMembers, LiveObjects DEF SetLookup, SetMerge, Inv, TypeOK, LocalsOK, LiveOK, HoldsObj
<1>2. \A l \in {merge, store, stored} :
          l.pc \in SetPCs /\ l.obj = obj /\ l.next = loc[t].next /\ l.id = loc[t].id
  <2> HIDE DEF o
  <2> QED
    BY Zenon, <1>1 DEF Local, SetPCs
<1>3. h[obj].id = heap[obj].id
  <2> DEFINE merged == mergeFiles(heap[loc[t].old], heap[obj])
  <2> HIDE DEF merged
  <2> QED
    BY <1>1 DEF Inv, TypeOK, Torrent
<1> HIDE DEF merge, store, stored, h, o
<1>4. PICK l \in {merge, store, stored} : Goto(t, l)
  BY DEF SetLookup, SetMerge, merge, store, stored, o
<1>5. heap'[obj].id = heap[obj].id
  <2>1. obj \in Live'
    BY <1>1, <1>2, <1>4, HeldLives
  <2>2. HeapBecomes(heap) \/ HeapBecomes(h)
    BY DEF SetLookup, SetMerge, h
  <2> QED
    BY <1>3, <2>1, <2>2, HeapIs
<1>6. byID' = byID /\ disk' = disk /\ saving' = saving /\ loc[t].pc \in {"setLookup", "setMerge"}
  BY DEF SetLookup, SetMerge, cacheVars, diskVars
<1>7. Relabelling(loc[t]) /\ (Dropping(loc[t]) => byID[loc[t].id] = None)
  BY DEF Durable
<1> HIDE DEF obj
<1>8. Dropping(l) => byID'[l.id] = None
  BY <1>2, <1>6, <1>7 DEF Dropping, SetPCs
<1>9. l.next = "delDB" => l.pc \in SetPCs \cup {"save"} /\ heap'[l.obj].id # l.id
  BY <1>2, <1>5, <1>6, <1>7 DEF Relabelling, obj
<1> QED
  BY <1>4, <1>6, <1>8, <1>9, DurableGoto

\* The id that becomes cached is the one the next step saves.
LEMMA DurableStore ==
  ASSUME Inv, Inv', Sequential, Durable, NEW t \in Threads, SetStore(t) PROVE Durable'
<1> DEFINE l == [loc[t] EXCEPT !.pc = "save"]
           obj == loc[t].obj
<1>1. loc[t] \in Local /\ obj # None /\ obj \in Live /\ heap[obj] \in Torrent /\ heap[obj].id \in Ids
  BY LiveMembers DEF SetStore, Inv, TypeOK, LocalsOK, LiveOK, HoldsObj, Torrent
<1>2. l.pc = "save" /\ l.obj = obj /\ l.next = loc[t].next /\ l.id = loc[t].id
  BY <1>1 DEF Local
<1>3. /\ Goto(t, l) /\ HeapBecomes(heap) /\ disk' = disk /\ saving' = saving
      /\ byID' = [byID EXCEPT ![heap[obj].id] = obj] /\ loc[t].pc = "setStore"
  BY DEF SetStore, diskVars
<1> HIDE DEF l, obj
<1>4. \A u \in Threads : loc'[u] = l /\ loc[u] = loc[t]
  BY <1>3, OnlyOne
<1>5. heap'[obj] = heap[obj]
  BY <1>1, <1>2, <1>3, HeldLives, HeapIs
<1>6. \A i \in CachedIds' : Backed(i)'
  <2> TAKE i \in CachedIds'
  <2>1. CASE i = heap[obj].id
    BY <1>2, <1>4, <1>5, <2>1 DEF Backed
  <2>2. CASE i # heap[obj].id
    <3>1. i \in CachedIds
      BY <1>3, <2>2 DEF CachedIds, Inv, TypeOK
    <3> QED
      BY <1>3, <1>4, <3>1 DEF Durable, Backed
  <2> QED
    BY <2>1, <2>2
<1>7. Relabelling(loc[t]) /\ (Dropping(loc[t]) => byID[loc[t].id] = None)
  BY DEF Durable
<1>8. l.next = "delDB" => heap[obj].id # l.id /\ byID'[l.id] = None
  <2> HAVE l.next = "delDB"
  <2>1. heap[obj].id # loc[t].id /\ byID[loc[t].id] = None
    BY <1>2, <1>3, <1>7 DEF Relabelling, Dropping, obj
  <2>2. byID'[loc[t].id] = byID[loc[t].id]
    BY <1>1, <1>3, <2>1 DEF Inv, TypeOK, Local
  <2> QED
    BY <1>2, <2>1, <2>2
<1>9. \A u \in Threads : Relabelling(loc[u])' /\ (Dropping(loc'[u]) => byID'[loc'[u].id] = None)
  BY <1>2, <1>4, <1>5, <1>8 DEF Relabelling, Dropping
<1> QED
  BY <1>6, <1>9 DEF Durable, Dropping

\* With a free slot the write is pending, without one it is done.
LEMMA DurableSave ==
  ASSUME Inv, Inv', Sequential, Durable, NEW t \in Threads, Save(t) PROVE Durable'
<1> DEFINE gen == [loc[t] EXCEPT !.pc = "generate", !.next = "idle"]
           db == [loc[t] EXCEPT !.pc = "delDB", !.obj = None]
           id == heap[loc[t].obj].id
<1>1. loc[t] \in Local /\ loc[t].pc = "save" /\ byID' = byID
  BY DEF Save, Inv, TypeOK, cacheVars
<1>2. \/ Goto(t, Idle)
      \/ Goto(t, gen)
      \/ loc[t].next = "delDB" /\ Goto(t, db)
  BY <1>1 DEF Save, Local
<1>3. /\ gen.pc = "generate" /\ gen.next = "idle" /\ Idle.pc = "idle" /\ Idle.next = "idle"
      /\ db.pc = "delDB" /\ db.id = loc[t].id
  BY <1>1 DEF Local, Idle
<1>4. loc[t].next = "delDB" => byID[loc[t].id] = None
  BY DEF Durable, Dropping
<1> HIDE DEF gen, db
<1>5. PICK l : /\ Goto(t, l) /\ (Dropping(l) => byID'[l.id] = None)
               /\ l.next = "delDB" => l.pc = "delDB"
  BY <1>1, <1>2, <1>3, <1>4 DEF Dropping
<1>6. \A u \in Threads : loc'[u] = l /\ loc[u] = loc[t]
  BY <1>5, OnlyOne
<1>7. SaveTorrent(id)
  BY DEF Save
<1> HIDE DEF id
<1>8. /\ disk \subseteq disk' /\ \A s \in Slots : saving[s] # None => saving'[s] = saving[s]
      /\ id \in disk' \/ \E s \in Slots : saving'[s] = id
  BY <1>7 DEF SaveTorrent, WriteInGoroutine, FreeSlots, Inv, TypeOK
<1>9. \A i \in CachedIds' : i \in disk' \/ \E s \in Slots : saving'[s] = i
  <2> TAKE i \in CachedIds'
  <2>1. i \in CachedIds /\ i # None
    BY <1>1, ConstantsAssumption DEF CachedIds
  <2>2. i \in disk \/ (\E s \in Slots : saving[s] = i) \/ i = id
    BY <1>6, <2>1 DEF Durable, Backed, id
  <2> QED
    BY <1>8, <2>1, <2>2
<1>10. \A u \in Threads : Relabelling(loc[u])' /\ (Dropping(loc'[u]) => byID'[loc'[u].id] = None)
  BY <1>5, <1>6 DEF Relabelling
<1> QED
  BY <1>9, <1>10 DEF Durable, Backed, Dropping

LEMMA DurableLands ==
  ASSUME Inv, Durable, NEW s \in Slots, SaveLands(s) PROVE Durable'
<1>1. /\ disk' = disk \cup {saving[s]} /\ saving' = [saving EXCEPT ![s] = None]
      /\ heap' = heap /\ byID' = byID /\ loc' = loc
  BY DEF SaveLands, cacheVars
<1>2. \A i \in Ids : Backed(i) => Backed(i)'
  <2> TAKE i \in Ids
  <2> HAVE Backed(i)
  <2>1. CASE \E r \in Slots : saving[r] = i
    <3> PICK r \in Slots : saving[r] = i
      BY <2>1
    <3>1. r = s => i \in disk'
      BY <1>1
    <3>2. r # s => saving'[r] = i
      BY <1>1 DEF Inv, TypeOK
    <3> QED
      BY <3>1, <3>2 DEF Backed
  <2> QED
    BY <1>1, <2>1 DEF Backed
<1> QED
  BY <1>1, <1>2 DEF Durable, CachedIds, Relabelling, Dropping

\* Going on with, or giving up, the links of a torrent; taking the mutex; finding
\* the torrent that is to be deleted.
LEMMA DurableMove ==
  ASSUME Inv, Sequential, Durable, NEW t \in Threads,
         GenerateDownloadLinks(t) \/ Lock(t) \/ DelGet(t)
  PROVE  Durable'
<1> DEFINE set == [loc[t] EXCEPT !.pc = "setLookup"]
           get == [loc[t] EXCEPT !.pc = "delGet"]
           remove == [loc[t] EXCEPT !.pc = "delRemove", !.obj = byID[loc[t].id]]
<1>1. /\ loc[t] \in Local /\ loc[t].pc \in {"generate", "lock", "delGet"}
      /\ byID' = byID /\ disk' = disk /\ saving' = saving
  BY DEF GenerateDownloadLinks, Lock, DelGet, Inv, TypeOK, cacheVars, diskVars
<1>2. \A l \in {set, get, remove} :
          l.pc \in {"setLookup", "delGet", "delRemove"} /\ l.next = loc[t].next
  BY Zenon, <1>1 DEF Local
<1>3. Idle.pc = "idle" /\ Idle.next = "idle"
  BY DEF Idle
<1> HIDE DEF set, get, remove
<1>4. PICK l \in {Idle, set, get, remove} : Goto(t, l)
  BY DEF GenerateDownloadLinks, Lock, DelGet, set, get, remove
<1>5. loc[t].next # "delDB"
  BY <1>1 DEF Durable, Relabelling, SetPCs
<1>6. ~Dropping(l) /\ l.next # "delDB"
  BY <1>2, <1>3, <1>5 DEF Dropping
<1> QED
  BY <1>1, <1>4, <1>6, DurableGoto

\* From getByID's removal to removeFromDB the id stays out of byID.
LEMMA DurableDelete ==
  ASSUME Inv, Sequential, Durable, NEW t \in Threads, DelRemove(t) \/ DelEntry(t) \/ DelDB(t)
  PROVE  Durable'
<1> DEFINE name == [loc[t] EXCEPT !.pc = "delName"]
           db == [loc[t] EXCEPT !.pc = "delDB", !.obj = None]
<1>1. loc[t] \in Local /\ loc[t].id \in Ids
  BY DEF DelRemove, DelEntry, DelDB, Inv, TypeOK, LocalsOK, Local
<1>2. /\ name.pc = "delName" /\ name.id = loc[t].id /\ name.next = loc[t].next
      /\ db.pc = "delDB" /\ db.id = loc[t].id
      /\ Idle.pc = "idle" /\ Idle.next = "idle"
  BY <1>1 DEF Local, Idle
<1>3. (loc[t].next = "delDB" => loc[t].pc = "delDB" \/ loc[t].pc \in SetPCs \cup {"save"})
      /\ (Dropping(loc[t]) => byID[loc[t].id] = None)
  BY DEF Durable, Relabelling
<1> HIDE DEF name, db
<1>4. CASE DelRemove(t)
  <2>1. /\ Goto(t, name) /\ byID' = [byID EXCEPT ![loc[t].id] = None] /\ disk' = disk
        /\ saving' = saving /\ loc[t].pc = "delRemove"
    BY <1>4 DEF DelRemove, diskVars, name
  <2>2. byID'[loc[t].id] = None /\ \A i \in Ids : byID'[i] \in {byID[i], None}
    BY <1>1, <2>1 DEF Inv, TypeOK
  <2>3. name.next # "delDB"
    BY <1>2, <1>3, <2>1 DEF SetPCs
  <2> QED
    BY <1>2, <2>1, <2>2, <2>3, DurableGoto
<1>5. CASE DelEntry(t)
  <2>1. /\ Goto(t, db) /\ byID' = byID /\ disk' = disk
        /\ saving' = saving /\ loc[t].pc = "delEntry"
    BY <1>5 DEF DelEntry, diskVars, db
  <2> QED
    BY <1>2, <1>3, <2>1, DurableGoto DEF Dropping
<1>6. CASE DelDB(t)
  <2>1. /\ Goto(t, Idle) /\ byID' = byID /\ disk' = disk \ {loc[t].id}
        /\ saving' = saving /\ loc[t].pc = "delDB"
    BY <1>6 DEF DelDB, RemoveFromDB, cacheVars
  <2>2. \A i \in Ids : byID'[i] # None /\ i \in disk => i \in disk'
    BY <1>3, <2>1 DEF Dropping
  <2> QED
    BY <1>2, <2>1, <2>2, DurableGoto DEF Dropping
<1> QED
  BY <1>4, <1>5, <1>6

\* The entry's new id is the owner of a file that is not the deleted torrent's.
LEMMA DurableDelName ==
  ASSUME Inv, Inv', Sequential, Durable, NEW t \in Threads, DelName(t) PROVE Durable'
<1> DEFINE o == byName[NameOf[heap[loc[t].obj].origin]]
           rest == Remaining(heap[o].files, loc[t].id)
           db == [loc[t] EXCEPT !.pc = "delDB", !.obj = None]
           entry == [loc[t] EXCEPT !.pc = "delEntry"]
           set == [loc[t] EXCEPT !.pc = "setLookup", !.obj = o, !.next = "delDB"]
<1>1. /\ loc[t] \in Local /\ loc[t].pc = "delName"
      /\ byID' = byID /\ disk' = disk /\ saving' = saving
  BY Zenon DEF DelName, Inv, TypeOK, cacheVars, diskVars
<1>2. loc[t].next # "delDB" /\ byID[loc[t].id] = None
  BY <1>1 DEF Durable, Relabelling, Dropping, SetPCs
<1>3. CASE Goto(t, db)
  <2>1. db.pc = "delDB" /\ db.id = loc[t].id
    BY <1>1 DEF Local
  <2> HIDE DEF db
  <2> QED
    BY <1>1, <1>2, <1>3, <2>1, DurableGoto
<1>4. CASE Goto(t, entry)
  <2>1. entry.pc = "delEntry" /\ entry.id = loc[t].id /\ entry.next = loc[t].next
    BY <1>1 DEF Local
  <2> HIDE DEF entry
  <2> QED
    BY <1>1, <1>2, <1>4, <2>1, DurableGoto
<1>5. ASSUME o # None, Goto(t, set), NEW newId \in Owners(rest),
             HeapBecomes([heap EXCEPT ![o].files = rest, ![o].id = newId])
      PROVE  Durable'
  <2> DEFINE h == [heap EXCEPT ![o].files = rest, ![o].id = newId]
  <2>1. set.pc = "setLookup" /\ set.obj = o /\ set.id = loc[t].id
    <3> HIDE DEF o
    <3> QED
      BY <1>1 DEF Local
  <2>2. o \in Live /\ o \in Objects /\ heap[o] \in Torrent
    <3>1. NameOf[heap[loc[t].obj].origin] \in Names
      BY <1>1, LiveMembers, ConstantsAssumption
         DEF Inv, TypeOK, LocalsOK, LiveOK, HoldsObj, Torrent
    <3> QED
      BY Zenon, <3>1, <1>5, LiveMembers, LiveObjects DEF Inv, LiveOK
  <2>3. newId # loc[t].id
    <3> HIDE DEF o
    <3> QED
      BY <1>5 DEF Owners, Remaining
  <2>4. h[o].id = newId
    <3> HIDE DEF rest, o
    <3> QED
      BY <2>2 DEF Inv, TypeOK, Torrent
  <2>5. Goto(t, set) /\ HeapBecomes(h)
    BY Zenon, <1>5
  <2> HIDE DEF set, h, rest, o
  <2>6. heap'[o] = h[o]
    BY <1>5, <2>1, <2>5, HeldLives, HeapIs
  <2>7. heap'[set.obj].id # set.id /\ set.pc \in SetPCs
    BY <2>1, <2>3, <2>4, <2>6 DEF SetPCs
  <2>8. byID'[set.id] = None
    BY <1>1, <1>2, <2>1
  <2> QED
    BY <1>1, <2>5, <2>7, <2>8, DurableGoto
<1> QED
  BY Zenon, <1>3, <1>4, <1>5 DEF DelName, NewIds

-----------------------------------------------------------------------------
LEMMA DurableNext ==
  ASSUME Inv, Inv', Sequential, Durable, [Next]_vars PROVE Durable'
<1>1. CASE Account \/ CallersStop \/ UNCHANGED vars
  BY <1>1, DurableSame DEF Account, DebridAdd, DebridRemove, CallersStop, vars
<1>2. ASSUME NEW t \in Threads, NEW i \in Ids, Call(t, i) PROVE Durable'
  BY Zenon, <1>2, DurableEnterSet, DurableBegin
     DEF Call, RefreshTorrent, AddTorrent, DeleteTorrent, DeleteTorrents
<1>3. ASSUME NEW t \in Threads, Continue(t) PROVE Durable'
  BY <1>3, DurableSet, DurableStore, DurableSave, DurableMove, DurableDelete, DurableDelName
     DEF Continue
<1>4. CASE Background
  <2>1. CASE RefreshList \/ RefreshCompare \/ RefreshDone
    BY <2>1, DurableSame DEF RefreshList, RefreshCompare, RefreshDone
  <2>2. CASE \E i \in Ids : ProcessSkip(i) \/ ValidateKeeps(i)
    BY <2>2, DurableSame DEF ProcessSkip, ValidateKeeps
  <2>3. ASSUME NEW t \in Threads, NEW i \in Ids, ProcessTorrent(t, i) PROVE Durable'
    BY <2>3, DurableEnterSet DEF ProcessTorrent
  <2>4. ASSUME NEW t \in Threads, NEW i \in Ids, ValidateDeletes(t, i) PROVE Durable'
    BY Zenon, <2>4, DurableBegin DEF ValidateDeletes
  <2> QED
    BY <1>4, <2>1, <2>2, <2>3, <2>4, DurableLands DEF Background
<1> QED
  BY <1>1, <1>2, <1>3, <1>4 DEF Next

\* Operations that come one at a time leave every cached torrent with its file
\* on disk or the write of it under way, also where a deletion relabels a
\* merged entry and sets it again, and where saveSemaphore is full.
THEOREM SequentialPersisted == Sequential => (Spec => []Persisted)
<1> SUFFICES ASSUME Sequential PROVE Spec => []Persisted
  OBVIOUS
<1>1. Durable => Persisted
  BY DEF Durable, Backed, Persisted, AtRest
<1>2. Inv /\ Inv' /\ Durable /\ [Next]_vars => Durable'
  BY DurableNext
<1> QED
  BY <1>1, <1>2, DurableInit, InvHolds, PTL DEF Spec

-----------------------------------------------------------------------------
(* What a folder serves comes from cached torrents                         *)

\* Torrents that are not named like their folder: deleteTorrent looks their
\* entry up under the wrong name.
Astray == {i \in Ids : NameOf[i] # FolderOf[i]}

\* The torrents of a folder are all named like it, or none is.
NamedAlike ==
    \A i, j \in Ids : FolderOf[i] = FolderOf[j] /\ i \notin Astray => j \notin Astray

Fine == CachedIds \cup Astray

\* A deletion that has left byID and not yet the entry.
Leaving(l) == l.pc \in {"delName", "delEntry"}

\* Control points at which the goroutine holds a struct it sets.
HandPCs == SetPCs \cup {"generate", "save"}

\* An entry's files are of cached torrents, or of the one just being deleted.
EntriesFine ==
    \A n \in Names : byName[n] # None =>
        \A j \in Owners(heap[byName[n]].files) :
            j \in Fine \/ \E t \in Threads : Leaving(loc[t]) /\ loc[t].id = j

\* So are those of a struct in hand, or its own; what it is merged with is an
\* entry, and the struct is none.
HandFine(l) ==
    /\ l.pc \in HandPCs => Owners(heap[l.obj].files) \subseteq Fine \cup {heap[l.obj].id}
    /\ l.pc = "setMerge" => /\ Owners(heap[l.old].files) \subseteq Fine
                            /\ \A n \in Names : byName[n] # l.obj

Current == EntriesFine /\ \A t \in Threads : HandFine(loc[t])

-----------------------------------------------------------------------------
LEMMA RemainingOwners ==
  ASSUME NEW x \in FileMap, NEW i \in Ids PROVE Owners(Remaining(x, i)) = Owners(x) \ {i}
BY DEF Remaining, Owners, FileMap

LEMMA FetchedOwners == ASSUME NEW i \in Ids PROVE Owners(Fetched(i).files) \subseteq {i}
BY DEF Fetched, Owners

LEMMA CurrentInit == Init => Current
BY DEF Init, Current, EntriesFine, HandFine, HandPCs, SetPCs, Idle

\* A step of the only goroutine: what its entries and its hands hold after it.
LEMMA CurrentGoto ==
  ASSUME Inv, Inv', Sequential, NEW t \in Threads, NEW l, Goto(t, l), NEW h, HeapBecomes(h),
         \A n \in Names : byName'[n] # None =>
             \A j \in Owners(h[byName'[n]].files) : j \in Fine' \/ (Leaving(l) /\ l.id = j),
         l.pc \in HandPCs => Owners(h[l.obj].files) \subseteq Fine' \cup {h[l.obj].id},
         l.pc = "setMerge" => /\ Owners(h[l.old].files) \subseteq Fine'
                              /\ \A n \in Names : byName'[n] # l.obj
  PROVE  Current'
<1>1. \A u \in Threads : loc'[u] = l
  BY OnlyOne
<1>2. \A o \in Live' : heap'[o] = h[o]
  BY HeapIs
<1>3. EntriesFine'
  <2>1. \A n \in Names : byName'[n] # None => heap'[byName'[n]] = h[byName'[n]]
    BY <1>2 DEF Live
  <2> QED
    BY <1>1, <2>1 DEF EntriesFine, Leaving
<1>4. \A u \in Threads : HandFine(loc[u])'
  <2> TAKE u \in Threads
  <2>1. loc'[u] = l
    BY <1>1
  <2>2. l.pc \in HandPCs => l.obj \in Live'
    BY <2>1 DEF Inv, LocalsOK, HoldsObj, HandPCs, SetPCs, Live
  <2>3. l.pc = "setMerge" => l.old \in Live'
    BY <2>1 DEF Inv, LocalsOK, Live
  <2> QED
    BY <1>2, <2>1, <2>2, <2>3 DEF HandFine
<1> QED
  BY <1>3, <1>4 DEF Current

LEMMA CurrentSame ==
  ASSUME Current, UNCHANGED <<heap, cacheVars, loc>> PROVE Current'
BY DEF Current, EntriesFine, HandFine, Fine, CachedIds, Leaving, cacheVars

\* Where nothing is being deleted, every entry is fine.
LEMMA EntriesAreFine ==
  ASSUME Inv, Sequential, Current, NEW t \in Threads, ~Leaving(loc[t])
  PROVE  \A n \in Names : byName[n] # None => Owners(heap[byName[n]].files) \subseteq Fine
<1>1. \A u \in Threads : ~Leaving(loc[u])
  BY DEF Sequential
<1> QED
  BY <1>1 DEF Current, EntriesFine

\* A step that changes neither structs nor maps, of a goroutine that deletes
\* nothing and comes to hold no other struct.
LEMMA CurrentMove ==
  ASSUME Inv, Inv', Sequential, Current, NEW t \in Threads, NEW l, Goto(t, l),
         HeapBecomes(heap), UNCHANGED cacheVars, ~Leaving(loc[t]), l.pc # "setMerge",
         l.pc \in HandPCs => loc[t].pc \in HandPCs /\ l.obj = loc[t].obj
  PROVE  Current'
<1>1. byName' = byName /\ Fine' = Fine
  BY DEF cacheVars, Fine, CachedIds
<1>2. HandFine(loc[t])
  BY DEF Current
<1> QED
  BY <1>1, <1>2, EntriesAreFine, CurrentGoto DEF HandFine

LEMMA CurrentEnterSet ==
  ASSUME Inv, Inv', Sequential, Current, NEW t \in Threads, NEW i \in Ids, NEW by, NEW next,
         loc[t] = Idle, EnterSet(t, i, by, next), UNCHANGED cacheVars
  PROVE  Current'
<1>1. PICK o \in Objects \ Live :
        /\ Goto(t, [Idle EXCEPT !.pc = "setLookup", !.id = i, !.obj = o,
                                !.by = by, !.next = next])
        /\ HeapBecomes([heap EXCEPT ![o] = Fetched(i)])
  BY Zenon DEF EnterSet
<1> DEFINE l == [Idle EXCEPT !.pc = "setLookup", !.id = i, !.obj = o, !.by = by, !.next = next]
           h == [heap EXCEPT ![o] = Fetched(i)]
<1>2. l.pc = "setLookup" /\ l.obj = o
  BY DEF Idle
<1>3. Goto(t, l) /\ HeapBecomes(h) /\ ~Leaving(loc[t])
  BY <1>1 DEF Leaving, Idle
<1>4. h[o] = Fetched(i) /\ \A x \in Live : h[x] = heap[x]
  BY LiveObjects DEF Inv, TypeOK
<1> HIDE DEF l, h
<1>5. byName' = byName /\ Fine' = Fine
  BY DEF cacheVars, Fine, CachedIds
<1>6. \A n \in Names : byName[n] # None => Owners(h[byName[n]].files) \subseteq Fine
  BY <1>3, <1>4, EntriesAreFine, LiveMembers
<1>7. Owners(h[o].files) \subseteq {h[o].id}
  BY <1>4, FetchedOwners DEF Fetched
<1> QED
  BY <1>2, <1>3, <1>5, <1>6, <1>7, CurrentGoto

\* The struct in hand is not the entry it is about to be merged with, so it is
\* under no folder.
LEMMA CurrentLookup ==
  ASSUME Inv, Inv', Sequential, Folders, ~FolderById, Current, NEW t \in Threads, SetLookup(t)
  PROVE  Current'
<1> DEFINE obj == loc[t].obj
           o == byName[GetTorrentFolder(heap[obj])]
           merge == [loc[t] EXCEPT !.pc = "setMerge", !.old = o]
           store == [loc[t] EXCEPT !.pc = "setStore"]
<1>1. /\ loc[t] \in Local /\ loc[t].pc = "setLookup" /\ HeapBecomes(heap)
      /\ obj # None /\ obj \in Live /\ heap[obj] \in Torrent
  BY LiveMembers DEF SetLookup, Inv, TypeOK, LocalsOK, LiveOK, HoldsObj
<1>2. GetTorrentFolder(heap[obj]) = Folder(obj) /\ Folder(obj) \in Names
  BY <1>1, ConstantsAssumption DEF GetTorrentFolder, Folder, Torrent
<1>3. byName' = byName /\ Fine' = Fine /\ ~Leaving(loc[t]) /\ HandFine(loc[t])
  BY <1>1 DEF SetLookup, cacheVars, Fine, CachedIds, Leaving, Current
<1>4. Owners(heap[obj].files) \subseteq Fine \cup {heap[obj].id}
  BY <1>1, <1>3 DEF HandFine, HandPCs, SetPCs
<1>5. \A n \in Names : byName[n] # None => Owners(heap[byName[n]].files) \subseteq Fine
  BY <1>3, EntriesAreFine
<1>6. CASE Goto(t, merge) /\ o # None /\ heap[o].id # heap[obj].id
  <2>1. merge.pc = "setMerge" /\ merge.obj = obj /\ merge.old = o
    BY <1>1 DEF Local
  <2>2. \A n \in Names : byName[n] # obj
    BY <1>1, <1>2, <1>6 DEF Folders
  <2>3. Owners(heap[o].files) \subseteq Fine
    BY <1>2, <1>5, <1>6
  <2>4. Goto(t, merge)
    BY <1>6
  <2> HIDE DEF merge, o, obj
  <2> QED
    BY <1>1, <1>3, <1>4, <1>5, <2>1, <2>2, <2>3, <2>4, CurrentGoto
<1>7. CASE Goto(t, store)
  <2>1. store.pc = "setStore" /\ store.obj = obj
    BY <1>1 DEF Local
  <2> HIDE DEF store
  <2> QED
    BY <1>1, <1>3, <1>7, <2>1, CurrentMove DEF SetLookup, HandPCs, SetPCs
<1> QED
  BY <1>6, <1>7 DEF SetLookup

LEMMA CurrentMerge ==
  ASSUME Inv, Inv', Sequential, Current, NEW t \in Threads, SetMerge(t) PROVE Current'
<1> DEFINE obj == loc[t].obj
           merged == mergeFiles(heap[loc[t].old], heap[obj])
           l == [loc[t] EXCEPT !.pc = "setStore", !.old = None]
           h == [heap EXCEPT ![obj].files = merged]
<1>1. /\ loc[t] \in Local /\ loc[t].pc = "setMerge" /\ HeapBecomes(h) /\ Goto(t, l)
      /\ obj # None /\ obj \in Live /\ heap[obj] \in Torrent
      /\ heap[loc[t].old] \in Torrent
  BY LiveMembers DEF SetMerge, Inv, TypeOK, LocalsOK, LiveOK, HoldsObj
<1>2. l.pc = "setStore" /\ l.obj = obj
  BY <1>1 DEF Local
<1>3. byName' = byName /\ Fine' = Fine /\ ~Leaving(loc[t]) /\ HandFine(loc[t])
  BY <1>1 DEF SetMerge, cacheVars, Fine, CachedIds, Leaving, Current
<1>4. Owners(merged) \subseteq Fine \cup {heap[obj].id}
  <2>1. /\ Owners(heap[obj].files) \subseteq Fine \cup {heap[obj].id}
        /\ Owners(heap[loc[t].old].files) \subseteq Fine
    BY <1>1, <1>3 DEF HandFine, HandPCs, SetPCs
  <2> QED
    BY <1>1, <2>1, MergeMentions
<1>5. \A n \in Names : byName[n] # obj
  BY <1>1, <1>3 DEF HandFine
<1>6. h[obj].files = merged /\ h[obj].id = heap[obj].id /\ \A x \in Live \ {obj} : h[x] = heap[x]
  <2> HIDE DEF merged
  <2> QED
    BY <1>1, LiveObjects DEF Inv, TypeOK, Torrent
<1> HIDE DEF l, h, merged, obj
<1>7. \A n \in Names : byName[n] # None => Owners(h[byName[n]].files) \subseteq Fine
  BY <1>3, <1>5, <1>6, EntriesAreFine, LiveMembers
<1> QED
  BY <1>1, <1>2, <1>3, <1>4, <1>6, <1>7, CurrentGoto

\* The struct's own id is cached with it.
LEMMA CurrentStore ==
  ASSUME Inv, Inv', Sequential, Current, NEW t \in Threads, SetStore(t) PROVE Current'
<1> DEFINE obj == loc[t].obj
           n == GetTorrentFolder(heap[obj])
           l == [loc[t] EXCEPT !.pc = "save"]
<1>1. /\ loc[t] \in Local /\ loc[t].pc = "setStore" /\ HeapBecomes(heap) /\ Goto(t, l)
      /\ obj # None /\ obj \in Live /\ heap[obj] \in Torrent /\ heap[obj].id \in Ids
      /\ byID' = [byID EXCEPT ![heap[obj].id] = obj] /\ byName' = [byName EXCEPT ![n] = obj]
  BY LiveMembers DEF SetStore, Inv, TypeOK, LocalsOK, LiveOK, HoldsObj, Torrent
<1>2. l.pc = "save" /\ l.obj = obj
  BY <1>1 DEF Local
<1>3. ~Leaving(loc[t]) /\ HandFine(loc[t])
  BY <1>1 DEF Leaving, Current
<1>4. Owners(heap[obj].files) \subseteq Fine \cup {heap[obj].id}
  BY <1>1, <1>3 DEF HandFine, HandPCs, SetPCs
<1>5. Fine \cup {heap[obj].id} \subseteq Fine'
  BY <1>1 DEF Fine, CachedIds, Inv, TypeOK
<1>6. \A m \in Names : byName'[m] \in {byName[m], obj}
  BY <1>1 DEF Inv, TypeOK
<1> HIDE DEF l, obj, n
<1>7. \A m \in Names : byName'[m] # None => Owners(heap[byName'[m]].files) \subseteq Fine'
  BY <1>3, <1>4, <1>5, <1>6, EntriesAreFine
<1> QED
  BY <1>1, <1>2, <1>4, <1>5, <1>7, CurrentGoto

\* Saving and what follows it, the mutex, and the two ends of a deletion.
LEMMA CurrentGoOn ==
  ASSUME Inv, Inv', Sequential, Current, NEW t \in Threads,
         Save(t) \/ GenerateDownloadLinks(t) \/ DelGet(t) \/ DelDB(t)
  PROVE  Current'
<1> DEFINE gen == [loc[t] EXCEPT !.pc = "generate", !.next = "idle"]
           db == [loc[t] EXCEPT !.pc = "delDB", !.obj = None]
           set == [loc[t] EXCEPT !.pc = "setLookup"]
           remove == [loc[t] EXCEPT !.pc = "delRemove", !.obj = byID[loc[t].id]]
<1>1. /\ loc[t] \in Local /\ loc[t].pc \in {"save", "generate", "delGet", "delDB"}
      /\ HeapBecomes(heap) /\ UNCHANGED cacheVars
  BY DEF Save, GenerateDownloadLinks, DelGet, DelDB, Inv, TypeOK
<1>2. /\ gen.pc = "generate" /\ gen.obj = loc[t].obj
      /\ set.pc = "setLookup" /\ set.obj = loc[t].obj
      /\ db.pc = "delDB" /\ remove.pc = "delRemove" /\ Idle.pc = "idle"
  BY <1>1 DEF Local, Idle
<1>3. \/ loc[t].pc \in {"save", "generate"} /\ (Goto(t, gen) \/ Goto(t, set))
      \/ Goto(t, Idle) \/ Goto(t, db) \/ Goto(t, remove)
  BY <1>1 DEF Save, GenerateDownloadLinks, DelGet, DelDB, Local
<1> HIDE DEF gen, db, set, remove
<1>4. PICK l : /\ Goto(t, l) /\ l.pc # "setMerge"
               /\ l.pc \in HandPCs => loc[t].pc \in HandPCs /\ l.obj = loc[t].obj
  BY <1>2, <1>3 DEF HandPCs, SetPCs
<1>5. ~Leaving(loc[t])
  BY <1>1 DEF Leaving
<1> QED
  BY <1>1, <1>4, <1>5, CurrentMove

\* A step that touches neither structs nor maps and holds nothing.
LEMMA CurrentBegin ==
  ASSUME Inv, Sequential, Current, NEW t \in Threads, NEW l, Goto(t, l),
         ~Leaving(loc[t]), l.pc \in {"lock", "delGet"}, heap' = heap, UNCHANGED cacheVars
  PROVE  Current'
<1>1. \A u \in Threads : loc'[u] = l /\ loc[u] = loc[t]
  BY OnlyOne
<1>2. byName' = byName /\ Fine' = Fine
  BY DEF cacheVars, Fine, CachedIds
<1>3. EntriesFine'
  BY <1>1, <1>2 DEF Current, EntriesFine
<1> QED
  BY <1>1, <1>3 DEF Current, HandFine, HandPCs, SetPCs

-----------------------------------------------------------------------------
\* A torrent that is not astray is served under the name its deletion looks up.
LEMMA ServedWhereDeleted ==
  ASSUME Inv, Folders, NamedAlike, NEW t \in Threads, loc[t].pc \in DelPCs,
         NEW n \in Names, byName[n] # None, loc[t].id \in Owners(heap[byName[n]].files),
         loc[t].id \notin Astray
  PROVE  n = NameOf[heap[loc[t].obj].origin]
<1>1. byName[n] \in Live /\ loc[t].obj \in Live /\ loc[t].id \in Ids /\ heap[loc[t].obj] \in Torrent
  BY LiveMembers DEF Inv, TypeOK, LocalsOK, LiveOK, HoldsObj, DelPCs, Local
<1>2. FolderOf[loc[t].id] = n
  BY <1>1 DEF Folders, Folder, Pure, Owners
<1>3. FolderOf[heap[loc[t].obj].origin] = n /\ heap[loc[t].obj].origin \in Ids
  BY <1>1, <1>2 DEF Folders, Folder, Torrent
<1> QED
  BY <1>1, <1>2, <1>3 DEF NamedAlike, Astray

LEMMA CurrentRemove ==
  ASSUME Inv, Inv', Sequential, Current, NEW t \in Threads, DelRemove(t) PROVE Current'
<1> DEFINE l == [loc[t] EXCEPT !.pc = "delName"]
<1>1. /\ loc[t] \in Local /\ loc[t].pc = "delRemove" /\ HeapBecomes(heap) /\ Goto(t, l)
      /\ byID' = [byID EXCEPT ![loc[t].id] = None] /\ byName' = byName
  BY DEF DelRemove, Inv, TypeOK
<1>2. l.pc = "delName" /\ l.id = loc[t].id
  BY <1>1 DEF Local
<1>3. Fine \subseteq Fine' \cup {loc[t].id}
  BY <1>1 DEF Fine, CachedIds, Inv, TypeOK
<1>4. ~Leaving(loc[t]) /\ Leaving(l)
  BY <1>1, <1>2 DEF Leaving
<1> HIDE DEF l
<1>5. l.pc # "setMerge" /\ l.pc \notin HandPCs
  BY <1>2 DEF HandPCs, SetPCs
<1> QED
  BY <1>1, <1>2, <1>3, <1>4, <1>5, EntriesAreFine, CurrentGoto

\* Whichever way the entry goes, what is left of it is fine.
LEMMA CurrentDelName ==
  ASSUME Inv, Inv', Sequential, Folders, NamedAlike, Current, NEW t \in Threads, DelName(t)
  PROVE  Current'
<1> DEFINE name == NameOf[heap[loc[t].obj].origin]
           o == byName[name]
           rest == Remaining(heap[o].files, loc[t].id)
           db == [loc[t] EXCEPT !.pc = "delDB", !.obj = None]
           entry == [loc[t] EXCEPT !.pc = "delEntry"]
           set == [loc[t] EXCEPT !.pc = "setLookup", !.obj = o, !.next = "delDB"]
<1>1. /\ loc[t] \in Local /\ loc[t].pc = "delName" /\ loc[t].id \in Ids
      /\ byName' = byName /\ Fine' = Fine
      /\ loc[t].obj # None /\ heap[loc[t].obj] \in Torrent /\ name \in Names
  BY Zenon, LiveMembers, ConstantsAssumption
     DEF DelName, Inv, TypeOK, LocalsOK, LiveOK, HoldsObj, Local, Torrent,
         cacheVars, Fine, CachedIds
<1>2. \A n \in Names : byName[n] # None =>
          \A j \in Owners(heap[byName[n]].files) : j \in Fine \/ j = loc[t].id
  BY DEF Current, EntriesFine, Sequential
<1>3. \A n \in Names \ {name} : byName[n] # None => Owners(heap[byName[n]].files) \subseteq Fine
  <2> TAKE n \in Names \ {name}
  <2> HAVE byName[n] # None
  <2>1. loc[t].id \in Owners(heap[byName[n]].files) => loc[t].id \in Astray
    BY <1>1, ServedWhereDeleted DEF DelPCs
  <2> QED
    BY <1>2, <2>1 DEF Fine
<1>4. CASE o = None /\ Goto(t, db) /\ HeapBecomes(heap)
  <2>1. db.pc = "delDB"
    BY <1>1 DEF Local
  <2>2. \A n \in Names : byName[n] # None => Owners(heap[byName[n]].files) \subseteq Fine
    BY <1>3, <1>4
  <2>3. Goto(t, db) /\ HeapBecomes(heap)
    BY <1>4
  <2> HIDE DEF db, o, name
  <2>4. db.pc # "setMerge" /\ db.pc \notin HandPCs
    BY <2>1 DEF HandPCs, SetPCs
  <2> QED
    BY <1>1, <2>2, <2>3, <2>4, CurrentGoto
<1>5. CASE Goto(t, entry) /\ HeapBecomes(heap)
  <2>1. entry.pc = "delEntry" /\ entry.id = loc[t].id
    BY <1>1 DEF Local
  <2>2. Goto(t, entry) /\ HeapBecomes(heap)
    BY <1>5
  <2> HIDE DEF entry, o, name
  <2>3. entry.pc # "setMerge" /\ entry.pc \notin HandPCs /\ Leaving(entry)
    BY <2>1 DEF HandPCs, SetPCs, Leaving
  <2> QED
    BY <1>1, <1>2, <2>1, <2>2, <2>3, CurrentGoto
<1>6. ASSUME o # None, Goto(t, set), NEW newId \in Owners(rest),
             HeapBecomes([heap EXCEPT ![o].files = rest, ![o].id = newId])
      PROVE  Current'
  <2> DEFINE h == [heap EXCEPT ![o].files = rest, ![o].id = newId]
  <2>1. set.pc = "setLookup" /\ set.obj = o
    <3> HIDE DEF o
    <3> QED
      BY <1>1 DEF Local
  <2>2. o \in Live /\ o \in Objects /\ heap[o] \in Torrent
    BY Zenon, <1>1, <1>6, LiveMembers, LiveObjects DEF Inv, LiveOK
  <2>3. h[o].files = rest /\ \A x \in Live \ {o} : h[x] = heap[x]
    <3> HIDE DEF rest, o
    <3> QED
      BY <2>2, LiveObjects DEF Inv, TypeOK, Torrent
  <2>4. Owners(rest) \subseteq Fine
    <3>1. Owners(rest) = Owners(heap[o].files) \ {loc[t].id}
      <4> HIDE DEF o
      <4> QED
        BY <1>1, <2>2, RemainingOwners DEF Torrent
    <3> QED
      BY Zenon, <1>1, <1>2, <1>6, <3>1
  <2>5. \A n \in Names \ {name} : byName[n] # o
    BY Zenon, <1>1, <1>6 DEF Folders
  <2>6. Goto(t, set) /\ HeapBecomes(h)
    BY Zenon, <1>6
  <2>7. \A n \in Names : byName[n] # None => Owners(h[byName[n]].files) \subseteq Fine
    <3> HIDE DEF h, rest
    <3> TAKE n \in Names
    <3>1. CASE n = name
      BY <2>3, <2>4, <3>1
    <3>2. CASE n # name
      BY <1>3, <2>3, <2>5, <3>2, LiveMembers
    <3> QED
      BY <3>1, <3>2
  <2> HIDE DEF set, h, rest, o, name
  <2> QED
    BY <1>1, <2>1, <2>3, <2>4, <2>6, <2>7, CurrentGoto
<1> QED
  BY Zenon, <1>4, <1>5, <1>6 DEF DelName, NewIds

LEMMA CurrentDelEntry ==
  ASSUME Inv, Inv', Sequential, Folders, NamedAlike, Current, NEW t \in Threads, DelEntry(t)
  PROVE  Current'
<1> DEFINE name == NameOf[heap[loc[t].obj].origin]
           db == [loc[t] EXCEPT !.pc = "delDB", !.obj = None]
<1>1. /\ loc[t] \in Local /\ loc[t].pc = "delEntry" /\ Goto(t, db) /\ HeapBecomes(heap)
      /\ byName' = [byName EXCEPT ![name] = None] /\ Fine' = Fine
  BY DEF DelEntry, Inv, TypeOK, Fine, CachedIds
<1>2. db.pc = "delDB"
  BY <1>1 DEF Local
<1>3. \A n \in Names : byName'[n] # None => n # name /\ byName'[n] = byName[n]
  BY <1>1 DEF Inv, TypeOK
<1>4. \A n \in Names : byName'[n] # None => Owners(heap[byName'[n]].files) \subseteq Fine
  <2> TAKE n \in Names
  <2> HAVE byName'[n] # None
  <2>1. \A j \in Owners(heap[byName[n]].files) : j \in Fine \/ j = loc[t].id
    BY <1>3 DEF Current, EntriesFine, Sequential
  <2>2. loc[t].id \in Owners(heap[byName[n]].files) => loc[t].id \in Astray
    BY <1>1, <1>3, ServedWhereDeleted DEF DelPCs
  <2> QED
    BY <1>3, <2>1, <2>2 DEF Fine
<1> HIDE DEF db, name
<1>5. db.pc # "setMerge" /\ db.pc \notin HandPCs
  BY <1>2 DEF HandPCs, SetPCs
<1> QED
  BY <1>1, <1>4, <1>5, CurrentGoto

-----------------------------------------------------------------------------
LEMMA CurrentStart ==
  ASSUME Inv, Sequential, Current, NEW t \in Threads, NEW i, NEW pc \in {"lock", "delGet"}, NEW by,
         loc[t] = Idle, Goto(t, [Idle EXCEPT !.pc = pc, !.id = i, !.by = by]),
         heap' = heap, UNCHANGED cacheVars
  PROVE  Current'
<1> DEFINE l == [Idle EXCEPT !.pc = pc, !.id = i, !.by = by]
<1>1. l.pc = pc /\ Goto(t, l) /\ ~Leaving(loc[t])
  BY DEF Idle, Leaving
<1> HIDE DEF l
<1> QED
  BY <1>1, CurrentBegin

LEMMA CurrentContinue ==
  ASSUME Inv, Inv', Sequential, Folders, ~FolderById, NamedAlike, Current,
         NEW t \in Threads, Continue(t)
  PROVE  Current'
<1>1. CASE Lock(t)
  <2> DEFINE l == [loc[t] EXCEPT !.pc = "delGet"]
  <2>1. /\ loc[t] \in Local /\ Goto(t, l) /\ heap' = heap /\ UNCHANGED cacheVars
        /\ ~Leaving(loc[t])
    BY <1>1 DEF Lock, Inv, TypeOK, Leaving
  <2>2. l.pc = "delGet"
    BY <2>1 DEF Local
  <2> HIDE DEF l
  <2> QED
    BY <2>1, <2>2, CurrentBegin
<1> QED
  BY <1>1, CurrentLookup, CurrentMerge, CurrentStore, CurrentGoOn, CurrentRemove,
     CurrentDelName, CurrentDelEntry DEF Continue

LEMMA CurrentNext ==
  ASSUME Inv, Inv', Sequential, Folders, ~FolderById, NamedAlike, Current, [Next]_vars
  PROVE  Current'
<1>1. CASE Account \/ CallersStop \/ UNCHANGED vars
  BY <1>1, CurrentSame DEF Account, DebridAdd, DebridRemove, CallersStop, vars
<1>2. ASSUME NEW t \in Threads, NEW i \in Ids, Call(t, i) PROVE Current'
  BY Zenon, <1>2, CurrentEnterSet, CurrentStart
     DEF Call, RefreshTorrent, AddTorrent, DeleteTorrent, DeleteTorrents
<1>3. CASE Background
  <2>1. CASE RefreshList \/ RefreshCompare \/ RefreshDone \/ \E s \in Slots : SaveLands(s)
    BY <2>1, CurrentSame DEF RefreshList, RefreshCompare, RefreshDone, SaveLands
  <2>2. CASE \E i \in Ids : ProcessSkip(i) \/ ValidateKeeps(i)
    BY <2>2, CurrentSame DEF ProcessSkip, ValidateKeeps
  <2>3. ASSUME NEW t \in Threads, NEW i \in Ids, ProcessTorrent(t, i) PROVE Current'
    BY <2>3, CurrentEnterSet DEF ProcessTorrent
  <2>4. ASSUME NEW t \in Threads, NEW i \in Ids, ValidateDeletes(t, i) PROVE Current'
    BY Zenon, <2>4, CurrentStart DEF ValidateDeletes
  <2> QED
    BY <1>3, <2>1, <2>2, <2>3, <2>4 DEF Background
<1> QED
  BY <1>1, <1>2, <1>3, CurrentContinue DEF Next

\* Where folders are not named by id, and the torrents of one are all named
\* like it or none is, operations that come one at a time leave nothing of a
\* deleted torrent in any folder, except of those deleteTorrent looks for under
\* the wrong name.
THEOREM SequentialViewCurrent ==
  Sequential /\ ~FolderById /\ NamedAlike => (Spec => []ViewCurrent)
<1> SUFFICES ASSUME Sequential, ~FolderById, NamedAlike PROVE Spec => []ViewCurrent
  OBVIOUS
<1>1. Inv /\ Current => ViewCurrent
  <2> SUFFICES ASSUME Inv, Current, AtRest, NEW n \in Names, NEW f \in FileNames
               PROVE  Served(n, f) \in CachedIds \cup {None} \cup Astray
    BY DEF ViewCurrent, Astray
  <2>1. CASE byName[n] = None
    BY <2>1 DEF Served
  <2>2. CASE byName[n] # None
    <3>1. Owners(heap[byName[n]].files) \subseteq Fine
      BY <2>2 DEF Current, EntriesFine, AtRest, Leaving
    <3> QED
      BY <2>2, <3>1 DEF Served, Owners, Fine
  <2> QED
    BY <2>1, <2>2
<1>2. Inv /\ Inv' /\ Folders /\ Current /\ [Next]_vars => Current'
  BY CurrentNext
<1>3. Inv /\ Inv' /\ Folders /\ [Next]_vars => Folders'
  BY FoldersNext
<1> QED
  BY <1>1, <1>2, <1>3, CurrentInit, FoldersInit, InvHolds, PTL DEF Spec

-----------------------------------------------------------------------------
(* A folder serves all of its cached torrents                              *)

\* Callers only delete: refreshTorrent and AddTorrent set a fresh struct over a
\* merged entry of the same id, and the other torrents' files go with it.
OnlyDeletes == Ops \subseteq {"DeleteTorrent", "DeleteTorrents"}

\* No two torrents of a folder have a file of the same name.
FilesApart ==
    \A i, j \in Ids : i # j /\ FolderOf[i] = FolderOf[j] => FilesOf[i] \cap FilesOf[j] = {}

\* A torrent that is not named like its folder has it for itself.
AstrayAlone == \A i \in Astray, j \in Ids : FolderOf[j] = FolderOf[i] => j = i

\* A torrent's struct has all files of every torrent it has a file of ...
Whole(torrent) ==
    \A f \in FileNames : torrent.files[f] # None =>
        \A g \in FilesOf[torrent.files[f]] : torrent.files[g] = torrent.files[f]

\* ... and those of its own id.
Full(torrent) == \A f \in FilesOf[torrent.id] : torrent.files[f] = torrent.id

\* The folder's cached torrents find their files in it.
Covers(torrent, cached) ==
    \A j \in cached : FolderOf[j] = FolderOf[torrent.origin] =>
        \A f \in FilesOf[j] : torrent.files[f] # None

\* The cached torrents find theirs under their folder.
Kept(h, names, cached) ==
    \A i \in cached : \A f \in FilesOf[i] :
        names[FolderOf[i]] # None /\ h[names[FolderOf[i]]].files[f] # None

\* An entry goes by the id of a cached torrent, or of the one being deleted.
EntryIds(h, names, cached, leaving) ==
    \A n \in Names : names[n] # None => h[names[n]].id \in cached \cup Astray \cup leaving

\* What the goroutine is about to store: an entry that a deletion relabelled, or
\* a torrent that the refresh found new.
InHand(l, h, names, cached, new) ==
    LET torrent == h[l.obj] IN
    /\ l.pc # "generate" /\ l.next # "generate"
    /\ l.pc \in SetPCs => Full(torrent)
    /\ l.pc \in SetPCs /\ l.next = "delDB" =>
          names[FolderOf[torrent.origin]] = l.obj /\ torrent.id \in cached \cup Astray
    /\ l.pc \in SetPCs /\ l.next # "delDB" =>
          /\ l.by = "refresh" /\ torrent.id \notin new
          /\ torrent.id \in cached => torrent.id \in Astray
    /\ l.pc = "setMerge" => l.old = names[FolderOf[torrent.origin]]
    /\ l.pc = "setStore" => Covers(torrent, cached)
    /\ l.pc = "delEntry" =>
          LET o == names[NameOf[torrent.origin]]
          IN  o # None => Owners(Remaining(h[o].files, l.id)) = {}

Gone(l) == IF Leaving(l) THEN {l.id} ELSE {}

Complete ==
    /\ \A o \in Live : Whole(heap[o])
    /\ Kept(heap, byName, CachedIds)
    /\ newTorrents \cap CachedIds \subseteq Astray
    /\ EntryIds(heap, byName, CachedIds, UNION {Gone(loc[t]) : t \in Threads})
    /\ \A t \in Threads : InHand(loc[t], heap, byName, CachedIds, newTorrents)

-----------------------------------------------------------------------------
LEMMA AloneIsAlike == AstrayAlone => NamedAlike
BY DEF AstrayAlone, NamedAlike

\* A file of a torrent's folder that has its name is the torrent's.
LEMMA OwnFile ==
  ASSUME FilesApart, NEW x \in Torrent, Pure(x), NEW i \in Ids, FolderOf[i] = FolderOf[x.origin],
         NEW f \in FilesOf[i], x.files[f] # None
  PROVE  x.files[f] = i
<1>1. f \in FileNames /\ x.files[f] \in Ids
  BY ConstantsAssumption DEF Torrent, FileMap
<1> QED
  BY <1>1 DEF Pure, FilesApart

LEMMA FetchedWhole == ASSUME NEW i \in Ids PROVE Whole(Fetched(i)) /\ Full(Fetched(i))
<1>1. FilesOf[i] \subseteq FileNames
  BY ConstantsAssumption
<1> QED
  BY <1>1 DEF Whole, Full, Fetched

\* Merging loses no file of either.
LEMMA MergeKeeps ==
  ASSUME NEW x \in Torrent, NEW y \in Torrent, NEW f \in FileNames,
         x.files[f] # None \/ y.files[f] # None
  PROVE  mergeFiles(x, y)[f] # None
BY DEF mergeFiles, Overlay, Torrent, FileMap

LEMMA MergeWhole ==
  ASSUME FilesApart, NEW x \in Torrent, NEW y \in Torrent, Pure(x), Pure(y), Whole(x), Whole(y),
         FolderOf[x.origin] = FolderOf[y.origin], NEW f \in FileNames,
         mergeFiles(x, y)[f] # None, NEW g \in FilesOf[mergeFiles(x, y)[f]]
  PROVE  mergeFiles(x, y)[g] = mergeFiles(x, y)[f]
<1> DEFINE m == mergeFiles(x, y)
<1>1. m \in FileMap
  BY MergeType
<1>2. m[f] = x.files[f] \/ m[f] = y.files[f]
  BY DEF mergeFiles, Overlay, Torrent, FileMap
<1>3. \A e \in FileNames : m[e] # None =>
          FolderOf[m[e]] = FolderOf[y.origin] /\ e \in FilesOf[m[e]]
  BY MergePure
<1>4. m[f] \in Ids /\ m[f] # None /\ g \in FilesOf[m[f]] /\ g \in FileNames
  BY <1>1, ConstantsAssumption DEF FileMap
<1>5. x.files[g] = m[f] \/ y.files[g] = m[f]
  <2> HIDE DEF m
  <2> QED
    BY <1>2, <1>4 DEF Whole
<1>6. m[g] # None
  BY <1>4, <1>5, MergeKeeps, ConstantsAssumption
<1>7. m[g] \in Ids
  BY <1>1, <1>4, <1>6 DEF FileMap
<1> HIDE DEF m
<1>8. m[g] = m[f]
  <2>1. g \in FilesOf[m[g]] /\ FolderOf[m[g]] = FolderOf[m[f]]
    BY <1>3, <1>4, <1>6
  <2> QED
    BY <1>4, <1>7, <2>1 DEF FilesApart
<1> QED
  BY <1>8 DEF m

LEMMA CompleteInit == Init => Complete
BY ConstantsAssumption
   DEF Init, Complete, Live, Idle, Kept, EntryIds, InHand, CachedIds, SetPCs, Gone, Leaving

\* A step of the only goroutine: what holds for the heap it leaves holds after it.
LEMMA CompleteGoto ==
  ASSUME Inv, Inv', Sequential, NEW t \in Threads, NEW l, Goto(t, l), NEW h, HeapBecomes(h),
         \A o \in Live' : Whole(h[o]),
         Kept(h, byName', CachedIds'),
         newTorrents' \cap CachedIds' \subseteq Astray,
         EntryIds(h, byName', CachedIds', Gone(l)),
         InHand(l, h, byName', CachedIds', newTorrents')
  PROVE  Complete'
<1>1. \A u \in Threads : loc'[u] = l
  BY OnlyOne
<1>2. \A o \in Live' : heap'[o] = h[o]
  BY HeapIs
<1>3. \A n \in Names : byName'[n] # None => heap'[byName'[n]] = h[byName'[n]]
  BY <1>2 DEF Live
<1>4. \A o \in Live' : Whole(heap'[o])
  BY <1>2
<1>5. Kept(heap', byName', CachedIds')
  <2>1. \A i \in CachedIds' : FolderOf[i] \in Names
    BY ConstantsAssumption DEF CachedIds
  <2> QED
    BY <1>3, <2>1 DEF Kept
<1>6. EntryIds(heap', byName', CachedIds', UNION {Gone(loc'[u]) : u \in Threads})
  <2>1. Gone(l) \subseteq UNION {Gone(loc'[u]) : u \in Threads}
    BY <1>1
  <2> QED
    BY <1>3, <2>1 DEF EntryIds
<1>7. \A u \in Threads : InHand(loc'[u], heap', byName', CachedIds', newTorrents')
  <2> SUFFICES InHand(l, heap', byName', CachedIds', newTorrents')
    BY <1>1
  <2>1. l.pc \in SetPCs \cup {"delEntry"} => l.obj \in Live' /\ heap'[l.obj] \in Torrent
    BY <1>1 DEF Inv, LocalsOK, LiveOK, HoldsObj, SetPCs, Live
  <2>2. l.pc \in SetPCs \cup {"delEntry"} => heap'[l.obj] = h[l.obj]
    BY <1>2, <2>1
  <2>3. l.pc = "delEntry" => NameOf[h[l.obj].origin] \in Names
    BY <2>1, <2>2, ConstantsAssumption DEF Torrent
  <2> QED
    BY <1>3, <2>2, <2>3 DEF InHand, SetPCs
<1> QED
  BY <1>4, <1>5, <1>6, <1>7 DEF Complete, Whole

\* A step that touches neither structs, maps nor goroutines, and finds new what
\* is not cached.
LEMMA CompleteSame ==
  ASSUME Complete, UNCHANGED <<heap, cacheVars, loc>>, newTorrents' \subseteq newTorrents
  PROVE  Complete'
<1>1. /\ heap' = heap /\ byID' = byID /\ byName' = byName /\ loc' = loc
      /\ Live' = Live /\ CachedIds' = CachedIds
  BY DEF cacheVars, Live, CachedIds
<1>2. \A t \in Threads : InHand(loc[t], heap, byName, CachedIds, newTorrents')
  BY Zenon DEF Complete, InHand
<1> QED
  BY <1>1, <1>2 DEF Complete, Whole

\* A step that keeps structs and maps.
LEMMA CompleteMove ==
  ASSUME Inv, Inv', Sequential, Complete, NEW t \in Threads, NEW l, Goto(t, l),
         HeapBecomes(heap), Live' \subseteq Live, UNCHANGED cacheVars,
         newTorrents' \subseteq newTorrents,
         \A n \in Names : byName[n] # None =>
             heap[byName[n]].id \in CachedIds \cup Astray \cup Gone(l),
         InHand(l, heap, byName, CachedIds, newTorrents')
  PROVE  Complete'
<1>1. byName' = byName /\ CachedIds' = CachedIds
  BY DEF cacheVars, CachedIds
<1>2. EntryIds(heap, byName', CachedIds', Gone(l))
  BY <1>1 DEF EntryIds
<1> QED
  BY Zenon, <1>1, <1>2, CompleteGoto DEF Complete

\* Where nothing is being deleted, entries go by ids of cached torrents.
LEMMA EntryIdsFine ==
  ASSUME Sequential, Complete, NEW t \in Threads, ~Leaving(loc[t])
  PROVE  \A n \in Names : byName[n] # None => heap[byName[n]].id \in CachedIds \cup Astray
<1>1. UNION {Gone(loc[u]) : u \in Threads} = {}
  BY DEF Sequential, Gone
<1> QED
  BY <1>1 DEF Complete, EntryIds

\* What is live after a step that keeps the maps, by the locals it goes on with.
LEMMA LiveShrinks ==
  ASSUME Inv, NEW t \in Threads, NEW l, Goto(t, l), UNCHANGED cacheVars,
         {l.obj, l.old} \ {None} \subseteq Live
  PROVE  Live' \subseteq Live
BY LiveGoto DEF Inv

-----------------------------------------------------------------------------
(* setTorrent                                                              *)

LEMMA CompleteProcess ==
  ASSUME Inv, Inv', Sequential, Complete, NEW t \in Threads, NEW i \in Ids, ProcessTorrent(t, i)
  PROVE  Complete'
<1>1. PICK o \in Objects \ Live :
        /\ Goto(t, [Idle EXCEPT !.pc = "setLookup", !.id = i, !.obj = o,
                                !.by = "refresh", !.next = "idle"])
        /\ HeapBecomes([heap EXCEPT ![o] = Fetched(i)])
  BY Zenon DEF ProcessTorrent, EnterSet
<1> DEFINE l == [Idle EXCEPT !.pc = "setLookup", !.id = i, !.obj = o,
                             !.by = "refresh", !.next = "idle"]
           h == [heap EXCEPT ![o] = Fetched(i)]
<1>2. l.pc = "setLookup" /\ l.obj = o /\ l.old = None /\ l.by = "refresh" /\ l.next = "idle"
  BY DEF Idle
<1>3. /\ Goto(t, l) /\ HeapBecomes(h) /\ ~Leaving(loc[t])
      /\ i \in newTorrents /\ newTorrents' = newTorrents \ {i}
      /\ byName' = byName /\ CachedIds' = CachedIds /\ UNCHANGED cacheVars
  BY <1>1 DEF ProcessTorrent, Leaving, Idle, cacheVars, CachedIds
<1>4. h[o] = Fetched(i) /\ \A x \in Live : h[x] = heap[x]
  BY LiveObjects DEF Inv, TypeOK
<1> HIDE DEF l, h
<1>5. Live' \subseteq Live \cup {o}
  BY <1>2, <1>3, LiveGoto DEF Inv
<1>6. \A x \in Live' : Whole(h[x])
  BY <1>4, <1>5, FetchedWhole DEF Complete
<1>7. \A n \in Names : byName[n] # None => h[byName[n]] = heap[byName[n]]
  BY <1>4, LiveMembers
<1>8. Kept(h, byName', CachedIds')
  <2>1. \A j \in CachedIds : FolderOf[j] \in Names
    BY ConstantsAssumption DEF CachedIds
  <2> QED
    BY <1>3, <1>7, <2>1 DEF Complete, Kept
<1>9. EntryIds(h, byName', CachedIds', Gone(l))
  BY <1>3, <1>7, EntryIdsFine DEF EntryIds
<1>10. InHand(l, h, byName', CachedIds', newTorrents')
  <2>1. h[o].id = i /\ Full(h[o])
    BY <1>4, FetchedWhole DEF Fetched
  <2>2. i \in CachedIds => i \in Astray
    BY <1>3 DEF Complete
  <2> QED
    BY <1>2, <1>3, <2>1, <2>2 DEF InHand, SetPCs
<1>11. newTorrents' \cap CachedIds' \subseteq Astray
  BY <1>3 DEF Complete
<1> QED
  BY <1>3, <1>6, <1>8, <1>9, <1>10, <1>11, CompleteGoto

\* A struct that is stored as it is covers its folder: it is the entry, or the
\* entry is one that stayed behind, of a torrent that has the folder for itself.
LEMMA StoredCovers ==
  ASSUME Inv, Sequential, Folders, AstrayAlone, Complete,
         NEW t \in Threads, loc[t].pc = "setLookup",
         LET o == byName[Folder(loc[t].obj)]
         IN  o # None => heap[o].id = heap[loc[t].obj].id
  PROVE  Covers(heap[loc[t].obj], CachedIds)
<1> DEFINE obj == loc[t].obj
<1>1. obj \in Live /\ heap[obj] \in Torrent /\ heap[obj].id \in Ids
  BY LiveMembers DEF Inv, LocalsOK, LiveOK, HoldsObj, Torrent
<1>2. FolderOf[heap[obj].id] = FolderOf[heap[obj].origin]
  BY <1>1 DEF Folders, Pure
<1>3. /\ InHand(loc[t], heap, byName, CachedIds, newTorrents)
      /\ Kept(heap, byName, CachedIds) /\ ~Leaving(loc[t])
  BY DEF Complete, Leaving
<1>4. SUFFICES ASSUME NEW j \in CachedIds, FolderOf[j] = FolderOf[heap[obj].origin],
                      NEW f \in FilesOf[j]
               PROVE  heap[obj].files[f] # None
  BY DEF Covers
<1> DEFINE o == byName[FolderOf[j]]
<1>5. o # None /\ heap[o].files[f] # None /\ heap[o].id = heap[obj].id /\ FolderOf[j] \in Names
  BY Zenon, <1>3, <1>4, ConstantsAssumption DEF Kept, Folder, CachedIds
<1>6. CASE loc[t].next = "delDB"
  BY Zenon, <1>3, <1>4, <1>5, <1>6 DEF InHand, SetPCs
<1>7. CASE loc[t].next # "delDB"
  <2>1. heap[obj].id \in CachedIds \cup Astray
    <3> HIDE DEF o
    <3>1. \A n \in Names : byName[n] # None => heap[byName[n]].id \in CachedIds \cup Astray
      BY <1>3, EntryIdsFine
    <3> QED
      BY <1>5, <3>1 DEF o
  <2>2. heap[obj].id \in Astray
    BY <1>3, <1>7, <2>1 DEF InHand, SetPCs
  <2>3. j = heap[obj].id
    BY <1>2, <1>4, <2>2 DEF AstrayAlone, CachedIds
  <2>4. heap[obj].files[f] = j
    BY <1>3, <2>3 DEF InHand, SetPCs, Full
  <2> QED
    BY <2>4, ConstantsAssumption DEF CachedIds
<1> QED
  BY <1>6, <1>7

LEMMA CompleteLookup ==
  ASSUME Inv, Inv', Sequential, Folders, ~FolderById, AstrayAlone, Complete,
         NEW t \in Threads, SetLookup(t)
  PROVE  Complete'
<1> DEFINE obj == loc[t].obj
           o == byName[GetTorrentFolder(heap[obj])]
           merge == [loc[t] EXCEPT !.pc = "setMerge", !.old = o]
           store == [loc[t] EXCEPT !.pc = "setStore"]
<1>1. /\ loc[t] \in Local /\ loc[t].pc = "setLookup" /\ HeapBecomes(heap)
      /\ obj # None /\ obj \in Live /\ heap[obj] \in Torrent
      /\ {loc[t].obj, loc[t].old} \ {None} \subseteq Live
      /\ UNCHANGED cacheVars /\ newTorrents' = newTorrents
  BY LiveMembers DEF SetLookup, Inv, TypeOK, LocalsOK, LiveOK, HoldsObj, refreshVars
<1>2. GetTorrentFolder(heap[obj]) = Folder(obj) /\ Folder(obj) \in Names
  BY <1>1, ConstantsAssumption DEF GetTorrentFolder, Folder, Torrent
<1>3. InHand(loc[t], heap, byName, CachedIds, newTorrents)
  BY DEF Complete
<1>4. \A n \in Names : byName[n] # None => heap[byName[n]].id \in CachedIds \cup Astray
  BY <1>1, EntryIdsFine DEF Leaving
<1>5. CASE Goto(t, merge) /\ o # None /\ heap[o].id # heap[obj].id
  <2>1. /\ merge.pc = "setMerge" /\ merge.obj = obj /\ merge.old = o
        /\ merge.next = loc[t].next /\ merge.by = loc[t].by
    BY <1>1 DEF Local
  <2>2. o \in Live /\ o = byName[FolderOf[heap[obj].origin]] /\ Goto(t, merge)
    BY Zenon, <1>2, <1>5, LiveMembers DEF Folder
  <2> HIDE DEF merge, o
  <2>3. InHand(merge, heap, byName, CachedIds, newTorrents)
    BY <1>1, <1>3, <2>1, <2>2 DEF InHand, SetPCs
  <2>4. Live' \subseteq Live
    BY <1>1, <2>1, <2>2, LiveShrinks
  <2> QED
    BY <1>1, <1>4, <2>2, <2>3, <2>4, CompleteMove
<1>6. CASE Goto(t, store) /\ ~(o # None /\ heap[o].id # heap[obj].id)
  <2>1. /\ store.pc = "setStore" /\ store.obj = obj /\ store.old = loc[t].old
        /\ store.next = loc[t].next /\ store.by = loc[t].by
    BY <1>1 DEF Local
  <2>2. Covers(heap[obj], CachedIds)
    BY <1>1, <1>2, <1>6, StoredCovers
  <2>3. Goto(t, store)
    BY <1>6
  <2> HIDE DEF store, o
  <2>4. InHand(store, heap, byName, CachedIds, newTorrents)
    BY <1>1, <1>3, <2>1, <2>2 DEF InHand, SetPCs
  <2>5. Live' \subseteq Live
    BY <1>1, <2>1, <2>3, LiveShrinks
  <2> QED
    BY <1>1, <1>4, <2>3, <2>4, <2>5, CompleteMove
<1> QED
  BY <1>5, <1>6 DEF SetLookup

\* What is merged has the files of the entry and those of the struct.
LEMMA CompleteMerge ==
  ASSUME Inv, Inv', Sequential, Folders, FilesApart, Current, Complete,
         NEW t \in Threads, SetMerge(t)
  PROVE  Complete'
<1> DEFINE obj == loc[t].obj
           old == loc[t].old
           merged == mergeFiles(heap[old], heap[obj])
           l == [loc[t] EXCEPT !.pc = "setStore", !.old = None]
           h == [heap EXCEPT ![obj].files = merged]
<1>1. /\ loc[t] \in Local /\ loc[t].pc = "setMerge" /\ HeapBecomes(h) /\ Goto(t, l)
      /\ obj # None /\ obj \in Live /\ heap[obj] \in Torrent
      /\ old \in Live /\ heap[old] \in Torrent
      /\ UNCHANGED cacheVars /\ newTorrents' = newTorrents
  BY LiveMembers DEF SetMerge, Inv, TypeOK, LocalsOK, LiveOK, HoldsObj, refreshVars
<1>2. /\ l.pc = "setStore" /\ l.obj = obj /\ l.old = None
      /\ l.next = loc[t].next /\ l.by = loc[t].by
  BY <1>1 DEF Local
<1>3. /\ InHand(loc[t], heap, byName, CachedIds, newTorrents)
      /\ \A n \in Names : byName[n] # obj
      /\ Kept(heap, byName, CachedIds)
      /\ \A n \in Names : byName[n] # None => heap[byName[n]].id \in CachedIds \cup Astray
  BY <1>1, EntryIdsFine DEF Complete, Current, HandFine, Leaving
<1>4. /\ Full(heap[obj]) /\ old = byName[FolderOf[heap[obj].origin]] /\ loc[t].next # "delDB"
      /\ loc[t].by = "refresh" /\ heap[obj].id \notin newTorrents
      /\ heap[obj].id \in CachedIds => heap[obj].id \in Astray
  <2>1. FolderOf[heap[obj].origin] \in Names
    BY <1>1, ConstantsAssumption DEF Torrent
  <2> QED
    BY <1>1, <1>3, <2>1 DEF InHand, SetPCs
<1>5. Pure(heap[obj]) /\ Pure(heap[old]) /\ FolderOf[heap[old].origin] = FolderOf[heap[obj].origin]
  BY <1>1 DEF Folders, Folder
<1>6. Whole(heap[obj]) /\ Whole(heap[old])
  BY <1>1 DEF Complete
<1>7. \A f \in FileNames : merged[f] # None => \A g \in FilesOf[merged[f]] : merged[g] = merged[f]
  BY <1>1, <1>5, <1>6, MergeWhole
<1>8. \A f \in FilesOf[heap[obj].id] : merged[f] = heap[obj].id
  <2> TAKE f \in FilesOf[heap[obj].id]
  <2>1. heap[obj].id \in Ids /\ f \in FileNames /\ heap[obj].files[f] # None
    BY Zenon, <1>1, <1>4, ConstantsAssumption DEF Full, Torrent
  <2>2. merged[f] # None /\ merged \in FileMap
    BY <1>1, <2>1, MergeKeeps, MergeType
  <2>3. /\ FolderOf[merged[f]] = FolderOf[heap[obj].origin] /\ f \in FilesOf[merged[f]]
        /\ merged[f] \in Ids
    BY <1>1, <1>5, <2>1, <2>2, MergePure DEF FileMap
  <2>4. f \in FilesOf[heap[obj].id] /\ FolderOf[heap[obj].id] = FolderOf[heap[obj].origin]
    BY Zenon, <1>5 DEF Pure
  <2> HIDE DEF merged
  <2> QED
    BY <2>1, <2>3, <2>4 DEF FilesApart
<1>9. \A j \in CachedIds : FolderOf[j] = FolderOf[heap[obj].origin] =>
          \A f \in FilesOf[j] : merged[f] # None
  <2> TAKE j \in CachedIds
  <2> HAVE FolderOf[j] = FolderOf[heap[obj].origin]
  <2> TAKE f \in FilesOf[j]
  <2>1. f \in FileNames /\ heap[old].files[f] # None
    BY Zenon, <1>3, <1>4, ConstantsAssumption DEF Kept, CachedIds
  <2> QED
    BY <1>1, <2>1, MergeKeeps
<1>10. /\ h[obj].files = merged /\ h[obj].id = heap[obj].id /\ h[obj].origin = heap[obj].origin
       /\ \A x \in Live \ {obj} : h[x] = heap[x]
  <2> HIDE DEF merged
  <2> QED
    BY <1>1, LiveObjects DEF Inv, TypeOK, Torrent
<1> HIDE DEF l, h, merged, obj, old
<1>11. Live' \subseteq Live
  BY <1>1, <1>2, LiveShrinks
<1>12. byName' = byName /\ CachedIds' = CachedIds
  BY <1>1 DEF cacheVars, CachedIds
<1>13. \A n \in Names : byName[n] # None => h[byName[n]] = heap[byName[n]]
  BY <1>3, <1>10, LiveMembers
<1>14. \A o \in Live' : Whole(h[o])
  <2> TAKE o \in Live'
  <2>1. CASE o = obj
    BY <1>7, <1>10, <2>1 DEF Whole
  <2>2. CASE o # obj
    BY <1>10, <1>11, <2>2 DEF Complete
  <2> QED
    BY <2>1, <2>2
<1>15. Kept(h, byName', CachedIds')
  <2>1. \A j \in CachedIds : FolderOf[j] \in Names
    BY ConstantsAssumption DEF CachedIds
  <2> QED
    BY <1>3, <1>12, <1>13, <2>1 DEF Kept
<1>16. EntryIds(h, byName', CachedIds', Gone(l))
  BY <1>3, <1>12, <1>13 DEF EntryIds
<1>17. InHand(l, h, byName', CachedIds', newTorrents')
  BY <1>1, <1>2, <1>3, <1>4, <1>8, <1>9, <1>10, <1>12 DEF InHand, SetPCs, Full, Covers
<1> QED
  BY <1>1, <1>12, <1>14, <1>15, <1>16, <1>17, CompleteGoto DEF Complete

\* The struct brings its own files and those of the folder's other torrents.
LEMMA CompleteStore ==
  ASSUME Inv, Inv', Sequential, Folders, ~FolderById, Complete, NEW t \in Threads, SetStore(t)
  PROVE  Complete'
<1> DEFINE obj == loc[t].obj
           id == heap[obj].id
           n == FolderOf[heap[obj].origin]
           l == [loc[t] EXCEPT !.pc = "save"]
<1>1. /\ loc[t] \in Local /\ loc[t].pc = "setStore" /\ HeapBecomes(heap) /\ Goto(t, l)
      /\ obj # None /\ obj \in Live /\ heap[obj] \in Torrent /\ id \in Ids
      /\ {loc[t].obj, loc[t].old} \ {None} \subseteq Live
      /\ byID' = [byID EXCEPT ![id] = obj] /\ byName' = [byName EXCEPT ![n] = obj]
      /\ newTorrents' = newTorrents
  BY LiveMembers DEF SetStore, GetTorrentFolder, Inv, TypeOK, LocalsOK, LiveOK, HoldsObj, Torrent,
                     refreshVars
<1>2. l.pc = "save" /\ l.obj = obj /\ l.old = loc[t].old /\ l.next = loc[t].next
  BY <1>1 DEF Local
<1>3. /\ Full(heap[obj]) /\ Covers(heap[obj], CachedIds) /\ loc[t].next # "generate"
      /\ id \in newTorrents => id \in CachedIds \cup Astray
  BY <1>1 DEF Complete, InHand, SetPCs
<1>4. FolderOf[id] = n /\ n \in Names
  BY <1>1, ConstantsAssumption DEF Folders, Pure, Torrent
<1>5. /\ CachedIds' = CachedIds \cup {id}
      /\ byName'[n] = obj /\ \A m \in Names \ {n} : byName'[m] = byName[m]
  BY SMTT(30), <1>1, <1>4, ConstantsAssumption DEF CachedIds, Inv, TypeOK
<1>6. /\ Kept(heap, byName, CachedIds) /\ newTorrents \cap CachedIds \subseteq Astray
      /\ \A m \in Names : byName[m] # None => heap[byName[m]].id \in CachedIds \cup Astray
  BY <1>1, EntryIdsFine DEF Complete, Leaving
<1>7. Live' \subseteq Live
  <2> HIDE DEF l
  <2>1. \A u \in Threads : loc'[u] = IF u = t THEN l ELSE loc[u]
    BY <1>1 DEF Goto, Inv, TypeOK
  <2>2. \A i \in Ids : byID'[i] \in {byID[i], obj}
    BY <1>1 DEF Inv, TypeOK
  <2>3. \A m \in Names : byName'[m] \in {byName[m], obj}
    BY <1>5
  <2> QED
    BY <1>1, <1>2, <2>1, <2>2, <2>3 DEF Live
<1> HIDE DEF l
<1>8. Kept(heap, byName', CachedIds')
  <2> SUFFICES ASSUME NEW i \in CachedIds', NEW f \in FilesOf[i]
               PROVE  /\ byName'[FolderOf[i]] # None
                      /\ heap[byName'[FolderOf[i]]].files[f] # None
    BY DEF Kept
  <2>1. i \in Ids /\ i # None /\ FolderOf[i] \in Names
    BY ConstantsAssumption DEF CachedIds
  <2>2. CASE i = id
    BY Zenon, <1>1, <1>3, <1>4, <1>5, <2>1, <2>2 DEF Full
  <2>3. CASE i # id /\ FolderOf[i] = n
    BY Zenon, <1>1, <1>3, <1>5, <2>3 DEF Covers
  <2>4. CASE i # id /\ FolderOf[i] # n
    BY <1>5, <1>6, <2>1, <2>4 DEF Kept
  <2> QED
    BY <2>2, <2>3, <2>4
<1>9. EntryIds(heap, byName', CachedIds', Gone(l))
  <2> SUFFICES ASSUME NEW m \in Names, byName'[m] # None
               PROVE  heap[byName'[m]].id \in CachedIds' \cup Astray
    BY DEF EntryIds
  <2>1. CASE m = n
    BY <1>5, <2>1
  <2>2. CASE m # n
    BY <1>5, <1>6, <2>2
  <2> QED
    BY <2>1, <2>2
<1>10. InHand(l, heap, byName', CachedIds', newTorrents')
  BY <1>2, <1>3 DEF InHand, SetPCs
<1>11. newTorrents' \cap CachedIds' \subseteq Astray
  BY <1>1, <1>3, <1>5, <1>6
<1>12. \A o \in Live' : Whole(heap[o])
  BY <1>7 DEF Complete
<1> HIDE DEF obj, id, n
<1> QED
  BY Zenon, <1>1, <1>8, <1>9, <1>10, <1>11, <1>12, CompleteGoto

-----------------------------------------------------------------------------
(* Saving, going on, and deleteTorrent                                     *)

LEMMA NotGenerating ==
  Complete => \A t \in Threads : loc[t].pc # "generate" /\ loc[t].next # "generate"
BY DEF Complete, InHand

LEMMA CompleteGoOn ==
  ASSUME Inv, Inv', Sequential, Complete, NEW t \in Threads,
         Save(t) \/ Lock(t) \/ DelGet(t) \/ DelDB(t)
  PROVE  Complete'
<1> DEFINE db == [loc[t] EXCEPT !.pc = "delDB", !.obj = None]
           get == [loc[t] EXCEPT !.pc = "delGet"]
           remove == [loc[t] EXCEPT !.pc = "delRemove", !.obj = byID[loc[t].id]]
<1>1. /\ loc[t] \in Local /\ loc[t].pc \in {"save", "lock", "delGet", "delDB"}
      /\ loc[t].next # "generate" /\ UNCHANGED cacheVars /\ newTorrents' = newTorrents
      /\ {loc[t].obj, loc[t].old} \ {None} \subseteq Live
  BY LiveMembers, NotGenerating DEF Save, Lock, DelGet, DelDB, Inv, TypeOK, refreshVars
<1>2. HeapBecomes(heap) \/ Lock(t)
  BY DEF Save, DelGet, DelDB
<1>3. /\ db.pc = "delDB" /\ db.obj = None /\ db.old = loc[t].old /\ db.next = loc[t].next
      /\ get.pc = "delGet" /\ get.obj = loc[t].obj /\ get.old = loc[t].old
      /\ get.next = loc[t].next /\ get.id = loc[t].id
      /\ remove.pc = "delRemove" /\ remove.obj = byID[loc[t].id] /\ remove.old = loc[t].old
      /\ remove.next = loc[t].next
      /\ Idle.pc = "idle" /\ Idle.obj = None /\ Idle.old = None /\ Idle.next = "idle"
  BY <1>1 DEF Local, Idle
<1>4. byID[loc[t].id] # None /\ loc[t].pc = "delGet" => byID[loc[t].id] \in Live
  BY <1>1, LiveMembers DEF Inv, LocalsOK, Local
<1>5. \/ Lock(t) /\ Goto(t, get)
      \/ Goto(t, Idle) \/ Goto(t, db)
      \/ loc[t].pc = "delGet" /\ byID[loc[t].id] # None /\ Goto(t, remove)
  BY <1>1 DEF Save, Lock, DelGet, DelDB, Local
<1> HIDE DEF db, get, remove
<1>6. PICK l : /\ Goto(t, l) /\ l.next # "generate"
               /\ l.pc \in {"idle", "delDB", "delGet", "delRemove"}
               /\ {l.obj, l.old} \ {None} \subseteq Live
  BY <1>1, <1>3, <1>4, <1>5
<1>7. \A n \in Names : byName[n] # None => heap[byName[n]].id \in CachedIds \cup Astray
  BY <1>1, EntryIdsFine DEF Leaving
<1>8. InHand(l, heap, byName, CachedIds, newTorrents)
  BY <1>6 DEF InHand, SetPCs
<1>9. CASE HeapBecomes(heap)
  BY <1>1, <1>6, <1>7, <1>8, <1>9, LiveShrinks, CompleteMove
<1>10. CASE Lock(t)
  <2>1. heap' = heap /\ byName' = byName /\ CachedIds' = CachedIds /\ Live' \subseteq Live
    BY <1>1, <1>6, <1>10, LiveShrinks DEF Lock, cacheVars, CachedIds
  <2>2. \A u \in Threads : loc'[u] = l
    BY <1>6, OnlyOne
  <2>3. EntryIds(heap', byName', CachedIds', UNION {Gone(loc'[u]) : u \in Threads})
    BY <1>7, <2>1 DEF EntryIds
  <2>4. \A u \in Threads : InHand(loc'[u], heap', byName', CachedIds', newTorrents')
    BY <1>1, <1>8, <2>1, <2>2
  <2> QED
    BY <1>1, <2>1, <2>3, <2>4 DEF Complete, Whole
<1> QED
  BY <1>2, <1>9, <1>10

\* What begins holds no struct.
LEMMA CompleteBegin ==
  ASSUME Inv, Sequential, Complete, NEW t \in Threads, NEW i, NEW pc \in {"lock", "delGet"}, NEW by,
         loc[t] = Idle, Goto(t, [Idle EXCEPT !.pc = pc, !.id = i, !.by = by]),
         heap' = heap, UNCHANGED cacheVars, newTorrents' = newTorrents
  PROVE  Complete'
<1> DEFINE l == [Idle EXCEPT !.pc = pc, !.id = i, !.by = by]
<1>1. l.pc = pc /\ l.obj = None /\ l.old = None /\ l.next = "idle" /\ Goto(t, l) /\ ~Leaving(loc[t])
  BY DEF Idle, Leaving
<1> HIDE DEF l
<1>2. byName' = byName /\ CachedIds' = CachedIds /\ Live' \subseteq Live
  BY <1>1, LiveShrinks DEF cacheVars, CachedIds
<1>3. \A u \in Threads : loc'[u] = l
  BY <1>1, OnlyOne
<1>4. EntryIds(heap', byName', CachedIds', UNION {Gone(loc'[u]) : u \in Threads})
  BY <1>1, <1>2, EntryIdsFine DEF EntryIds
<1>5. \A u \in Threads : InHand(loc'[u], heap', byName', CachedIds', newTorrents')
  BY <1>1, <1>3 DEF InHand, SetPCs
<1> QED
  BY <1>2, <1>4, <1>5 DEF Complete, Whole

LEMMA CompleteRemove ==
  ASSUME Inv, Inv', Sequential, Complete, NEW t \in Threads, DelRemove(t) PROVE Complete'
<1> DEFINE l == [loc[t] EXCEPT !.pc = "delName"]
<1>1. /\ loc[t] \in Local /\ loc[t].pc = "delRemove" /\ HeapBecomes(heap) /\ Goto(t, l)
      /\ byID' = [byID EXCEPT ![loc[t].id] = None] /\ byName' = byName
      /\ newTorrents' = newTorrents
      /\ {loc[t].obj, loc[t].old} \ {None} \subseteq Live
      /\ loc[t].next # "generate"
  BY LiveMembers, NotGenerating DEF DelRemove, Inv, TypeOK, refreshVars
<1>2. /\ l.pc = "delName" /\ l.id = loc[t].id /\ l.obj = loc[t].obj /\ l.old = loc[t].old
      /\ l.next = loc[t].next
  BY <1>1 DEF Local
<1> HIDE DEF l
<1>3. \A i \in Ids : byID'[i] \in {byID[i], None} /\ (i # loc[t].id => byID'[i] = byID[i])
  BY <1>1 DEF Inv, TypeOK
<1>4. CachedIds' \subseteq CachedIds /\ CachedIds \subseteq CachedIds' \cup {loc[t].id}
  BY <1>3 DEF CachedIds
<1>5. Live' \subseteq Live
  <2>1. \A u \in Threads : loc'[u] = IF u = t THEN l ELSE loc[u]
    BY <1>1 DEF Goto, Inv, TypeOK
  <2> QED
    BY <1>1, <1>2, <1>3, <2>1 DEF Live
<1>6. Gone(l) = {loc[t].id} /\ ~Leaving(loc[t])
  BY <1>1, <1>2 DEF Gone, Leaving
<1>7. EntryIds(heap, byName', CachedIds', Gone(l))
  BY <1>1, <1>4, <1>6, EntryIdsFine DEF EntryIds
<1>8. Kept(heap, byName', CachedIds') /\ newTorrents' \cap CachedIds' \subseteq Astray
  BY <1>1, <1>4 DEF Complete, Kept
<1>9. InHand(l, heap, byName', CachedIds', newTorrents')
  BY <1>1, <1>2 DEF InHand, SetPCs
<1>10. \A o \in Live' : Whole(heap[o])
  BY <1>5 DEF Complete
<1> QED
  BY <1>1, <1>7, <1>8, <1>9, <1>10, CompleteGoto

\* An entry goes by the id of a torrent that is being deleted only under the name
\* the deletion looks up, unless the torrent is astray.
LEMMA EntryIdWhereDeleted ==
  ASSUME Inv, Sequential, Folders, NamedAlike, Complete, NEW t \in Threads, Leaving(loc[t]),
         NEW n \in Names, byName[n] # None, n # NameOf[heap[loc[t].obj].origin]
  PROVE  heap[byName[n]].id \in CachedIds \cup Astray
<1>1. /\ byName[n] \in Live /\ heap[byName[n]] \in Torrent
      /\ loc[t].obj \in Live /\ loc[t].id \in Ids /\ heap[loc[t].obj] \in Torrent
  BY LiveMembers DEF Inv, TypeOK, LocalsOK, LiveOK, HoldsObj, Leaving, Local
<1>2. heap[byName[n]].id \in CachedIds \cup Astray \cup {loc[t].id}
  BY Zenon DEF Complete, EntryIds, Sequential, Gone
<1>3. CASE heap[byName[n]].id = loc[t].id
  <2>1. FolderOf[loc[t].id] = n
    BY <1>1, <1>3 DEF Folders, Folder, Pure
  <2>2. FolderOf[heap[loc[t].obj].origin] = n /\ heap[loc[t].obj].origin \in Ids
    BY <1>1, <2>1 DEF Folders, Folder, Torrent, Leaving, DelPCs
  <2>3. loc[t].id \in Astray
    BY <1>1, <2>1, <2>2 DEF NamedAlike, Astray
  <2> QED
    BY <1>3, <2>3
<1> QED
  BY <1>2, <1>3

\* The files that stay are whole, and so are those of the entry's new id.
LEMMA CompleteDelName ==
  ASSUME Inv, Inv', Sequential, Folders, FilesApart, NamedAlike, Durable, Current, Complete,
         NEW t \in Threads, DelName(t)
  PROVE  Complete'
<1> DEFINE name == NameOf[heap[loc[t].obj].origin]
           o == byName[name]
           rest == Remaining(heap[o].files, loc[t].id)
           db == [loc[t] EXCEPT !.pc = "delDB", !.obj = None]
           entry == [loc[t] EXCEPT !.pc = "delEntry"]
           set == [loc[t] EXCEPT !.pc = "setLookup", !.obj = o, !.next = "delDB"]
<1>1. /\ loc[t] \in Local /\ loc[t].pc = "delName" /\ loc[t].id \in Ids
      /\ UNCHANGED cacheVars /\ newTorrents' = newTorrents
      /\ byName' = byName /\ CachedIds' = CachedIds
      /\ loc[t].obj # None /\ loc[t].obj \in Live /\ heap[loc[t].obj] \in Torrent /\ name \in Names
      /\ {loc[t].obj, loc[t].old} \ {None} \subseteq Live
      /\ loc[t].next # "generate"
  <2>1. /\ loc[t] \in Local /\ loc[t].pc = "delName" /\ UNCHANGED cacheVars
        /\ newTorrents' = newTorrents /\ loc[t].next # "generate"
    BY Zenon, NotGenerating DEF DelName, Inv, TypeOK, refreshVars
  <2>2. byName' = byName /\ CachedIds' = CachedIds
    BY <2>1 DEF cacheVars, CachedIds
  <2>3. /\ loc[t].id \in Ids /\ loc[t].obj # None /\ loc[t].obj \in Live
        /\ heap[loc[t].obj] \in Torrent /\ {loc[t].obj, loc[t].old} \ {None} \subseteq Live
    BY <2>1, LiveMembers DEF Inv, LocalsOK, LiveOK, HoldsObj, Local
  <2>4. name \in Names
    BY <2>3, ConstantsAssumption DEF Torrent
  <2> QED
    BY <2>1, <2>2, <2>3, <2>4
<1>2. loc[t].id \notin CachedIds /\ Leaving(loc[t])
  BY <1>1 DEF Durable, Dropping, CachedIds, Leaving
<1>3. \A n \in Names \ {name} : byName[n] # None => heap[byName[n]].id \in CachedIds \cup Astray
  BY <1>2, EntryIdWhereDeleted
<1>4. CASE o = None /\ Goto(t, db) /\ HeapBecomes(heap)
  <2>1. db.pc = "delDB" /\ db.obj = None /\ db.old = loc[t].old /\ db.next = loc[t].next
    BY <1>1 DEF Local
  <2>2. \A n \in Names : byName[n] # None => heap[byName[n]].id \in CachedIds \cup Astray
    BY <1>3, <1>4
  <2>3. Goto(t, db) /\ HeapBecomes(heap)
    BY <1>4
  <2> HIDE DEF db, o, name
  <2>4. InHand(db, heap, byName, CachedIds, newTorrents) /\ Live' \subseteq Live
    BY <1>1, <2>1, <2>3, LiveShrinks DEF InHand, SetPCs
  <2> QED
    BY <1>1, <2>2, <2>3, <2>4, CompleteMove
<1>5. CASE Owners(rest) = {} /\ Goto(t, entry) /\ HeapBecomes(heap)
  <2>1. /\ entry.pc = "delEntry" /\ entry.id = loc[t].id /\ entry.obj = loc[t].obj
        /\ entry.old = loc[t].old /\ entry.next = loc[t].next
    BY <1>1 DEF Local
  <2>2. \A n \in Names : byName[n] # None =>
            heap[byName[n]].id \in CachedIds \cup Astray \cup {loc[t].id}
    BY Zenon, <1>2 DEF Complete, EntryIds, Sequential, Gone
  <2>3. Goto(t, entry) /\ HeapBecomes(heap) /\ Owners(rest) = {}
    BY <1>5
  <2>4. o = byName[NameOf[heap[loc[t].obj].origin]]
    OBVIOUS
  <2>5. Owners(Remaining(heap[byName[NameOf[heap[loc[t].obj].origin]]].files, loc[t].id)) = {}
    BY <2>3
  <2> HIDE DEF entry, o, rest, name
  <2>6. InHand(entry, heap, byName, CachedIds, newTorrents)
    BY <1>1, <2>1, <2>5 DEF InHand, SetPCs
  <2>7. Live' \subseteq Live /\ Gone(entry) = {loc[t].id}
    BY <1>1, <2>1, <2>3, LiveShrinks DEF Gone, Leaving
  <2> QED
    BY <1>1, <2>2, <2>3, <2>6, <2>7, CompleteMove
<1>6. ASSUME o # None, Goto(t, set), NEW newId \in Owners(rest),
             HeapBecomes([heap EXCEPT ![o].files = rest, ![o].id = newId])
      PROVE  Complete'
  <2> DEFINE h == [heap EXCEPT ![o].files = rest, ![o].id = newId]
  <2>1. /\ set.pc = "setLookup" /\ set.obj = o /\ set.old = loc[t].old /\ set.next = "delDB"
    <3> HIDE DEF o
    <3> QED
      BY <1>1 DEF Local
  <2>2. o \in Live /\ o \in Objects /\ heap[o] \in Torrent
    BY Zenon, <1>1, <1>6, LiveMembers, LiveObjects DEF Inv, LiveOK
  <2>3. /\ h[o].files = rest /\ h[o].id = newId /\ h[o].origin = heap[o].origin
        /\ \A x \in Live \ {o} : h[x] = heap[x]
    <3> HIDE DEF rest, o
    <3> QED
      BY <2>2, LiveObjects DEF Inv, TypeOK, Torrent
  <2>4. /\ Folder(o) = name /\ Pure(heap[o]) /\ Whole(heap[o])
        /\ \A n \in Names \ {name} : byName[n] # o
    BY Zenon, <1>1, <1>6, <2>2 DEF Folders, Complete
  <2>5. \A f \in FileNames :
            rest[f] = IF heap[o].files[f] = loc[t].id THEN None ELSE heap[o].files[f]
    BY Zenon DEF Remaining
  <2>6. newId \in Owners(heap[o].files) /\ newId # loc[t].id
    <3> HIDE DEF o
    <3> QED
      BY <1>1, <1>6, <2>2, RemainingOwners DEF Torrent
  <2>7. newId \in CachedIds \cup Astray
    <3>1. newId \in Fine \/ newId = loc[t].id
      BY Zenon, <1>1, <1>6, <2>6 DEF Current, EntriesFine, Sequential
    <3> QED
      BY <2>6, <3>1 DEF Fine
  <2>8. Goto(t, set) /\ HeapBecomes(h) /\ o = byName[name] /\ o # None
    BY Zenon, <1>6
  <2>9. newId \in Owners(rest)
    BY Zenon, <1>6
  <2>10. \A f \in FileNames : rest[f] # None =>
             rest[f] \in Ids /\ \A g \in FilesOf[rest[f]] : rest[g] = rest[f]
    <3> HIDE DEF o, rest
    <3> TAKE f \in FileNames
    <3> HAVE rest[f] # None
    <3>1. rest[f] = heap[o].files[f] /\ rest[f] # loc[t].id
      BY <2>5
    <3>2. rest[f] \in Ids
      BY <2>2, <3>1 DEF Torrent, FileMap
    <3>3. \A g \in FilesOf[rest[f]] : g \in FileNames /\ heap[o].files[g] = rest[f]
      BY <2>4, <3>1, <3>2, ConstantsAssumption DEF Whole
    <3> QED
      BY <2>5, <3>1, <3>2, <3>3
  <2> HIDE DEF set, h, rest, o, name
  <2>11. Live' \subseteq Live
    BY <1>1, <2>1, <2>2, <2>8, LiveShrinks
  <2>12. \A x \in Live' : Whole(h[x])
    <3> TAKE x \in Live'
    <3>1. CASE x = o
      BY <2>3, <2>10, <3>1 DEF Whole
    <3>2. CASE x # o
      BY <2>3, <2>11, <3>2 DEF Complete
    <3> QED
      BY <3>1, <3>2
  <2>13. Kept(h, byName', CachedIds')
    <3> SUFFICES ASSUME NEW i \in CachedIds, NEW f \in FilesOf[i]
                 PROVE  byName[FolderOf[i]] # None /\ h[byName[FolderOf[i]]].files[f] # None
      BY <1>1 DEF Kept
    <3>1. /\ i \in Ids /\ i # None /\ i # loc[t].id /\ f \in FileNames /\ FolderOf[i] \in Names
          /\ byName[FolderOf[i]] # None /\ heap[byName[FolderOf[i]]].files[f] # None
      BY <1>2, ConstantsAssumption DEF CachedIds, Complete, Kept
    <3>2. CASE FolderOf[i] = name
      <4>1. heap[o].files[f] = i
        BY <2>2, <2>4, <2>8, <3>1, <3>2, OwnFile DEF Folder
      <4> QED
        BY <2>3, <2>5, <2>8, <3>1, <3>2, <4>1
    <3>3. CASE FolderOf[i] # name
      BY <2>3, <2>4, <3>1, <3>3, LiveMembers
    <3> QED
      BY <3>2, <3>3
  <2>14. EntryIds(h, byName', CachedIds', Gone(set))
    <3> SUFFICES ASSUME NEW n \in Names, byName[n] # None
                 PROVE  h[byName[n]].id \in CachedIds \cup Astray
      BY <1>1 DEF EntryIds
    <3>1. CASE n = name
      BY <2>3, <2>7, <2>8, <3>1
    <3>2. CASE n # name
      BY <1>3, <2>3, <2>4, <3>2, LiveMembers
    <3> QED
      BY <3>1, <3>2
  <2>15. Full(h[o])
    <3>1. PICK f \in FileNames : rest[f] = newId /\ rest[f] # None
      BY <2>9 DEF Owners
    <3> QED
      BY <2>3, <2>10, <3>1 DEF Full
  <2>16. InHand(set, h, byName', CachedIds', newTorrents')
    BY <1>1, <2>1, <2>3, <2>4, <2>7, <2>8, <2>15 DEF InHand, SetPCs, Folder
  <2> QED
    BY Zenon, <1>1, <2>8, <2>12, <2>13, <2>14, <2>16, CompleteGoto DEF Complete
<1> QED
  BY Zenon, <1>4, <1>5, <1>6 DEF DelName, NewIds

\* Nothing of a cached torrent is in the entry that goes.
LEMMA CompleteDelEntry ==
  ASSUME Inv, Inv', Sequential, Folders, FilesApart, NamedAlike, Durable, Complete,
         NEW t \in Threads, DelEntry(t)
  PROVE  Complete'
<1> DEFINE name == NameOf[heap[loc[t].obj].origin]
           o == byName[name]
           db == [loc[t] EXCEPT !.pc = "delDB", !.obj = None]
<1>1. /\ loc[t] \in Local /\ loc[t].pc = "delEntry" /\ Goto(t, db) /\ HeapBecomes(heap)
      /\ byName' = [byName EXCEPT ![name] = None] /\ CachedIds' = CachedIds
      /\ byID' = byID /\ newTorrents' = newTorrents /\ loc[t].id \in Ids
      /\ heap[loc[t].obj] \in Torrent /\ name \in Names
      /\ {loc[t].obj, loc[t].old} \ {None} \subseteq Live
      /\ loc[t].next # "generate"
  BY LiveMembers, NotGenerating, ConstantsAssumption
     DEF DelEntry, Inv, TypeOK, LocalsOK, LiveOK, HoldsObj, Local, Torrent,
         CachedIds, refreshVars
<1>2. db.pc = "delDB" /\ db.obj = None /\ db.old = loc[t].old /\ db.next = loc[t].next
  BY <1>1 DEF Local
<1>3. loc[t].id \notin CachedIds /\ Leaving(loc[t])
  BY <1>1 DEF Durable, Dropping, CachedIds, Leaving
<1>4. o # None => Owners(Remaining(heap[o].files, loc[t].id)) = {}
  BY Zenon, <1>1 DEF Complete, InHand
<1>5. byName'[name] = None /\ \A n \in Names \ {name} : byName'[n] = byName[n]
  BY <1>1 DEF Inv, TypeOK
<1> HIDE DEF db
<1>6. Live' \subseteq Live
  <2>1. \A u \in Threads : loc'[u] = IF u = t THEN db ELSE loc[u]
    BY <1>1 DEF Goto, Inv, TypeOK
  <2>2. \A n \in Names : byName'[n] \in {byName[n], None}
    BY <1>5
  <2> QED
    BY <1>1, <1>2, <2>1, <2>2 DEF Live
<1>7. Kept(heap, byName', CachedIds')
  <2> SUFFICES ASSUME NEW i \in CachedIds, NEW f \in FilesOf[i]
               PROVE  byName'[FolderOf[i]] # None /\ heap[byName'[FolderOf[i]]].files[f] # None
    BY <1>1 DEF Kept
  <2>1. /\ i \in Ids /\ i # None /\ i # loc[t].id /\ f \in FileNames /\ FolderOf[i] \in Names
        /\ byName[FolderOf[i]] # None /\ heap[byName[FolderOf[i]]].files[f] # None
    BY <1>3, ConstantsAssumption DEF CachedIds, Complete, Kept
  <2>2. FolderOf[i] # name
    <3> SUFFICES ASSUME FolderOf[i] = name PROVE FALSE
      OBVIOUS
    <3>1. o # None /\ heap[o].files[f] # None
      BY Zenon, <2>1
    <3>2. o \in Live /\ heap[o] \in Torrent /\ Pure(heap[o]) /\ Folder(o) = name
      BY Zenon, <1>1, <3>1, LiveMembers DEF Inv, LiveOK, Folders
    <3> HIDE DEF o, name
    <3>3. heap[o].files[f] = i
      BY <2>1, <3>1, <3>2, OwnFile DEF Folder
    <3>4. i \in Owners(heap[o].files)
      BY <2>1, <3>3 DEF Owners
    <3> QED
      BY <1>1, <1>4, <2>1, <3>1, <3>2, <3>4, RemainingOwners DEF Torrent
  <2> QED
    BY <1>5, <2>1, <2>2
<1>8. EntryIds(heap, byName', CachedIds', Gone(db))
  <2> SUFFICES ASSUME NEW n \in Names, byName'[n] # None
               PROVE  heap[byName'[n]].id \in CachedIds \cup Astray
    BY <1>1 DEF EntryIds
  <2> QED
    BY <1>3, <1>5, EntryIdWhereDeleted
<1>9. InHand(db, heap, byName', CachedIds', newTorrents')
  BY <1>1, <1>2 DEF InHand, SetPCs
<1>10. \A x \in Live' : Whole(heap[x])
  BY <1>6 DEF Complete
<1> HIDE DEF o, name
<1> QED
  BY Zenon, <1>1, <1>7, <1>8, <1>9, <1>10, CompleteGoto DEF Complete

-----------------------------------------------------------------------------
\* What refreshTorrents finds new is not cached, and no worker of an earlier
\* refresh is still setting.
LEMMA CompleteCompare ==
  ASSUME Exclusive, Complete, RefreshCompare PROVE Complete'
<1>1. /\ heap' = heap /\ byName' = byName /\ loc' = loc /\ byID' = byID
      /\ newTorrents' = refresh.list \ CachedIds /\ refresh.pc = "listed"
  BY DEF RefreshCompare, cacheVars
<1>2. Live' = Live /\ CachedIds' = CachedIds
  BY <1>1 DEF Live, CachedIds
<1>3. \A t \in Threads : loc[t].by # "refresh"
  BY <1>1 DEF Exclusive
<1>4. \A t \in Threads : InHand(loc[t], heap, byName, CachedIds, newTorrents')
  BY Zenon, <1>3 DEF Complete, InHand
<1> QED
  BY Zenon, <1>1, <1>2, <1>4 DEF Complete, Whole

LEMMA CompleteNext ==
  ASSUME Inv, Inv', Sequential, ~FolderById, OnlyDeletes, FilesApart, AstrayAlone,
         Exclusive, Folders, Durable, Current, Complete, [Next]_vars
  PROVE  Complete'
<1>1. CASE Account \/ CallersStop \/ UNCHANGED vars
  BY <1>1, CompleteSame
     DEF Account, DebridAdd, DebridRemove, CallersStop, vars, refreshVars
<1>2. ASSUME NEW t \in Threads, NEW i \in Ids, Call(t, i) PROVE Complete'
  <2>1. CASE RefreshTorrent(t, i) \/ AddTorrent(t, i)
    BY <2>1 DEF RefreshTorrent, AddTorrent, OnlyDeletes
  <2>2. CASE DeleteTorrent(t, i) \/ DeleteTorrents(t, i)
    BY Zenon, <2>2, CompleteBegin DEF DeleteTorrent, DeleteTorrents, refreshVars
  <2> QED
    BY <1>2, <2>1, <2>2 DEF Call
<1>3. ASSUME NEW t \in Threads, Continue(t) PROVE Complete'
  <2>1. ~GenerateDownloadLinks(t)
    BY DEF GenerateDownloadLinks, Complete, InHand
  <2> QED
    BY <1>3, <2>1, AloneIsAlike, CompleteLookup, CompleteMerge, CompleteStore, CompleteGoOn,
       CompleteRemove, CompleteDelName, CompleteDelEntry DEF Continue
<1>4. CASE Background
  <2>1. CASE RefreshList \/ RefreshDone \/ \E s \in Slots : SaveLands(s)
    BY <2>1, CompleteSame DEF RefreshList, RefreshDone, SaveLands, refreshVars
  <2>2. CASE RefreshCompare
    BY <2>2, CompleteCompare
  <2>3. CASE \E i \in Ids : ProcessSkip(i) \/ ValidateKeeps(i)
    BY <2>3, CompleteSame DEF ProcessSkip, ValidateKeeps
  <2>4. ASSUME NEW t \in Threads, NEW i \in Ids, ProcessTorrent(t, i) PROVE Complete'
    BY <2>4, CompleteProcess
  <2>5. ASSUME NEW t \in Threads, NEW i \in Ids, ValidateDeletes(t, i) PROVE Complete'
    BY Zenon, <2>5, CompleteBegin DEF ValidateDeletes
  <2> QED
    BY <1>4, <2>1, <2>2, <2>3, <2>4, <2>5 DEF Background
<1> QED
  BY <1>1, <1>2, <1>3, <1>4 DEF Next

\* Where callers only delete, files of one name are of different folders, and a
\* torrent that is not named like its folder is alone in it: operations that
\* come one at a time, and the refresh beside them, leave every cached torrent
\* all of its files in its folder, however often entries were merged, trimmed
\* and relabelled.
THEOREM SequentialViewComplete ==
  Sequential /\ ~FolderById /\ OnlyDeletes /\ FilesApart /\ AstrayAlone => (Spec => []ViewComplete)
<1> SUFFICES ASSUME Sequential, ~FolderById, OnlyDeletes, FilesApart, AstrayAlone
             PROVE  Spec => []ViewComplete
  OBVIOUS
<1>1. Complete => ViewComplete
  BY DEF Complete, Kept, ViewComplete, Served
<1>2. /\ Inv /\ Inv' /\ Exclusive /\ Folders /\ Durable /\ Current /\ Complete /\ [Next]_vars
         => Complete'
  BY CompleteNext
<1>3. Inv /\ Inv' /\ Folders /\ Current /\ [Next]_vars => Current'
  BY AloneIsAlike, CurrentNext
<1>4. Inv /\ Inv' /\ Folders /\ [Next]_vars => Folders'
  BY FoldersNext
<1>5. Inv /\ Inv' /\ Durable /\ [Next]_vars => Durable'
  BY DurableNext
<1>6. Inv => TypeOK
  BY DEF Inv
<1> QED
  BY <1>1, <1>2, <1>3, <1>4, <1>5, <1>6, CompleteInit, CurrentInit, DurableInit, FoldersInit,
     ExclusiveInit, ExclusiveNext, InvHolds, PTL DEF Spec
=============================================================================
