--------------------------- MODULE Imports_proofs ---------------------------
(***************************************************************************)
(* What the arrs are told of an import is true: a torrent shown as         *)
(* complete has its files in place, and one that was accepted is shown,    *)
(* through relabelling, saves in any order and restarts.                   *)
(***************************************************************************)
EXTENDS Imports, TLAPS

Places == Categories \X Hashes

\* Folders that hold all the files, or that somebody deleted.
Settled == {p \in Places : folder[p] = Files \/ p \in removed}

\* A struct says "complete" only of a place in d.
Truthful(e, d) == e.state = "pausedUP" => Place(e.of) \in d

\* What may be shown or saved under k: a truthful struct of k's hash whose
\* contents have a folder.
Fits(k, e, d) == Truthful(e, d) /\ HashOf[e.of] = k[1] /\ e.content # None

\* Structs, also those nothing shows any more; an import's is its own.
Structs ==
    /\ \A x \in Objects : Truthful(entry[x], Settled)
    /\ \A o \in Imports : entry[o].of = o

\* Made by this start or an earlier one.
Known(x) == x \in Parsed => x[1] <= start

\* The maps of every start.
Shown ==
    \A s \in Starts, k \in Keys : torrents[s][k] # None =>
        /\ Fits(k, entry[torrents[s][k]], Settled)
        /\ Known(torrents[s][k])

\* What requests have listed and will put back.
Pending == \A r \in relabels : entry[r.of].content # None /\ Known(r.of)

\* The file and what is still to be written to it, by any start.
Copies ==
    /\ \A k \in Keys : file[k] # None => Fits(k, file[k], Settled)
    /\ \A save \in saves : save.data # None =>
         \A k \in Keys : save.data[k] # None => Fits(k, save.data[k], Settled)

Folders == \A p \in Places : folder[p] \subseteq Files

StorageInv ==
    /\ StorageTypeOK /\ Structs /\ Shown /\ Pending /\ Copies /\ Folders
    /\ ~up => start < MaxRestarts

\* Control points between the client's answer and the end of ProcessFiles.
Taken == {"loop", "place", "link", "download", "update"}

\* Whatever the goroutine of an import has put in place stays, unless its folder is
\* deleted; links are waited for, downloads only counted.
Goroutine(o) ==
    /\ at[o].start <= start
    /\ at[o].pc = "link" => o \in Symlinks
    /\ at[o].pc = "download" => o \notin Symlinks
    /\ \A f \in Files : at[o].files[f] = "done" => f \in folder[Place(o)] \/ Place(o) \in removed
    /\ at[o].pc = "update" /\ o \in Symlinks => \A f \in Files : at[o].files[f] = "done"
    /\ at[o].pc \in Taken => entry[o].content # None

Goroutines == \A o \in Imports : Goroutine(o)

\* Why AcceptedIsListed: a hash is found under one of its keys until a folder of
\* its is deleted.
Findable(h) ==
    \E category \in Categories :
        torrents[start][<<h, category>>] # None \/ <<category, h>> \in removed

Unaccepted == {"new", "submit", "check", "rejected"}

Found ==
    \A o \in Imports :
        at[o].pc \notin Unaccepted /\ at[o].start = start /\ up => Findable(HashOf[o])

\* What a goroutine changes beside the storage.
OwnTypeOK ==
    /\ at \in [Imports -> Local]
    /\ remote \in [Imports -> Phases]
    /\ deleting \in SUBSET Imports
    /\ calls \in 0..MaxCalls /\ alive \in BOOLEAN

Inv == OwnTypeOK /\ StorageInv /\ Goroutines /\ Found

-----------------------------------------------------------------------------
(* The storage                                                             *)

LEMMA PlaceShape == ASSUME NEW o \in Imports PROVE Place(o) \in Places
BY ConstantsAssumption DEF Place, Places

LEMMA UnusedShape == Unused \in Torrent /\ Unused.state = "downloading"
<1>1. PICK o \in Imports : TRUE
  BY ConstantsAssumption
<1>2. CategoryOf[o] \in Categories
  BY ConstantsAssumption
<1>3. [of |-> o, category |-> CategoryOf[o], state |-> "downloading", content |-> None] \in Torrent
  BY <1>2 DEF Torrent
<1> QED
  BY <1>3 DEF Unused

LEMMA FitsMore ==
  ASSUME NEW k, NEW e, NEW d, NEW b, d \subseteq b
  PROVE  /\ Truthful(e, d) => Truthful(e, b)
         /\ Fits(k, e, d) => Fits(k, e, b)
BY DEF Truthful, Fits

\* Files are only added, and a folder is emptied only with a deletion.
LEMMA SettledGrows ==
  ASSUME Folders', removed \subseteq removed',
         \A p \in Places : folder[p] \subseteq folder'[p] \/ p \in removed'
  PROVE  Settled \subseteq Settled'
BY DEF Folders, Settled

LEMMA SettledSame == UNCHANGED <<folder, removed>> => Settled' = Settled
BY DEF Settled

\* What is in a map is a struct, and so is what is found there.
LEMMA ListedShape ==
  ASSUME StorageInv, NEW s \in Starts, NEW k \in Keys, torrents[s][k] # None
  PROVE  /\ torrents[s][k] \in Objects /\ entry[torrents[s][k]] \in Torrent
         /\ HashOf[entry[torrents[s][k]].of] = k[1]
BY DEF StorageInv, StorageTypeOK, Shown, Fits

LEMMA KeyShape ==
  ASSUME NEW k \in Keys PROVE k[1] \in Hashes /\ k[2] \in Categories /\ k = <<k[1], k[2]>>
BY DEF Keys

\* Add, AddOrUpdate and Update, with contents that fit.
LEMMA PutInv ==
  ASSUME StorageInv, NEW s \in Starts, NEW x \in Objects, NEW e \in Torrent,
         AddOrUpdate(s, x, e), UNCHANGED <<start, up, diskVars>>, relabels' \subseteq relabels,
         Truthful(e, Settled), e.content # None, e.of = entry[x].of, Known(x)
  PROVE  /\ StorageInv'
         /\ \A h \in Hashes : Findable(h) => Findable(h)'
         /\ s = start => Findable(HashOf[e.of])'
<1> DEFINE key == <<HashOf[e.of], e.category>>
<1>1. /\ e.of \in Imports /\ e.category \in Categories /\ HashOf[e.of] \in Hashes
      /\ key \in Keys /\ key[1] = HashOf[e.of]
  BY ConstantsAssumption DEF Torrent, Keys
<1>2. /\ entry' = [entry EXCEPT ![x] = e]
      /\ torrents' = [torrents EXCEPT ![s] = [@ EXCEPT ![key] = x]]
      /\ saves' = saves \cup {[start |-> s, data |-> None]}
  BY DEF AddOrUpdate, Put, GoSave
<1> HIDE DEF key
<1>3. Settled' = Settled /\ UNCHANGED <<start, up, file, folder, removed>>
  BY SettledSame DEF diskVars
<1>4. \A y \in Objects : entry'[y] = IF y = x THEN e ELSE entry[y]
  BY <1>2 DEF StorageInv, StorageTypeOK
<1>5. \A r \in Starts, k \in Keys :
        torrents'[r][k] = IF r = s /\ k = key THEN x ELSE torrents[r][k]
  BY <1>1, <1>2 DEF StorageInv, StorageTypeOK
<1>6. StorageTypeOK'
  <2>1. entry' \in [Objects -> Torrent]
    BY <1>2 DEF StorageInv, StorageTypeOK
  <2>2. torrents' \in [Starts -> [Keys -> Objects \cup {None}]]
    BY <1>1, <1>2 DEF StorageInv, StorageTypeOK
  <2>3. saves' \in SUBSET [start : Starts, data : Saved \cup {None}]
    BY <1>2 DEF StorageInv, StorageTypeOK
  <2> QED
    BY <1>3, <2>1, <2>2, <2>3 DEF StorageInv, StorageTypeOK
<1>7. Structs'
  BY <1>3, <1>4 DEF StorageInv, Structs, Objects
<1>8. Shown'
  <2>1. ASSUME NEW r \in Starts, NEW k \in Keys, torrents'[r][k] # None
        PROVE  /\ Fits(k, entry'[torrents'[r][k]], Settled)
               /\ Known(torrents'[r][k])
    <3>1. CASE r = s /\ k = key
      BY <1>1, <1>4, <1>5, <3>1 DEF Fits
    <3>2. CASE ~(r = s /\ k = key)
      <4>1. torrents'[r][k] = torrents[r][k] /\ torrents[r][k] # None
        BY <1>5, <2>1, <3>2
      <4>2. /\ torrents[r][k] \in Objects /\ HashOf[entry[torrents[r][k]].of] = k[1]
        BY <4>1, ListedShape
      <4>3. /\ Fits(k, entry[torrents[r][k]], Settled)
            /\ Known(torrents[r][k])
        BY <4>1 DEF StorageInv, Shown
      <4> QED
        BY <1>4, <4>1, <4>2, <4>3 DEF Fits
    <3> QED
      BY <3>1, <3>2
  <2> QED
    BY <1>3, <2>1 DEF Shown, Known
<1>8a. Pending'
  <2>1. \A r \in relabels : r.of \in Objects
    BY DEF StorageInv, StorageTypeOK, Relabel
  <2> QED
    BY <1>3, <1>4, <2>1 DEF StorageInv, Pending, Known
<1>9. Copies'
  BY <1>2, <1>3 DEF StorageInv, Copies
<1>10. Folders'
  BY <1>3 DEF StorageInv, Folders
<1>11. ASSUME NEW h \in Hashes, Findable(h) PROVE Findable(h)'
  <2>1. PICK category \in Categories :
          torrents[start][<<h, category>>] # None \/ <<category, h>> \in removed
    BY <1>11 DEF Findable
  <2>2. <<h, category>> \in Keys /\ start \in Starts /\ x # None
    BY ConstantsAssumption DEF Keys, Objects, StorageInv, StorageTypeOK
  <2>3. torrents'[start][<<h, category>>] # None \/ <<category, h>> \in removed
    BY <1>5, <2>1, <2>2
  <2> QED
    BY <1>3, <2>3 DEF Findable
<1>12. ASSUME s = start PROVE Findable(HashOf[e.of])'
  <2>1. torrents'[start][<<HashOf[e.of], e.category>>] = x /\ x # None
    BY <1>1, <1>5, <1>12, ConstantsAssumption DEF key, Objects
  <2> QED
    BY <1>1, <1>3, <2>1 DEF Findable
<1> QED
  BY <1>3, <1>6, <1>7, <1>8, <1>8a, <1>9, <1>10, <1>11, <1>12 DEF StorageInv

\* A goroutine writes to its struct and adds files to a folder.
LEMMA WriteInv ==
  ASSUME StorageInv, NEW x \in Imports, NEW e \in Torrent,
         entry' = [entry EXCEPT ![x] = e],
         UNCHANGED <<start, up, torrents, relabels, file, saves, removed>>,
         folder' \in [Places -> SUBSET Nat], Folders',
         \A p \in Places : folder[p] \subseteq folder'[p],
         Truthful(e, Settled'), e.content # None, e.of = entry[x].of
  PROVE  /\ StorageInv'
         /\ \A h \in Hashes : Findable(h) => Findable(h)'
<1>1. Settled \subseteq Settled'
  BY SettledGrows
<1> DEFINE d == Settled'
<1>2. \A y \in Objects : entry'[y] = IF y = x THEN e ELSE entry[y]
  BY DEF StorageInv, StorageTypeOK
<1>3. Settled \subseteq d /\ Truthful(e, d)
  BY <1>1
<1> HIDE DEF d
<1>4. StorageTypeOK'
  BY DEF StorageInv, StorageTypeOK, Objects, Places
<1>5. Structs'
  BY <1>2, <1>3, FitsMore DEF StorageInv, Structs, Objects, d
<1>6. Shown'
  <2>1. ASSUME NEW r \in Starts, NEW k \in Keys, torrents[r][k] # None
        PROVE  /\ Fits(k, entry'[torrents[r][k]], d)
               /\ Known(torrents[r][k])
    <3>1. torrents[r][k] \in Objects /\ HashOf[entry[torrents[r][k]].of] = k[1]
      BY <2>1, ListedShape
    <3>2. /\ Fits(k, entry[torrents[r][k]], Settled)
          /\ Known(torrents[r][k])
      BY <2>1 DEF StorageInv, Shown
    <3>3. Fits(k, entry[torrents[r][k]], d)
      BY <1>3, <3>2, FitsMore
    <3> QED
      BY <1>2, <1>3, <3>1, <3>2, <3>3 DEF Fits
  <2> QED
    BY <2>1 DEF Shown, Known, d
<1>6a. Pending'
  <2>1. \A r \in relabels : r.of \in Objects
    BY DEF StorageInv, StorageTypeOK, Relabel
  <2> QED
    BY <1>2, <2>1 DEF StorageInv, Pending, Known
<1>7. Copies'
  BY <1>3, FitsMore DEF StorageInv, Copies, d
<1> QED
  BY <1>4, <1>5, <1>6, <1>6a, <1>7 DEF StorageInv, Findable

\* What no step of the storage takes back.
Steady ==
    /\ start <= start' /\ removed \subseteq removed'
    /\ \A p \in Places : folder[p] \subseteq folder'[p] \/ p \in removed'
    /\ \A o \in Imports : entry[o].content # None => entry'[o].content # None
    /\ up' /\ start' = start => up /\ \A h \in Hashes : Findable(h) => Findable(h)'

\* A request lists structs that are shown ...
LEMMA GetAllInv ==
  ASSUME StorageInv, NEW hashes, NEW category \in Categories \cup {None},
         GetAll(hashes, category)
  PROVE  StorageInv' /\ Steady
<1> DEFINE ks == {k \in Listed(start) : HashIn(torrents[start][k]) \in hashes}
           new == {[start |-> start, of |-> torrents[start][k], category |-> category] : k \in ks}
<1>1. /\ relabels' = relabels \cup new
      /\ UNCHANGED <<start, up, torrents, entry, saves, file, folder, removed>>
  BY DEF GetAll, mapVars, diskVars
<1>2. start \in Starts /\ \A k \in ks : k \in Keys /\ torrents[start][k] # None
  BY DEF Listed, StorageInv, StorageTypeOK
<1>3. \A k \in ks : /\ torrents[start][k] \in Objects /\ Known(torrents[start][k])
                    /\ entry[torrents[start][k]].content # None
  BY <1>2, ListedShape DEF StorageInv, Shown, Fits
<1>4. \A r \in new : r \in Relabel /\ entry[r.of].content # None /\ Known(r.of)
  BY <1>2, <1>3 DEF Relabel
<1> HIDE DEF new
<1>5. StorageTypeOK'
  <2>1. relabels' \in SUBSET Relabel
    BY <1>1, <1>4 DEF StorageInv, StorageTypeOK
  <2> QED
    BY <1>1, <2>1 DEF StorageInv, StorageTypeOK
<1>6. Pending'
  BY <1>1, <1>4 DEF StorageInv, Pending, Known
<1>7. Settled' = Settled
  BY <1>1, SettledSame
<1>8. Structs' /\ Shown' /\ Copies' /\ Folders'
  BY <1>1, <1>7 DEF StorageInv, Structs, Shown, Known, Copies, Folders
<1> QED
  BY <1>1, <1>2, <1>5, <1>6, <1>8 DEF StorageInv, Steady, Findable, Starts

\* ... and puts them back, whatever has become of them.
LEMMA SetCategoryInv ==
  ASSUME StorageInv, NEW r \in relabels, SetCategory(r)
  PROVE  StorageInv' /\ Steady
<1>1. r \in Relabel
  BY DEF StorageInv, StorageTypeOK
<1>2. PICK x \in Objects : x = r.of
  BY <1>1 DEF Relabel
<1>3. PICK s \in Starts : s = r.start
  BY <1>1 DEF Relabel
<1>4. PICK category \in Categories :
        category = IF r.category = None THEN entry[x].category ELSE r.category
  <2>1. entry[x].category \in Categories
    BY DEF StorageInv, StorageTypeOK, Torrent
  <2> QED
    BY <1>1, <2>1 DEF Relabel
<1>5. /\ entry[x] \in Torrent /\ entry[x].content # None /\ Known(x)
      /\ Truthful(entry[x], Settled)
  BY <1>2 DEF StorageInv, StorageTypeOK, Pending, Structs
<1>6. PICK e \in Torrent : e = [entry[x] EXCEPT !.category = category]
  BY <1>5 DEF Torrent
<1>7. e.of = entry[x].of /\ e.content = entry[x].content /\ e.state = entry[x].state
  BY <1>5, <1>6 DEF Torrent
<1>8. e = Relabelled(r)
  BY <1>2, <1>4, <1>6 DEF Relabelled
<1>9. /\ AddOrUpdate(s, x, e) /\ Truthful(e, Settled) /\ e.content # None
      /\ UNCHANGED <<start, up, diskVars>> /\ relabels' \subseteq relabels
  BY <1>2, <1>3, <1>5, <1>7, <1>8 DEF SetCategory, Truthful
<1>10. StorageInv' /\ \A h \in Hashes : Findable(h) => Findable(h)'
  BY <1>5, <1>7, <1>9, PutInv
<1>11. \A o \in Imports : entry[o].content # None => entry'[o].content # None
  BY <1>7, <1>9 DEF AddOrUpdate, StorageInv, StorageTypeOK, Objects
<1>12. start \in Nat
  BY DEF StorageInv, StorageTypeOK, Starts
<1> QED
  BY <1>9, <1>10, <1>11, <1>12 DEF Steady, diskVars

\* With its keys, the folders of the structs go.
LEMMA RemoveKeysInv ==
  ASSUME StorageInv, NEW ks \in SUBSET Listed(start), up, RemoveKeys(ks)
  PROVE  StorageInv' /\ Steady
<1> DEFINE xs == {torrents[start][k] : k \in ks}
           places == {<<entry[x].content, HashIn(x)>> : x \in {y \in xs : entry[y].content # None}}
<1>1. /\ torrents' = [torrents EXCEPT ![start] = [k \in Keys |-> IF k \in ks THEN None ELSE @[k]]]
      /\ folder' = [p \in DOMAIN folder |-> IF p \in places THEN {} ELSE folder[p]]
      /\ removed' = removed \cup places
      /\ saves' = saves \cup {[start |-> start, data |-> None]}
      /\ UNCHANGED <<start, up, entry, relabels, file>>
  BY DEF RemoveKeys, RemoveFolders, GoSave
<1>2. /\ start \in Starts /\ ks \subseteq Keys
      /\ \A k \in ks : torrents[start][k] # None
  BY DEF StorageInv, StorageTypeOK, Listed
<1>3. \A k \in ks : /\ entry[torrents[start][k]] \in Torrent
                    /\ entry[torrents[start][k]].content # None
                    /\ HashIn(torrents[start][k]) = k[1]
                    /\ <<entry[torrents[start][k]].content, k[1]>> \in Places
  <2> SUFFICES ASSUME NEW k \in ks
               PROVE  /\ entry[torrents[start][k]] \in Torrent
                      /\ entry[torrents[start][k]].content # None
                      /\ HashIn(torrents[start][k]) = k[1]
                      /\ <<entry[torrents[start][k]].content, k[1]>> \in Places
    OBVIOUS
  <2>1. k \in Keys /\ torrents[start][k] # None
    BY <1>2
  <2>2. Fits(k, entry[torrents[start][k]], Settled) /\ entry[torrents[start][k]] \in Torrent
    BY <1>2, <2>1, ListedShape DEF StorageInv, Shown
  <2> QED
    BY <2>1, <2>2, KeyShape DEF Fits, HashIn, Places, Torrent
<1>4. places \subseteq Places
  BY <1>3
<1>5. \A k \in ks : <<entry[torrents[start][k]].content, k[1]>> \in places
  BY <1>3
<1> HIDE DEF places
<1>6. \A s \in Starts, k \in Keys :
        torrents'[s][k] = IF s = start /\ k \in ks THEN None ELSE torrents[s][k]
  BY <1>1, <1>2 DEF StorageInv, StorageTypeOK
<1>7. /\ \A p \in Places : folder'[p] = IF p \in places THEN {} ELSE folder[p]
      /\ folder' \in [Places -> SUBSET Nat]
  BY <1>1 DEF StorageInv, StorageTypeOK, Places
<1>8. Folders'
  BY <1>7 DEF StorageInv, Folders
<1>9. Settled \subseteq Settled'
  BY <1>1, <1>7, <1>8, SettledGrows
<1> DEFINE d == Settled'
<1>10. Settled \subseteq d
  BY <1>9
<1> HIDE DEF d
<1>11. StorageTypeOK'
  <2>1. torrents' \in [Starts -> [Keys -> Objects \cup {None}]]
    BY <1>1, <1>2 DEF StorageInv, StorageTypeOK
  <2>2. saves' \in SUBSET [start : Starts, data : Saved \cup {None}]
    BY <1>1, <1>2 DEF StorageInv, StorageTypeOK
  <2>3. removed' \in SUBSET (Categories \X Hashes)
    BY <1>1, <1>4 DEF StorageInv, StorageTypeOK, Places
  <2> QED
    BY <1>1, <1>7, <2>1, <2>2, <2>3 DEF StorageInv, StorageTypeOK, Places
<1>12. Structs'
  BY <1>1, <1>10, FitsMore DEF StorageInv, Structs, d
<1>13. Shown'
  BY <1>1, <1>6, <1>10, FitsMore DEF StorageInv, Shown, Known, d
<1>13a. Pending'
  BY <1>1 DEF StorageInv, Pending, Known
<1>14. Copies'
  BY <1>1, <1>10, FitsMore DEF StorageInv, Copies, d
<1>15. ASSUME NEW h \in Hashes, Findable(h) PROVE Findable(h)'
  <2>1. PICK category \in Categories :
          torrents[start][<<h, category>>] # None \/ <<category, h>> \in removed
    BY <1>15 DEF Findable
  <2>2. CASE <<h, category>> \in ks
    <3>1. PICK c \in Categories : c = entry[torrents[start][<<h, category>>]].content
      BY <1>3, <2>2 DEF Torrent
    <3>2. <<c, h>> \in removed'
      BY <1>1, <1>5, <2>2, <3>1
    <3> QED
      BY <3>2 DEF Findable
  <2>3. CASE <<h, category>> \notin ks
    <3>1. <<h, category>> \in Keys
      BY DEF Keys
    <3>2. torrents'[start][<<h, category>>] # None \/ <<category, h>> \in removed'
      BY <1>1, <1>2, <1>6, <2>1, <2>3, <3>1
    <3> QED
      BY <1>1, <3>2 DEF Findable
  <2> QED
    BY <2>2, <2>3
<1> QED
  BY <1>1, <1>7, <1>8, <1>11, <1>12, <1>13, <1>13a, <1>14, <1>15
     DEF StorageInv, StorageTypeOK, Steady, Starts

LEMMA DeletionInv ==
  ASSUME StorageInv,
         (\E k \in Keys : Delete(k)) \/ (\E h \in Hashes : DeleteMultiple(h))
  PROVE  StorageInv' /\ Steady
<1>1. ASSUME NEW k \in Keys, Delete(k) PROVE StorageInv' /\ Steady
  BY <1>1, RemoveKeysInv DEF Delete
<1>2. ASSUME NEW h \in Hashes, DeleteMultiple(h) PROVE StorageInv' /\ Steady
  BY <1>2, RemoveKeysInv DEF DeleteMultiple
<1> QED
  BY <1>1, <1>2

\* Marshalling copies what is shown.
LEMMA SaveReadsInv ==
  ASSUME StorageInv, NEW save \in saves, SaveReads(save)
  PROVE  StorageInv' /\ Steady
<1>1. /\ saves' = (saves \ {save}) \cup {[save EXCEPT !.data = Snapshot(save.start)]}
      /\ UNCHANGED <<start, up, torrents, entry, relabels, file, folder, removed>>
  BY DEF SaveReads, mapVars, diskVars
<1>2. save \in [start : Starts, data : Saved \cup {None}] /\ save.start \in Starts
  BY DEF StorageInv, StorageTypeOK
<1> DEFINE data == Snapshot(save.start)
<1>3. \A k \in Keys : /\ data[k] = IF torrents[save.start][k] = None THEN None
                                   ELSE entry[torrents[save.start][k]]
                      /\ data[k] \in Torrent \cup {None}
                      /\ data[k] # None => Fits(k, data[k], Settled)
  BY <1>2, ListedShape DEF Snapshot, StorageInv, Shown
<1>4. data \in Saved
  BY <1>3 DEF Snapshot, Saved
<1> HIDE DEF data
<1>5. /\ [save EXCEPT !.data = data] \in [start : Starts, data : Saved \cup {None}]
      /\ [save EXCEPT !.data = data].data = data
  BY <1>2, <1>4
<1>6. Settled' = Settled
  BY <1>1, SettledSame
<1>7. saves' = (saves \ {save}) \cup {[save EXCEPT !.data = data]}
  BY <1>1 DEF data
<1>8. StorageTypeOK'
  BY <1>1, <1>5, <1>7 DEF StorageInv, StorageTypeOK
<1>9. Copies'
  BY <1>1, <1>3, <1>5, <1>6, <1>7 DEF StorageInv, Copies
<1>10. Structs' /\ Shown' /\ Pending' /\ Folders'
  BY <1>1, <1>6 DEF StorageInv, Structs, Shown, Pending, Known, Folders
<1> QED
  BY <1>1, <1>8, <1>9, <1>10 DEF StorageInv, StorageTypeOK, Steady, Starts, Findable

LEMMA SaveWritesInv ==
  ASSUME StorageInv, NEW save \in saves, SaveWrites(save)
  PROVE  StorageInv' /\ Steady
<1>1. /\ save.data # None /\ file' = save.data /\ saves' = saves \ {save}
      /\ UNCHANGED <<start, up, torrents, entry, relabels, folder, removed>>
  BY DEF SaveWrites, mapVars
<1>2. save.data \in Saved
  BY <1>1 DEF StorageInv, StorageTypeOK
<1>3. Settled' = Settled
  BY <1>1, SettledSame
<1>4. StorageTypeOK'
  BY <1>1, <1>2 DEF StorageInv, StorageTypeOK
<1>5. Copies'
  BY <1>1, <1>3 DEF StorageInv, Copies
<1>6. Structs' /\ Shown' /\ Pending' /\ Folders'
  BY <1>1, <1>3 DEF StorageInv, Structs, Shown, Pending, Known, Folders
<1> QED
  BY <1>1, <1>4, <1>5, <1>6 DEF StorageInv, StorageTypeOK, Steady, Starts, Findable

LEMMA ResetInv ==
  ASSUME StorageInv, Reset
  PROVE  StorageInv' /\ Steady
<1>1. /\ start < MaxRestarts /\ up' = FALSE
      /\ torrents' = [torrents EXCEPT ![start] = Nothing]
      /\ UNCHANGED <<start, entry, relabels, saves, file, folder, removed>>
  BY DEF Reset, diskVars
<1>2. start \in Starts /\ Nothing \in [Keys -> Objects \cup {None}]
  BY DEF StorageInv, StorageTypeOK, Nothing
<1>3. \A s \in Starts, k \in Keys : torrents'[s][k] # None => torrents'[s][k] = torrents[s][k]
  BY <1>1, <1>2 DEF StorageInv, StorageTypeOK, Nothing
<1>4. Settled' = Settled
  BY <1>1, SettledSame
<1>5. StorageTypeOK'
  BY <1>1, <1>2 DEF StorageInv, StorageTypeOK
<1>6. Shown'
  BY <1>1, <1>3, <1>4 DEF StorageInv, Shown, Known
<1>7. Structs' /\ Pending' /\ Copies' /\ Folders'
  BY <1>1, <1>4 DEF StorageInv, Structs, Pending, Known, Copies, Folders
<1> QED
  BY <1>1, <1>2, <1>5, <1>6, <1>7 DEF StorageInv, Steady, Starts

\* What a start reads fits where it is put; its structs are new ones.
LEMMA LoadInv ==
  ASSUME StorageInv, Load
  PROVE  StorageInv' /\ Steady
<1>1. /\ ~up /\ up' = TRUE /\ start' = start + 1 /\ start \in Starts /\ start < MaxRestarts
      /\ UNCHANGED <<relabels, saves, file, folder, removed>>
  BY DEF Load, diskVars, StorageInv, StorageTypeOK
<1>2. start' \in Starts /\ start \in Nat /\ start' \in Nat /\ start' # 0
  BY <1>1, ConstantsAssumption DEF Starts
<1>3. PICK now \in Starts \ {0} : now = start'
  BY <1>2
<1>4. /\ torrents' = [torrents EXCEPT ![now] =
                        [k \in Keys |-> IF file[k] = None THEN None ELSE <<now, k>>]]
      /\ entry' = [x \in Objects |-> IF x \in {now} \X {k \in Keys : file[k] # None}
                                    THEN file[x[2]] ELSE entry[x]]
  BY <1>3 DEF Load
<1>5. \A s \in Starts, k \in Keys :
        torrents'[s][k] = IF s = now THEN IF file[k] = None THEN None ELSE <<now, k>>
                          ELSE torrents[s][k]
  BY <1>4 DEF StorageInv, StorageTypeOK
<1>6. \A k \in Keys : <<now, k>> \in Parsed /\ <<now, k>> \in Objects
  BY DEF Parsed, Objects
<1>7. \A k \in Keys : file[k] # None => entry'[<<now, k>>] = file[k]
  BY <1>4, <1>6
<1>8. \A x \in Objects : Known(x) => entry'[x] = entry[x]
  <2> SUFFICES ASSUME NEW x \in Objects, Known(x),
                      x \in {now} \X {k \in Keys : file[k] # None}
               PROVE  FALSE
    BY <1>4
  <2>1. x \in Parsed /\ x[1] = now
    BY <1>6
  <2> QED
    BY <1>1, <1>2, <1>3, <2>1 DEF Known
<1>9. Settled' = Settled
  BY <1>1, SettledSame
<1>10. \A x \in Objects : Known(x) => Known(x)'
  BY <1>1, <1>2 DEF Known, Parsed, Starts
<1>11. StorageTypeOK'
  <2>1. entry' \in [Objects -> Torrent]
    BY <1>4 DEF StorageInv, StorageTypeOK, Saved
  <2>2. [k \in Keys |-> IF file[k] = None THEN None ELSE <<now, k>>]
          \in [Keys -> Objects \cup {None}]
    BY <1>6
  <2>3. torrents' \in [Starts -> [Keys -> Objects \cup {None}]]
    BY <1>4, <2>2 DEF StorageInv, StorageTypeOK
  <2> QED
    BY <1>1, <1>2, <2>1, <2>3 DEF StorageInv, StorageTypeOK
<1>12. Structs'
  <2>1. ASSUME NEW x \in Objects PROVE Truthful(entry'[x], Settled)
    <3>1. CASE x \in {now} \X {k \in Keys : file[k] # None}
      <4>1. PICK k \in Keys : file[k] # None /\ x = <<now, k>>
        BY <3>1
      <4> QED
        BY <1>7, <4>1 DEF StorageInv, Copies, Fits
    <3>2. CASE x \notin {now} \X {k \in Keys : file[k] # None}
      BY <1>4, <3>2 DEF StorageInv, Structs
    <3> QED
      BY <3>1, <3>2
  <2>2. \A o \in Imports : entry'[o] = entry[o]
    BY <1>8, ConstantsAssumption DEF Known, Objects
  <2> QED
    BY <1>9, <2>1, <2>2 DEF StorageInv, Structs
<1>13. Shown'
  <2>1. ASSUME NEW s \in Starts, NEW k \in Keys, torrents'[s][k] # None
        PROVE  Fits(k, entry'[torrents'[s][k]], Settled) /\ Known(torrents[s][k])'
    <3>1. CASE s = now
      <4>1. torrents'[s][k] = <<now, k>> /\ file[k] # None
        BY <1>5, <2>1, <3>1
      <4>2. Fits(k, entry'[<<now, k>>], Settled)
        BY <1>7, <4>1 DEF StorageInv, Copies
      <4>3. Known(<<now, k>>)'
        BY <1>2, <1>3 DEF Known
      <4> QED
        BY <4>1, <4>2, <4>3 DEF Known
    <3>2. CASE s # now
      <4>0. torrents'[s][k] = torrents[s][k] /\ torrents[s][k] # None
        BY <1>5, <2>1, <3>2
      <4>1. torrents'[s][k] = torrents[s][k] /\ torrents[s][k] # None /\ torrents[s][k] \in Objects
        BY <4>0, ListedShape
      <4>2. Fits(k, entry[torrents[s][k]], Settled) /\ Known(torrents[s][k])
        BY <4>1 DEF StorageInv, Shown
      <4>3. entry'[torrents[s][k]] = entry[torrents[s][k]] /\ Known(torrents[s][k])'
        BY <1>8, <1>10, <4>1, <4>2
      <4> QED
        BY <4>1, <4>2, <4>3 DEF Known
    <3> QED
      BY <3>1, <3>2
  <2> QED
    BY <1>9, <2>1 DEF Shown, Known
<1>14. Pending'
  <2>1. \A r \in relabels : r.of \in Objects
    BY DEF StorageInv, StorageTypeOK, Relabel
  <2> QED
    BY <1>1, <1>8, <1>10, <2>1 DEF StorageInv, Pending
<1>15. Copies' /\ Folders'
  BY <1>1, <1>9 DEF StorageInv, Copies, Folders
<1>16. \A o \in Imports : entry'[o] = entry[o]
  BY <1>8, ConstantsAssumption DEF Known, Objects
<1> QED
  BY <1>1, <1>2, <1>11, <1>12, <1>13, <1>14, <1>15, <1>16 DEF StorageInv, Steady

-----------------------------------------------------------------------------
(* The goroutines                                                          *)

\* Steps that leave the goroutines of the imports alone.
LEMMA OthersStep ==
  ASSUME Inv, StorageInv', Steady, at' = at
  PROVE  Goroutines' /\ Found'
<1>1. Goroutines'
  <2>1. ASSUME NEW o \in Imports PROVE Goroutine(o)'
    <3>1. /\ Goroutine(o) /\ at[o].start \in Nat /\ start \in Nat /\ start' \in Nat
          /\ Place(o) \in Places
      BY PlaceShape, ConstantsAssumption
         DEF Inv, OwnTypeOK, Local, Goroutines, StorageInv, StorageTypeOK, Starts
    <3> QED
      BY <3>1 DEF Goroutine, Steady
  <2> QED
    BY <2>1 DEF Goroutines
<1>2. Found'
  <2>1. ASSUME NEW o \in Imports, at[o].pc \notin Unaccepted, at[o].start = start', up'
        PROVE  Findable(HashOf[o])'
    <3>1. /\ at[o].start <= start /\ at[o].start \in Nat /\ start \in Nat
          /\ HashOf[o] \in Hashes
      BY ConstantsAssumption
         DEF Inv, OwnTypeOK, Local, Goroutines, Goroutine, StorageInv, StorageTypeOK, Starts
    <3>2. start' = start
      BY <2>1, <3>1 DEF Steady
    <3>3. Findable(HashOf[o])
      BY <2>1, <3>2 DEF Steady, Inv, Found
    <3> QED
      BY <2>1, <3>1, <3>2, <3>3 DEF Steady
  <2> QED
    BY <2>1 DEF Found
<1> QED
  BY <1>1, <1>2

\* The goroutine of o goes on with locals l; the services stay as they are.
LEMMA GoesOn ==
  ASSUME Inv, StorageInv', Steady, NEW o \in Imports, NEW l \in Local,
         at' = [at EXCEPT ![o] = l], UNCHANGED <<start, up, calls, alive>>,
         remote' \in [Imports -> Phases], deleting' \in SUBSET Imports,
         l.start <= start, l.pc = "link" => o \in Symlinks, l.pc = "download" => o \notin Symlinks,
         \A f \in Files : l.files[f] = "done" =>
           at[o].files[f] = "done" \/ f \in folder'[Place(o)] \/ Place(o) \in removed',
         l.pc = "update" /\ o \in Symlinks => \A f \in Files : l.files[f] = "done",
         l.pc \in Taken => entry'[o].content # None,
         l.pc \notin Unaccepted =>
           \/ at[o].pc \notin Unaccepted /\ at[o].start = l.start
           \/ l.start = start => Findable(HashOf[o])'
  PROVE  Inv'
<1>1. \A p \in Imports : at'[p] = IF p = o THEN l ELSE at[p]
  BY DEF Inv, OwnTypeOK
<1>2. OwnTypeOK'
  BY DEF Inv, OwnTypeOK
<1>3. Goroutines'
  <2>1. ASSUME NEW p \in Imports, p # o PROVE Goroutine(p)'
    <3>1. at'[p] = at[p] /\ Goroutine(p) /\ Place(p) \in Places
      BY <1>1, <2>1, PlaceShape DEF Inv, Goroutines
    <3> QED
      BY <3>1 DEF Goroutine, Steady
  <2>2. Goroutine(o)'
    <3>1. at'[o] = l /\ Goroutine(o) /\ Place(o) \in Places
      BY <1>1, PlaceShape DEF Inv, Goroutines
    <3>2. \A f \in Files : l.files[f] = "done" => f \in folder'[Place(o)] \/ Place(o) \in removed'
      BY <3>1 DEF Goroutine, Steady
    <3> QED
      BY <3>1, <3>2 DEF Goroutine
  <2> QED
    BY <2>1, <2>2 DEF Goroutines
<1>4. Found'
  <2>1. ASSUME NEW p \in Imports, at'[p].pc \notin Unaccepted, at'[p].start = start', up'
        PROVE  Findable(HashOf[p])'
    <3>1. HashOf[p] \in Hashes /\ up
      BY <2>1, ConstantsAssumption
    <3>2. CASE p # o
      BY <1>1, <2>1, <3>1, <3>2 DEF Steady, Inv, Found
    <3>3. CASE p = o
      BY <1>1, <2>1, <3>1, <3>3 DEF Steady, Inv, Found
    <3> QED
      BY <3>2, <3>3
  <2> QED
    BY <2>1 DEF Found
<1> QED
  BY <1>2, <1>3, <1>4 DEF Inv

\* Nothing in the storage changes.
LEMMA StorageSame ==
  ASSUME StorageInv, UNCHANGED storageVars
  PROVE  StorageInv' /\ Steady
<1>1. UNCHANGED <<start, up, torrents, entry, relabels, saves, file, folder, removed>>
  BY DEF storageVars, mapVars, diskVars
<1>2. Settled' = Settled
  BY <1>1, SettledSame
<1>3. start \in Nat
  BY DEF StorageInv, StorageTypeOK, Starts
<1> QED
  BY <1>1, <1>2, <1>3
     DEF StorageInv, StorageTypeOK, Structs, Shown, Known, Pending, Copies, Folders, Steady,
         Findable

\* The locals a goroutine goes on with.
LEMMA LocalShape ==
  ASSUME Inv, NEW o \in Imports
  PROVE  /\ at[o] \in Local /\ at[o].start \in Nat /\ start \in Nat /\ at[o].start <= start
         /\ at[o].start \in Starts
         /\ Goroutine(o) /\ entry[o] \in Torrent /\ entry[o].of = o /\ o \in Objects /\ Known(o)
         /\ Truthful(entry[o], Settled) /\ Place(o) \in Places
BY PlaceShape, ConstantsAssumption
   DEF Inv, OwnTypeOK, Local, Goroutines, Goroutine, StorageInv, StorageTypeOK, Structs, Objects,
       Known, Starts

LEMMA EndedShape ==
  ASSUME Inv, NEW o \in Imports, NEW pc \in PCs
  PROVE  /\ Ended(o, pc) \in Local /\ Ended(o, pc).pc = pc /\ Ended(o, pc).start = at[o].start
         /\ \A f \in Files : Ended(o, pc).files[f] = "todo"
BY LocalShape DEF Ended, Local

LEMMA GotoShape ==
  ASSUME Inv, NEW o \in Imports, NEW pc \in PCs
  PROVE  /\ [at[o] EXCEPT !.pc = pc] \in Local /\ [at[o] EXCEPT !.pc = pc].pc = pc
         /\ [at[o] EXCEPT !.pc = pc].start = at[o].start
         /\ [at[o] EXCEPT !.pc = pc].files = at[o].files
BY LocalShape DEF Local

\* What becomes of a struct.
LEMMA StructShape ==
  ASSUME NEW x \in Torrent
  PROVE  /\ UpdateTorrentMin(x) \in Torrent /\ UpdateTorrentMin(x).of = x.of
         /\ UpdateTorrentMin(x).content # None /\ UpdateTorrentMin(x).state = x.state
         /\ \A state \in {"error", "pausedUP"} :
              /\ [x EXCEPT !.state = state] \in Torrent
              /\ [x EXCEPT !.state = state].of = x.of
              /\ [x EXCEPT !.state = state].state = state
              /\ [x EXCEPT !.state = state].content = x.content
         /\ \A category \in Categories :
              /\ [x EXCEPT !.content = category] \in Torrent
              /\ [x EXCEPT !.content = category].of = x.of
              /\ [x EXCEPT !.content = category].state = x.state
              /\ [x EXCEPT !.content = category].content # None
BY ConstantsAssumption DEF UpdateTorrentMin, Torrent

\* Store, by the goroutine of o: under its own start's map.
LEMMA StoreInv ==
  ASSUME Inv, NEW o \in Imports, NEW e \in Torrent, Store(o, e),
         e.of = o, e.content # None, Truthful(e, Settled)
  PROVE  /\ StorageInv' /\ Steady /\ UNCHANGED <<start, up, folder, removed>>
         /\ entry'[o].content # None
         /\ at[o].start = start => Findable(HashOf[o])'
<1>1. /\ AddOrUpdate(at[o].start, o, e) /\ UNCHANGED <<start, up, relabels, diskVars>>
      /\ UNCHANGED <<folder, removed>> /\ entry' = [entry EXCEPT ![o] = e]
  BY DEF Store, AddOrUpdate, diskVars
<1>2. PICK s \in Starts : s = at[o].start
  BY LocalShape
<1>3. /\ StorageInv' /\ \A h \in Hashes : Findable(h) => Findable(h)'
      /\ s = start => Findable(HashOf[e.of])'
  BY <1>1, <1>2, LocalShape, PutInv DEF Inv
<1>4. entry'[o] = e /\ \A p \in Imports : p # o => entry'[p] = entry[p]
  BY <1>1 DEF Inv, StorageInv, StorageTypeOK, Objects
<1> QED
  BY <1>1, <1>2, <1>3, <1>4, LocalShape DEF Steady

\* The steps before the client's answer.
LEMMA SubmitInv ==
  ASSUME Inv, NEW o \in Imports, UNCHANGED <<calls, alive>>,
         Process(o) \/ \E c \in Clients : SubmitMagnet(o, c) \/ SubmitFails(o, c)
  PROVE  Inv'
<1>1. /\ UNCHANGED storageVars /\ UNCHANGED deleting
      /\ UNCHANGED <<start, up, folder, removed>>
  BY DEF Process, SubmitMagnet, SubmitFails, storageVars, diskVars
<1>2. StorageInv' /\ Steady
  BY <1>1, StorageSame DEF Inv
<1>3. /\ at[o] \in Local /\ start \in Starts /\ at[o].start <= start /\ start <= start
      /\ at[o].start \in Starts /\ \A c \in Clients : UncachedFor(o, c) \in BOOLEAN
  <2>1. start \in Nat /\ start \in Starts
    BY DEF Inv, StorageInv, StorageTypeOK, Starts
  <2>2. at[o].uncached \in BOOLEAN
    BY LocalShape DEF Local
  <2>3. \A c \in Clients : UncachedFor(o, c) \in BOOLEAN
    BY <2>2, ConstantsAssumption DEF UncachedFor
  <2> QED
    BY <2>1, <2>3, LocalShape
<1>4. CASE Process(o)
  <2>1. PICK uncached \in BOOLEAN :
          uncached = IF o \in Override THEN TRUE ELSE ArrUncached[o] = TRUE
    OBVIOUS
  <2>2. /\ at' = [at EXCEPT ![o] = [at[o] EXCEPT !.pc = "submit", !.start = start,
                                                 !.uncached = uncached]]
        /\ UNCHANGED remote
    BY <1>4, <2>1 DEF Process, Become
  <2> DEFINE l == [at[o] EXCEPT !.pc = "submit", !.start = start, !.uncached = uncached]
  <2>3. /\ l \in Local /\ l.pc = "submit" /\ l.start = start /\ l.files = at[o].files
    BY <1>3 DEF Local, PCs
  <2>4. remote' \in [Imports -> Phases] /\ deleting' \in SUBSET Imports
    BY <1>1, <2>2 DEF Inv, OwnTypeOK
  <2>5. at' = [at EXCEPT ![o] = l]
    BY <2>2
  <2> HIDE DEF l
  <2> QED
    BY <1>1, <1>2, <1>3, <2>3, <2>4, <2>5, GoesOn DEF Taken, Unaccepted
<1>5. ASSUME NEW c \in Clients, SubmitMagnet(o, c) PROVE Inv'
  <2> DEFINE l == [at[o] EXCEPT !.pc = "check", !.client = c, !.tried = {},
                                !.uncached = UncachedFor(o, c)]
  <2>1. /\ l \in Local /\ l.pc = "check" /\ l.start = at[o].start /\ l.files = at[o].files
    BY <1>3 DEF Local, PCs
  <2>2. at' = [at EXCEPT ![o] = l]
    BY <1>5 DEF SubmitMagnet, Become
  <2>3. remote' \in [Imports -> Phases] /\ deleting' \in SUBSET Imports
    BY <1>1, <1>5 DEF SubmitMagnet, SubmittedPhases, Phases, Inv, OwnTypeOK
  <2> HIDE DEF l
  <2> QED
    BY <1>1, <1>2, <1>3, <2>1, <2>2, <2>3, GoesOn DEF Taken, Unaccepted
<1>6. ASSUME NEW c \in Clients, SubmitFails(o, c) PROVE Inv'
  <2>1. PICK pc \in {"rejected", "submit"}, tried \in SUBSET Clients :
          at' = [at EXCEPT ![o] = [at[o] EXCEPT !.pc = pc, !.tried = tried,
                                                !.uncached = UncachedFor(o, c)]]
    <3>1. at[o].tried \cup {c} \in SUBSET Clients
      BY <1>3 DEF Local
    <3> QED
      BY <1>6, <3>1 DEF SubmitFails, Become
  <2> DEFINE l == [at[o] EXCEPT !.pc = pc, !.tried = tried, !.uncached = UncachedFor(o, c)]
  <2>2. /\ l \in Local /\ l.pc = pc /\ l.start = at[o].start /\ l.files = at[o].files
    BY <1>3 DEF Local, PCs
  <2>3. remote' \in [Imports -> Phases] /\ deleting' \in SUBSET Imports
    BY <1>1, <1>6 DEF SubmitFails, Inv, OwnTypeOK
  <2> HIDE DEF l
  <2>4. at' = [at EXCEPT ![o] = l]
    BY <2>1 DEF l
  <2> QED
    BY <1>1, <1>2, <1>3, <2>2, <2>3, <2>4, GoesOn DEF Taken, Unaccepted
<1> QED
  BY <1>4, <1>5, <1>6

\* An answer: refused, or accepted and shown from here on.
LEMMA AnswerInv ==
  ASSUME Inv, NEW o \in Imports, UNCHANGED <<calls, alive>>,
         Rejected(o) \/ Accepted(o)
  PROVE  Inv'
<1>1. CASE Rejected(o)
  <2>1. /\ UNCHANGED storageVars /\ deleting' = deleting \cup {o} /\ UNCHANGED remote
        /\ UNCHANGED <<start, up, folder, removed>>
        /\ at' = [at EXCEPT ![o] = Ended(o, "rejected")]
    BY <1>1 DEF Rejected, GoDelete, Become, storageVars, diskVars
  <2>2. StorageInv' /\ Steady
    BY <2>1, StorageSame DEF Inv
  <2>3. remote' \in [Imports -> Phases] /\ deleting' \in SUBSET Imports
    BY <2>1 DEF Inv, OwnTypeOK
  <2>4. /\ Ended(o, "rejected") \in Local /\ Ended(o, "rejected").pc = "rejected"
        /\ Ended(o, "rejected").start <= start
        /\ \A f \in Files : Ended(o, "rejected").files[f] = "todo"
    BY EndedShape, LocalShape DEF PCs
  <2> QED
    BY <2>1, <2>2, <2>3, <2>4, GoesOn DEF Taken, Unaccepted
<1>2. CASE Accepted(o)
  <2>a. entry[o] \in Torrent /\ entry[o].of = o
    BY LocalShape
  <2>b. PICK e \in Torrent : e = UpdateTorrentMin(entry[o])
    BY <2>a, StructShape
  <2>1. /\ e = UpdateTorrentMin(entry[o]) /\ e.of = o
        /\ e.content # None /\ e.state = entry[o].state
    BY <2>a, <2>b, StructShape
  <2>2. /\ Store(o, e) /\ UNCHANGED <<remote, deleting>>
        /\ at' = [at EXCEPT ![o] = [at[o] EXCEPT !.pc = AfterCheck(o)]]
    BY <1>2, <2>1 DEF Accepted, Goto, Become
  <2>3. PICK pc \in {"place", "loop"} : pc = AfterCheck(o)
    BY DEF AfterCheck
  <2>4. Truthful(e, Settled)
    BY <2>1, LocalShape DEF Truthful
  <2>5. /\ StorageInv' /\ Steady /\ UNCHANGED <<start, up, folder, removed>>
        /\ entry'[o].content # None
        /\ at[o].start = start => Findable(HashOf[o])'
    BY <2>1, <2>2, <2>4, StoreInv
  <2> DEFINE l == [at[o] EXCEPT !.pc = pc]
  <2>6. l \in Local /\ l.pc = pc /\ l.start = at[o].start /\ l.files = at[o].files
    <3>1. pc \in PCs
      BY DEF PCs
    <3> QED
      BY <3>1, GotoShape
  <2>7. at' = [at EXCEPT ![o] = l]
    BY <2>2, <2>3
  <2>9. l.start <= start
    BY <2>6, LocalShape
  <2>8. remote' \in [Imports -> Phases] /\ deleting' \in SUBSET Imports
    BY <2>2 DEF Inv, OwnTypeOK
  <2> HIDE DEF l
  <2> QED
    BY <2>5, <2>6, <2>7, <2>8, <2>9, GoesOn
<1> QED
  BY <1>1, <1>2

\* ProcessFiles fails: the torrent is marked as failed and the goroutine ends.
LEMMA FailsInv ==
  ASSUME Inv, NEW o \in Imports, UNCHANGED <<calls, alive>>,
         CheckAgainFails(o) \/ CacheFails(o) \/ PlaceFails(o)
  PROVE  Inv'
<1>1. at[o].pc \in Taken
  BY DEF CheckAgainFails, CacheFails, PlaceFails, Taken
<1>a. entry[o] \in Torrent /\ entry[o].of = o
  BY LocalShape
<1>b. PICK e \in Torrent : e = [entry[o] EXCEPT !.state = "error"]
  BY <1>a, StructShape
<1>2. /\ e = [entry[o] EXCEPT !.state = "error"] /\ e.of = o
      /\ e.content = entry[o].content /\ e.state = "error"
  BY <1>a, <1>b, StructShape
<1>3. /\ Store(o, e) /\ UNCHANGED remote
      /\ deleting' = deleting \/ deleting' = deleting \cup {o}
      /\ \E pc \in {"done", "abandoned"} : at' = [at EXCEPT ![o] = Ended(o, pc)]
  BY <1>2 DEF CheckAgainFails, CacheFails, PlaceFails, MarkAsFailed, GoDelete, Become
<1>4. e.content # None /\ Truthful(e, Settled)
  BY <1>1, <1>2, LocalShape DEF Goroutine, Truthful
<1>5. /\ StorageInv' /\ Steady /\ UNCHANGED <<start, up, folder, removed>>
  BY <1>2, <1>3, <1>4, StoreInv
<1>6. PICK pc \in {"done", "abandoned"} : at' = [at EXCEPT ![o] = Ended(o, pc)]
  BY <1>3
<1>7. /\ Ended(o, pc) \in Local /\ Ended(o, pc).pc = pc /\ Ended(o, pc).start = at[o].start
      /\ \A f \in Files : Ended(o, pc).files[f] = "todo"
  BY EndedShape DEF PCs
<1>8. remote' \in [Imports -> Phases] /\ deleting' \in SUBSET Imports
  BY <1>3 DEF Inv, OwnTypeOK
<1> QED
  BY <1>1, <1>5, <1>6, <1>7, <1>8, LocalShape, GoesOn DEF Taken, Unaccepted

\* The torrent becomes complete: links are all made, downloads are all there.
LEMMA UpdateTorrentInv ==
  ASSUME Inv, NEW o \in Imports, UNCHANGED <<calls, alive>>, UpdateTorrent(o)
  PROVE  Inv'
<1>1. at[o].pc = "update" /\ at[o].pc \in Taken /\ at[o].pc \notin Unaccepted
  BY DEF UpdateTorrent, Taken, Unaccepted
<1>a. entry[o] \in Torrent /\ entry[o].of = o
  BY LocalShape
<1>b. PICK e \in Torrent : e = [entry[o] EXCEPT !.state = "pausedUP"]
  BY <1>a, StructShape
<1>2. /\ e = [entry[o] EXCEPT !.state = "pausedUP"] /\ e.of = o
      /\ e.content = entry[o].content
  BY <1>a, <1>b, StructShape
<1>3. /\ Store(o, e) /\ UNCHANGED <<remote, deleting>>
      /\ at' = [at EXCEPT ![o] = Ended(o, "done")]
  BY <1>2 DEF UpdateTorrent, Become
<1>4. \A f \in Files : at[o].files[f] = "done"
  BY <1>1, LocalShape DEF UpdateTorrent, IsReady, Goroutine
<1>5. Place(o) \in Settled
  <2>1. Place(o) \in Places /\ folder[Place(o)] \subseteq Files
    BY LocalShape DEF Inv, StorageInv, Folders
  <2>2. \A f \in Files : f \in folder[Place(o)] \/ Place(o) \in removed
    BY <1>4, LocalShape DEF Goroutine
  <2> QED
    BY <2>1, <2>2 DEF Settled
<1>6. e.content # None /\ Truthful(e, Settled)
  BY <1>1, <1>2, <1>5, LocalShape DEF Goroutine, Truthful
<1>7. StorageInv' /\ Steady /\ UNCHANGED <<start, up, folder, removed>>
  BY <1>2, <1>3, <1>6, StoreInv
<1>8. /\ Ended(o, "done") \in Local /\ Ended(o, "done").pc = "done"
      /\ Ended(o, "done").start = at[o].start
      /\ \A f \in Files : Ended(o, "done").files[f] = "todo"
  BY EndedShape DEF PCs
<1>9. remote' \in [Imports -> Phases] /\ deleting' \in SUBSET Imports
  BY <1>3 DEF Inv, OwnTypeOK
<1> QED
  BY <1>1, <1>3, <1>7, <1>8, <1>9, LocalShape, GoesOn DEF Taken

\* The steps of CheckStatus and ProcessFiles that leave the struct alone.
LEMMA PassInv ==
  ASSUME Inv, NEW o \in Imports, UNCHANGED <<calls, alive>>,
         \/ SelectFiles(o) \/ StartLinks(o) \/ StartDownloads(o)
         \/ \E f \in Files : SkipFile(o, f) \/ DownloadFile(o, f)
  PROVE  Inv'
<1>1. /\ UNCHANGED storageVars /\ UNCHANGED deleting
      /\ UNCHANGED <<start, up, folder, removed>> /\ entry' = entry
      /\ at[o].pc \notin Unaccepted \/ SelectFiles(o)
  BY DEF SelectFiles, StartLinks, StartDownloads, SkipFile, DownloadFile, storageVars, diskVars,
         mapVars, Unaccepted
<1>2. StorageInv' /\ Steady
  BY <1>1, StorageSame DEF Inv
<1>3. CASE SelectFiles(o)
  <2>1. at' = at /\ OwnTypeOK'
    BY <1>1, <1>3 DEF SelectFiles, Phases, Inv, OwnTypeOK
  <2> QED
    BY <1>2, <2>1, OthersStep DEF Inv
<1>4. CASE StartLinks(o) \/ StartDownloads(o)
  <2>1. PICK pc \in {"link", "download"} :
          /\ at' = [at EXCEPT ![o] = [at[o] EXCEPT !.pc = pc]]
          /\ pc = "link" => o \in Symlinks
          /\ pc = "download" => o \notin Symlinks
    BY <1>4 DEF StartLinks, StartDownloads, Goto, Become
  <2> DEFINE l == [at[o] EXCEPT !.pc = pc]
  <2>2. l \in Local /\ l.pc = pc /\ l.start = at[o].start /\ l.files = at[o].files
    <3>1. pc \in PCs
      BY DEF PCs
    <3> QED
      BY <3>1, GotoShape
  <2>3. at' = [at EXCEPT ![o] = l]
    BY <2>1
  <2> HIDE DEF l
  <2>4. remote' \in [Imports -> Phases] /\ deleting' \in SUBSET Imports
    BY <1>1, <1>4 DEF StartLinks, StartDownloads, Inv, OwnTypeOK
  <2>5. at[o].pc \notin Unaccepted /\ at[o].pc \in Taken
    BY <1>4 DEF StartLinks, StartDownloads, Unaccepted, Taken
  <2>6. l.start <= start /\ entry'[o].content # None
    BY <1>1, <2>2, <2>5, LocalShape DEF Goroutine
  <2>7. /\ l.pc = "link" => o \in Symlinks
        /\ l.pc = "download" => o \notin Symlinks
        /\ l.pc # "update"
        /\ \A f \in Files : l.files[f] = "done" => at[o].files[f] = "done"
        /\ at[o].start = l.start
    BY <2>1, <2>2
  <2> QED
    BY <1>1, <1>2, <2>2, <2>3, <2>4, <2>5, <2>6, <2>7, GoesOn
<1>5. ASSUME NEW f \in Files, SkipFile(o, f) \/ DownloadFile(o, f) PROVE Inv'
  <2>0. PICK is \in {"running", "failed"} :
          at' = [at EXCEPT ![o] = [at[o] EXCEPT !.files[f] = is]]
    BY <1>5 DEF SkipFile, DownloadFile, Become
  <2> DEFINE l == [at[o] EXCEPT !.files[f] = is]
  <2>1. /\ l \in Local /\ l.pc = at[o].pc /\ l.start = at[o].start
        /\ \A g \in Files : l.files[g] = IF g = f THEN is ELSE at[o].files[g]
    BY LocalShape DEF Local
  <2>2. at' = [at EXCEPT ![o] = l] /\ at[o].pc = "download" /\ UNCHANGED remote
    BY <1>5, <2>0 DEF SkipFile, DownloadFile
  <2> HIDE DEF l
  <2>3. remote' \in [Imports -> Phases] /\ deleting' \in SUBSET Imports
    BY <1>1, <2>2 DEF Inv, OwnTypeOK
  <2>4. /\ l.start <= start /\ entry'[o].content # None /\ o \notin Symlinks
        /\ at[o].pc \notin Unaccepted
    BY <1>1, <2>1, <2>2, LocalShape DEF Goroutine, Taken, Unaccepted
  <2> QED
    BY <1>1, <1>2, <2>1, <2>2, <2>3, <2>4, GoesOn
<1> QED
  BY <1>3, <1>4, <1>5

\* A goroutine that writes to its struct, or adds a file to its folder: what both
\* are then, and that nothing else in the storage is.
LEMMA WriteSteady ==
  ASSUME Inv, NEW o \in Imports, NEW e \in Torrent,
         entry' = [entry EXCEPT ![o] = e],
         UNCHANGED <<start, up, torrents, relabels, file, saves, removed>>,
         NEW fs \in SUBSET Files, folder' = [folder EXCEPT ![Place(o)] = @ \cup fs],
         e.content # None, e.of = o, e.state = entry[o].state
  PROVE  /\ StorageInv' /\ Steady /\ entry'[o].content # None
         /\ fs \subseteq folder'[Place(o)]
<1>1. Place(o) \in Places /\ folder \in [Places -> SUBSET Nat]
  BY LocalShape DEF Inv, StorageInv, StorageTypeOK, Places
<1>2. \A p \in Places : folder'[p] = IF p = Place(o) THEN folder[p] \cup fs ELSE folder[p]
  BY <1>1
<1>3. Folders' /\ folder' \in [Places -> SUBSET Nat]
  BY <1>1, <1>2, ConstantsAssumption DEF Inv, StorageInv, Folders
<1>4. Settled \subseteq Settled'
  BY <1>2, <1>3, SettledGrows
<1>5. Truthful(e, Settled')
  BY <1>4, LocalShape DEF Truthful
<1>6. StorageInv' /\ \A h \in Hashes : Findable(h) => Findable(h)'
  BY <1>2, <1>3, <1>5, LocalShape, WriteInv DEF Inv
<1>7. \A p \in Imports : entry'[p] = IF p = o THEN e ELSE entry[p]
  BY DEF Inv, StorageInv, StorageTypeOK, Objects
<1>8. start \in Nat
  BY LocalShape
<1> QED
  BY <1>1, <1>2, <1>6, <1>7, <1>8 DEF Steady

LEMMA NothingAdded ==
  ASSUME Inv, NEW o \in Imports, folder' = folder
  PROVE  \E fs \in SUBSET Files : folder' = [folder EXCEPT ![Place(o)] = @ \cup fs]
<1>1. folder = [folder EXCEPT ![Place(o)] = @ \cup {}]
  BY DEF Inv, StorageInv, StorageTypeOK
<1> QED
  BY <1>1

\* Downloaded, or still to be polled.
LEMMA CheckAgainInv ==
  ASSUME Inv, NEW o \in Imports, UNCHANGED <<calls, alive>>, CheckAgain(o)
  PROVE  Inv'
<1>1. entry[o] \in Torrent /\ entry[o].of = o
  BY LocalShape
<1>2. PICK e \in Torrent : e = UpdateTorrentMin(entry[o])
  BY <1>1, StructShape
<1>3. e.of = o /\ e.content # None /\ e.state = entry[o].state
  BY <1>1, <1>2, StructShape
<1>4. PICK pc \in {"place", "loop"} : pc = AfterCheck(o)
  BY DEF AfterCheck
<1>5. /\ entry' = [entry EXCEPT ![o] = e] /\ at' = [at EXCEPT ![o] = [at[o] EXCEPT !.pc = pc]]
      /\ UNCHANGED <<start, up, torrents, relabels, file, saves, folder, removed, remote,
                  deleting>>
      /\ at[o].pc = "loop"
  BY <1>2, <1>4 DEF CheckAgain, Goto, Become, diskVars
<1>6. PICK fs \in SUBSET Files : folder' = [folder EXCEPT ![Place(o)] = @ \cup fs]
  BY <1>5, NothingAdded
<1>7. StorageInv' /\ Steady /\ entry'[o].content # None
  BY <1>3, <1>5, <1>6, WriteSteady
<1> DEFINE l == [at[o] EXCEPT !.pc = pc]
<1>8. l \in Local /\ l.pc = pc /\ l.start = at[o].start /\ l.files = at[o].files
  <2>1. pc \in PCs
    BY DEF PCs
  <2> QED
    BY <2>1, GotoShape
<1>9. at' = [at EXCEPT ![o] = l]
  BY <1>5
<1> HIDE DEF l
<1>10. remote' \in [Imports -> Phases] /\ deleting' \in SUBSET Imports
  BY <1>5 DEF Inv, OwnTypeOK
<1>11. /\ l.start <= start /\ at[o].pc \notin Unaccepted /\ at[o].start = l.start
       /\ l.pc \notin {"link", "download", "update"}
       /\ \A f \in Files : l.files[f] = "done" => at[o].files[f] = "done"
  BY <1>5, <1>8, LocalShape DEF Unaccepted
<1>12. l \in Local /\ UNCHANGED <<start, up>>
  BY <1>5, <1>8
<1> QED
  BY <1>7, <1>9, <1>10, <1>11, <1>12, GoesOn

\* A file is there; or its download has failed.
LEMMA FileInv ==
  ASSUME Inv, NEW o \in Imports, UNCHANGED <<calls, alive>>, NEW f \in Files,
         LinkFile(o, f) \/ DownloadEnds(o, f)
  PROVE  Inv'
<1>1. entry[o] \in Torrent /\ entry[o].of = o /\ at[o].pc \in {"link", "download"}
      /\ entry[o].content # None
  BY LocalShape DEF LinkFile, DownloadEnds, Goroutine, Taken
<1>2. PICK e \in Torrent : /\ e = entry[o] \/ e = UpdateTorrentMin(entry[o])
                           /\ entry' = [entry EXCEPT ![o] = e]
  <2>1. CASE LinkFile(o, f)
    <3>1. entry' = [entry EXCEPT ![o] = entry[o]]
      BY <2>1 DEF LinkFile, mapVars, Inv, StorageInv, StorageTypeOK
    <3> QED
      BY <1>1, <3>1
  <2>2. CASE DownloadEnds(o, f)
    BY <1>1, <2>2, StructShape DEF DownloadEnds
  <2> QED
    BY <2>1, <2>2
<1>3. e.of = o /\ e.content # None /\ e.state = entry[o].state
  <2>1. CASE e = entry[o]
    BY <1>1, <2>1
  <2>2. CASE e = UpdateTorrentMin(entry[o])
    BY <1>1, <2>2, StructShape
  <2> QED
    BY <1>2, <2>1, <2>2
<1>4. PICK result \in {"done", "failed"}, fs \in SUBSET Files :
        /\ at' = [at EXCEPT ![o] = [at[o] EXCEPT !.files[f] = result]]
        /\ folder' = [folder EXCEPT ![Place(o)] = @ \cup fs]
        /\ result = "done" => fs = {f}
  <2>1. CASE PutFile(o, f) /\ Become(o, [at[o] EXCEPT !.files[f] = "done"])
    <3>1. {f} \in SUBSET Files
      OBVIOUS
    <3> QED
      BY <2>1, <3>1 DEF PutFile, Become
  <2>2. CASE folder' = folder /\ Become(o, [at[o] EXCEPT !.files[f] = "failed"])
    <3>1. PICK fs \in SUBSET Files : folder' = [folder EXCEPT ![Place(o)] = @ \cup fs]
      BY <2>2, NothingAdded
    <3> QED
      BY <2>2, <3>1 DEF Become
  <2> QED
    BY <2>1, <2>2 DEF LinkFile, DownloadEnds
<1>5. UNCHANGED <<start, up, torrents, relabels, file, saves, removed, remote, deleting>>
  BY DEF LinkFile, DownloadEnds, mapVars
<1>6. StorageInv' /\ Steady /\ entry'[o].content # None /\ fs \subseteq folder'[Place(o)]
  BY <1>2, <1>3, <1>4, <1>5, WriteSteady
<1> DEFINE l == [at[o] EXCEPT !.files[f] = result]
<1>7. /\ l \in Local /\ l.pc = at[o].pc /\ l.start = at[o].start
      /\ \A g \in Files : l.files[g] = IF g = f THEN result ELSE at[o].files[g]
  BY LocalShape DEF Local
<1>8. at' = [at EXCEPT ![o] = l]
  BY <1>4
<1> HIDE DEF l
<1>9. remote' \in [Imports -> Phases] /\ deleting' \in SUBSET Imports
  BY <1>5 DEF Inv, OwnTypeOK
<1>10. /\ l.start <= start /\ at[o].pc \notin Unaccepted
       /\ l.pc = "link" => o \in Symlinks
       /\ l.pc = "download" => o \notin Symlinks
       /\ l.pc # "update" /\ at[o].start = l.start
  BY <1>1, <1>7, LocalShape DEF Unaccepted, Goroutine
<1>11. \A g \in Files : l.files[g] = "done" =>
         at[o].files[g] = "done" \/ g \in folder'[Place(o)]
  BY <1>4, <1>6, <1>7
<1> QED
  BY <1>5, <1>6, <1>7, <1>8, <1>9, <1>10, <1>11, GoesOn

\* All links are made, or all downloads have ended: TorrentPath is set.
LEMMA PlacedInv ==
  ASSUME Inv, NEW o \in Imports, UNCHANGED <<calls, alive>>, Placed(o)
  PROVE  Inv'
<1>1. entry[o] \in Torrent /\ entry[o].of = o /\ CategoryOf[o] \in Categories
  BY LocalShape, ConstantsAssumption
<1>2. PICK e \in Torrent : e = [entry[o] EXCEPT !.content = CategoryOf[o]]
  BY <1>1, StructShape
<1>3. e.of = o /\ e.content # None /\ e.state = entry[o].state
  BY <1>1, <1>2, StructShape
<1>4. /\ entry' = [entry EXCEPT ![o] = e]
      /\ at' = [at EXCEPT ![o] = [at[o] EXCEPT !.pc = "update"]]
      /\ UNCHANGED <<start, up, torrents, relabels, file, saves, folder, removed, remote,
                  deleting>>
      /\ \/ at[o].pc = "link" /\ \A f \in Files : at[o].files[f] = "done"
         \/ at[o].pc = "download"
  BY <1>2 DEF Placed, Goto, Become, diskVars
<1>5. PICK fs \in SUBSET Files : folder' = [folder EXCEPT ![Place(o)] = @ \cup fs]
  BY <1>4, NothingAdded
<1>6. StorageInv' /\ Steady /\ entry'[o].content # None
  BY <1>3, <1>4, <1>5, WriteSteady
<1> DEFINE l == [at[o] EXCEPT !.pc = "update"]
<1>7. l \in Local /\ l.pc = "update" /\ l.start = at[o].start /\ l.files = at[o].files
  BY GotoShape DEF PCs
<1>8. at' = [at EXCEPT ![o] = l]
  BY <1>4
<1> HIDE DEF l
<1>9. remote' \in [Imports -> Phases] /\ deleting' \in SUBSET Imports
  BY <1>4 DEF Inv, OwnTypeOK
<1>10. /\ l.start <= start /\ at[o].pc \notin Unaccepted /\ at[o].start = l.start
       /\ l.pc \notin {"link", "download"}
       /\ at[o].pc = "download" => o \notin Symlinks
  BY <1>4, <1>7, LocalShape DEF Unaccepted, Goroutine
<1>11. /\ o \in Symlinks => \A f \in Files : l.files[f] = "done"
       /\ \A f \in Files : l.files[f] = "done" => at[o].files[f] = "done"
  BY <1>4, <1>7, <1>10
<1>12. l \in Local /\ UNCHANGED <<start, up>>
  BY <1>4, <1>7
<1> QED
  BY <1>6, <1>8, <1>9, <1>10, <1>11, <1>12, GoesOn

-----------------------------------------------------------------------------
(* The specification                                                       *)

LEMMA ContinueInv ==
  ASSUME Inv, NEW o \in Imports, UNCHANGED <<calls, alive>>, Continue(o)
  PROVE  Inv'
<1>1. CASE \/ \E c \in Clients : SubmitMagnet(o, c) \/ SubmitFails(o, c)
           \/ Rejected(o) \/ Accepted(o)
  BY <1>1, SubmitInv, AnswerInv
<1>2. CASE CheckAgainFails(o) \/ CacheFails(o) \/ PlaceFails(o) \/ UpdateTorrent(o)
  BY <1>2, FailsInv, UpdateTorrentInv
<1>3. CASE \/ SelectFiles(o) \/ StartLinks(o) \/ StartDownloads(o)
           \/ \E f \in Files : SkipFile(o, f) \/ DownloadFile(o, f)
  BY <1>3, PassInv
<1>4. CASE CheckAgain(o) \/ Placed(o) \/ \E f \in Files : LinkFile(o, f)
  BY <1>4, CheckAgainInv, PlacedInv, FileInv
<1> QED
  BY <1>1, <1>2, <1>3, <1>4 DEF Continue

LEMMA BackgroundInv ==
  ASSUME Inv, UNCHANGED <<calls, alive>>, Background
  PROVE  Inv'
<1>1. ASSUME NEW o \in Imports, Process(o) \/ Continue(o) PROVE Inv'
  BY <1>1, SubmitInv, ContinueInv
<1>1a. ASSUME NEW o \in Imports, NEW f \in Files, DownloadEnds(o, f) PROVE Inv'
  BY <1>1a, FileInv
<1>1b. ASSUME NEW r \in relabels, SetCategory(r), UNCHANGED <<at, remote, deleting>> PROVE Inv'
  <2>1. StorageInv' /\ Steady
    BY <1>1b, SetCategoryInv DEF Inv
  <2>2. OwnTypeOK'
    BY <1>1b DEF Inv, OwnTypeOK
  <2> QED
    BY <1>1b, <2>1, <2>2, OthersStep DEF Inv
<1>2. ASSUME NEW o \in Imports, RemoteEnds(o) \/ DeleteRemote(o) PROVE Inv'
  <2>1. UNCHANGED storageVars /\ at' = at
    BY <1>2 DEF RemoteEnds, DeleteRemote
  <2>2. OwnTypeOK'
    BY <1>2 DEF RemoteEnds, DeleteRemote, Phases, Inv, OwnTypeOK
  <2> QED
    BY <2>1, <2>2, StorageSame, OthersStep DEF Inv
<1>3. ASSUME NEW save \in saves, Save(save) PROVE Inv'
  <2>1. UNCHANGED <<at, remote, deleting>> /\ (SaveReads(save) \/ SaveWrites(save))
    BY <1>3 DEF Save
  <2>2. StorageInv' /\ Steady
    BY <2>1, SaveReadsInv, SaveWritesInv DEF Inv
  <2>3. OwnTypeOK'
    BY <2>1 DEF Inv, OwnTypeOK
  <2> QED
    BY <2>1, <2>2, <2>3, OthersStep DEF Inv
<1>4. CASE Load /\ UNCHANGED <<at, remote, deleting>>
  <2>1. StorageInv' /\ Steady
    BY <1>4, LoadInv DEF Inv
  <2>2. OwnTypeOK'
    BY <1>4 DEF Inv, OwnTypeOK
  <2> QED
    BY <1>4, <2>1, <2>2, OthersStep DEF Inv
<1> QED
  BY <1>1, <1>1a, <1>1b, <1>2, <1>3, <1>4 DEF Background

LEMMA ApiInv ==
  ASSUME Inv, Api
  PROVE  StorageInv' /\ Steady /\ at' = at
         /\ remote' \in [Imports -> Phases] /\ deleting' \in SUBSET Imports
<1>0. \A k \in Listed(start) : entry[torrents[start][k]].of \in Imports
  <2> SUFFICES ASSUME NEW k \in Listed(start) PROVE entry[torrents[start][k]].of \in Imports
    OBVIOUS
  <2>1. k \in Keys /\ start \in Starts /\ torrents[start][k] # None
    BY DEF Listed, Inv, StorageInv, StorageTypeOK
  <2>2. entry[torrents[start][k]] \in Torrent
    BY <2>1, ListedShape DEF Inv
  <2> QED
    BY <2>2 DEF Torrent
<1>1. ASSUME NEW hashes, NEW category \in Categories \cup {None}, ApiSetCategory(hashes, category)
      PROVE  StorageInv' /\ Steady /\ UNCHANGED <<at, remote, deleting>>
  BY <1>1, GetAllInv DEF ApiSetCategory, Inv
<1>2. ASSUME NEW k \in Keys, ApiDelete(k)
      PROVE  /\ StorageInv' /\ Steady /\ UNCHANGED <<at, deleting>>
             /\ remote' \in [Imports -> Phases]
  <2>1. k \in Listed(start) /\ Delete(k)
    BY <1>2 DEF ApiDelete, Delete
  <2>2. remote' \in [Imports -> Phases]
    BY <1>0, <1>2, <2>1 DEF ApiDelete, Phases, Inv, OwnTypeOK
  <2> QED
    BY <1>2, <2>1, <2>2, DeletionInv DEF ApiDelete, Inv
<1>3. ASSUME NEW h \in Hashes, ApiDeleteMultiple(h)
      PROVE  /\ StorageInv' /\ Steady /\ UNCHANGED <<at, remote>>
             /\ deleting' \in SUBSET Imports
  <2>1. deleting' \in SUBSET Imports
    BY <1>0, <1>3 DEF ApiDeleteMultiple, Inv, OwnTypeOK
  <2> QED
    BY <1>3, <2>1, DeletionInv DEF ApiDeleteMultiple, Inv
<1>4. remote \in [Imports -> Phases] /\ deleting \in SUBSET Imports
  BY DEF Inv, OwnTypeOK
<1> QED
  BY <1>1, <1>2, <1>3, <1>4 DEF Api

LEMMA OutsideInv ==
  ASSUME Inv, UNCHANGED alive, Outside
  PROVE  Inv'
<1>1. StorageInv' /\ Steady /\ at' = at
      /\ remote' \in [Imports -> Phases] /\ deleting' \in SUBSET Imports
  <2>1. CASE Api
    BY <2>1, ApiInv
  <2>2. CASE Restart
    BY <2>2, ResetInv DEF Restart, Inv, OwnTypeOK
  <2> QED
    BY <2>1, <2>2 DEF Outside
<1>2. OwnTypeOK'
  <2>1. calls' \in 0..MaxCalls
    BY ConstantsAssumption DEF Outside, Inv, OwnTypeOK
  <2> QED
    BY <1>1, <2>1 DEF Inv, OwnTypeOK
<1> QED
  BY <1>1, <1>2, OthersStep DEF Inv

LEMMA NextInv == Inv /\ [Next]_vars => Inv'
<1> SUFFICES ASSUME Inv, [Next]_vars PROVE Inv'
  OBVIOUS
<1>1. CASE Background /\ UNCHANGED <<calls, alive>>
  BY <1>1, BackgroundInv
<1>2. CASE Outside /\ UNCHANGED alive
  BY <1>2, OutsideInv
<1>3. CASE (\E o \in Imports : Panics(o)) \/ UNCHANGED vars
  <2>1. UNCHANGED <<storageVars, at, remote, deleting, calls>> /\ alive' \in BOOLEAN
    BY <1>3 DEF Panics, vars, Inv, OwnTypeOK
  <2>2. OwnTypeOK'
    BY <2>1 DEF Inv, OwnTypeOK
  <2> QED
    BY <2>1, <2>2, StorageSame, OthersStep DEF Inv
<1> QED
  BY <1>1, <1>2, <1>3 DEF Next

LEMMA InitInv == Init => Inv
<1> SUFFICES ASSUME Init PROVE Inv
  OBVIOUS
<1>1. /\ start = 0 /\ up = TRUE /\ torrents = [s \in Starts |-> Nothing]
      /\ entry = [x \in Objects |-> IF x \in Imports THEN Created(x) ELSE Unused]
      /\ file = Nothing /\ relabels = {} /\ saves = {} /\ removed = {}
      /\ folder = [p \in Places |-> {}]
  BY DEF Init, StorageInit, Places, Objects
<1>2. \A o \in Imports : Created(o) \in Torrent /\ Created(o).of = o
                         /\ Created(o).state = "downloading"
  BY ConstantsAssumption DEF Created, Torrent
<1>3. \A x \in Objects : entry[x] \in Torrent /\ entry[x].state = "downloading"
  BY <1>1, <1>2, UnusedShape
<1>4. 0 \in Starts /\ 0 \in 0..MaxCalls
  BY ConstantsAssumption DEF Starts
<1>5. OwnTypeOK
  BY <1>4 DEF Init, OwnTypeOK, Local, PCs, Phases
<1>6. StorageTypeOK
  BY <1>1, <1>3, <1>4 DEF StorageTypeOK, Nothing, Saved, Places
<1>7. Structs
  BY <1>1, <1>2, <1>3 DEF Structs, Truthful, Objects
<1>8. Shown /\ Pending /\ Copies /\ Folders
  BY <1>1 DEF Shown, Pending, Copies, Folders, Nothing
<1>9. Goroutines
  BY <1>1 DEF Init, Goroutines, Goroutine, Taken
<1>10. Found
  BY DEF Init, Found, Unaccepted
<1> QED
  BY <1>1, <1>5, <1>6, <1>7, <1>8, <1>9, <1>10 DEF Inv, StorageInv

THEOREM InvHolds == Spec => []Inv
BY InitInv, NextInv, PTL DEF Spec

\* The storage, the file and the goroutines keep the shape the Go declarations
\* give them (pkg/qbit/storage.go, types.go).
THEOREM TypeCorrect == Spec => []TypeOK
<1>1. Inv => TypeOK
  BY DEF Inv, StorageInv, OwnTypeOK, TypeOK
<1> QED
  BY <1>1, InvHolds, PTL

\* For any number of imports, of releases and of files: what the storage shows,
\* also what a restart reads from torrents.json, is complete only when all its
\* files are in place or somebody deleted the folder (UpdateTorrent, IsReady).
THEOREM CompletionIsTrue == Spec => []CompleteMeansPlaced
<1>1. Inv => CompleteMeansPlaced
  <2> SUFFICES ASSUME Inv, NEW x \in Objects, entry[x].state = "pausedUP"
               PROVE  folder[Place(entry[x].of)] = Files \/ Place(entry[x].of) \in removed
    BY DEF CompleteMeansPlaced
  <2>1. Place(entry[x].of) \in Settled
    BY DEF Inv, StorageInv, Structs, Truthful
  <2> QED
    BY <2>1 DEF Settled
<1> QED
  BY <1>1, InvHolds, PTL

\* An accepted torrent stays findable by its hash whatever is relabelled or saved,
\* until its folder is deleted or the services are restarted (Process,
\* AddOrUpdate, handleSetCategory).
THEOREM AcceptedStaysListed == Spec => []AcceptedIsListed
<1>1. Inv => AcceptedIsListed
  <2> SUFFICES ASSUME Inv, NEW o \in Imports, at[o].pc \notin Unaccepted,
                      at[o].start = start, up,
                      \A category \in Categories : <<category, HashOf[o]>> \notin removed
               PROVE  \E k \in Listed(start) : HashIn(torrents[start][k]) = HashOf[o]
    BY DEF AcceptedIsListed, Unaccepted
  <2>1. PICK category \in Categories : torrents[start][<<HashOf[o], category>>] # None
    BY DEF Inv, Found, Findable
  <2> DEFINE k == <<HashOf[o], category>>
  <2>2. k \in Keys /\ k[1] = HashOf[o]
    BY ConstantsAssumption DEF Keys
  <2>3. start \in Starts /\ torrents[start][k] # None
    BY <2>1, <2>2 DEF Inv, StorageInv, StorageTypeOK
  <2> HIDE DEF k
  <2>4. HashOf[entry[torrents[start][k]].of] = k[1]
    BY <2>2, <2>3, ListedShape DEF Inv
  <2> QED
    BY <2>2, <2>3, <2>4 DEF Listed, HashIn
<1> QED
  BY <1>1, InvHolds, PTL

=============================================================================
