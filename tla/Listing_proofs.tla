--------------------------- MODULE Listing_proofs ---------------------------
(***************************************************************************)
(* Whatever refreshes overtake each other, no refresh takes the flag of a  *)
(* change that it missed, and rclone is told of nothing that the           *)
(* configured directories have not shown yet.                              *)
(***************************************************************************)
EXTENDS Listing, TLAPS

\* Nothing that is copied or still to be stored is ahead of the torrents.
Behind ==
    /\ \A t \in Threads : loc[t].all <= byName
    /\ \A s \in Unwaited \X Counts : stores[s] > 0 => s[2] <= byName

\* FlagKept with the ghost alone: that a view is behind what was stored is TypeOK's.
KeptFor(w) ==
    \/ stored[w] = byName \/ OnItsWay(w)
    \/ sortNeeded \/ \E t \in Threads : loc[t].pc = "flag"
Kept == \A w \in Views : KeptFor(w)

\* Why CustomBeforeRclone: a directory is stored before it is no longer waited for.
Waited ==
    \A t \in Threads, d \in Custom :
        \/ loc[t].pc = "wait" /\ d \notin loc[t].left
        \/ loc[t].pc = "rclone"
        => stored[d] >= loc[t].all

\* The locals of a goroutine.
LocType ==
    [pc : {"idle", "flag", "notify", "refresh", "wait", "rclone"},
     via : {"debouncer", "refresh", "none"}, rclone : BOOLEAN, all : Counts, left : SUBSET Custom]

Inv == TypeOK /\ Behind /\ Kept /\ Waited

-----------------------------------------------------------------------------
LEMMA LocShape == TypeOK => loc \in [Threads -> LocType]
BY DEF TypeOK, LocType

LEMMA IdleShape ==
  /\ Idle \in LocType /\ Idle.all = 0 /\ Idle.pc = "idle" /\ Idle.left = {}
  /\ [Idle EXCEPT !.pc = "refresh"] \in LocType
  /\ [Idle EXCEPT !.pc = "refresh"].all = 0
  /\ [Idle EXCEPT !.pc = "refresh"].pc = "refresh"
  /\ [Idle EXCEPT !.pc = "refresh"].left = {}
  /\ \A r \in BOOLEAN :
       /\ [Idle EXCEPT !.pc = "refresh", !.rclone = r] \in LocType
       /\ [Idle EXCEPT !.pc = "refresh", !.rclone = r].all = 0
       /\ [Idle EXCEPT !.pc = "refresh", !.rclone = r].pc = "refresh"
       /\ [Idle EXCEPT !.pc = "refresh", !.rclone = r].left = {}
<1>1. 0 \in Counts
  BY ConstantsAssumption DEF Counts
<1> QED
  BY <1>1 DEF Idle, LocType

LEMMA InvInit == Init => Inv
<1> SUFFICES ASSUME Init PROVE Inv
  OBVIOUS
<1>1. \A w \in Views : views[w] = 0 /\ stored[w] = 0
  BY DEF Init
<1>2. TypeOK
  <2>1. /\ byName \in Counts /\ sortNeeded \in BOOLEAN /\ timer \in {None} \cup BOOLEAN
        /\ silent \in BOOLEAN
    <3>1. byName = 0 /\ sortNeeded = FALSE /\ timer = None /\ silent = FALSE
      BY DEF Init
    <3>2. 0 \in Counts
      BY ConstantsAssumption DEF Counts
    <3> QED
      BY <3>1, <3>2, Zenon
  <2>2. stored \in [Views -> 0..byName] /\ views \in [Views -> 0..byName]
    BY DEF Init
  <2>3. stores \in [Unwaited \X Counts -> Nat]
    BY DEF Init
  <2> QED
    BY <1>1, <2>1, <2>2, <2>3 DEF TypeOK, Init, Idle, Counts
<1>3. Behind
  BY DEF Init, Behind, Idle
<1>4. Kept
  BY <1>1 DEF Init, Kept, KeptFor
<1>5. Waited
  BY DEF Init, Waited, Idle
<1> QED
  BY <1>2, <1>3, <1>4, <1>5 DEF Inv

\* Steps of one goroutine that leave the torrents, the views and the stores to
\* come as they are.
LEMMA LocalStep ==
  ASSUME Inv, NEW t \in Threads,
         UNCHANGED <<byName, views, stores, stored, silent>>,
         sortNeeded' \in BOOLEAN, timer' \in {None} \cup BOOLEAN,
         NEW l, loc' = [loc EXCEPT ![t] = l],
         l \in LocType,
         l.left # {} => l.pc = "wait", loc[t].pc = "wait" => loc[t].left = {},
         l.all <= byName, sortNeeded => sortNeeded', loc[t].pc = "flag" => sortNeeded',
         \A d \in Custom :
            \/ l.pc = "wait" /\ d \notin l.left
            \/ l.pc = "rclone"
            => stored[d] >= l.all
  PROVE  Inv'
<1>1. TypeOK'
  BY DEF Inv, TypeOK, LocType
<1>2. Behind'
  BY DEF Inv, TypeOK, Behind
<1>3. Kept'
  <2> SUFFICES ASSUME NEW w \in Views PROVE KeptFor(w)'
    BY DEF Kept
  <2>1. KeptFor(w)
    BY DEF Inv, Kept
  <2>2. ASSUME NEW u \in Threads, u # t PROVE loc'[u] = loc[u]
    BY <2>2 DEF Inv, TypeOK
  <2>3. ASSUME NEW u \in Threads, loc[u].pc = "wait", w \in loc[u].left PROVE u # t
    BY <2>3
  <2>4. OnItsWay(w) => OnItsWay(w)'
    BY <2>2, <2>3 DEF OnItsWay
  <2>5. (\E u \in Threads : loc[u].pc = "flag")
          => sortNeeded' \/ \E u \in Threads : loc'[u].pc = "flag"
    BY <2>2
  <2> QED
    BY <2>1, <2>4, <2>5 DEF KeptFor
<1>4. Waited'
  BY DEF Inv, TypeOK, Waited
<1> QED
  BY <1>1, <1>2, <1>3, <1>4 DEF Inv

-----------------------------------------------------------------------------
(* The steps                                                               *)

LEMMA ChangeInv ==
  ASSUME Inv, NEW t \in Threads, Change(t)
  PROVE  Inv'
<1>1. PICK o \in Operations :
        /\ loc' = [loc EXCEPT ![t] = [Idle EXCEPT
                     !.pc = IF o.change = "set" THEN "flag" ELSE "notify",
                     !.via = o.via, !.rclone = o.rclone]]
        /\ sortNeeded' = (sortNeeded \/ o.change = "remove")
        /\ silent' = (o.via = "none")
  BY DEF Change
<1>2. o.via \in {"debouncer", "refresh", "none"} /\ o.rclone \in BOOLEAN /\ o.change \in {"set", "remove"}
  <2>1. CASE o = GenerateDownloadLinks
    BY <2>1 DEF GenerateDownloadLinks
  <2>2. CASE o # GenerateDownloadLinks
    BY <2>2 DEF Operations
  <2> QED
    BY <2>1, <2>2
<1> DEFINE l == [Idle EXCEPT !.pc = IF o.change = "set" THEN "flag" ELSE "notify",
                             !.via = o.via, !.rclone = o.rclone]
<1>3. /\ l.pc = (IF o.change = "set" THEN "flag" ELSE "notify") /\ l.all = 0
      /\ l.left = {} /\ l \in LocType
  <2>1. 0 \in Counts
    BY ConstantsAssumption DEF Counts
  <2> QED
    BY <1>2, <2>1 DEF Idle, LocType
<1>4. loc' = [loc EXCEPT ![t] = l]
  BY <1>1
<1> HIDE DEF l
<1>5. /\ byName' = byName + 1 /\ byName \in Counts /\ byName' \in Counts
      /\ UNCHANGED <<views, stores, timer, stored>>
  BY ConstantsAssumption DEF Change, Inv, TypeOK, Counts
<1>6. TypeOK'
  <2>1. 0..byName \subseteq 0..byName'
    BY <1>5 DEF Counts
  <2>2. stored' \in [Views -> 0..byName'] /\ views' \in [Views -> 0..byName']
    BY <1>5, <2>1 DEF Inv, TypeOK
  <2>3. sortNeeded' \in BOOLEAN /\ silent' \in BOOLEAN
    BY <1>1 DEF Inv, TypeOK
  <2> QED
    BY <1>3, <1>4, <1>5, <2>2, <2>3 DEF Inv, TypeOK, LocType
<1>7. Behind'
  BY <1>3, <1>4, <1>5 DEF Inv, TypeOK, Behind, Counts
<1>8. Kept'
  <2>1. loc'[t] = l
    BY <1>4 DEF Inv, TypeOK
  <2>2. sortNeeded' \/ loc'[t].pc = "flag"
    BY <1>1, <1>2, <1>3, <2>1
  <2> QED
    BY <2>2 DEF Kept, KeptFor
<1>9. Waited'
  BY <1>3, <1>4, <1>5 DEF Inv, TypeOK, Waited
<1> QED
  BY <1>6, <1>7, <1>8, <1>9 DEF Inv

LEMMA CopyAllInv ==
  ASSUME Inv, NEW t \in Threads, CopyAll(t)
  PROVE  Inv'
<1> DEFINE l == [loc[t] EXCEPT !.pc = "wait", !.all = byName, !.left = Custom]
<1>1. /\ l.pc = "wait" /\ l.all = byName /\ l.left = Custom
      /\ l \in LocType
  BY DEF Inv, TypeOK, LocType
<1>2. loc' = [loc EXCEPT ![t] = l]
  BY DEF CopyAll, StartStores
<1> HIDE DEF l
<1>3. /\ sortNeeded' = FALSE /\ UNCHANGED <<byName, views, timer, stored, silent>>
      /\ stores' = [s \in DOMAIN stores |->
                      IF s[2] = byName THEN stores[s] + 1 ELSE stores[s]]
  BY DEF CopyAll
<1>4. TypeOK'
  <2>1. stores' \in [Unwaited \X Counts -> Nat]
    <3>1. /\ DOMAIN stores = Unwaited \X Counts
          /\ \A s \in Unwaited \X Counts : stores[s] \in Nat
      BY DEF Inv, TypeOK
    <3> QED
      BY <1>3, <3>1
  <2>2. loc' \in [Threads -> LocType]
    BY <1>1, <1>2, LocShape DEF Inv
  <2>3. \A u \in Threads : loc'[u].left # {} => loc'[u].pc = "wait"
    BY <1>1, <1>2 DEF Inv, TypeOK
  <2> QED
    BY <1>3, <2>1, <2>2, <2>3 DEF Inv, TypeOK, LocType
<1>5. Behind'
  BY <1>1, <1>2, <1>3 DEF Inv, TypeOK, Behind, Counts
<1>6. Kept'
  <2> SUFFICES ASSUME NEW w \in Views PROVE OnItsWay(w)'
    BY DEF Kept, KeptFor
  <2>1. CASE w \in Unwaited
    <3>1. <<w, byName>> \in Unwaited \X Counts
      BY <2>1 DEF Inv, TypeOK
    <3>2. stores'[<<w, byName>>] > 0
      BY <1>3, <3>1 DEF Inv, TypeOK
    <3> QED
      BY <1>3, <2>1, <3>2 DEF OnItsWay
  <2>2. CASE w \in Custom
    <3>1. loc'[t] = l
      BY <1>2 DEF Inv, TypeOK
    <3> QED
      BY <1>1, <1>3, <2>2, <3>1 DEF OnItsWay
  <2> QED
    BY <2>1, <2>2 DEF Views
<1>7. Waited'
  BY <1>1, <1>2, <1>3 DEF Inv, TypeOK, Waited
<1> QED
  BY <1>4, <1>5, <1>6, <1>7 DEF Inv

\* Storing a view never takes back what was stored before.
LEMMA StoreGrows ==
  ASSUME Inv, NEW w \in Views, NEW all \in Counts, all <= byName,
         Store(w, all), byName' = byName
  PROVE  /\ stored' \in [Views -> 0..byName] /\ views' \in [Views -> 0..byName]
         /\ \A v \in Views : views'[v] <= stored'[v] /\ stored[v] <= stored'[v]
         /\ all <= stored'[w]
BY DEF Inv, TypeOK, Store, Counts

LEMMA StoreUnwaitedInv ==
  ASSUME Inv, NEW w \in Unwaited, NEW all \in Counts, StoreUnwaited(w, all)
  PROVE  Inv'
<1>1. /\ stores[<<w, all>>] > 0 /\ stores' = [stores EXCEPT ![<<w, all>>] = @ - 1]
      /\ Store(w, all) /\ UNCHANGED <<byName, sortNeeded, timer, loc, silent>>
  BY DEF StoreUnwaited
<1>2. w \in Views /\ <<w, all>> \in Unwaited \X Counts /\ all <= byName
  BY <1>1 DEF Views, Inv, Behind
<1>3. /\ stored' \in [Views -> 0..byName] /\ views' \in [Views -> 0..byName]
      /\ \A v \in Views : views'[v] <= stored'[v] /\ stored[v] <= stored'[v]
      /\ all <= stored'[w]
  BY <1>1, <1>2, StoreGrows
<1>4. TypeOK'
  BY <1>1, <1>2, <1>3 DEF Inv, TypeOK
<1>5. Behind'
  BY <1>1, <1>2 DEF Inv, TypeOK, Behind
<1>6. Kept'
  <2> SUFFICES ASSUME NEW v \in Views PROVE KeptFor(v)'
    BY DEF Kept
  <2>0. KeptFor(v) /\ byName \in Nat /\ stored'[v] \in 0..byName /\ stored[v] <= stored'[v]
    BY <1>3 DEF Inv, Kept, TypeOK, Counts
  <2>1. CASE stored[v] = byName
    <3>1. stored'[v] = byName
      BY <2>0, <2>1
    <3> QED
      BY <1>1, <3>1 DEF KeptFor
  <2>2. CASE v \in Unwaited /\ stores[<<v, byName>>] > 0
    <3>1. CASE w = v /\ all = byName
      <4>1. stored'[v] = byName
        BY <1>3, <2>0, <3>1
      <4> QED
        BY <1>1, <4>1 DEF KeptFor
    <3>2. CASE w # v \/ all # byName
      <4>1. <<w, all>> # <<v, byName>>
        BY <3>2
      <4>2. <<v, byName>> \in Unwaited \X Counts
        BY <2>2 DEF Inv, TypeOK
      <4>3. stores'[<<v, byName>>] > 0
        BY <1>1, <2>2, <4>1, <4>2 DEF Inv, TypeOK
      <4> QED
        BY <1>1, <2>2, <4>3 DEF KeptFor, OnItsWay
    <3> QED
      BY <3>1, <3>2
  <2>3. CASE \E t \in Threads : loc[t].pc = "wait" /\ v \in loc[t].left /\ loc[t].all = byName
    BY <1>1, <2>3 DEF KeptFor, OnItsWay
  <2>4. CASE sortNeeded \/ \E t \in Threads : loc[t].pc = "flag"
    BY <1>1, <2>4 DEF KeptFor
  <2> QED
    BY <2>0, <2>1, <2>2, <2>3, <2>4 DEF KeptFor, OnItsWay
<1>7. Waited'
  BY <1>1, <1>3 DEF Inv, TypeOK, Waited, Views, Counts
<1> QED
  BY <1>4, <1>5, <1>6, <1>7 DEF Inv

LEMMA StoreCustomInv ==
  ASSUME Inv, NEW t \in Threads, NEW d \in Custom, StoreCustom(t, d)
  PROVE  Inv'
<1> DEFINE l == [loc[t] EXCEPT !.left = @ \ {d}]
<1>1. /\ l.pc = "wait" /\ l.all = loc[t].all /\ l.left = loc[t].left \ {d}
      /\ l \in LocType
  BY DEF Inv, TypeOK, StoreCustom, LocType
<1>2. /\ loc' = [loc EXCEPT ![t] = l] /\ loc[t].pc = "wait"
      /\ Store(d, loc[t].all) /\ UNCHANGED <<byName, sortNeeded, stores, timer, silent>>
  BY DEF StoreCustom
<1> HIDE DEF l
<1>3. loc[t].all \in Counts /\ loc[t].all <= byName /\ d \in Views
  BY DEF Inv, TypeOK, Behind, Views
<1>4. /\ stored' \in [Views -> 0..byName] /\ views' \in [Views -> 0..byName]
      /\ \A v \in Views : views'[v] <= stored'[v] /\ stored[v] <= stored'[v]
      /\ loc[t].all <= stored'[d]
  BY <1>2, <1>3, StoreGrows
<1>5. TypeOK'
  BY <1>1, <1>2, <1>4 DEF Inv, TypeOK, LocType
<1>6. Behind'
  BY <1>1, <1>2, <1>3 DEF Inv, TypeOK, Behind
<1>7. Kept'
  <2> SUFFICES ASSUME NEW w \in Views PROVE KeptFor(w)'
    BY DEF Kept
  <2>0. KeptFor(w) /\ byName \in Nat /\ stored'[w] \in 0..byName /\ stored[w] <= stored'[w]
    BY <1>4 DEF Inv, Kept, TypeOK, Counts
  <2>1. CASE stored[w] = byName
    <3>1. stored'[w] = byName
      BY <2>0, <2>1
    <3> QED
      BY <1>2, <3>1 DEF KeptFor
  <2>2. CASE w \in Unwaited /\ stores[<<w, byName>>] > 0
    BY <1>2, <2>2 DEF KeptFor, OnItsWay
  <2>3. ASSUME NEW u \in Threads, loc[u].pc = "wait", w \in loc[u].left, loc[u].all = byName
        PROVE  KeptFor(w)'
    <3>1. CASE u = t /\ w = d
      <4>1. stored'[w] = byName
        BY <1>3, <1>4, <2>0, <2>3, <3>1
      <4> QED
        BY <1>2, <4>1 DEF KeptFor
    <3>2. CASE u # t \/ w # d
      <4>1. loc'[u].pc = "wait" /\ w \in loc'[u].left /\ loc'[u].all = byName
        BY <1>1, <1>2, <2>3, <3>2 DEF Inv, TypeOK
      <4> QED
        BY <1>2, <4>1 DEF KeptFor, OnItsWay
    <3> QED
      BY <3>1, <3>2
  <2>4. ASSUME NEW u \in Threads, loc[u].pc = "flag"
        PROVE  loc'[u].pc = "flag"
    BY <1>1, <1>2, <2>4 DEF Inv, TypeOK
  <2> QED
    BY <1>2, <2>0, <2>1, <2>2, <2>3, <2>4 DEF KeptFor, OnItsWay
<1>8. Waited'
  <2>1. ASSUME NEW u \in Threads, NEW c \in Custom,
               \/ loc'[u].pc = "wait" /\ c \notin loc'[u].left
               \/ loc'[u].pc = "rclone"
        PROVE  stored'[c] >= loc'[u].all
    <3>1. /\ stored[c] <= stored'[c] /\ c \in Views /\ stored'[c] \in 0..byName
          /\ stored[c] \in 0..byName /\ loc[u].all \in Counts /\ byName \in Counts
      BY <1>4 DEF Views, Inv, TypeOK
    <3>2. CASE u = t /\ c = d
      BY <1>1, <1>2, <1>4, <3>1, <3>2 DEF Inv, TypeOK, Counts
    <3>3. CASE u = t /\ c # d
      <4>1. loc[t].pc = "wait" /\ c \notin loc[t].left
        BY <1>1, <1>2, <2>1, <3>3 DEF Inv, TypeOK
      <4>2. stored[c] >= loc[t].all
        BY <4>1 DEF Inv, Waited
      <4> QED
        BY <1>1, <1>2, <3>1, <3>3, <4>2 DEF Inv, TypeOK, Counts
    <3>4. CASE u # t
      <4>1. loc'[u] = loc[u]
        BY <1>2, <3>4 DEF Inv, TypeOK
      <4>2. stored[c] >= loc[u].all
        BY <2>1, <4>1 DEF Inv, Waited
      <4> QED
        BY <3>1, <4>1, <4>2 DEF Counts
    <3> QED
      BY <3>2, <3>3, <3>4
  <2> QED
    BY <2>1 DEF Waited
<1> QED
  BY <1>5, <1>6, <1>7, <1>8 DEF Inv

\* The steps that only move a goroutine, the flag and the timer.
LEMMA MoveInv ==
  ASSUME Inv, NEW t \in Threads,
         \/ Flag(t) \/ Notify(t) \/ TimerFires(t) \/ GetListing(t)
         \/ Wait(t) \/ RefreshRclone(t)
  PROVE  Inv'
<1>1. /\ loc[t] \in LocType /\ loc[t].all <= byName /\ sortNeeded \in BOOLEAN
      /\ timer \in {None} \cup BOOLEAN /\ byName \in Counts
      /\ loc[t].left # {} => loc[t].pc = "wait"
  BY DEF Inv, TypeOK, Behind, LocType
<1>2. /\ Idle \in LocType /\ Idle.all <= byName /\ Idle.pc = "idle" /\ Idle.left = {}
      /\ [Idle EXCEPT !.pc = "refresh"] \in LocType
      /\ [Idle EXCEPT !.pc = "refresh"].all <= byName
      /\ [Idle EXCEPT !.pc = "refresh"].pc = "refresh"
      /\ [Idle EXCEPT !.pc = "refresh"].left = {}
      /\ \A r \in BOOLEAN :
           /\ [Idle EXCEPT !.pc = "refresh", !.rclone = r] \in LocType
           /\ [Idle EXCEPT !.pc = "refresh", !.rclone = r].all <= byName
           /\ [Idle EXCEPT !.pc = "refresh", !.rclone = r].pc = "refresh"
           /\ [Idle EXCEPT !.pc = "refresh", !.rclone = r].left = {}
  <2>1. 0 <= byName
    BY <1>1 DEF Counts
  <2> QED
    BY <2>1, IdleShape
<1>3. \A pc \in {"notify", "refresh", "rclone"} :
        LET l == [loc[t] EXCEPT !.pc = pc]
        IN  l \in LocType /\ l.all = loc[t].all /\ l.pc = pc /\ l.left = loc[t].left
  BY <1>1 DEF LocType
<1>4. CASE Flag(t)
  <2>1. /\ loc' = [loc EXCEPT ![t] = [loc[t] EXCEPT !.pc = "notify"]]
        /\ loc[t].pc = "flag" /\ sortNeeded' = TRUE
        /\ UNCHANGED <<byName, views, stores, timer, stored, silent>>
    BY <1>4 DEF Flag, Goto
  <2> QED
    BY <1>1, <1>3, <2>1, LocalStep
<1>5. CASE Notify(t)
  <2>1. /\ UNCHANGED <<byName, sortNeeded, views, stores, stored, silent>> /\ loc[t].pc = "notify"
        /\ timer' \in {None} \cup BOOLEAN
        /\ \/ loc' = [loc EXCEPT ![t] = Idle]
           \/ loc' = [loc EXCEPT ![t] = [loc[t] EXCEPT !.pc = "refresh"]]
    <3>1. loc[t].rclone \in BOOLEAN
      BY <1>1 DEF LocType
    <3>2. /\ UNCHANGED <<byName, sortNeeded, views, stores, stored, silent>> /\ loc[t].pc = "notify"
          /\ timer' = loc[t].rclone \/ timer' = timer
      BY <1>5 DEF Notify, Call
    <3>3. \/ loc' = [loc EXCEPT ![t] = Idle]
          \/ loc' = [loc EXCEPT ![t] = [loc[t] EXCEPT !.pc = "refresh"]]
      BY <1>5 DEF Notify, Goto
    <3>4. timer' \in {None} \cup BOOLEAN
      BY <1>1, <3>1, <3>2, Zenon
    <3> QED
      BY <3>2, <3>3, <3>4
  <2> QED
    BY <1>1, <1>2, <1>3, <2>1, LocalStep
<1>6. CASE TimerFires(t)
  <2>1. /\ UNCHANGED <<byName, sortNeeded, views, stores, stored, silent>> /\ loc[t].pc = "idle"
        /\ timer' = None /\ timer \in BOOLEAN
        /\ loc' = [loc EXCEPT ![t] = [Idle EXCEPT !.pc = "refresh", !.rclone = timer]]
    BY <1>1, <1>2, <1>6 DEF TimerFires
  <2> QED
    BY <1>1, <1>2, <2>1, LocalStep
<1>7. CASE GetListing(t)
  <2>1. /\ UNCHANGED <<byName, sortNeeded, views, stores, timer, stored, silent>>
        /\ loc[t].pc = "idle" /\ loc' = [loc EXCEPT ![t] = [Idle EXCEPT !.pc = "refresh"]]
    BY <1>2, <1>7 DEF GetListing
  <2> QED
    BY <1>1, <1>2, <2>1, LocalStep
<1>8. CASE Wait(t)
  <2>1. /\ UNCHANGED <<byName, sortNeeded, views, stores, timer, stored, silent>>
        /\ loc[t].pc = "wait" /\ loc[t].left = {}
        /\ \/ loc' = [loc EXCEPT ![t] = Idle]
           \/ loc' = [loc EXCEPT ![t] = [loc[t] EXCEPT !.pc = "rclone"]]
    BY <1>8 DEF Wait, Leave, Goto
  <2>2. \A d \in Custom : stored[d] >= loc[t].all
    BY <2>1 DEF Inv, Waited
  <2>3. CASE loc' = [loc EXCEPT ![t] = Idle]
    BY <1>1, <1>2, <2>1, <2>3, LocalStep
  <2>4. CASE loc' = [loc EXCEPT ![t] = [loc[t] EXCEPT !.pc = "rclone"]]
    <3> DEFINE l == [loc[t] EXCEPT !.pc = "rclone"]
    <3>1. /\ l \in LocType /\ l.all = loc[t].all /\ l.pc = "rclone" /\ l.left = {}
          /\ loc' = [loc EXCEPT ![t] = l]
      BY <1>3, <2>1, <2>4
    <3> HIDE DEF l
    <3> QED
      BY <1>1, <2>1, <2>2, <3>1, LocalStep
  <2> QED
    BY <2>1, <2>3, <2>4
<1>9. CASE RefreshRclone(t)
  <2>1. /\ UNCHANGED <<byName, sortNeeded, views, stores, timer, stored, silent>>
        /\ loc[t].pc = "rclone" /\ loc' = [loc EXCEPT ![t] = Idle]
    BY <1>9 DEF RefreshRclone
  <2> QED
    BY <1>1, <1>2, <2>1, LocalStep
<1> QED
  BY <1>4, <1>5, <1>6, <1>7, <1>8, <1>9

LEMMA NextInv == Inv /\ [Next]_vars => Inv'
<1> SUFFICES ASSUME Inv, [Next]_vars PROVE Inv'
  OBVIOUS
<1>1. CASE UNCHANGED vars
  BY <1>1 DEF vars, Inv, TypeOK, Behind, Kept, KeptFor, OnItsWay, Waited
<1>2. ASSUME NEW t \in Threads, Change(t) \/ TimerFires(t) \/ GetListing(t) \/ Continue(t)
      PROVE  Inv'
  BY <1>2, ChangeInv, CopyAllInv, StoreCustomInv, MoveInv DEF Continue
<1>3. ASSUME NEW w \in Unwaited, NEW all \in Counts, StoreUnwaited(w, all)
      PROVE  Inv'
  BY <1>3, StoreUnwaitedInv
<1> QED
  BY <1>1, <1>2, <1>3 DEF Next

-----------------------------------------------------------------------------
THEOREM InvHolds == Spec => []Inv
BY InvInit, NextInv, PTL DEF Spec

\* Everything has the shape the Go declarations give it, and no view shows what
\* is not there yet or more than was ever stored for it (refreshListing).
THEOREM TypeCorrect == Spec => []TypeOK
<1>1. Inv => TypeOK
  BY DEF Inv
<1> QED
  BY <1>1, InvHolds, PTL

\* For every number of goroutines and directories, with or without any directory
\* of the configuration: a view that is behind the torrents is flagged, unless a
\* refresh that copied all changes is still to store it or was overtaken by one that
\* copied earlier (refreshListing clears sortNeeded under the lock it copies under).
THEOREM FlagsKept == Spec => []FlagKept
<1>1. Inv => FlagKept
  <2> SUFFICES ASSUME Inv, NEW w \in Views, stored[w] = byName
               PROVE  views[w] = byName \/ Overtaken(w)
    BY DEF Inv, Kept, KeptFor, FlagKept
  <2>1. views[w] \in 0..byName /\ byName \in Nat
    BY DEF Inv, TypeOK, Counts
  <2> QED
    BY <2>1 DEF Overtaken
<1> QED
  BY <1>1, InvHolds, PTL

\* rclone is told to list the directories anew only after every directory of the
\* configuration showed what was copied, however many refreshes run; only one that
\* copied earlier can have taken it back since (refreshListing, then refreshRclone).
THEOREM CustomFirst == Spec => []CustomBeforeRclone
<1>1. Inv => CustomBeforeRclone
  <2> SUFFICES ASSUME Inv, NEW t \in Threads, loc[t].pc = "rclone", NEW d \in Custom
               PROVE  \/ views[d] >= loc[t].all
                      \/ views[d] < stored[d] /\ stored[d] >= loc[t].all
    BY DEF CustomBeforeRclone
  <2>1. stored[d] >= loc[t].all
    BY DEF Inv, Waited
  <2>2. /\ views[d] \in 0..byName /\ stored[d] \in 0..byName /\ views[d] <= stored[d]
        /\ loc[t].all \in Counts
    BY DEF Inv, TypeOK, Views
  <2> QED
    BY <2>1, <2>2 DEF Counts
<1> QED
  BY <1>1, InvHolds, PTL

=============================================================================
