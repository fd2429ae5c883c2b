--------------------------- MODULE Reinsert_proofs ---------------------------
(***************************************************************************)
(* Proofs about Reinsert: types, the table of requests, who is answered    *)
(* with what, and that the release is never lost.                          *)
(***************************************************************************)
EXTENDS Reinsert, FiniteSetTheorems, TLAPS

USE ConstantsAssumption

(***************************************************************************)
(* Types.  That ids do not run out is a matter of the bound: every call    *)
(* that has still to submit has an id left.                                *)
(***************************************************************************)
Submitting == {u \in Threads : loc[u].pc \in {"load", "store", "submit"}}
Budget == nextId + Cardinality(Submitting) <= MaxId + 1

Begun    == {"load", "wait", "store", "submit"}
Replaced == {"status", "set", "delete", "deleteRemote", "complete", "markOk", "unmark", "findOk", "clearBad"}

\* What a goroutine has in its hands at each control point.
Holds(l) ==
    /\ l.pc = "idle" => l = Idle
    /\ l.pc # "idle" => l.old \in Ids /\ l.old < nextId
    /\ l.pc \in Begun => l.new = None
    /\ l.new # None => l.new \in Ids /\ l.new < nextId /\ l.old < l.new
    /\ l.pc \in Replaced => l.new # None
    /\ l.pc \in {"idle", "load", "store"} <=> l.req = None

Shape ==
    /\ \A i \in cached \cup debrid : i < nextId
    /\ \A t \in Threads : Holds(loc[t])

Sound == TypeOK /\ Budget /\ Shape

LEMMA SoundInit == Init => Sound
  <1> SUFFICES ASSUME Init PROVE Sound
    OBVIOUS
  <1>1. TypeOK
    BY DEF Init, TypeOK, Idle, PCs, Ids
  <1>2. Shape
    BY DEF Init, Shape, Holds, Idle, Begun, Replaced
  <1>3. Submitting = {}
    BY DEF Init, Idle, Submitting
  <1>4. Budget
    BY <1>3, FS_EmptySet DEF Init, Budget
  <1> QED
    BY <1>1, <1>2, <1>4 DEF Sound

\* What becomes of the calls that have still to submit.
LEMMA SubmittingFinite == IsFiniteSet(Submitting) /\ Cardinality(Submitting) \in Nat
  BY FS_Subset, FS_CardinalityType DEF Submitting

LEMMA OneMore ==
  ASSUME NEW t, Submitting' = Submitting \cup {t}
  PROVE  Cardinality(Submitting') \in Nat /\ Cardinality(Submitting') <= Cardinality(Submitting) + 1
  <1> DEFINE S == Submitting
  <1>1. IsFiniteSet(S) /\ Cardinality(S) \in Nat
    BY SubmittingFinite
  <1> HIDE DEF S
  <1>2. Cardinality(S \cup {t}) = IF t \in S THEN Cardinality(S) ELSE Cardinality(S) + 1
    BY <1>1, FS_AddElement
  <1>3. Cardinality(S \cup {t}) \in Nat /\ Cardinality(S \cup {t}) <= Cardinality(S) + 1
    BY <1>1, <1>2
  <1> QED
    BY <1>3 DEF S

LEMMA OneLess ==
  ASSUME NEW t \in Submitting, Submitting' = Submitting \ {t}
  PROVE  Cardinality(Submitting') = Cardinality(Submitting) - 1
  BY SubmittingFinite, FS_RemoveElement

LEMMA SoundStep == Sound /\ [Next]_vars => Sound'
  <1> SUFFICES ASSUME Sound, [Next]_vars PROVE Sound'
    OBVIOUS
  <1> USE DEF Sound, cacheVars, debridVars, answerVars
  <1>c. nextId \in Nat /\ Cardinality(Submitting) \in Nat
    BY SubmittingFinite DEF TypeOK, Ids
  <1>1. ASSUME NEW t \in Threads, NEW i \in Ids, Call(t, i) PROVE Sound'
    <2> DEFINE l == [Idle EXCEPT !.pc = "load", !.old = i]
    <2>0. /\ l \in [pc : PCs, old : Ids \cup {None}, new : Ids \cup {None}, req : Requests \cup {None}]
          /\ l.pc = "load" /\ l.old = i /\ l.new = None /\ l.req = None
      BY DEF Idle, PCs
    <2> HIDE DEF l
    <2>1. /\ loc' = [loc EXCEPT ![t] = l] /\ i \in cached /\ loc[t].pc = "idle"
          /\ UNCHANGED <<cached, bad, dropped, debrid, nextId, failed, inFlight, result, erred>>
      BY <1>1 DEF Call, Idle, l
    <2>2. TypeOK'
      BY <2>0, <2>1 DEF TypeOK
    <2>3. Shape'
      BY <2>0, <2>1 DEF Shape, Holds, TypeOK, Begun, Replaced
    <2>4. Submitting' = Submitting \cup {t}
      BY <2>0, <2>1 DEF Submitting, TypeOK
    <2>5. nextId + Cardinality(Submitting) <= MaxId
      BY <1>1 DEF Call, Submitting
    <2>6. Budget'
      <3>1. Cardinality(Submitting') \in Nat /\ Cardinality(Submitting') <= Cardinality(Submitting) + 1
        BY <2>4, OneMore
      <3>2. nextId' = nextId
        BY <2>1
      <3> QED
        BY <1>c, <2>5, <3>1, <3>2 DEF Budget, TypeOK, Ids
    <2> QED
      BY <2>2, <2>3, <2>6
  <1>2. ASSUME NEW t \in Threads, SubmitMagnet(t) PROVE Sound'
    <2>1. t \in Submitting
      BY <1>2 DEF SubmitMagnet, Submitting
    <2>2. Cardinality(Submitting) >= 1
      <3>1. Cardinality(Submitting \ {t}) = Cardinality(Submitting) - 1 /\ Cardinality(Submitting \ {t}) \in Nat
        BY <2>1, SubmittingFinite, FS_RemoveElement, FS_CardinalityType
      <3> QED
        BY <3>1, <1>c
    <2>3. nextId \in Ids
      BY <1>c, <2>2 DEF Budget, Ids, TypeOK
    <2>4. TypeOK'
      <3>1. nextId' \in 1..(MaxId + 1) /\ debrid' \in SUBSET Ids
        BY <1>2, <2>3, <1>c DEF SubmitMagnet, TypeOK, Ids
      <3>2. loc' = [loc EXCEPT ![t].pc = "status", ![t].new = nextId]
        BY <1>2 DEF SubmitMagnet
      <3>3. UNCHANGED <<cached, bad, dropped, failed, inFlight, result, erred>>
        BY <1>2 DEF SubmitMagnet
      <3>4. loc' \in [Threads -> [pc : PCs, old : Ids \cup {None}, new : Ids \cup {None},
                                  req : Requests \cup {None}]]
        <4> DEFINE R == [pc : PCs, old : Ids \cup {None}, new : Ids \cup {None}, req : Requests \cup {None}]
        <4>1. [loc[t] EXCEPT !.pc = "status", !.new = nextId] \in R
          BY <2>3 DEF TypeOK, PCs
        <4>2. loc' = [loc EXCEPT ![t] = [loc[t] EXCEPT !.pc = "status", !.new = nextId]]
          BY <3>2 DEF TypeOK
        <4>3. loc \in [Threads -> R]
          BY DEF TypeOK
        <4> HIDE DEF R
        <4>4. loc' \in [Threads -> R]
          BY <4>1, <4>2, <4>3
        <4> QED
          BY <4>4 DEF R
      <3> QED
        BY <3>1, <3>3, <3>4 DEF TypeOK
    <2>5. Shape'
      BY <1>2, <2>3, <1>c DEF SubmitMagnet, Shape, Holds, TypeOK, Begun, Replaced, Ids
    <2>6. Submitting' = Submitting \ {t}
      BY <1>2 DEF SubmitMagnet, Submitting, TypeOK
    <2>7. Budget'
      <3>1. Cardinality(Submitting') = Cardinality(Submitting) - 1
        BY <2>1, <2>6, OneLess
      <3>2. nextId' = nextId + 1
        BY <1>2 DEF SubmitMagnet
      <3> QED
        BY <1>c, <3>1, <3>2 DEF Budget, TypeOK, Ids
    <2> QED
      BY <2>4, <2>5, <2>7
  <1>3. ASSUME NEW t \in Threads,
               \/ LoadRequest(t) \/ StoreRequest(t) \/ WaitReturns(t) \/ SubmitFails(t)
               \/ StatusReady(t) \/ StatusFails(t) \/ LinkEmpty(t)
               \/ SetNew(t) \/ DeleteOld(t) \/ DeleteOldRemote(t) \/ Complete(t)
               \/ MarkOk(t) \/ Unmark(t) \/ FindOk(t) \/ ClearBad(t)
               \/ MarkFailed(t) \/ FindFailed(t) \/ SetBad(t) \/ Cleanup(t)
        PROVE  Sound'
    <2>1. TypeOK' /\ Shape'
      <3>1. CASE LoadRequest(t)
        BY <3>1 DEF LoadRequest, Goto, TypeOK, PCs, Shape, Holds, Begun, Replaced
      <3>2. CASE StoreRequest(t)
        BY <3>2 DEF StoreRequest, TypeOK, PCs, Shape, Holds, Begun, Replaced
      <3>3. CASE WaitReturns(t) \/ Cleanup(t)
        <4>1. loc' = [loc EXCEPT ![t] = Idle] /\ UNCHANGED <<cached, bad, dropped, debrid, nextId, failed, result, erred>>
          BY <3>3 DEF WaitReturns, Cleanup
        <4>2. inFlight' \in [Ids -> Requests \cup {None}]
          BY <3>3 DEF WaitReturns, Cleanup, TypeOK
        <4>3. TypeOK'
          BY <4>1, <4>2 DEF TypeOK, Idle, PCs
        <4>4. \A u \in Threads : loc'[u] = loc[u] \/ loc'[u] = Idle
          BY <4>1 DEF TypeOK
        <4>5. Shape'
          BY <4>1, <4>4 DEF Shape, Holds, Idle, Begun, Replaced
        <4> QED
          BY <4>3, <4>5
      <3>4. CASE SubmitFails(t) \/ StatusReady(t) \/ LinkEmpty(t) \/ MarkOk(t) \/ FindOk(t) \/ FindFailed(t)
        BY <3>4 DEF SubmitFails, StatusReady, LinkEmpty, MarkOk, FindOk, FindFailed, Goto, TypeOK, PCs,
           Shape, Holds, Begun, Replaced
      <3>5. CASE StatusFails(t) \/ DeleteOldRemote(t) \/ DeleteOld(t)
        BY <3>5 DEF StatusFails, DeleteOldRemote, DeleteOld, Goto, TypeOK, PCs, Shape, Holds, Begun, Replaced
      <3>6. CASE SetNew(t) \/ ClearBad(t) \/ SetBad(t)
        BY <3>6 DEF SetNew, ClearBad, SetBad, Goto, TypeOK, PCs, Shape, Holds, Begun, Replaced
      <3>7. CASE Complete(t) \/ MarkFailed(t) \/ Unmark(t)
        BY <3>7 DEF Complete, MarkFailed, Unmark, Goto, TypeOK, PCs, Shape, Holds, Begun, Replaced
      <3> QED
        BY <1>3, <3>1, <3>2, <3>3, <3>4, <3>5, <3>6, <3>7
    <2>2. Submitting' = Submitting \/ (t \in Submitting /\ Submitting' = Submitting \ {t})
      BY <1>3 DEF Submitting, TypeOK, Goto, Idle, LoadRequest, StoreRequest, WaitReturns, SubmitFails, StatusReady,
         StatusFails, LinkEmpty, SetNew, DeleteOld, DeleteOldRemote, Complete, MarkOk, Unmark, FindOk, ClearBad,
         MarkFailed, FindFailed, SetBad, Cleanup
    <2>3. nextId' = nextId
      BY <1>3 DEF LoadRequest, StoreRequest, WaitReturns, SubmitFails, StatusReady, StatusFails, LinkEmpty, SetNew,
         DeleteOld, DeleteOldRemote, Complete, MarkOk, Unmark, FindOk, ClearBad, MarkFailed, FindFailed, SetBad,
         Cleanup
    <2>4. Budget'
      BY <1>c, <2>2, <2>3, OneLess DEF Budget
    <2> QED
      BY <2>1, <2>4
  <1>4. ASSUME NEW i \in Ids, RefreshAdds(i) \/ RefreshDrops(i) PROVE Sound'
    <2>1. UNCHANGED <<loc, nextId>>
      BY <1>4 DEF RefreshAdds, RefreshDrops
    <2>2. TypeOK' /\ Shape'
      BY <1>4 DEF RefreshAdds, RefreshDrops, TypeOK, Shape, Holds
    <2> QED
      BY <2>1, <2>2 DEF Budget, Submitting
  <1>5. CASE UNCHANGED vars
    BY <1>5 DEF vars, TypeOK, Shape, Holds, Budget, Submitting
  <1> QED
    BY <1>1, <1>2, <1>3, <1>4, <1>5 DEF Next, Continue

\* For any number of goroutines, requests and ids the state keeps its types:
\* a goroutine has an id, a request and a replacement where it uses them.
THEOREM TypeCorrect == Spec => []TypeOK
  <1>1. Sound => TypeOK
    BY DEF Sound
  <1> QED
    BY <1>1, SoundInit, SoundStep, PTL DEF Spec

(***************************************************************************)
(* The requests.  An entry of repairRequest, and whoever waits, has an     *)
(* owner at work; a request has at most one, which has given it a result   *)
(* by the time it is through.                                              *)
(***************************************************************************)
Through == {"markOk", "unmark", "findOk", "clearBad", "findFailed", "setBad", "cleanup"}

Alone ==
    \A t, u \in Threads :
        Running(t) /\ Running(u) /\ loc[t].req # None /\ loc[t].req = loc[u].req => t = u

Answered == \A t \in Threads : loc[t].pc \in Through => result[loc[t].req] # None

Table == InFlightIsRunning /\ WaitersServed /\ Alone /\ Answered

LEMMA TableInit == Init => Table
  BY DEF Init, Table, InFlightIsRunning, WaitersServed, Alone, Answered, Running, Idle, Through

\* A goroutine that runs a re-insertion and goes on with it.
LEMMA TableGoesOn ==
  ASSUME NEW t \in Threads, Table, UNCHANGED inFlight,
         loc[t].pc \notin {"idle", "load", "wait"}, loc'[t].pc \notin {"idle", "load", "wait"},
         loc'[t].old = loc[t].old, loc'[t].req = loc[t].req,
         \A u \in Threads : u # t => loc'[u] = loc[u],
         \A r \in Requests : result'[r] = result[r] \/ result'[r] # None,
         \A u \in Threads : loc[u].pc \in Through \/ loc[u].pc = "wait" => loc[u].req \in Requests,
         loc'[t].pc \in Through => result'[loc[t].req] # None
  PROVE  Table'
  <1>1. \A u \in Threads : loc'[u].old = loc[u].old /\ loc'[u].req = loc[u].req /\ (Running(u)' <=> Running(u))
    BY DEF Running
  <1>2. \A u \in Threads : loc'[u].pc = "wait" <=> loc[u].pc = "wait"
    OBVIOUS
  <1>3. InFlightIsRunning'
    BY <1>1 DEF Table, InFlightIsRunning
  <1>4. WaitersServed'
    BY <1>1, <1>2 DEF Table, WaitersServed
  <1>5. Alone'
    BY <1>1 DEF Table, Alone
  <1>6. Answered'
    BY <1>1 DEF Table, Answered
  <1> QED
    BY <1>3, <1>4, <1>5, <1>6 DEF Table

LEMMA TableStep == Sound /\ Table /\ [Next]_vars => Table'
  <1> SUFFICES ASSUME Sound, Table, [Next]_vars PROVE Table'
    OBVIOUS
  <1> USE DEF Sound, cacheVars, debridVars, answerVars
  <1>r. \A u \in Threads : loc[u].pc \notin {"idle", "load", "store"} => loc[u].req \in Requests
    BY DEF Shape, Holds, TypeOK
  <1>1. ASSUME NEW t \in Threads, LoadRequest(t) PROVE Table'
    <2>1. loc[t].pc = "load" /\ loc[t].old \in Ids /\ \A u \in Threads : u # t => loc'[u] = loc[u]
      BY <1>1 DEF LoadRequest, Goto, Shape, Holds, TypeOK
    <2>2. UNCHANGED <<inFlight, result>>
      BY <1>1 DEF LoadRequest
    <2>3. CASE inFlight[loc[t].old] # None
      <3>1. loc'[t].pc = "wait" /\ loc'[t].req = inFlight[loc[t].old]
        BY <1>1, <2>3 DEF LoadRequest, TypeOK
      <3>2. PICK u \in Threads : Running(u) /\ loc[u].req = inFlight[loc[t].old]
        BY <2>1, <2>3 DEF Table, InFlightIsRunning
      <3>3. u # t
        BY <2>1, <3>2 DEF Running
      <3> QED
        BY <2>1, <2>2, <3>1, <3>2, <3>3
        DEF Table, InFlightIsRunning, WaitersServed, Alone, Answered, Running, Through
    <2>4. CASE inFlight[loc[t].old] = None
      <3>1. loc'[t].pc = "store" /\ loc'[t].req = None
        BY <1>1, <2>1, <2>4 DEF LoadRequest, Goto, Shape, Holds, TypeOK
      <3> QED
        BY <2>1, <2>2, <3>1 DEF Table, InFlightIsRunning, WaitersServed, Alone, Answered, Running, Through
    <2> QED
      BY <2>3, <2>4
  <1>2. ASSUME NEW t \in Threads, StoreRequest(t) PROVE Table'
    <2>1. PICK r \in Requests : /\ ~Referenced(r)
                                /\ inFlight' = [inFlight EXCEPT ![loc[t].old] = r]
                                /\ loc' = [loc EXCEPT ![t].pc = "submit", ![t].req = r]
                                /\ result' = [result EXCEPT ![r] = None]
      BY <1>2 DEF StoreRequest
    <2>2. loc[t].pc = "store" /\ loc[t].req = None /\ loc[t].old \in Ids
      BY <1>2 DEF StoreRequest, Shape, Holds
    <2>3. /\ loc'[t].pc = "submit" /\ loc'[t].req = r /\ loc'[t].old = loc[t].old
          /\ \A u \in Threads : u # t => loc'[u] = loc[u]
      BY <2>1 DEF TypeOK
    <2>4. \A u \in Threads : loc[u].req # r
      BY <2>1 DEF Referenced
    <2>5. \A q \in Requests : q # r => result'[q] = result[q]
      BY <2>1 DEF TypeOK
    <2>6. InFlightIsRunning'
      BY <2>1, <2>2, <2>3 DEF Table, InFlightIsRunning, Running, TypeOK
    <2>7. WaitersServed'
      BY <2>2, <2>3, <2>4, <2>5, <1>r DEF Table, WaitersServed, Running
    <2>8. Alone'
      BY <2>2, <2>3, <2>4 DEF Table, Alone, Running
    <2>9. Answered'
      BY <2>3, <2>4, <2>5, <1>r DEF Table, Answered, Through
    <2> QED
      BY <2>6, <2>7, <2>8, <2>9 DEF Table
  <1>3. ASSUME NEW t \in Threads, WaitReturns(t) PROVE Table'
    <2>1. /\ loc[t].pc = "wait" /\ loc'[t].pc = "idle" /\ loc'[t].req = None /\ UNCHANGED <<inFlight, result>>
          /\ \A u \in Threads : u # t => loc'[u] = loc[u]
      BY <1>3 DEF WaitReturns, Idle, TypeOK
    <2> QED
      BY <2>1 DEF Table, InFlightIsRunning, WaitersServed, Alone, Answered, Running, Through
  <1>4. ASSUME NEW t \in Threads, Cleanup(t) PROVE Table'
    <2>1. /\ loc[t].pc = "cleanup" /\ loc'[t].pc = "idle" /\ loc'[t].req = None /\ UNCHANGED result
          /\ \A u \in Threads : u # t => loc'[u] = loc[u]
      BY <1>4 DEF Cleanup, Idle, TypeOK
    <2>2. inFlight'[loc[t].old] = None /\ \A i \in Ids : i # loc[t].old => inFlight'[i] = inFlight[i]
      BY <1>4, <2>1 DEF Cleanup, Shape, Holds, TypeOK
    <2>3. result[loc[t].req] # None
      BY <2>1 DEF Table, Answered, Through
    <2> QED
      BY <2>1, <2>2, <2>3 DEF Table, InFlightIsRunning, WaitersServed, Alone, Answered, Running, Through
  <1>5. ASSUME NEW t \in Threads, Complete(t) \/ MarkFailed(t) PROVE Table'
    <2>1. /\ loc[t].pc \in {"complete", "markFailed"} /\ loc'[t].pc \in Through
          /\ loc'[t].old = loc[t].old /\ loc'[t].req = loc[t].req /\ UNCHANGED inFlight
          /\ \A u \in Threads : u # t => loc'[u] = loc[u]
      BY <1>5 DEF Complete, MarkFailed, Goto, TypeOK, Through
    <2>2. loc[t].req \in Requests /\ \E v \in Ids \cup {Lost} : result' = [result EXCEPT ![loc[t].req] = v]
      BY <1>5, <1>r DEF Complete, MarkFailed, Shape, Holds, Replaced
    <2>3. result'[loc[t].req] # None /\ \A q \in Requests : q # loc[t].req => result'[q] = result[q]
      BY <2>2 DEF TypeOK, Ids, Lost
    <2> QED
      BY <2>1, <2>3, <1>r, TableGoesOn DEF Through
  <1>6. ASSUME NEW t \in Threads,
               \/ SubmitMagnet(t) \/ SubmitFails(t) \/ StatusReady(t) \/ StatusFails(t) \/ LinkEmpty(t)
               \/ SetNew(t) \/ DeleteOld(t) \/ DeleteOldRemote(t)
        PROVE  Table'
    <2>1. /\ loc[t].pc \in {"submit", "status", "set", "delete", "deleteRemote"}
          /\ loc'[t].pc \in {"status", "set", "delete", "deleteRemote", "complete", "markFailed"}
          /\ loc'[t].old = loc[t].old /\ loc'[t].req = loc[t].req /\ UNCHANGED <<inFlight, result>>
          /\ \A u \in Threads : u # t => loc'[u] = loc[u]
      BY <1>6 DEF SubmitMagnet, SubmitFails, StatusReady, StatusFails, LinkEmpty, SetNew, DeleteOld,
         DeleteOldRemote, Goto, TypeOK
    <2> QED
      BY <2>1, <1>r, TableGoesOn DEF Through
  <1>7. ASSUME NEW t \in Threads,
               \/ MarkOk(t) \/ Unmark(t) \/ FindOk(t) \/ ClearBad(t) \/ FindFailed(t) \/ SetBad(t)
        PROVE  Table'
    <2>1. /\ loc[t].pc \in Through /\ loc'[t].pc \in Through
          /\ loc'[t].old = loc[t].old /\ loc'[t].req = loc[t].req /\ UNCHANGED <<inFlight, result>>
          /\ \A u \in Threads : u # t => loc'[u] = loc[u]
      BY <1>7 DEF MarkOk, Unmark, FindOk, ClearBad, FindFailed, SetBad, Goto, TypeOK, Through
    <2>2. result[loc[t].req] # None
      BY <2>1 DEF Table, Answered
    <2> QED
      BY <2>1, <2>2, <1>r, TableGoesOn DEF Through
  <1>8. ASSUME NEW t \in Threads, NEW i \in Ids, Call(t, i) PROVE Table'
    <2>1. /\ loc[t].pc = "idle" /\ loc'[t].pc = "load" /\ loc'[t].req = None /\ UNCHANGED <<inFlight, result>>
          /\ \A u \in Threads : u # t => loc'[u] = loc[u]
      BY <1>8 DEF Call, Idle, TypeOK
    <2> QED
      BY <2>1 DEF Table, InFlightIsRunning, WaitersServed, Alone, Answered, Running, Through
  <1>9. CASE UNCHANGED <<loc, inFlight, result>>
    BY <1>9 DEF Table, InFlightIsRunning, WaitersServed, Alone, Answered, Running
  <1> QED
    BY <1>1, <1>2, <1>3, <1>4, <1>5, <1>6, <1>7, <1>8, <1>9 DEF Next, Continue, RefreshAdds, RefreshDrops, vars

\* For any number of goroutines that store over each other's requests: an
\* entry of repairRequest is that of a running call.
THEOREM EntriesAreRunning == Spec => []InFlightIsRunning
  <1>1. Table => InFlightIsRunning
    BY DEF Table
  <1> QED
    BY <1>1, SoundInit, SoundStep, TableInit, TableStep, PTL DEF Spec

\* And whoever waits for a call is answered, or that call is at work or failed.
THEOREM WaitersAreServed == Spec => []WaitersServed
  <1>1. Table => WaitersServed
    BY DEF Table
  <1> QED
    BY <1>1, SoundInit, SoundStep, TableInit, TableStep, PTL DEF Spec

(***************************************************************************)
(* The replacement.  The service gives every id once; what a request was   *)
(* completed with has been put into the cache, and is newer than the       *)
(* torrent its owner, and so whoever waits for it, came with.              *)
(***************************************************************************)
Distinct ==
    \A t, u \in Threads : t # u /\ loc[t].new # None => loc[t].new # loc[u].new

SameTorrent ==
    \A t, u \in Threads :
        loc[t].pc = "wait" /\ Running(u) /\ loc[u].req = loc[t].req => loc[u].old = loc[t].old

Newer ==
    \A t \in Threads :
        loc[t].req # None /\ result[loc[t].req] \in Ids => result[loc[t].req] > loc[t].old

InPlace ==
    \A r \in Requests : result[r] \in Ids =>
        /\ result[r] < nextId
        /\ \A u \in Threads : loc[u].new = result[r] => loc[u].pc \notin {"status", "set"}

Replacement == Distinct /\ SameTorrent /\ Newer /\ InPlace

LEMMA ReplacementInit == Init => Replacement
  BY DEF Init, Replacement, Distinct, SameTorrent, Newer, InPlace, Running, Idle, Ids

\* A goroutine that runs a re-insertion goes on with it; the request, if this
\* is where it is completed, with its own replacement.
LEMMA ReplacementGoesOn ==
  ASSUME NEW t \in Threads, Sound, Table, Replacement, nextId' = nextId,
         loc[t].pc \notin {"idle", "load", "wait", "store"}, loc'[t].pc \notin {"idle", "load", "wait"},
         loc'[t].old = loc[t].old, loc'[t].new = loc[t].new, loc'[t].req = loc[t].req,
         loc'[t].pc \in {"status", "set"} => loc[t].pc = "status",
         \A u \in Threads : u # t => loc'[u] = loc[u],
         \A r \in Requests :
            \/ result'[r] = result[r]
            \/ result'[r] = Lost
            \/ /\ r = loc[t].req /\ result'[r] = loc[t].new /\ loc[t].new # None
               /\ loc'[t].pc \notin {"status", "set"}
  PROVE  Replacement'
  <1>1. \A u \in Threads : /\ loc'[u].old = loc[u].old /\ loc'[u].new = loc[u].new /\ loc'[u].req = loc[u].req
                           /\ (Running(u)' <=> Running(u)) /\ (loc'[u].pc = "wait" <=> loc[u].pc = "wait")
    BY DEF Running
  <1>2. \A u \in Threads : loc[u].req = None \/ loc[u].req \in Requests
    BY DEF Sound, TypeOK
  <1>3. loc[t].new # None => loc[t].new \in Ids /\ loc[t].new < nextId /\ loc[t].old < loc[t].new
    BY DEF Sound, Shape, Holds
  <1>4. Lost \notin Ids
    BY DEF Ids, Lost
  <1>5. Distinct' /\ SameTorrent'
    BY <1>1 DEF Replacement, Distinct, SameTorrent
  <1>6. Newer'
    <2> SUFFICES ASSUME NEW u \in Threads, loc[u].req # None, result'[loc[u].req] \in Ids
                 PROVE  result'[loc[u].req] > loc[u].old
      BY <1>1 DEF Newer
    <2>1. CASE result'[loc[u].req] = result[loc[u].req]
      BY <2>1 DEF Replacement, Newer
    <2>2. CASE loc[u].req = loc[t].req /\ result'[loc[u].req] = loc[t].new /\ loc[t].new # None
      <3>1. loc[u].pc \notin {"idle", "load", "store"}
        BY DEF Sound, Shape, Holds
      <3>2. loc[u].old = loc[t].old
        BY <2>2, <3>1 DEF Replacement, SameTorrent, Table, Alone, Running
      <3> QED
        BY <1>3, <2>2, <3>2 DEF Ids, Sound, TypeOK
    <2> QED
      BY <1>2, <1>4, <2>1, <2>2
  <1>7. InPlace'
    <2> SUFFICES ASSUME NEW r \in Requests, result'[r] \in Ids
                 PROVE  /\ result'[r] < nextId
                        /\ \A u \in Threads : loc[u].new = result'[r] => loc'[u].pc \notin {"status", "set"}
      BY <1>1 DEF InPlace
    <2>1. CASE result'[r] = result[r]
      BY <2>1 DEF Replacement, InPlace
    <2>2. CASE result'[r] = loc[t].new /\ loc[t].new # None /\ loc'[t].pc \notin {"status", "set"}
      BY <1>3, <2>2 DEF Replacement, Distinct
    <2> QED
      BY <1>4, <2>1, <2>2
  <1> QED
    BY <1>5, <1>6, <1>7 DEF Replacement

LEMMA ReplacementStep == Sound /\ Table /\ Replacement /\ [Next]_vars => Replacement'
  <1> SUFFICES ASSUME Sound, Table, Replacement, [Next]_vars PROVE Replacement'
    OBVIOUS
  <1> USE DEF Sound, cacheVars, debridVars, answerVars
  <1>1. ASSUME NEW t \in Threads, LoadRequest(t) PROVE Replacement'
    <2>1. /\ loc[t].pc = "load" /\ loc[t].old \in Ids /\ loc[t].new = None
          /\ \A u \in Threads : u # t => loc'[u] = loc[u]
      BY <1>1 DEF LoadRequest, Goto, Shape, Holds, TypeOK, Begun
    <2>2. UNCHANGED <<inFlight, result, nextId>>
      BY <1>1 DEF LoadRequest
    <2>3. CASE inFlight[loc[t].old] # None
      <3>1. /\ loc'[t].pc = "wait" /\ loc'[t].req = inFlight[loc[t].old]
            /\ loc'[t].old = loc[t].old /\ loc'[t].new = None
        BY <1>1, <2>1, <2>3 DEF LoadRequest, TypeOK
      <3>2. PICK u \in Threads : Running(u) /\ loc[u].old = loc[t].old /\ loc[u].req = inFlight[loc[t].old]
        BY <2>1, <2>3 DEF Table, InFlightIsRunning
      <3>3. u # t
        BY <2>1, <3>2 DEF Running
      <3>4. Distinct' /\ InPlace'
        BY <2>1, <2>2, <3>1 DEF Replacement, Distinct, InPlace
      <3>5. SameTorrent'
        <4>1. \A v \in Threads : Running(v) /\ loc[v].req = inFlight[loc[t].old] => v = u
          BY <2>3, <3>2 DEF Table, Alone
        <4> QED
          BY <2>1, <3>1, <3>2, <4>1 DEF Replacement, SameTorrent, Running
      <3>6. Newer'
        BY <2>1, <2>2, <2>3, <3>1, <3>2 DEF Replacement, Newer
      <3> QED
        BY <3>4, <3>5, <3>6 DEF Replacement
    <2>4. CASE inFlight[loc[t].old] = None
      <3>1. loc'[t].pc = "store" /\ loc'[t].req = None /\ loc'[t].new = None
        BY <1>1, <2>1, <2>4 DEF LoadRequest, Goto, Shape, Holds, TypeOK
      <3>2. \A u \in Threads : loc[u].pc = "wait" => loc[u].req # None
        BY DEF Shape, Holds
      <3> QED
        BY <2>1, <2>2, <3>1, <3>2 DEF Replacement, Distinct, SameTorrent, Newer, InPlace, Running
    <2> QED
      BY <2>3, <2>4
  <1>2. ASSUME NEW t \in Threads, StoreRequest(t) PROVE Replacement'
    <2>1. PICK r \in Requests : /\ ~Referenced(r)
                                /\ loc' = [loc EXCEPT ![t].pc = "submit", ![t].req = r]
                                /\ result' = [result EXCEPT ![r] = None]
      BY <1>2 DEF StoreRequest
    <2>2. loc[t].pc = "store" /\ loc[t].req = None /\ loc[t].new = None /\ nextId' = nextId
      BY <1>2 DEF StoreRequest, Shape, Holds, Begun
    <2>3. /\ loc'[t].pc = "submit" /\ loc'[t].req = r /\ loc'[t].old = loc[t].old /\ loc'[t].new = loc[t].new
          /\ \A u \in Threads : u # t => loc'[u] = loc[u]
      BY <2>1 DEF TypeOK
    <2>4. \A u \in Threads : loc[u].req # r
      BY <2>1 DEF Referenced
    <2>5. result'[r] = None /\ (\A q \in Requests : q # r => result'[q] = result[q]) /\ None \notin Ids
      BY <2>1 DEF TypeOK, Ids
    <2>6. \A u \in Threads : loc[u].req = None \/ loc[u].req \in Requests
      BY DEF TypeOK
    <2>7. Distinct' /\ InPlace'
      BY <2>2, <2>3, <2>5 DEF Replacement, Distinct, InPlace
    <2>8. SameTorrent'
      BY <2>2, <2>3, <2>4 DEF Replacement, SameTorrent, Running
    <2>9. Newer'
      BY <2>3, <2>4, <2>5, <2>6 DEF Replacement, Newer
    <2> QED
      BY <2>7, <2>8, <2>9 DEF Replacement
  <1>3. ASSUME NEW t \in Threads, WaitReturns(t) \/ Cleanup(t) PROVE Replacement'
    <2>1. /\ loc'[t].pc = "idle" /\ loc'[t].req = None /\ loc'[t].new = None /\ UNCHANGED <<result, nextId>>
          /\ \A u \in Threads : u # t => loc'[u] = loc[u]
      BY <1>3 DEF WaitReturns, Cleanup, Idle, TypeOK
    <2> QED
      BY <2>1 DEF Replacement, Distinct, SameTorrent, Newer, InPlace, Running
  <1>4. ASSUME NEW t \in Threads, NEW i \in Ids, Call(t, i) PROVE Replacement'
    <2>1. /\ loc'[t].pc = "load" /\ loc'[t].req = None /\ loc'[t].new = None /\ UNCHANGED <<result, nextId>>
          /\ \A u \in Threads : u # t => loc'[u] = loc[u]
      BY <1>4 DEF Call, Idle, TypeOK
    <2> QED
      BY <2>1 DEF Replacement, Distinct, SameTorrent, Newer, InPlace, Running
  <1>5. ASSUME NEW t \in Threads, SubmitMagnet(t) PROVE Replacement'
    <2>1. /\ loc[t].pc = "submit" /\ loc'[t].pc = "status" /\ loc'[t].new = nextId /\ loc'[t].old = loc[t].old
          /\ loc'[t].req = loc[t].req /\ UNCHANGED result /\ nextId' = nextId + 1 /\ nextId \in Nat
          /\ \A u \in Threads : u # t => loc'[u] = loc[u]
      BY <1>5 DEF SubmitMagnet, TypeOK
    <2>2. \A u \in Threads : loc[u].new = None \/ (loc[u].new \in Ids /\ loc[u].new < nextId)
      BY DEF Shape, Holds
    <2>3. \A r \in Requests : result[r] \in Ids => result[r] < nextId /\ result[r] \in Nat
      BY DEF Replacement, InPlace, Ids
    <2>4. Distinct'
      BY <2>1, <2>2 DEF Replacement, Distinct
    <2>5. SameTorrent' /\ Newer'
      BY <2>1 DEF Replacement, SameTorrent, Newer, Running
    <2>6. InPlace'
      BY <2>1, <2>3 DEF Replacement, InPlace
    <2> QED
      BY <2>4, <2>5, <2>6 DEF Replacement
  <1>6. ASSUME NEW t \in Threads,
               \/ SubmitFails(t) \/ StatusReady(t) \/ StatusFails(t) \/ LinkEmpty(t)
               \/ SetNew(t) \/ DeleteOld(t) \/ DeleteOldRemote(t)
               \/ MarkOk(t) \/ Unmark(t) \/ FindOk(t) \/ ClearBad(t) \/ FindFailed(t) \/ SetBad(t)
        PROVE  Replacement'
    <2>1. /\ loc[t].pc \notin {"idle", "load", "wait", "store"} /\ loc'[t].pc \notin {"idle", "load", "wait"}
          /\ loc'[t].pc \in {"status", "set"} => loc[t].pc = "status"
          /\ loc'[t].old = loc[t].old /\ loc'[t].new = loc[t].new /\ loc'[t].req = loc[t].req
          /\ UNCHANGED <<result, nextId>>
          /\ \A u \in Threads : u # t => loc'[u] = loc[u]
      BY <1>6 DEF SubmitFails, StatusReady, StatusFails, LinkEmpty, SetNew, DeleteOld, DeleteOldRemote,
         MarkOk, Unmark, FindOk, ClearBad, FindFailed, SetBad, Goto, TypeOK
    <2> QED
      BY <2>1, ReplacementGoesOn
  <1>7. ASSUME NEW t \in Threads, Complete(t) \/ MarkFailed(t) PROVE Replacement'
    <2>1. /\ loc[t].pc \in {"complete", "markFailed"} /\ loc'[t].pc \in {"markOk", "findFailed"}
          /\ loc'[t].old = loc[t].old /\ loc'[t].new = loc[t].new /\ loc'[t].req = loc[t].req
          /\ nextId' = nextId
          /\ \A u \in Threads : u # t => loc'[u] = loc[u]
      BY <1>7 DEF Complete, MarkFailed, Goto, TypeOK
    <2>2. \A r \in Requests :
            \/ result'[r] = result[r]
            \/ result'[r] = Lost
            \/ r = loc[t].req /\ result'[r] = loc[t].new /\ loc[t].new # None
      BY <1>7 DEF Complete, MarkFailed, TypeOK, Shape, Holds, Replaced
    <2> QED
      BY <2>1, <2>2, ReplacementGoesOn
  <1>8. CASE UNCHANGED <<loc, result, nextId>>
    BY <1>8 DEF Replacement, Distinct, SameTorrent, Newer, InPlace, Running
  <1> QED
    BY <1>1, <1>2, <1>3, <1>4, <1>5, <1>6, <1>7, <1>8 DEF Next, Continue, RefreshAdds, RefreshDrops, vars

\* Whoever goes on after waiting does so with a newer torrent, which is in place by
\* then; whoever is told of an error instead has been replaced just as well.
THEOREM WaitersGetReplacement == Spec => WaiterGetsReplacement
  <1> DEFINE Gets == \A t \in Threads :
                       LET new == result[loc[t].req] IN
                         /\ GoesOn(t) =>
                              /\ new > loc[t].old
                              /\ \A u \in Threads : loc[u].new = new => loc[u].pc \notin {"status", "set"}
                         /\ GivesUp(t) => new > loc[t].old
  <1>1. Sound /\ Replacement /\ [Next]_vars => [Gets]_vars
    <2> SUFFICES ASSUME Sound, Replacement, Next, NEW t \in Threads, loc[t].pc = "wait", loc'[t].pc = "idle"
                 PROVE  /\ result[loc[t].req] > loc[t].old
                        /\ \A u \in Threads : loc[u].new = result[loc[t].req] => loc[u].pc \notin {"status", "set"}
      BY DEF GoesOn, GivesUp
    <2>1. loc[t].req \in Requests /\ result \in [Requests -> Ids \cup {None, Lost}]
      BY DEF Sound, Shape, Holds, TypeOK
    <2>2. result[loc[t].req] \notin {None, Lost}
      <3>1. ASSUME NEW u \in Threads, Continue(u) PROVE WaitReturns(t)
        <4>1. CASE u = t
          BY <3>1, <4>1 DEF Continue, LoadRequest, StoreRequest, SubmitMagnet, SubmitFails,
             StatusReady, StatusFails, LinkEmpty, SetNew, DeleteOld, DeleteOldRemote, Complete, MarkOk, Unmark,
             FindOk, ClearBad, MarkFailed, FindFailed, SetBad, Cleanup
        <4>2. CASE u # t
          <5>1. loc'[t] = loc[t]
            BY <3>1, <4>2 DEF Continue, LoadRequest, StoreRequest, WaitReturns, SubmitMagnet, SubmitFails,
               StatusReady, StatusFails, LinkEmpty, SetNew, DeleteOld, DeleteOldRemote, Complete, MarkOk, Unmark,
               FindOk, ClearBad, MarkFailed, FindFailed, SetBad, Cleanup, Goto, Sound, TypeOK
          <5> QED
            BY <5>1
        <4> QED
          BY <4>1, <4>2
      <3>2. ASSUME NEW u \in Threads, NEW i \in Ids, Call(u, i) PROVE FALSE
        BY <3>2 DEF Call, Idle, Sound, TypeOK
      <3>3. ASSUME NEW i \in Ids, RefreshAdds(i) \/ RefreshDrops(i) PROVE FALSE
        BY <3>3 DEF RefreshAdds, RefreshDrops
      <3>4. WaitReturns(t)
        BY <3>1, <3>2, <3>3 DEF Next
      <3> QED
        BY <3>4 DEF WaitReturns
    <2>3. result[loc[t].req] \in Ids /\ loc[t].req # None
      BY <2>1, <2>2
    <2> QED
      BY <2>1, <2>3 DEF Replacement, Newer, InPlace
  <1> QED
    BY <1>1, SoundInit, SoundStep, TableInit, TableStep, ReplacementInit, ReplacementStep, PTL
    DEF Spec, WaiterGetsReplacement

(***************************************************************************)
(* The release is never lost.  A deletion of an id needs a newer one that  *)
(* is cached (or was dropped by mistake), in the account and past          *)
(* CheckStatus, so that nobody deletes it there for not being ready;       *)
(* Kept(k) says that there is one from k on.  No step takes that back, as  *)
(* whoever deletes has a newer one, and who drops does not delete.         *)
(***************************************************************************)
Safe(j) == j \in (cached \cup dropped) \cap debrid /\ \A u \in Threads : loc[u].new = j => loc[u].pc # "status"
Kept(k) == \E j \in Ids : j >= k /\ Safe(j)

Content ==
    /\ Kept(1)
    /\ \A t \in Threads : loc[t].pc \in {"status", "set"} => loc[t].new \in debrid \/ Kept(loc[t].new)
    /\ \A t \in Threads : loc[t].pc \in {"delete", "deleteRemote"} => Kept(loc[t].new)

LEMMA ContentInit == Init => Content
  <1> SUFFICES ASSUME Init PROVE Content
    OBVIOUS
  <1>1. 1 \in Ids /\ Safe(1) /\ 1 >= 1
    BY DEF Init, Safe, Idle, Ids
  <1>2. Kept(1)
    BY <1>1 DEF Kept
  <1> QED
    BY <1>2 DEF Init, Content, Idle

\* What a step does to the control point of one goroutine, as far as it concerns
\* the new torrent.
LEMMA Turn ==
  ASSUME Sound, Next, NEW u \in Threads
  PROVE  \/ loc'[u] = loc[u]
         \/ SubmitMagnet(u) /\ loc'[u].pc = "status" /\ loc'[u].new = nextId
         \/ (StatusReady(u) \/ SetNew(u) \/ DeleteOld(u)) /\ loc'[u].new = loc[u].new
         \/ loc'[u].pc \notin {"status", "set", "delete", "deleteRemote"}
  <1> USE DEF Sound, TypeOK
  <1>1. ASSUME NEW t \in Threads, NEW i \in Ids, Call(t, i)
        PROVE  loc'[u] = loc[u] \/ loc'[u].pc = "load"
    <2>1. Idle.pc = "idle" /\ [Idle EXCEPT !.pc = "load", !.old = i].pc = "load"
      BY DEF Idle
    <2> HIDE DEF Idle
    <2> QED
      BY <1>1, <2>1 DEF Call
  <1>2. ASSUME NEW t \in Threads, LoadRequest(t)
        PROVE  loc'[u] = loc[u] \/ loc'[u].pc \in {"wait", "store"}
    BY <1>2 DEF LoadRequest, Goto
  <1>3. ASSUME NEW t \in Threads, StoreRequest(t)
        PROVE  loc'[u] = loc[u] \/ loc'[u].pc = "submit"
    BY <1>3 DEF StoreRequest
  <1>4. ASSUME NEW t \in Threads, WaitReturns(t) \/ Cleanup(t)
        PROVE  loc'[u] = loc[u] \/ loc'[u].pc = "idle"
    BY <1>4 DEF WaitReturns, Cleanup, Idle
  <1>5. ASSUME NEW t \in Threads, SubmitMagnet(t)
        PROVE  loc'[u] = loc[u] \/ (SubmitMagnet(u) /\ loc'[u].pc = "status" /\ loc'[u].new = nextId)
    BY <1>5 DEF SubmitMagnet
  <1>6. ASSUME NEW t \in Threads, StatusReady(t) \/ SetNew(t) \/ DeleteOld(t)
        PROVE  loc'[u] = loc[u] \/ ((StatusReady(u) \/ SetNew(u) \/ DeleteOld(u)) /\ loc'[u].new = loc[u].new)
    BY <1>6 DEF StatusReady, SetNew, DeleteOld, Goto
  <1>7. ASSUME NEW t \in Threads,
               \/ SubmitFails(t) \/ StatusFails(t) \/ LinkEmpty(t) \/ DeleteOldRemote(t) \/ Complete(t)
               \/ MarkOk(t) \/ Unmark(t) \/ FindOk(t) \/ ClearBad(t)
               \/ MarkFailed(t) \/ FindFailed(t) \/ SetBad(t)
        PROVE  loc'[u] = loc[u] \/ loc'[u].pc \notin {"status", "set", "delete", "deleteRemote"}
    BY <1>7 DEF SubmitFails, StatusFails, LinkEmpty, DeleteOldRemote, Complete,
       MarkOk, Unmark, FindOk, ClearBad, MarkFailed, FindFailed, SetBad, Goto
  <1>8. ASSUME NEW i \in Ids, RefreshAdds(i) \/ RefreshDrops(i) PROVE loc'[u] = loc[u]
    BY <1>8 DEF RefreshAdds, RefreshDrops
  <1>9. ASSUME NEW t \in Threads, Continue(t)
        PROVE  \/ loc'[u] = loc[u]
               \/ SubmitMagnet(u) /\ loc'[u].pc = "status" /\ loc'[u].new = nextId
               \/ (StatusReady(u) \/ SetNew(u) \/ DeleteOld(u)) /\ loc'[u].new = loc[u].new
               \/ loc'[u].pc \notin {"status", "set", "delete", "deleteRemote"}
    BY <1>9, <1>2, <1>3, <1>4, <1>5, <1>6, <1>7 DEF Continue
  <1> QED
    BY <1>1, <1>8, <1>9 DEF Next

\* Whatever removes an id that is safe leaves a newer one.
LEMMA KeptStep ==
  ASSUME Sound, Replacement, Content, Next, NEW k \in Nat, Kept(k)
  PROVE  Kept(k)'
  <1> USE DEF Sound, cacheVars, debridVars, answerVars
  <1>0. \A j \in Ids : j \in Nat
    BY DEF Ids
  <1>1. PICK j \in Ids : j >= k /\ Safe(j)
    BY DEF Kept
  <1>2. ASSUME NEW t \in Threads, DeleteOld(t) \/ DeleteOldRemote(t) PROVE Kept(k)'
    <2>1. /\ loc[t].pc \in {"delete", "deleteRemote"} /\ loc[t].old \in Ids /\ loc[t].new \in Ids
          /\ loc[t].new > loc[t].old
      BY <1>2, <1>0 DEF DeleteOld, DeleteOldRemote, Shape, Holds, Replaced
    <2>2. PICK m \in Ids : m >= loc[t].new /\ Safe(m)
      BY <2>1 DEF Content, Kept
    <2>3. \A n \in Ids : Safe(n) /\ n # loc[t].old => Safe(n)'
      BY <1>2 DEF DeleteOld, DeleteOldRemote, Goto, Safe, TypeOK
    <2>4. m # loc[t].old /\ m \in Nat /\ (j = loc[t].old => m >= k)
      BY <1>0, <1>1, <2>1, <2>2
    <2> QED
      BY <1>1, <2>2, <2>3, <2>4 DEF Kept
  <1>3. ASSUME NEW t \in Threads, StatusFails(t) PROVE Kept(k)'
    <2>1. j # loc[t].new
      BY <1>1, <1>3 DEF StatusFails, Safe
    <2>2. Safe(j)'
      BY <1>1, <1>3, <2>1 DEF StatusFails, Goto, Safe, TypeOK
    <2> QED
      BY <1>1, <2>2 DEF Kept
  <1>4. ASSUME NEW t \in Threads, SubmitMagnet(t) PROVE Kept(k)'
    <2>1. j < nextId /\ nextId \in Nat
      BY <1>1 DEF Safe, Shape, TypeOK
    <2>2. Safe(j)'
      BY <1>0, <1>1, <1>4, <2>1 DEF SubmitMagnet, Safe, TypeOK
    <2> QED
      BY <1>1, <2>2 DEF Kept
  <1>5. ASSUME NEW t \in Threads,
               \/ StatusReady(t) \/ LinkEmpty(t) \/ SubmitFails(t) \/ SetNew(t) \/ Complete(t)
               \/ MarkOk(t) \/ Unmark(t) \/ FindOk(t) \/ ClearBad(t)
               \/ MarkFailed(t) \/ FindFailed(t) \/ SetBad(t)
        PROVE  Kept(k)'
    <2>1. /\ loc'[t].new = loc[t].new /\ loc'[t].pc # "status" /\ (cached \cup dropped) \subseteq (cached \cup dropped)'
          /\ debrid' = debrid
          /\ \A u \in Threads : u # t => loc'[u] = loc[u]
      BY <1>5 DEF StatusReady, LinkEmpty, SubmitFails, SetNew, Complete, MarkOk, Unmark, FindOk, ClearBad,
         MarkFailed, FindFailed, SetBad, Goto, TypeOK
    <2>2. Safe(j)'
      BY <1>1, <2>1 DEF Safe
    <2> QED
      BY <1>1, <2>2 DEF Kept
  <1>6. ASSUME NEW t \in Threads,
               LoadRequest(t) \/ StoreRequest(t) \/ WaitReturns(t) \/ Cleanup(t) \/ \E i \in Ids : Call(t, i)
        PROVE  Kept(k)'
    <2>1. UNCHANGED <<cached, dropped, debrid, nextId>>
      BY <1>6 DEF LoadRequest, StoreRequest, WaitReturns, Cleanup, Call
    <2>2. ASSUME NEW u \in Threads PROVE loc'[u] = loc[u] \/ loc'[u].pc # "status"
      <3>1. Next
        BY <1>6 DEF Next, Continue
      <3>2. CASE SubmitMagnet(u)
        BY <2>1, <3>2 DEF SubmitMagnet, TypeOK
      <3>3. CASE StatusReady(u) \/ SetNew(u) \/ DeleteOld(u)
        BY <3>3 DEF StatusReady, SetNew, DeleteOld, Goto, TypeOK
      <3> QED
        BY <3>1, <3>2, <3>3, Turn
    <2>3. Safe(j)'
      BY <1>1, <2>1, <2>2 DEF Safe
    <2> QED
      BY <1>1, <2>3 DEF Kept
  <1>7. ASSUME NEW i \in Ids, RefreshAdds(i) \/ RefreshDrops(i) PROVE Kept(k)'
    <2>1. UNCHANGED <<loc, debrid>> /\ ((cached \cup dropped) \cap debrid) \subseteq (cached \cup dropped)'
      BY <1>7 DEF RefreshAdds, RefreshDrops
    <2>2. Safe(j)'
      BY <1>1, <2>1 DEF Safe
    <2> QED
      BY <1>1, <2>2 DEF Kept
  <1> QED
    BY <1>2, <1>3, <1>4, <1>5, <1>6, <1>7 DEF Next, Continue

LEMMA ContentStep == Sound /\ Replacement /\ Content /\ [Next]_vars => Content'
  <1> SUFFICES ASSUME Sound, Replacement, Content, [Next]_vars PROVE Content'
    OBVIOUS
  <1>1. CASE UNCHANGED vars
    BY <1>1 DEF vars, cacheVars, debridVars, answerVars, Content, Kept, Safe
  <1>2. CASE Next
    <2> USE DEF Sound, cacheVars, debridVars, answerVars
    <2>k. \A k \in Nat : Kept(k) => Kept(k)'
      BY <1>2, KeptStep
    <2>n. \A u \in Threads : loc[u].pc \in Replaced =>
             loc[u].new \in Ids /\ loc[u].new \in Nat /\ loc[u].old \in Nat /\ loc[u].old < loc[u].new
      BY DEF Shape, Holds, Ids, Replaced
    <2>1. ASSUME NEW u \in Threads, loc[u].pc \in {"status", "set"}, NEW n \in Nat, n = loc[u].new
          PROVE  n \in debrid' \/ Kept(n)' \/ loc'[u].pc \notin {"status", "set"}
      <3>1. CASE Kept(n)
        BY <2>k, <3>1
      <3>2. CASE n \in debrid /\ n \notin debrid'
        <4>1. PICK t \in Threads : \/ StatusFails(t) /\ n = loc[t].new
                                   \/ DeleteOldRemote(t) /\ n = loc[t].old
          BY <1>2, <3>2 DEF Next, Continue, LoadRequest, StoreRequest, WaitReturns, SubmitMagnet, SubmitFails,
             StatusReady, StatusFails, LinkEmpty, SetNew, DeleteOld, DeleteOldRemote, Complete, MarkOk, Unmark,
             FindOk, ClearBad, MarkFailed, FindFailed, SetBad, Cleanup, Call, RefreshAdds, RefreshDrops
        <4>2. CASE StatusFails(t) /\ n = loc[t].new
          <5>1. t = u
            BY <2>1, <2>n, <4>2 DEF Replacement, Distinct, StatusFails, Replaced
          <5> QED
            BY <4>2, <5>1 DEF StatusFails, Goto, TypeOK
        <4>3. CASE DeleteOldRemote(t) /\ n = loc[t].old
          <5>1. PICK m \in Nat : m = loc[t].new /\ n < m /\ Kept(m)
            BY <4>3, <2>n DEF DeleteOldRemote, Content, Replaced
          <5>2. PICK j \in Ids : j >= m /\ Safe(j)'
            BY <2>k, <5>1 DEF Kept
          <5>3. j >= n
            BY <5>1, <5>2 DEF Ids
          <5> QED
            BY <5>2, <5>3 DEF Kept
        <4> QED
          BY <4>1, <4>2, <4>3
      <3> QED
        BY <2>1, <3>1, <3>2 DEF Content
    <2>2. ASSUME NEW u \in Threads, loc'[u].pc \in {"status", "set"}
          PROVE  (loc[u].pc \in {"status", "set"} /\ loc'[u].new = loc[u].new) \/ loc'[u].new \in debrid'
      <3>1. CASE SubmitMagnet(u) /\ loc'[u].new = nextId
        BY <3>1 DEF SubmitMagnet
      <3>2. CASE (StatusReady(u) \/ SetNew(u) \/ DeleteOld(u)) /\ loc'[u].new = loc[u].new
        BY <2>2, <3>2 DEF StatusReady, SetNew, DeleteOld, Goto, TypeOK
      <3> QED
        BY <1>2, <2>2, <3>1, <3>2, Turn
    <2>3. ASSUME NEW u \in Threads, loc'[u].pc \in {"delete", "deleteRemote"}
          PROVE  /\ loc'[u].new = loc[u].new
                 /\ loc[u].pc \in {"delete", "deleteRemote"} \/ SetNew(u)
      <3>1. CASE (StatusReady(u) \/ SetNew(u) \/ DeleteOld(u)) /\ loc'[u].new = loc[u].new
        BY <2>3, <3>1 DEF StatusReady, DeleteOld, Goto, TypeOK
      <3> QED
        BY <1>2, <2>3, <3>1, Turn
    <2>4. ASSUME NEW u \in Threads, loc'[u].pc \in {"status", "set"}
          PROVE  loc'[u].new \in debrid' \/ Kept(loc[u].new)'
      <3>1. CASE loc[u].pc \in {"status", "set"} /\ loc'[u].new = loc[u].new
        <4>1. PICK n \in Nat : n = loc[u].new
          BY <2>n, <3>1 DEF Replaced
        <4>2. n \in debrid' \/ Kept(n)'
          BY <2>1, <2>4, <3>1, <4>1
        <4> QED
          BY <3>1, <4>1, <4>2 DEF Kept
      <3> QED
        BY <2>2, <2>4, <3>1
    <2>5. ASSUME NEW u \in Threads, loc'[u].pc \in {"delete", "deleteRemote"}
          PROVE  Kept(loc[u].new)'
      <3>1. loc[u].pc \in {"set", "delete", "deleteRemote"}
        BY <2>3, <2>5 DEF SetNew
      <3>2. PICK n \in Nat : n = loc[u].new /\ n \in Ids
        BY <2>n, <3>1 DEF Replaced
      <3>3. Kept(n)'
        <4>1. CASE Kept(n)
          BY <2>k, <4>1
        <4>2. CASE SetNew(u) /\ n \in debrid
          <5>1. n \in cached' /\ n \in debrid' /\ loc'[u].pc = "delete"
            BY <3>2, <4>2 DEF SetNew, Goto, TypeOK
          <5>2. \A t \in Threads : t # u => loc'[t] = loc[t] /\ loc[t].new # n
            BY <2>n, <3>1, <3>2, <4>2 DEF SetNew, Goto, TypeOK, Replacement, Distinct, Replaced
          <5>3. Safe(n)' /\ n >= n
            BY <5>1, <5>2 DEF Safe
          <5> QED
            BY <3>2, <5>3 DEF Kept
        <4> QED
          BY <2>3, <2>5, <3>2, <4>1, <4>2 DEF Content, SetNew
      <3> QED
        BY <2>3, <2>5, <3>2, <3>3 DEF Kept
    <2>6. Kept(1)'
      BY <2>k DEF Content
    <2> QED
      BY <2>4, <2>5, <2>6 DEF Content
  <1> QED
    BY <1>1, <1>2

\* However many re-insert it and each other's replacements, and whichever calls to
\* the service fail: some id of the release is in the account and cached, or was
\* taken for deleted by validateAndDeleteTorrents while it is still in the account.
THEOREM ContentIsKept == Spec => []ContentKept
  <1>1. Content => ContentKept
    BY DEF Content, Kept, Safe, ContentKept
  <1> QED
    BY <1>1, SoundInit, SoundStep, TableInit, TableStep, ReplacementInit, ReplacementStep, ContentInit, ContentStep,
       PTL
    DEF Spec
=============================================================================
