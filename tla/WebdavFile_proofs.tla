-------------------------- MODULE WebdavFile_proofs --------------------------
(***************************************************************************)
(* An open file is a random access file, for every size and every set of   *)
(* links, where the service honours Range requests; its bodies and marks   *)
(* are in order whatever the service does.                                 *)
(***************************************************************************)
EXTENDS WebdavFile, TLAPS

\* A goroutine that reads on has a reader, one that opens a body has none, and the
\* link a request is on is one the link cache gave.
Placed ==
    /\ pc = "read" => reader # None
    /\ pc \in {"link", "request", "relink", "rerequest"} => reader = None
    /\ pc \in {"request", "rerequest"} => tried \in Links

Sound == TypeOK /\ Placed /\ BodiesClosed /\ InvalidWereRefused

\* A reader that no Seek has left behind is where the offset is, in the file.
InStep ==
    /\ offset \in 0..Size
    /\ kind # "remote" => reader = None /\ pc = "idle"
    /\ reader # None /\ ~seekPending => reader = offset
    /\ pc = "read" => ~seekPending

-----------------------------------------------------------------------------

LEMMA SoundInit == Init => Sound
<1> SUFFICES ASSUME Init PROVE Sound
  OBVIOUS
<1>1. downloadLink \in Links \cup {None} /\ delivered \in [at : Nat, n : Nat]
  BY DEF Init
<1>2. TypeOK
  BY <1>1 DEF Init, TypeOK, Kinds, PCs
<1> QED
  BY <1>2 DEF Init, Sound, Placed, BodiesClosed, InvalidWereRefused

\* Every action keeps Sound.  Only Open and ReadBody change the bodies and the
\* reader in a way that is not read off the action.
LEMMA SoundNext == Sound /\ [Next]_vars => Sound'
<1> SUFFICES ASSUME Sound, [Next]_vars PROVE Sound'
  OBVIOUS
<1> USE ConstantsAssumption
    DEF Sound, TypeOK, Placed, BodiesClosed, InvalidWereRefused, Kinds, PCs,
        fileVars, linkVars
<1>1. ASSUME NEW o \in -1..(Size + 1), Seek(o) PROVE Sound'
  <2>1. Clip(o) \in Nat
    BY DEF Clip
  <2> QED
    BY <1>1, <2>1 DEF Seek
<1>2. CASE Close
  BY <1>2 DEF Close
<1>3. CASE ReadContent
  <2>1. PICK n \in 1..(Size - offset) :
           delivered' = [at |-> offset, n |-> n] /\ offset' = offset + n
    BY <1>3 DEF ReadContent
  <2>2. n \in Nat /\ offset' \in Nat
    BY <2>1
  <2> QED
    BY <1>3, <2>1, <2>2 DEF ReadContent
<1>4. CASE ReadOn
  BY <1>4 DEF ReadOn
<1>5. CASE Reposition
  BY <1>5 DEF Reposition
<1>6. CASE ReadBody
  <2>1. PICK n \in 0..(Size - reader), err \in BOOLEAN :
           /\ delivered' = [at |-> reader, n |-> n]
           /\ offset' = offset + n
           /\ reader' = IF err THEN None ELSE reader + n
           /\ bodies' = IF err THEN bodies - 1 ELSE bodies
    BY <1>6 DEF ReadBody
  <2>2. /\ n \in Nat /\ offset' \in Nat
        /\ reader \in Nat /\ bodies = 1
        /\ pc' = "idle"
        /\ UNCHANGED <<kind, seekPending, downloadLink, tried, invalid, refused>>
    BY <1>6, <2>1 DEF ReadBody
  <2>3. CASE err
    <3>1. reader' = None /\ bodies' = 0
      BY <2>1, <2>2, <2>3
    <3> QED
      BY <2>1, <2>2, <3>1
  <2>4. CASE ~err
    <3>1. reader' \in Nat /\ reader' # None /\ bodies' = 1
      BY <2>1, <2>2, <2>4
    <3> QED
      BY <2>1, <2>2, <3>1
  <2> QED
    BY <2>3, <2>4
<1>7. CASE StreamLink \/ RegenerateLink
  BY <1>7 DEF StreamLink, RegenerateLink, GetLink
<1>8. CASE NoLink
  BY <1>8 DEF NoLink, Return
<1>9. CASE Accepted
  <2>1. reader' \in Nat /\ reader' # None /\ bodies' = 1
    BY <1>9 DEF Accepted, Open
  <2> QED
    BY <1>9, <2>1 DEF Accepted, Open
<1>10. CASE RequestFails
  BY <1>10 DEF RequestFails, Return
<1>11. CASE TrafficExceeded
  BY <1>11 DEF TrafficExceeded
<1>12. CASE NotFound
  BY <1>12 DEF NotFound
<1>13. CASE Refused
  BY <1>13 DEF Refused, Return
<1>14. CASE RefusedAgain
  BY <1>14 DEF RefusedAgain, Return
<1>15. CASE UNCHANGED vars
  BY <1>15 DEF vars
<1> QED
  BY <1>1, <1>2, <1>3, <1>4, <1>5, <1>6, <1>7, <1>8, <1>9, <1>10, <1>11, <1>12,
     <1>13, <1>14, <1>15 DEF Next

\* The state of an open file keeps its shape.
THEOREM TypeCorrect == Spec => []TypeOK
<1>1. Sound => TypeOK
  BY DEF Sound
<1> QED
  BY SoundInit, SoundNext, <1>1, PTL DEF Spec

\* No response body is lost: one is open exactly while it is the reader.
THEOREM Closing == Spec => []BodiesClosed
<1>1. Sound => BodiesClosed
  BY DEF Sound
<1> QED
  BY SoundInit, SoundNext, <1>1, PTL DEF Spec

\* Only links that were refused are marked invalid for everyone.
THEOREM Marking == Spec => []InvalidWereRefused
<1>1. Sound => InvalidWereRefused
  BY DEF Sound
<1> QED
  BY SoundInit, SoundNext, <1>1, PTL DEF Spec

-----------------------------------------------------------------------------
(* Random access                                                           *)

LEMMA InStepInit == Init => InStep
BY ConstantsAssumption DEF Init, InStep

\* A Seek that moves leaves seekPending behind, so a reader that is used again is
\* where the offset is; a body is opened there because Range is honoured.
LEMMA InStepNext ==
  ASSUME HonoursRange, Sound, InStep, [Next]_vars
  PROVE  InStep'
<1> USE ConstantsAssumption DEF InStep, fileVars
<1>1. ASSUME NEW o \in -1..(Size + 1), Seek(o) PROVE InStep'
  <2>1. Clip(o) \in 0..Size
    BY DEF Clip
  <2> QED
    BY <1>1, <2>1 DEF Seek
<1>2. CASE Close
  BY <1>2 DEF Close
<1>3. CASE ReadContent
  BY <1>3 DEF ReadContent
<1>4. CASE ReadOn \/ Reposition
  BY <1>4 DEF ReadOn, Reposition
<1>5. CASE ReadBody
  <2>1. reader = offset /\ reader \in Nat
    BY <1>5 DEF ReadBody, Sound, TypeOK, Placed
  <2> QED
    BY <1>5, <2>1 DEF ReadBody
<1>6. CASE StreamLink \/ RegenerateLink \/ NoLink
  BY <1>6 DEF StreamLink, RegenerateLink, GetLink, NoLink, Return, Sound, Placed
<1>7. CASE Accepted
  BY <1>7 DEF Accepted, Open
<1>8. CASE RequestFails \/ TrafficExceeded \/ NotFound \/ Refused \/ RefusedAgain
  BY <1>8 DEF RequestFails, TrafficExceeded, NotFound, Refused, RefusedAgain, Return
<1>9. CASE UNCHANGED vars
  BY <1>9 DEF vars
<1> QED
  BY <1>1, <1>2, <1>3, <1>4, <1>5, <1>6, <1>7, <1>8, <1>9 DEF Next

LEMMA InitMaps == Init => RA!Init
BY DEF Init, RA!Init

\* Seek and the two reading actions are steps of a random access file; all else
\* happens behind it.
LEMMA StepMaps ==
  ASSUME Sound, InStep, [Next]_vars
  PROVE  [RA!Next]_RA!vars
<1> USE ConstantsAssumption DEF InStep, fileVars, RA!vars
<1>1. ASSUME NEW o \in -1..(Size + 1), Seek(o) PROVE [RA!Next]_RA!vars
  <2>1. Clip(o) \in 0..Size
    BY DEF Clip
  <2> QED
    BY <1>1, <2>1 DEF Seek, RA!Next, RA!Seek
<1>2. CASE ReadContent
  <2>1. PICK n \in 1..(Size - offset) :
           delivered' = [at |-> offset, n |-> n] /\ offset' = offset + n
    BY <1>2 DEF ReadContent
  <2>2. n \in 0..(Size - offset)
    BY <2>1
  <2> QED
    BY <2>1, <2>2 DEF RA!Next, RA!Read
<1>3. CASE ReadBody
  <2>1. PICK n \in 0..(Size - reader) :
           delivered' = [at |-> reader, n |-> n] /\ offset' = offset + n
    BY <1>3 DEF ReadBody
  <2>2. reader = offset
    BY <1>3 DEF ReadBody, Sound, Placed
  <2> QED
    BY <2>1, <2>2 DEF RA!Next, RA!Read
<1>4. CASE Close \/ ReadOn \/ Reposition \/ StreamLink \/ RegenerateLink \/ NoLink
  BY <1>4 DEF Close, ReadOn, Reposition, StreamLink, RegenerateLink, GetLink, NoLink
<1>5. CASE \/ Accepted \/ RequestFails \/ TrafficExceeded \/ NotFound \/ Refused
           \/ RefusedAgain
  BY <1>5 DEF Accepted, RequestFails, TrafficExceeded, NotFound, Refused, RefusedAgain
<1>6. CASE UNCHANGED vars
  BY <1>6 DEF vars
<1> QED
  BY <1>1, <1>2, <1>3, <1>4, <1>5, <1>6 DEF Next

\* Where Range is honoured every Read returns the bytes at the offset, over any
\* number of broken bodies, refused requests and Seeks.
THEOREM RandomAccess == HonoursRange => (Spec => RandomAccessSpec)
<1> SUFFICES ASSUME HonoursRange PROVE Spec => RandomAccessSpec
  OBVIOUS
<1>1. Init => Sound /\ InStep
  BY SoundInit, InStepInit
<1>2. Sound /\ InStep /\ [Next]_vars => Sound' /\ InStep' /\ [RA!Next]_RA!vars
  BY SoundNext, InStepNext, StepMaps
<1> QED
  BY <1>1, <1>2, InitMaps, PTL DEF Spec, RandomAccessSpec, RA!Spec
=============================================================================
