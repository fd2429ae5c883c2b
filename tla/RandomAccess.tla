---------------------------- MODULE RandomAccess ----------------------------
(***************************************************************************)
(* What an open file promises its reader: Seek puts the offset anywhere in *)
(* the file, Read returns bytes that lie at the offset and moves behind    *)
(* them.  Bytes are known by their position in the file.                   *)
(***************************************************************************)
EXTENDS Naturals

CONSTANT Size   \* bytes in the file

VARIABLES
    offset,
    delivered   \* the bytes the last Read returned: n of them from at

vars == <<offset, delivered>>

Init == offset = 0 /\ delivered = [at |-> 0, n |-> 0]

Seek ==
    /\ offset' \in 0..Size
    /\ UNCHANGED delivered

Read ==
    \E n \in 0..(Size - offset) :
        /\ delivered' = [at |-> offset, n |-> n]
        /\ offset' = offset + n

Next == Seek \/ Read

Spec == Init /\ [][Next]_vars
=============================================================================
