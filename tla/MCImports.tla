------------------------------ MODULE MCImports ------------------------------
(* Instances of Imports for TLC: two imports of one release. *)
EXTENDS Imports, TLC

CONSTANTS o1, o2, c, d, h, rd, tb, dl

OneRelease == o1 :> h @@ o2 :> h
TwoCategories == o1 :> c @@ o2 :> d
Mixed == o1 :> None @@ o2 :> TRUE
Kind == rd :> "realdebrid" @@ tb :> "torbox" @@ dl :> "debridlink"
KindOfClient == [x \in Clients |-> Kind[x]]
SomeUncached == [x \in Clients |-> x \in {tb, dl}]
=============================================================================
