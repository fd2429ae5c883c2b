--------------------------- MODULE MCTorrentCache ---------------------------
(* Instances of TorrentCache for TLC: up to three torrents a, b and c. *)
EXTENDS TorrentCache, FiniteSets, TLC

CONSTANTS a, b, c, f, g, h, n, m

PerId(x, y, z) == [i \in Ids |-> CASE i = a -> x [] i = b -> y [] i = c -> z]

DisjointFiles == PerId({f}, {g}, {h})
DisjointHere  == PerId({f}, {g}, {f})
SameFile      == PerId({f}, {f}, {f})
CoveringFiles == PerId({f}, {f, g}, {f, g})   \* b is a larger release of a

AllInOne   == PerId(n, n, n)
ThirdApart == PerId(n, n, m)

InOrder     == PerId(1, 2, 3)
LatestFirst == PerId(3, 1, 2)

\* Two torrents at a time: of one folder, or of two.
TwoAtATime == Cardinality(Present) <= 2

ObjectSymmetry == Permutations(Objects) \cup Permutations(Threads)
=============================================================================
