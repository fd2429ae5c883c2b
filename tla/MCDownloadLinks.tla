--------------------------- MODULE MCDownloadLinks ---------------------------
(* Instances of DownloadLinks for TLC. *)
EXTENDS DownloadLinks, FiniteSets, TLC

\* Two urls for a file's first link, one for the next.
SomeUrls == {u \in [file : Files, link : 1..MaxLinks, n : 0..1] : u.link + u.n <= MaxLinks}

Known == invalid \cup {links[k] : k \in Keys} \cup {loc[t].got : t \in Readers}
         \cup {loc[t].own : t \in Readers} \cup {loc[t].bad : t \in Readers}

Touched == {f \in Files : \E t \in Readers : loc[t].file = f} \cup {u.file : u \in Known \ {None}}

\* Two files matter for what they might take from each other: once the torrent
\* is inserted again or a second url is known, one file goes on alone.
OneFileLater ==
    \/ Cardinality(Touched) <= 1
    \/ current = 1 /\ \A u \in Known \ {None} : u.n = 0

ReaderSymmetry == Permutations(Readers) \cup Permutations(Files)
=============================================================================
