---------------------------- MODULE MCRepairJobs ----------------------------
(* Instances of RepairJobs for TLC. *)
EXTENDS RepairJobs, TLC

CONSTANTS a1, a2, m1, m2, m3, s1, s2, p1, p2, p3, all, some

\* m1 and m2, where there is one, come in one folder; m1 anew from outside the
\* mounts.
MCArrOf == [n \in Media |-> IF n = m3 THEN a2 ELSE a1]
MCContentOf == [n \in Media |-> IF n = m3 THEN s2 ELSE s1]
MCFolderOf == [x \in Items |-> IF x[1] = m3 THEN p3 ELSE IF x = <<m1, 2>> THEN p2 ELSE p1]
MCNamed == [k \in Keys |-> IF k = some THEN {a1, a2} ELSE {}]
MCWanted == [k \in Keys |-> {}]

\* The schedule's job over all Arrs, and the page's over both by name,
\* auto-processing.
Scheduled == {[key |-> all, auto |-> b, recurrent |-> TRUE] : b \in BOOLEAN}
FromPage  == {[key |-> some, auto |-> TRUE, recurrent |-> FALSE]}
AllRequests == Scheduled \cup FromPage
=============================================================================
