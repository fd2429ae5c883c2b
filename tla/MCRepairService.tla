--------------------------- MODULE MCRepairService --------------------------
(* Instances of RepairService for TLC. *)
EXTENDS RepairService

CONSTANTS a1, s1, p1

MCArrOf == [n \in Media |-> a1]
MCContentOf == [n \in Media |-> s1]
MCFolderOf == [x \in Items |-> p1]
Everything == [k \in Keys |-> {}]
\* The schedule's job.
Scheduled == {[key |-> k, auto |-> b, recurrent |-> TRUE] : k \in Keys, b \in BOOLEAN}
=============================================================================
