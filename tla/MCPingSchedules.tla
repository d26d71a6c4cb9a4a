-------------------------- MODULE MCPingSchedules --------------------------
(* Small instances of PingSchedules for TLC. *)
EXTENDS PingSchedules, TLC

CONSTANTS p1, p2, f1

OneFolder == [p \in Project |-> f1]

WorkerSymmetry == Permutations(Worker)

NoEdits == {}
OnOff == {[enabled |-> e, interval |-> 1] : e \in BOOLEAN}
=============================================================================
