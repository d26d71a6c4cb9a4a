----------------------------- MODULE MCPingJobs -----------------------------
(* Small instances of PingJobs for TLC. *)
EXTENDS PingJobs, TLC

CONSTANTS p1, p2

\* One project per call, as the buttons and the API make them.
SingleRequests == {<<p>> : p \in Project}
\* A folder's projects in one transaction, and one of them alone.
FolderRequests == {<<p1, p2>>, <<p1>>}
\* A project schedule and its folder's schedule due in the same pass.
PassRequests == {<<p1, p1>>}

ShortLease == {1}
TwoLeases == {1, 2}
\* A lease no run outlasts.
LongLease == {MaxTime + 1}

WorkerSymmetry == Permutations(Worker)
=============================================================================
