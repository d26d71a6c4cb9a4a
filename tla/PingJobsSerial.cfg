\* One caller at a time and no worker outruns its lease.
SPECIFICATION Spec
CONSTANTS
  p1 = p1
  p2 = p2
  NULL = NULL
  Worker = {w1, w2}
  Requester = {r1}
  Project = {p1, p2}
  Requests <- FolderRequests
  Timeouts <- LongLease
  Answers = {TRUE, FALSE, NULL}
  ClaimWindow = 1
  MaxJobs = 2
  MaxTime = 2
  MaxCrashes = 0
SYMMETRY WorkerSymmetry
INVARIANTS
  NoDuplicatedWork
  SeenWhenChecked
PROPERTIES
  ResultsMoveForward
