\* Leases run out under a live worker; the timeout setting changes.
SPECIFICATION Spec
CONSTANTS
  p1 = p1
  p2 = p2
  NULL = NULL
  Worker = {w1, w2}
  Requester = {r1}
  Project = {p1}
  Requests <- SingleRequests
  Timeouts <- TwoLeases
  Answers = {NULL}
  ClaimWindow = 2
  MaxJobs = 1
  MaxTime = 4
  MaxCrashes = 1
SYMMETRY WorkerSymmetry
INVARIANTS
  TypeOK
  LeasesDisjoint
  LeaseIsHonoured
PROPERTY
  QueuePromise
