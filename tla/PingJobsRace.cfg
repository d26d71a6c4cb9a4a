\* Two callers look at the queue before either of them commits.
SPECIFICATION Spec
CONSTANTS
  p1 = p1
  p2 = p2
  NULL = NULL
  Worker = {w1, w2}
  Requester = {r1, r2}
  Project = {p1}
  Requests <- SingleRequests
  Timeouts <- LongLease
  Answers = {TRUE}
  ClaimWindow = 2
  MaxJobs = 2
  MaxTime = 1
  MaxCrashes = 0
INVARIANT
  NoDuplicatedWork
