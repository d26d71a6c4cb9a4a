\* Every job ends, with a claim window smaller than the queue and a death.
SPECIFICATION FairSpec
CONSTANTS
  p1 = p1
  p2 = p2
  NULL = NULL
  Worker = {w1, w2}
  Requester = {r1}
  Project = {p1}
  Requests <- PassRequests
  Timeouts <- ShortLease
  Answers = {NULL}
  ClaimWindow = 1
  MaxJobs = 2
  MaxTime = 1
  MaxCrashes = 1
PROPERTY
  EveryJobEnds
