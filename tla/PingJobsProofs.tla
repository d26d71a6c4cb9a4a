--------------------------- MODULE PingJobsProofs ---------------------------
(***************************************************************************)
(* Proofs about PingJobs, for any number of workers, requesters, projects  *)
(* and jobs, any requests, any set of timeouts.                            *)
(***************************************************************************)
EXTENDS PingJobs, SequenceTheorems, TLAPS

USE DEF JobId, Time

(***************************************************************************)
(* Type correctness, one lemma for each part of the state.                 *)
(***************************************************************************)

\* Appending a list of calls to look at, or an added job, keeps the lists of
\* the callers well typed (enqueue_project_ping).
LEMMA CallersStep == TypeOK /\ [Next]_vars => CallersOK'
<1> SUFFICES ASSUME TypeOK, [Next]_vars
             PROVE  CallersOK'
  OBVIOUS
<1> USE DEF TypeOK, CallersOK
<1>1. ASSUME NEW r \in Requester, StartRequest(r)
      PROVE  CallersOK'
  BY <1>1, RequestsAssumption DEF StartRequest
<1>2. ASSUME NEW r \in Requester, EnqueueCheck(r)
      PROVE  CallersOK'
  <2>1. Head(todo[r]) \in Project /\ Tail(todo[r]) \in Seq(Project)
    BY <1>2, HeadTailProperties DEF EnqueueCheck
  <2>2. Queued(Head(todo[r]), now) \in Added
    BY <2>1 DEF Queued, Added
  <2>3. Append(pend[r], Queued(Head(todo[r]), now)) \in Seq(Added)
    BY <2>2, AppendProperties
  <2> QED  BY <1>2, <2>1, <2>3 DEF EnqueueCheck
<1>3. ASSUME NEW r \in Requester, EnqueueCommit(r)
      PROVE  CallersOK'
  BY <1>3 DEF EnqueueCommit
<1>4. CASE UNCHANGED callerVars
  BY <1>4 DEF callerVars
<1>5. ASSUME NEW w \in Worker, WorkerStep(w) \/ Crash(w)
      PROVE  UNCHANGED callerVars
  BY <1>5 DEF WorkerStep, LockScheduler, Requeue, NotYet, Poll, TryLock, ClaimJob,
     NothingClaimed, Probe, Apply, RunFails, LoadJob, WriteOutcome, Crash
<1>6. ASSUME NEW p \in Project, DeleteProject(p)
      PROVE  UNCHANGED callerVars
  BY <1>6 DEF DeleteProject
<1> QED
  BY <1>1, <1>2, <1>3, <1>4, <1>5, <1>6 DEF Next, RequesterStep, Tick, vars

\* Each thing an action does to a row keeps it well formed: a new row, the SET
\* of requeue_stale_ping_jobs, of _claim_next_ping_job, of run_next_ping_job.
LEMMA NewRow ==
  /\ Absent \in Row /\ RowOK(Absent)
  /\ \A p \in Project, t \in Nat : Queued(p, t) \in Row /\ RowOK(Queued(p, t))
BY NullAssumption DEF Row, RowOK, Absent, Queued

\* A row that requeue_stale_ping_jobs puts back keeps the shape of a row.
LEMMA RequeuedRow ==
  ASSUME NEW row \in Row, NEW t \in Nat, NEW d \in Timeouts,
         RowOK(row), Stale(row, t, d)
  PROVE  Requeued(row, t) \in Row /\ RowOK(Requeued(row, t))
BY NullAssumption DEF Row, RowOK, Stale, Requeued, Queued, Absent

\* So does a row that _claim_next_ping_job claims, with a lease after its start.
LEMMA ClaimedRow ==
  ASSUME NEW row \in Row, NEW t \in Nat, NEW d \in Timeouts,
         RowOK(row), Claimable(row, t)
  PROVE  Claimed(row, t, d) \in Row /\ RowOK(Claimed(row, t, d))
<1>1. row.status = "queued" /\ row.project \in Project
  BY DEF Claimable, RowOK, Absent
<1>2. PICK e \in Nat : e = t + d /\ e > t
  BY TimeoutsAssumption
<1>3. Claimed(row, t, d) = [row EXCEPT !.status = "running", !.started_at = t,
                                       !.lease_expires_at = e]
  BY <1>2, Zenon DEF Claimed
<1>4. Claimed(row, t, d) = [status |-> "running", project |-> row.project,
                            run_after |-> row.run_after, started_at |-> t,
                            lease_expires_at |-> e]
  BY <1>3 DEF Row
<1> QED  BY <1>1, <1>2, <1>4 DEF Row, RowOK

\* So does a row whose status run_next_ping_job sets at the end.
LEMMA FinishedRow ==
  ASSUME NEW row \in Row, NEW s \in {"done", "failed"},
         RowOK(row), row.status # "absent"
  PROVE  Finished(row, s) \in Row /\ RowOK(Finished(row, s))
<1>1. Finished(row, s) = [status |-> s, project |-> row.project,
                          run_after |-> row.run_after,
                          started_at |-> row.started_at,
                          lease_expires_at |-> row.lease_expires_at]
  BY DEF Finished, Row
<1> QED  BY <1>1 DEF Row, RowOK, Absent

\* The tables stay well formed whichever transaction commits.
LEMMA TablesStep == TypeOK /\ [Next]_vars => TablesOK'
<1> SUFFICES ASSUME TypeOK, [Next]_vars
             PROVE  TablesOK'
  OBVIOUS
<1> USE NewRow, NullAssumption, BoundsAssumption DEF TypeOK, TablesOK
<1>1. CASE UNCHANGED tableVars
  BY <1>1 DEF tableVars
<1>2. ASSUME NEW r \in Requester, EnqueueCommit(r)
      PROVE  TablesOK'
  <2> DEFINE n == Len(pend[r])
  <2>1. n \in Nat /\ \A i \in 1..n : pend[r][i] \in Added
    BY <1>2, ElementOfSeq, LenProperties DEF CallersOK, EnqueueCommit
  <2>2. CASE UNCHANGED <<jobs, nextJob>>
    BY <1>2, <2>2 DEF EnqueueCommit
  <2>3. CASE ~ UNCHANGED <<jobs, nextJob>>
    <3>1. /\ nextJob' = nextJob + n
          /\ nextJob + n - 1 <= MaxJobs
          /\ jobs' = [j \in JobId |-> IF j \in nextJob..(nextJob + n - 1)
                                      THEN pend[r][j - nextJob + 1] ELSE jobs[j]]
          /\ UNCHANGED <<projects, ip>>
      BY <1>2, <2>3 DEF EnqueueCommit
    <3>2. nextJob' \in 1..(MaxJobs + 1)
      BY <2>1, <3>1
    <3>3. \A row \in Added : row \in Row /\ RowOK(row)
      BY DEF Added, Row, RowOK
    <3>4. ASSUME NEW j \in JobId
          PROVE  jobs'[j] \in Row /\ RowOK(jobs'[j])
                 /\ (j >= nextJob' => jobs'[j] = Absent)
      <4>1. CASE j \in nextJob..(nextJob + n - 1)
        <5>1. j - nextJob + 1 \in 1..n
          BY <2>1, <4>1
        <5> QED  BY <2>1, <3>1, <3>3, <4>1, <5>1
      <4>2. CASE j \notin nextJob..(nextJob + n - 1)
        BY <2>1, <3>1, <4>2
      <4> QED  BY <4>1, <4>2
    <3>5. jobs' \in [JobId -> Row]
      BY <3>1, <3>4
    <3> QED  BY <3>1, <3>2, <3>4, <3>5
  <2> QED  BY <2>2, <2>3
<1>3. ASSUME NEW p \in Project, DeleteProject(p)
      PROVE  TablesOK'
  <2>1. [reachable |-> NULL, last_checked_at |-> NULL, last_seen_at |-> NULL]
          \in [reachable : BOOLEAN \cup {NULL}, last_checked_at : Time,
               last_seen_at : Time]
    OBVIOUS
  <2> QED  BY <1>3, <2>1 DEF DeleteProject, NotTested
<1>4. ASSUME NEW w \in Worker, Requeue(w)
      PROVE  TablesOK'
  <2>1. PICK d \in Timeouts :
          jobs' = [j \in JobId |-> IF Stale(jobs[j], polledAt[w], d)
                                   THEN Requeued(jobs[j], polledAt[w]) ELSE jobs[j]]
    BY <1>4 DEF Requeue
  <2>2. polledAt[w] \in Nat
    BY DEF WorkersOK, WorkerTypes
  <2>3. \A j \in JobId : Stale(jobs[j], polledAt[w], d) =>
          /\ jobs[j] # Absent
          /\ Requeued(jobs[j], polledAt[w]) \in Row
          /\ RowOK(Requeued(jobs[j], polledAt[w]))
    BY <2>2, RequeuedRow DEF Stale, Absent
  <2>4. \A j \in JobId : /\ jobs'[j] \in Row /\ RowOK(jobs'[j])
                         /\ j >= nextJob => jobs'[j] = Absent
    BY <2>1, <2>3
  <2> QED  BY <1>4, <2>1, <2>4 DEF Requeue
<1>5. ASSUME NEW w \in Worker, ClaimJob(w)
      PROVE  TablesOK'
  <2> DEFINE j == jobLock[w]  at == polledAt[w]
  <2>1. j \in JobId /\ at \in Nat
    BY <1>5 DEF WorkersOK, WorkerTypes, WorkerOK, ClaimJob
  <2>2. CASE Claimable(jobs[j], at)
    <3>1. PICK d \in Timeouts : jobs' = [jobs EXCEPT ![j] = Claimed(@, at, d)]
      BY <1>5, <2>2 DEF ClaimJob
    <3>2. Claimed(jobs[j], at, d) \in Row /\ RowOK(Claimed(jobs[j], at, d))
      BY <2>1, <2>2, ClaimedRow
    <3>3. jobs[j] # Absent
      BY <2>2 DEF Claimable, Absent
    <3> QED  BY <1>5, <2>1, <3>1, <3>2, <3>3 DEF ClaimJob
  <2>3. CASE ~ Claimable(jobs[j], at)
    BY <1>5, <2>3 DEF ClaimJob
  <2> QED  BY <2>2, <2>3
<1>6. ASSUME NEW w \in Worker, Apply(w)
      PROVE  TablesOK'
  <2>1. result[w] \in [reachable : BOOLEAN \cup {NULL}, checked_at : Time]
    BY DEF WorkersOK, WorkerTypes
  <2>2. \A p \in Project : Applied(ip[p], result[w]) \in
          [reachable : BOOLEAN \cup {NULL}, last_checked_at : Time, last_seen_at : Time]
    BY <2>1 DEF Applied
  <2> QED  BY <1>6, <2>2 DEF Apply
<1>7. ASSUME NEW w \in Worker, WriteOutcome(w)
      PROVE  TablesOK'
  <2> DEFINE j == claim[w].job
  <2>1. j \in JobId /\ outcome[w] \in {"done", "failed", NULL}
    BY <1>7 DEF WorkersOK, WorkerTypes, WorkerOK, WriteOutcome
  <2>2. CASE jobs[j].status # "absent" /\ outcome[w] # NULL
    <3>1. Finished(jobs[j], outcome[w]) \in Row /\ RowOK(Finished(jobs[j], outcome[w]))
      BY <2>1, <2>2, FinishedRow
    <3>2. jobs[j] # Absent
      BY <2>2 DEF Absent
    <3> QED  BY <1>7, <2>1, <2>2, <3>1, <3>2 DEF WriteOutcome
  <2>3. CASE ~ (jobs[j].status # "absent" /\ outcome[w] # NULL)
    BY <1>7, <2>3 DEF WriteOutcome
  <2> QED  BY <2>2, <2>3
<1>8. ASSUME NEW w \in Worker,
             \/ LockScheduler(w) \/ NotYet(w) \/ Poll(w) \/ TryLock(w)
             \/ NothingClaimed(w) \/ Probe(w) \/ RunFails(w) \/ LoadJob(w) \/ Crash(w)
      PROVE  UNCHANGED tableVars
  BY <1>8 DEF LockScheduler, NotYet, Poll, TryLock, NothingClaimed, Probe, RunFails,
     LoadJob, Crash
<1>9. ASSUME NEW r \in Requester, StartRequest(r) \/ EnqueueCheck(r)
      PROVE  UNCHANGED tableVars
  BY <1>9 DEF StartRequest, EnqueueCheck
<1> QED
  BY <1>1, <1>2, <1>3, <1>4, <1>5, <1>6, <1>7, <1>8, <1>9
  DEF Next, WorkerStep, RequesterStep, Tick, vars

\* Ids are never given out twice.
LEMMA NextJobGrows == TypeOK /\ [Next]_vars => nextJob' >= nextJob
<1> SUFFICES ASSUME TypeOK, [Next]_vars
             PROVE  nextJob' >= nextJob
  OBVIOUS
<1> USE BoundsAssumption DEF TypeOK, TablesOK
<1>1. ASSUME NEW r \in Requester, EnqueueCommit(r)
      PROVE  nextJob' >= nextJob
  <2>1. Len(pend[r]) \in Nat
    BY <1>1, LenProperties DEF CallersOK
  <2> QED  BY <1>1, <2>1 DEF EnqueueCommit
<1>2. ASSUME NEW w \in Worker, WorkerStep(w) \/ Crash(w)
      PROVE  UNCHANGED nextJob
  BY <1>2 DEF WorkerStep, LockScheduler, Requeue, NotYet, Poll, TryLock, ClaimJob,
     NothingClaimed, Probe, Apply, RunFails, LoadJob, WriteOutcome, Crash, tableVars
<1>3. ASSUME NEW r \in Requester, StartRequest(r) \/ EnqueueCheck(r)
      PROVE  UNCHANGED nextJob
  BY <1>3 DEF StartRequest, EnqueueCheck, tableVars
<1> QED
  BY <1>1, <1>2, <1>3 DEF Next, RequesterStep, DeleteProject, Tick, vars, tableVars

\* The facts about a claim that the steps of a worker rest on.
LEMMA ClaimFacts ==
  ASSUME TypeOK, NEW w \in Worker, ClaimJob(w), Claimable(jobs[jobLock[w]], polledAt[w])
  PROVE  /\ jobLock[w] \in 1..(nextJob - 1)
         /\ jobLock[w] \in JobId
         /\ polledAt[w] \in Nat
         /\ jobs[jobLock[w]].project \in Project
         /\ \E d \in Timeouts :
              /\ polledAt[w] + d \in Nat
              /\ jobs' = [jobs EXCEPT ![jobLock[w]] = Claimed(@, polledAt[w], d)]
              /\ claim' = [claim EXCEPT ![w] =
                   [job |-> jobLock[w], project |-> jobs[jobLock[w]].project,
                    at |-> polledAt[w], lease |-> polledAt[w] + d]]
<1>3. \A n \in Nat, d \in Timeouts : n + d \in Nat
  BY TimeoutsAssumption
<1> USE BoundsAssumption DEF TypeOK, TablesOK
<1>1. jobLock[w] \in JobId /\ polledAt[w] \in Nat
  BY DEF ClaimJob, WorkersOK, WorkerTypes, WorkerOK
<1>2. jobLock[w] \in 1..(nextJob - 1) /\ jobs[jobLock[w]].project \in Project
  BY <1>1 DEF Claimable, RowOK, Absent
<1> QED  BY <1>1, <1>2, <1>3 DEF ClaimJob

\* The variables of the workers keep their types.
LEMMA WorkerTypesStep == TypeOK /\ [Next]_vars => WorkerTypes'
<1> SUFFICES ASSUME TypeOK, [Next]_vars
             PROVE  WorkerTypes'
  OBVIOUS
<1> USE DEF TypeOK, WorkersOK, WorkerTypes
<1>1. CASE UNCHANGED <<schedLock, workerVars>>
  BY <1>1 DEF workerVars
<1>2. ASSUME NEW w \in Worker,
             LockScheduler(w) \/ Requeue(w) \/ NotYet(w) \/ TryLock(w) \/ NothingClaimed(w)
      PROVE  WorkerTypes'
  <2>1. CASE LockScheduler(w)
    BY <2>1 DEF LockScheduler
  <2>2. CASE Requeue(w)
    BY <2>2 DEF Requeue
  <2>3. CASE NotYet(w)
    BY <2>3 DEF NotYet
  <2>4. CASE TryLock(w)
    <3>1. PICK c \in cand[w] :
            /\ cand' = [cand EXCEPT ![w] = @ \ {c}]
            /\ \/ UNCHANGED <<pc, jobLock>>
               \/ /\ jobLock' = [jobLock EXCEPT ![w] = c.id]
                  /\ pc' = [pc EXCEPT ![w] = "update"]
      BY <2>4 DEF TryLock
    <3>2. c.id \in JobId
      BY <3>1 DEF WorkerOK
    <3>3. UNCHANGED <<schedLock, polledAt, claim, result, outcome>>
      BY <2>4 DEF TryLock
    <3> QED  BY <3>1, <3>2, <3>3
  <2>5. CASE NothingClaimed(w)
    BY <2>5 DEF NothingClaimed
  <2> QED  BY <1>2, <2>1, <2>2, <2>3, <2>4, <2>5
<1>3. ASSUME NEW w \in Worker, Poll(w)
      PROVE  WorkerTypes'
  <2>1. Window(Due(now)) \subseteq [id : Nat, run_after : Nat]
    BY BoundsAssumption DEF Window, Due, TablesOK, Row
  <2> QED  BY <1>3, <2>1 DEF Poll
<1>4. ASSUME NEW w \in Worker, ClaimJob(w)
      PROVE  WorkerTypes'
  <2>1. CASE Claimable(jobs[jobLock[w]], polledAt[w])
    <3>1. claim' \in [Worker -> [job : Nat \cup {NULL}, project : Project \cup {NULL},
                                 at : Nat, lease : Nat]]
      <4>1. PICK c : /\ c \in [job : Nat \cup {NULL}, project : Project \cup {NULL},
                                at : Nat, lease : Nat]
                     /\ claim' = [claim EXCEPT ![w] = c]
        BY <1>4, <2>1, ClaimFacts
      <4> QED  BY <4>1
    <3>2. /\ pc' = [pc EXCEPT ![w] = "probe"]
          /\ cand' = [cand EXCEPT ![w] = {}]
          /\ polledAt' = [polledAt EXCEPT ![w] = 0]
          /\ jobLock' = [jobLock EXCEPT ![w] = NULL]
          /\ UNCHANGED <<schedLock, result, outcome>>
      BY <1>4, <2>1 DEF ClaimJob
    <3> QED  BY <3>1, <3>2
  <2>2. CASE ~ Claimable(jobs[jobLock[w]], polledAt[w])
    BY <1>4, <2>2 DEF ClaimJob
  <2> QED  BY <2>1, <2>2
<1>5. ASSUME NEW w \in Worker, Probe(w) \/ Apply(w) \/ RunFails(w)
      PROVE  WorkerTypes'
  <2>1. NoResult \in [reachable : BOOLEAN \cup {NULL}, checked_at : Time]
    BY DEF NoResult
  <2>2. CASE Probe(w)
    BY <2>1, <2>2, AnswersAssumption DEF Probe
  <2>3. CASE Apply(w)
    BY <2>1, <2>3 DEF Apply
  <2>4. CASE RunFails(w)
    BY <2>1, <2>4 DEF RunFails
  <2> QED  BY <1>5, <2>2, <2>3, <2>4
<1>6. ASSUME NEW w \in Worker, LoadJob(w) \/ WriteOutcome(w) \/ Crash(w)
      PROVE  WorkerTypes'
  <2>1. /\ NoResult \in [reachable : BOOLEAN \cup {NULL}, checked_at : Time]
        /\ NoClaim \in [job : Nat \cup {NULL}, project : Project \cup {NULL},
                        at : Nat, lease : Nat]
    BY DEF NoResult, NoClaim
  <2>2. CASE LoadJob(w)
    <3>1. CASE Forget(w)
      BY <2>1, <2>2, <3>1 DEF LoadJob, Forget
    <3>2. CASE ~ Forget(w)
      BY <2>2, <3>2 DEF LoadJob
    <3> QED  BY <3>1, <3>2
  <2>3. CASE WriteOutcome(w)
    BY <2>1, <2>3 DEF WriteOutcome, Forget
  <2>4. CASE Crash(w)
    BY <2>1, <2>4 DEF Crash, Forget
  <2> QED  BY <1>6, <2>2, <2>3, <2>4
<1>7. ASSUME NEW r \in Requester, RequesterStep(r)
      PROVE  UNCHANGED <<schedLock, workerVars>>
  BY <1>7 DEF RequesterStep, StartRequest, EnqueueCheck, EnqueueCommit
<1>8. ASSUME NEW p \in Project, DeleteProject(p)
      PROVE  UNCHANGED <<schedLock, workerVars>>
  BY <1>8 DEF DeleteProject
<1> QED
  BY <1>1, <1>2, <1>3, <1>4, <1>5, <1>6, <1>7, <1>8 DEF Next, WorkerStep, Tick, vars

\* Only worker w itself changes what it holds.
LEMMA OthersUntouched ==
  ASSUME TypeOK, NEW w \in Worker, WorkerStep(w) \/ Crash(w), NEW v \in Worker, v # w
  PROVE  /\ pc'[v] = pc[v] /\ jobLock'[v] = jobLock[v] /\ claim'[v] = claim[v]
         /\ cand'[v] = cand[v]
<1> USE DEF TypeOK, WorkersOK, WorkerTypes
<1>1. CASE LockScheduler(w) \/ Requeue(w) \/ NotYet(w) \/ Poll(w) \/ TryLock(w)
           \/ NothingClaimed(w)
  BY <1>1 DEF LockScheduler, Requeue, NotYet, Poll, TryLock, NothingClaimed
<1>2. CASE ClaimJob(w)
  BY <1>2 DEF ClaimJob
<1>3. CASE Probe(w) \/ Apply(w) \/ RunFails(w)
  BY <1>3 DEF Probe, Apply, RunFails
<1>4. CASE LoadJob(w) \/ WriteOutcome(w) \/ Crash(w)
  BY <1>4 DEF LoadJob, WriteOutcome, Crash, Forget
<1> QED  BY <1>1, <1>2, <1>3, <1>4 DEF WorkerStep

\* What a worker holds fits where it is in its loop, after its own steps and
\* after everybody else's.
LEMMA WorkerOKStep == TypeOK /\ [Next]_vars => \A v \in Worker : WorkerOK(v)'
<1> SUFFICES ASSUME TypeOK, [Next]_vars, NEW v \in Worker
             PROVE  WorkerOK(v)'
  OBVIOUS
<1>0. nextJob \in Nat /\ nextJob' \in Nat /\ nextJob' >= nextJob
  BY NextJobGrows, TablesStep, BoundsAssumption DEF TypeOK, TablesOK
<1>1. CASE UNCHANGED <<pc, jobLock, claim, cand>>
  BY <1>0, <1>1 DEF TypeOK, WorkersOK, WorkerOK
<1>2. ASSUME NEW w \in Worker, WorkerStep(w) \/ Crash(w), v # w
      PROVE  WorkerOK(v)'
  BY <1>0, <1>2, OthersUntouched DEF TypeOK, WorkersOK, WorkerOK
<1>3. CASE WorkerStep(v) \/ Crash(v)
  <2> USE <1>0, NullAssumption DEF TypeOK, WorkersOK, WorkerTypes, WorkerOK
  <2>1. CASE LockScheduler(v)
    BY <2>1 DEF LockScheduler
  <2>2. CASE Requeue(v)
    BY <2>2 DEF Requeue
  <2>3. CASE NotYet(v)
    BY <2>3 DEF NotYet
  <2>4. CASE Poll(v)
    <3>1. Window(Due(now)) \subseteq [id : JobId, run_after : Nat]
      BY DEF Window, Due, TablesOK, Row
    <3> QED  BY <2>4, <3>1 DEF Poll
  <2>5. CASE TryLock(v)
    BY <2>5 DEF TryLock
  <2>6. CASE ClaimJob(v)
    <3>1. CASE Claimable(jobs[jobLock[v]], polledAt[v])
      <4>1. claim'[v] \in [job : 1..(nextJob - 1), project : Project, at : Nat,
                           lease : Nat]
        BY <2>6, <3>1, ClaimFacts
      <4>2. UNCHANGED nextJob /\ pc'[v] = "probe" /\ jobLock'[v] = NULL /\ cand'[v] = {}
        BY <2>6, <3>1 DEF ClaimJob
      <4> QED  BY <4>1, <4>2, BoundsAssumption
    <3>2. CASE ~ Claimable(jobs[jobLock[v]], polledAt[v])
      BY <2>6, <3>2, BoundsAssumption DEF ClaimJob
    <3> QED  BY <3>1, <3>2
  <2>7. CASE NothingClaimed(v)
    BY <2>7 DEF NothingClaimed
  <2>8. CASE Probe(v)
    BY <2>8 DEF Probe
  <2>9. CASE Apply(v)
    BY <2>9 DEF Apply
  <2>10. CASE RunFails(v)
    BY <2>10 DEF RunFails
  <2>11. CASE LoadJob(v)
    <3>1. CASE Forget(v)
      BY <2>11, <3>1 DEF LoadJob, Forget
    <3>2. CASE ~ Forget(v)
      BY <2>11, <3>2 DEF LoadJob
    <3> QED  BY <3>1, <3>2
  <2>12. CASE WriteOutcome(v)
    BY <2>12 DEF WriteOutcome, Forget
  <2>13. CASE Crash(v)
    BY <2>13, BoundsAssumption DEF Crash, Forget
  <2> QED
    BY <1>3, <2>1, <2>2, <2>3, <2>4, <2>5, <2>6, <2>7, <2>8, <2>9, <2>10, <2>11,
       <2>12, <2>13 DEF WorkerStep
<1>4. ASSUME NEW r \in Requester, RequesterStep(r)
      PROVE  UNCHANGED <<pc, jobLock, claim, cand>>
  BY <1>4 DEF RequesterStep, StartRequest, EnqueueCheck, EnqueueCommit, workerVars
<1>5. ASSUME NEW p \in Project, DeleteProject(p)
      PROVE  UNCHANGED <<pc, jobLock, claim, cand>>
  BY <1>5 DEF DeleteProject, workerVars
<1> QED
  BY <1>1, <1>2, <1>3, <1>4, <1>5 DEF Next, Tick, vars, workerVars

\* The initial states are well typed, with or without a job left over.
LEMMA TypeInit == Init => TypeOK
<1> SUFFICES ASSUME Init PROVE TypeOK
  OBVIOUS
<1> USE NullAssumption, BoundsAssumption, TimeoutsAssumption, NewRow
<1>1. \A p \in Project, lease \in Timeouts \cup {NULL} :
        Leftover(p, lease) \in Row /\ RowOK(Leftover(p, lease))
  <2>1. \A lease \in Timeouts : lease \in Nat /\ lease > 0
    OBVIOUS
  <2> QED  BY <2>1 DEF Leftover, Row, RowOK, Absent
<1>2. TablesOK
  <2>1. NotTested \in [reachable : BOOLEAN \cup {NULL}, last_checked_at : Time,
                       last_seen_at : Time]
    BY DEF NotTested
  <2> QED  BY <1>1, <2>1 DEF Init, TablesOK
<1>3. WorkersOK
  BY DEF Init, WorkersOK, WorkerTypes, WorkerOK, NoClaim, NoResult
<1>4. CallersOK
  BY EmptySeq DEF Init, CallersOK
<1> QED  BY <1>2, <1>3, <1>4 DEF Init, TypeOK

\* Every reachable state is well typed: rows of ping_jobs keep their shape, ids
\* are given out in order, and a worker holds a claim or an advisory lock
\* exactly at the points of its loop where the code does.
THEOREM TypeCorrect == Spec => []TypeOK
<1>1. TypeOK /\ [Next]_vars => TypeOK'
  <2> SUFFICES ASSUME TypeOK, [Next]_vars PROVE TypeOK'
    OBVIOUS
  <2>1. now' \in Nat /\ crashes' \in Nat
    <3>1. ASSUME NEW w \in Worker, WorkerStep(w)
          PROVE  UNCHANGED <<now, crashes>>
      BY <3>1 DEF WorkerStep, LockScheduler, Requeue, NotYet, Poll, TryLock, ClaimJob,
         NothingClaimed, Probe, Apply, RunFails, LoadJob, WriteOutcome
    <3>2. ASSUME NEW r \in Requester, RequesterStep(r)
          PROVE  UNCHANGED <<now, crashes>>
      BY <3>2 DEF RequesterStep, StartRequest, EnqueueCheck, EnqueueCommit
    <3> QED
      BY <3>1, <3>2 DEF TypeOK, Next, Crash, DeleteProject, Tick, vars
  <2> QED  BY <2>1, TablesStep, WorkerTypesStep, WorkerOKStep, CallersStep
    DEF TypeOK, WorkersOK
<1> QED  BY TypeInit, <1>1, PTL DEF Spec

(***************************************************************************)
(* Leases.  A worker that runs past its lease loses its job to another,    *)
(* and then two workers hold it; what is proved is that their leases never *)
(* overlap.  LeasesDisjoint is not inductive: it needs OwnerOK, which says *)
(* what the row of a job tells about a worker that holds an old claim.     *)
(***************************************************************************)

\* Steps that leave the claims and the rows of claimed jobs alone keep LeaseInv.
LEMMA LeaseFrame ==
  ASSUME LeaseInv, TypeOK', UNCHANGED claim,
         \A w \in Worker : Holding(w) => jobs'[claim[w].job] = jobs[claim[w].job]
  PROVE  LeaseInv'
BY DEF LeaseInv, LeasesDisjoint, OwnerOK, Holding

\* The same when a job a worker holds is over.
LEMMA LeaseOver ==
  ASSUME LeaseInv, TypeOK', UNCHANGED claim,
         \A w \in Worker : Holding(w) =>
           \/ jobs'[claim[w].job] = jobs[claim[w].job]
           \/ jobs'[claim[w].job].status \in {"absent", "done", "failed"}
  PROVE  LeaseInv'
BY DEF LeaseInv, LeasesDisjoint, OwnerOK, Holding

\* A worker that forgets its claim is one holder less.
LEMMA LeaseForgotten ==
  ASSUME LeaseInv, TypeOK', NEW w \in Worker, Forget(w),
         \A v \in Worker \ {w} : Holding(v) =>
           \/ jobs'[claim[v].job] = jobs[claim[v].job]
           \/ jobs'[claim[v].job].status \in {"absent", "done", "failed"}
  PROVE  LeaseInv'
<1>1. claim \in [Worker -> [job : Nat \cup {NULL}, project : Project \cup {NULL},
                            at : Nat, lease : Nat]]
  BY DEF LeaseInv, TypeOK, WorkersOK, WorkerTypes
<1>2. claim'[w].job = NULL /\ \A v \in Worker \ {w} : claim'[v] = claim[v]
  BY <1>1 DEF Forget, NoClaim
<1> QED  BY <1>2 DEF LeaseInv, LeasesDisjoint, OwnerOK, Holding

\* Whoever holds a claim holds an id that was given out, under a proper lease.
LEMMA HolderFacts ==
  ASSUME TypeOK, NEW w \in Worker, Holding(w)
  PROVE  /\ claim[w].job \in 1..(nextJob - 1) /\ claim[w].job \in JobId
         /\ claim[w].at \in Nat /\ claim[w].lease \in Nat
         /\ jobs[claim[w].job] \in Row /\ RowOK(jobs[claim[w].job])
BY BoundsAssumption
DEF TypeOK, WorkersOK, WorkerTypes, WorkerOK, TablesOK, Holding, NoClaim

\* requeue_stale_ping_jobs: what it takes back, it takes from leases that are
\* over, and the queue remembers the instant.
LEMMA LeaseRequeue ==
  ASSUME LeaseInv, TypeOK', NEW w \in Worker, Requeue(w)
  PROVE  LeaseInv'
<1> DEFINE t == polledAt[w]
<1>1. t \in Nat /\ UNCHANGED claim
  BY DEF LeaseInv, TypeOK, WorkersOK, WorkerTypes, Requeue
<1>2. PICK d \in Timeouts :
        jobs' = [j \in JobId |-> IF Stale(jobs[j], t, d)
                                 THEN Requeued(jobs[j], t) ELSE jobs[j]]
  BY DEF Requeue
<1>3. ASSUME NEW v \in Worker, Holding(v)
      PROVE  OwnerOK(v)'
  <2> DEFINE row == jobs[claim[v].job]  lease == claim[v].lease
  <2>1. claim[v].job \in JobId /\ lease \in Nat /\ row \in Row /\ RowOK(row) /\ OwnerOK(v)
    BY <1>3, HolderFacts DEF LeaseInv
  <2>2. CASE ~ Stale(row, t, d)
    BY <1>1, <1>2, <2>1, <2>2 DEF OwnerOK
  <2>3. CASE Stale(row, t, d)
    <3>1. jobs'[claim[v].job] = Queued(row.project, t)
      BY <1>2, <2>1, <2>3 DEF Requeued
    <3>2. row.status = "running" /\ row.started_at \in Nat
      BY <2>1, <2>3 DEF Stale, RowOK, Absent
    <3>3. lease <= row.started_at \/ row.lease_expires_at = lease
      BY <2>1, <3>2 DEF OwnerOK
    <3>4. \/ row.lease_expires_at \in Nat /\ row.lease_expires_at <= t
          \/ row.lease_expires_at = NULL /\ row.started_at <= t - d
      BY <2>1, <2>3, <3>2, NullAssumption DEF Stale, Row
    <3>5. t - d <= t
      BY <1>1, TimeoutsAssumption
    <3>6. row.lease_expires_at # NULL => row.started_at < row.lease_expires_at
      BY <2>1, <3>2 DEF RowOK, Absent
    <3>7. d \in Nat
      BY TimeoutsAssumption
    <3>8. lease <= t
      <4>1. CASE row.lease_expires_at = NULL
        BY <1>1, <2>1, <3>2, <3>3, <3>4, <3>5, <3>7, <4>1, NullAssumption
      <4>2. CASE row.lease_expires_at # NULL
        BY <1>1, <2>1, <3>2, <3>3, <3>4, <3>6, <4>2
      <4> QED  BY <4>1, <4>2
    <3> QED  BY <1>1, <3>1, <3>8 DEF OwnerOK, Queued
  <2> QED  BY <2>2, <2>3
<1> QED  BY <1>1, <1>3 DEF LeaseInv, LeasesDisjoint, Holding

\* _claim_next_ping_job: a job is claimed only from the queue, at an instant
\* not before it went there, so after the lease of whoever held it before.
LEMMA LeaseClaim ==
  ASSUME LeaseInv, TypeOK', NEW w \in Worker, ClaimJob(w)
  PROVE  LeaseInv'
<1> DEFINE i == jobLock[w]  t == polledAt[w]
<1>0. TypeOK /\ claim[w] = NoClaim
  BY DEF LeaseInv, TypeOK, WorkersOK, WorkerOK, ClaimJob
<1>1. CASE ~ Claimable(jobs[i], t)
  BY <1>1, LeaseFrame DEF ClaimJob
<1>2. CASE Claimable(jobs[i], t)
  <2>1. /\ i \in 1..(nextJob - 1) /\ i \in JobId /\ t \in Nat
        /\ jobs[i].status = "queued" /\ jobs[i].run_after <= t
    BY <1>0, <1>2, ClaimFacts DEF Claimable
  <2>2. PICK d \in Timeouts :
          /\ t + d \in Nat
          /\ jobs' = [jobs EXCEPT ![i] = Claimed(@, t, d)]
          /\ claim' = [claim EXCEPT ![w] = [job |-> i, project |-> jobs[i].project,
                                            at |-> t, lease |-> t + d]]
    BY <1>0, <1>2, ClaimFacts
  <2>3. PICK e \in Nat : e = t + d
    BY <2>2
  <2>4. jobs \in [JobId -> Row] /\ claim \in [Worker ->
          [job : Nat \cup {NULL}, project : Project \cup {NULL}, at : Nat, lease : Nat]]
    BY <1>0 DEF TypeOK, TablesOK, WorkersOK, WorkerTypes
  <2>5. /\ jobs'[i].status = "running" /\ jobs'[i].started_at = t
        /\ jobs'[i].lease_expires_at = e
        /\ \A j \in JobId \ {i} : jobs'[j] = jobs[j]
    BY <2>1, <2>2, <2>3, <2>4 DEF Claimed, Row
  <2>6. /\ claim'[w].job = i /\ claim'[w].at = t /\ claim'[w].lease = e
        /\ \A v \in Worker \ {w} : claim'[v] = claim[v]
    BY <2>2, <2>3, <2>4
  <2>7. ASSUME NEW v \in Worker \ {w}, Holding(v)
        PROVE  /\ claim[v].job \in JobId /\ claim[v].lease \in Nat
               /\ OwnerOK(v)
               /\ claim[v].job = i => claim[v].lease <= t
    <3>1. claim[v].job \in JobId /\ claim[v].lease \in Nat /\ OwnerOK(v)
          /\ jobs[i].run_after \in Nat
      BY <1>0, <2>1, <2>4, <2>7, HolderFacts DEF LeaseInv, Row
    <3> QED  BY <2>1, <3>1 DEF OwnerOK
  <2>8. ASSUME NEW v \in Worker, Holding(v)'
        PROVE  OwnerOK(v)'
    <3>1. CASE v = w
      BY <2>5, <2>6, <3>1 DEF OwnerOK
    <3>2. CASE v # w
      <4>1. Holding(v)
        BY <2>6, <2>8, <3>2 DEF Holding
      <4> QED  BY <2>1, <2>5, <2>6, <2>7, <3>2, <4>1 DEF OwnerOK
    <3> QED  BY <3>1, <3>2
  <2>9. ASSUME NEW u \in Worker, NEW v \in Worker, u # v, Holding(u)',
               (claim[u].job = claim[v].job)'
        PROVE  (claim[u].lease <= claim[v].at \/ claim[v].lease <= claim[u].at)'
    <3>1. Holding(v)'
      BY <2>9 DEF Holding
    <3>2. CASE u = w
      BY <2>6, <2>7, <2>9, <3>1, <3>2 DEF Holding
    <3>3. CASE v = w
      BY <2>6, <2>7, <2>9, <3>3 DEF Holding
    <3>4. CASE u # w /\ v # w
      BY <2>6, <2>9, <3>4 DEF Holding, LeaseInv, LeasesDisjoint
    <3> QED  BY <3>2, <3>3, <3>4
  <2> QED  BY <2>8, <2>9 DEF LeaseInv, LeasesDisjoint
<1> QED  BY <1>1, <1>2

\* Every step of Next keeps the lease invariant.
LEMMA LeaseStep == LeaseInv /\ TypeOK' /\ [Next]_vars => LeaseInv'
<1> SUFFICES ASSUME LeaseInv, TypeOK', [Next]_vars
             PROVE  LeaseInv'
  OBVIOUS
<1>1. CASE UNCHANGED <<jobs, claim>>
  BY <1>1, LeaseFrame
<1>2. ASSUME NEW w \in Worker, Requeue(w) \/ ClaimJob(w)
      PROVE  LeaseInv'
  BY <1>2, LeaseRequeue, LeaseClaim
<1>3. ASSUME NEW w \in Worker,
             \/ LockScheduler(w) \/ NotYet(w) \/ Poll(w) \/ TryLock(w)
             \/ NothingClaimed(w) \/ Probe(w) \/ Apply(w) \/ RunFails(w)
      PROVE  UNCHANGED <<jobs, claim>>
  BY <1>3 DEF LockScheduler, NotYet, Poll, TryLock, NothingClaimed, Probe, Apply,
     RunFails, tableVars
<1>4. ASSUME NEW w \in Worker, LoadJob(w)
      PROVE  LeaseInv'
  <2>1. UNCHANGED jobs
    BY <1>4 DEF LoadJob, tableVars
  <2>2. CASE Forget(w)
    BY <2>1, <2>2, LeaseForgotten
  <2>3. CASE ~ Forget(w)
    BY <1>4, <2>1, <2>3, LeaseFrame DEF LoadJob
  <2> QED  BY <2>2, <2>3
<1>5. ASSUME NEW w \in Worker, WriteOutcome(w)
      PROVE  LeaseInv'
  <2> DEFINE j == claim[w].job
  <2>1. jobs \in [JobId -> Row] /\ outcome[w] \in {"done", "failed", NULL}
    BY DEF LeaseInv, TypeOK, TablesOK, WorkersOK, WorkerTypes
  <2>2. \A k \in JobId : jobs'[k] = jobs[k] \/ jobs'[k].status \in {"done", "failed"}
    BY <1>5, <2>1 DEF WriteOutcome, Finished, Row
  <2>3. \A v \in Worker : Holding(v) => claim[v].job \in JobId
    BY HolderFacts DEF LeaseInv
  <2> QED  BY <1>5, <2>2, <2>3, LeaseForgotten DEF WriteOutcome
<1>6. ASSUME NEW w \in Worker, Crash(w)
      PROVE  LeaseInv'
  BY <1>6, LeaseForgotten DEF Crash, tableVars
<1>7. ASSUME NEW r \in Requester, RequesterStep(r)
      PROVE  LeaseInv'
  <2>1. CASE StartRequest(r) \/ EnqueueCheck(r)
    BY <2>1, <1>1 DEF StartRequest, EnqueueCheck, tableVars, workerVars
  <2>2. CASE EnqueueCommit(r)
    <3>1. UNCHANGED claim
      BY <2>2 DEF EnqueueCommit, workerVars
    <3>2. \A j \in 1..(nextJob - 1) \cap JobId : jobs'[j] = jobs[j]
      BY <2>2, BoundsAssumption DEF EnqueueCommit, LeaseInv, TypeOK, TablesOK
    <3>3. \A v \in Worker : Holding(v) => claim[v].job \in 1..(nextJob - 1) \cap JobId
      BY HolderFacts DEF LeaseInv
    <3> QED  BY <3>1, <3>2, <3>3, LeaseFrame
  <2> QED  BY <1>7, <2>1, <2>2 DEF RequesterStep
<1>8. ASSUME NEW p \in Project, DeleteProject(p)
      PROVE  LeaseInv'
  <2>1. \A j \in JobId : jobs'[j] = jobs[j] \/ jobs'[j].status = "absent"
    BY <1>8 DEF DeleteProject, Absent, LeaseInv, TypeOK, TablesOK
  <2>2. \A v \in Worker : Holding(v) => claim[v].job \in JobId
    BY HolderFacts DEF LeaseInv
  <2> QED  BY <1>8, <2>1, <2>2, LeaseOver DEF DeleteProject, workerVars
<1> QED
  BY <1>1, <1>2, <1>3, <1>4, <1>5, <1>6, <1>7, <1>8
  DEF Next, WorkerStep, Tick, vars, tableVars, workerVars

\* Two workers that hold the same job hold it under leases that do not
\* overlap, for any number of workers and any timeouts, also when the timeout
\* changes between two claims and when workers outrun their leases.
THEOREM LeasesAreDisjoint == Spec => []LeasesDisjoint
<1>1. Init => LeaseInv
  BY TypeInit DEF Init, LeaseInv, LeasesDisjoint, Holding, NoClaim
<1>2. LeaseInv /\ TypeOK' /\ [Next]_vars => LeaseInv'
  BY LeaseStep
<1>3. LeaseInv => LeasesDisjoint
  BY DEF LeaseInv
<1> QED  BY <1>1, <1>2, <1>3, TypeCorrect, PTL DEF Spec

(***************************************************************************)
(* Nothing noted or stored is ahead of the clock; with LeaseInv this says  *)
(* what the row of a job is while the lease of its holder lasts.           *)
(***************************************************************************)

RowsPast == \A j \in JobId : /\ jobs[j].run_after <= now
                             /\ jobs[j].started_at # NULL => jobs[j].started_at <= now

\* A job added to a session is queued and has neither a start nor a lease.
LEMMA PendingJobs ==
  ASSUME CallersOK, NEW r \in Requester, NEW i \in DOMAIN pend[r]
  PROVE  pend[r][i] \in Added
<1>1. pend[r] \in Seq(Added) /\ i \in 1..Len(pend[r])
  BY LenProperties DEF CallersOK
<1> QED  BY <1>1, ElementOfSeq

\* Rows get their instants from a clock read earlier.
LEMMA RowsPastStep == TypeOK /\ TypeOK' /\ ClockOK /\ [Next]_vars => RowsPast'
<1> SUFFICES ASSUME TypeOK, TypeOK', ClockOK, [Next]_vars
             PROVE  RowsPast'
  OBVIOUS
<1>0. /\ now \in Nat /\ jobs \in [JobId -> Row] /\ jobs' \in [JobId -> Row]
      /\ polledAt \in [Worker -> Nat] /\ RowsPast
      /\ \A w \in Worker : polledAt[w] <= now
  BY DEF TypeOK, TablesOK, WorkersOK, WorkerTypes, ClockOK, RowsPast
<1>1. ASSUME UNCHANGED now,
             \A j \in JobId :
               \/ jobs'[j] = jobs[j]
               \/ /\ jobs'[j].run_after <= now
                  /\ jobs'[j].started_at # NULL => jobs'[j].started_at <= now
      PROVE  RowsPast'
  BY <1>0, <1>1 DEF RowsPast
<1>2. CASE Tick
  <2>1. \A j \in JobId : jobs'[j].run_after \in Nat
                         /\ (jobs'[j].started_at # NULL => jobs'[j].started_at \in Nat)
    BY <1>0 DEF Row
  <2> QED  BY <1>0, <1>2, <2>1 DEF RowsPast, Tick, tableVars
<1>3. ASSUME NEW r \in Requester, EnqueueCommit(r)
      PROVE  RowsPast'
  <2>1. \A i \in DOMAIN pend[r] : /\ pend[r][i].run_after <= now
                                  /\ pend[r][i].started_at = NULL
    BY PendingJobs DEF ClockOK, TypeOK, Added
  <2>2. Len(pend[r]) \in Nat /\ DOMAIN pend[r] = 1..Len(pend[r]) /\ nextJob \in Nat
    BY LenProperties, BoundsAssumption DEF TypeOK, TablesOK, CallersOK
  <2>3. ASSUME NEW j \in JobId, jobs'[j] # jobs[j]
        PROVE  \E i \in DOMAIN pend[r] : jobs'[j] = pend[r][i]
    <3>1. j \in nextJob..(nextJob + Len(pend[r]) - 1)
          /\ jobs'[j] = pend[r][j - nextJob + 1]
      BY <1>3, <2>3 DEF EnqueueCommit
    <3>2. j - nextJob + 1 \in DOMAIN pend[r]
      BY <2>2, <3>1, BoundsAssumption
    <3> QED  BY <3>1, <3>2
  <2> QED  BY <1>1, <1>3, <2>1, <2>3 DEF EnqueueCommit
<1>4. ASSUME NEW p \in Project, DeleteProject(p)
      PROVE  RowsPast'
  BY <1>0, <1>1, <1>4 DEF DeleteProject, Absent
<1>5. ASSUME NEW w \in Worker, Requeue(w)
      PROVE  RowsPast'
  BY <1>0, <1>1, <1>5 DEF Requeue, Requeued, Queued
<1>6. ASSUME NEW w \in Worker, ClaimJob(w)
      PROVE  RowsPast'
  <2>1. CASE Claimable(jobs[jobLock[w]], polledAt[w])
    <3>1. PICK d \in Timeouts :
            /\ polledAt[w] + d \in Nat
            /\ jobs' = [jobs EXCEPT ![jobLock[w]] = Claimed(@, polledAt[w], d)]
      BY <1>6, <2>1, ClaimFacts
    <3>2. \A row \in Row : /\ Claimed(row, polledAt[w], d).run_after = row.run_after
                           /\ Claimed(row, polledAt[w], d).started_at = polledAt[w]
      BY DEF Claimed, Row
    <3>3. \A j \in JobId : jobs'[j] = jobs[j] \/
            /\ jobs'[j].run_after = jobs[j].run_after
            /\ jobs'[j].started_at = polledAt[w]
      BY <1>0, <3>1, <3>2
    <3> QED  BY <1>0, <1>1, <1>6, <3>3 DEF ClaimJob, RowsPast
  <2>2. CASE ~ Claimable(jobs[jobLock[w]], polledAt[w])
    BY <1>0, <1>1, <1>6, <2>2 DEF ClaimJob
  <2> QED  BY <2>1, <2>2
<1>7. ASSUME NEW w \in Worker, WriteOutcome(w)
      PROVE  RowsPast'
  <2>1. \A row \in Row, s \in {"done", "failed"} :
          /\ Finished(row, s).run_after = row.run_after
          /\ Finished(row, s).started_at = row.started_at
    BY DEF Finished, Row
  <2>2. outcome[w] \in {"done", "failed", NULL}
    BY DEF TypeOK, WorkersOK, WorkerTypes
  <2>3. \A j \in JobId : jobs'[j] = jobs[j] \/
          /\ jobs'[j].run_after = jobs[j].run_after
          /\ jobs'[j].started_at = jobs[j].started_at
    BY <1>0, <1>7, <2>1, <2>2 DEF WriteOutcome
  <2> QED  BY <1>0, <1>1, <1>7, <2>3 DEF WriteOutcome, RowsPast
<1>8. ASSUME NEW w \in Worker,
             \/ LockScheduler(w) \/ NotYet(w) \/ Poll(w) \/ TryLock(w)
             \/ NothingClaimed(w) \/ Probe(w) \/ Apply(w) \/ RunFails(w)
             \/ LoadJob(w) \/ Crash(w)
      PROVE  UNCHANGED <<now, jobs>>
  BY <1>8 DEF LockScheduler, NotYet, Poll, TryLock, NothingClaimed, Probe, Apply,
     RunFails, LoadJob, Crash, tableVars
<1>9. ASSUME NEW r \in Requester, StartRequest(r) \/ EnqueueCheck(r)
      PROVE  UNCHANGED <<now, jobs>>
  BY <1>9 DEF StartRequest, EnqueueCheck, tableVars
<1> QED
  BY <1>1, <1>2, <1>3, <1>4, <1>5, <1>6, <1>7, <1>8, <1>9
  DEF Next, WorkerStep, RequesterStep, vars, tableVars

\* What a worker or a caller notes is the clock of that moment.
LEMMA NotesPastStep ==
  TypeOK /\ TypeOK' /\ ClockOK /\ [Next]_vars =>
    /\ (\A w \in Worker : polledAt[w] <= now)'
    /\ (\A r \in Requester : \A i \in DOMAIN pend[r] : pend[r][i].run_after <= now)'
<1> DEFINE Polled == \A w \in Worker : polledAt[w] <= now
           Pended == \A r \in Requester : \A i \in DOMAIN pend[r] :
                       pend[r][i].run_after <= now
<1> SUFFICES ASSUME TypeOK, TypeOK', ClockOK, [Next]_vars
             PROVE  Polled' /\ Pended'
  OBVIOUS
<1>0. now \in Nat /\ polledAt \in [Worker -> Nat] /\ Polled /\ Pended
      /\ pend \in [Requester -> Seq(Added)]
  BY DEF TypeOK, WorkersOK, WorkerTypes, CallersOK, ClockOK
<1>1. CASE UNCHANGED <<now, polledAt, pend>>
  BY <1>0, <1>1
<1>2. CASE Tick
  <2>1. now' = now + 1 /\ UNCHANGED <<polledAt, pend>>
    BY <1>2 DEF Tick, workerVars, callerVars
  <2>2. \A r \in Requester : \A i \in DOMAIN pend[r] : pend[r][i].run_after \in Nat
    BY PendingJobs DEF TypeOK, Added
  <2> QED  BY <1>0, <2>1, <2>2
<1>3. ASSUME NEW w \in Worker, WorkerStep(w) \/ Crash(w)
      PROVE  Polled' /\ Pended'
  <2>1. UNCHANGED <<now, pend>>
    BY <1>3 DEF WorkerStep, LockScheduler, Requeue, NotYet, Poll, TryLock, ClaimJob,
       NothingClaimed, Probe, Apply, RunFails, LoadJob, WriteOutcome, Crash, callerVars
  <2>2. \/ UNCHANGED polledAt
        \/ polledAt' = [polledAt EXCEPT ![w] = now]
        \/ polledAt' = [polledAt EXCEPT ![w] = 0]
    BY <1>3 DEF WorkerStep, LockScheduler, Requeue, NotYet, Poll, TryLock, ClaimJob,
       NothingClaimed, Probe, Apply, RunFails, LoadJob, WriteOutcome, Crash
  <2> QED  BY <1>0, <2>1, <2>2
<1>4. ASSUME NEW r \in Requester, RequesterStep(r)
      PROVE  Polled' /\ Pended'
  <2>1. UNCHANGED <<now, polledAt>>
    BY <1>4 DEF RequesterStep, StartRequest, EnqueueCheck, EnqueueCommit, workerVars
  <2>2. \/ UNCHANGED pend
        \/ pend' = [pend EXCEPT ![r] = <<>>]
        \/ \E p : pend' = [pend EXCEPT ![r] = Append(@, Queued(p, now))]
    BY <1>4 DEF RequesterStep, StartRequest, EnqueueCheck, EnqueueCommit
  <2>3. ASSUME NEW p, pend' = [pend EXCEPT ![r] = Append(@, Queued(p, now))]
        PROVE  Pended'
    <3>1. DOMAIN pend[r] = 1..Len(pend[r]) /\ Len(pend[r]) \in Nat
      BY <1>0, LenProperties
    <3>2. \A i \in DOMAIN Append(pend[r], Queued(p, now)) :
            Append(pend[r], Queued(p, now))[i].run_after <= now
      BY <1>0, <3>1 DEF Queued
    <3> QED  BY <1>0, <2>1, <2>3, <3>2
  <2>4. CASE pend' = [pend EXCEPT ![r] = <<>>]
    BY <1>0, <2>1, <2>4
  <2> QED  BY <1>0, <2>1, <2>2, <2>3, <2>4
<1>5. ASSUME NEW p \in Project, DeleteProject(p)
      PROVE  UNCHANGED <<now, polledAt, pend>>
  BY <1>5 DEF DeleteProject, workerVars, callerVars
<1> QED
  BY <1>1, <1>2, <1>3, <1>4, <1>5 DEF Next, vars, workerVars, callerVars

\* The first instant is zero, and nothing has a later one.
LEMMA InitClock == Init => ClockOK
<1>1. ASSUME Init, NEW j \in JobId
      PROVE  jobs[j].run_after = 0 /\ jobs[j].started_at \in {0, NULL}
  <2>1. CASE jobs[j] = Absent
    BY <2>1 DEF Absent
  <2>2. ASSUME NEW p \in Project, NEW lease, jobs[j] = Leftover(p, lease)
        PROVE  jobs[j].run_after = 0 /\ jobs[j].started_at \in {0, NULL}
    BY <2>2 DEF Leftover
  <2> QED  BY <1>1, <2>1, <2>2 DEF Init
<1>2. Init => \A w \in Worker : polledAt[w] <= now
  BY DEF Init
<1>3. Init => \A r \in Requester : DOMAIN pend[r] = {}
  BY DEF Init
<1> QED  BY <1>1, <1>2, <1>3, NullAssumption DEF Init, ClockOK

\* While the lease of a holder lasts, the job's row runs under that lease,
\* unless the job is over: no other worker takes it over before the lease ends
\* (requeue_stale_ping_jobs), whatever the timeout is set to meanwhile.
THEOREM LeaseHonoured == Spec => []LeaseIsHonoured
<1>1. Init => LeaseInv /\ ClockOK
  <2>1. Init => LeaseInv
    BY TypeInit DEF Init, LeaseInv, LeasesDisjoint, Holding, NoClaim
  <2>2. Init => ClockOK
    BY InitClock
  <2> QED  BY <2>1, <2>2
<1>2. LeaseInv /\ ClockOK /\ TypeOK' /\ [Next]_vars => LeaseInv' /\ ClockOK'
  BY LeaseStep, RowsPastStep, NotesPastStep DEF LeaseInv, ClockOK, RowsPast
<1>3. LeaseInv /\ ClockOK => LeaseIsHonoured
  <2> SUFFICES ASSUME LeaseInv, ClockOK, NEW w \in Worker, Holding(w),
                      now < claim[w].lease, jobs[claim[w].job].status
                        \notin {"absent", "done", "failed"}
               PROVE  /\ jobs[claim[w].job].status = "running"
                      /\ jobs[claim[w].job].started_at = claim[w].at
                      /\ jobs[claim[w].job].lease_expires_at = claim[w].lease
    BY DEF LeaseIsHonoured
  <2> DEFINE row == jobs[claim[w].job]
  <2>1. claim[w].job \in JobId /\ claim[w].lease \in Nat /\ row \in Row /\ RowOK(row)
        /\ now \in Nat
    BY HolderFacts DEF LeaseInv, TypeOK
  <2>2. row.run_after <= now /\ (row.started_at # NULL => row.started_at <= now)
    BY <2>1 DEF ClockOK
  <2>3. row.run_after \in Nat /\ (row.status = "running" => row.started_at \in Nat)
    BY <2>1 DEF Row, RowOK, Absent
  <2>4. row.status = "running" => row.started_at <= now
    BY <2>2, <2>3, NullAssumption
  <2>5. ~ (row.status = "queued" /\ row.run_after >= claim[w].lease)
    BY <2>1, <2>2, <2>3
  <2>6. ~ (row.status = "running" /\ row.started_at >= claim[w].lease)
    BY <2>1, <2>3, <2>4
  <2> QED  BY <2>5, <2>6 DEF LeaseInv, OwnerOK
<1> QED  BY <1>1, <1>2, <1>3, TypeCorrect, PTL DEF Spec

(***************************************************************************)
(* Refinement: the detailed queue does what JobLifecycle says.             *)
(***************************************************************************)

\* A step that changes no status and no project of a row is invisible.
LEMMA LifeStutter ==
  ASSUME UNCHANGED <<projects, nextJob>>,
         \A j \in JobId : /\ LifeOf(jobs'[j]) = LifeOf(jobs[j])
                          /\ jobs'[j].project = jobs[j].project
  PROVE  UNCHANGED Life!lifeVars
BY DEF Life!lifeVars, LifeOf

\* The commit of a caller submits its jobs, all of them or none.
LEMMA LifeSubmit ==
  ASSUME TypeOK, NEW r \in Requester, EnqueueCommit(r)
  PROVE  Life!LifeNext \/ UNCHANGED Life!lifeVars
<1> DEFINE n == Len(pend[r])
           ps == [i \in 1..n |-> pend[r][i].project]
<1>1. /\ n \in Nat /\ n > 0 /\ DOMAIN pend[r] = 1..n /\ nextJob \in Nat /\ nextJob >= 1
      /\ nextJob + n - 1 <= MaxJobs
  BY EmptySeq, LenProperties, BoundsAssumption
  DEF EnqueueCommit, TypeOK, CallersOK, TablesOK
<1>2. CASE UNCHANGED <<jobs, nextJob>>
  BY <1>2, LifeStutter DEF EnqueueCommit
<1>3. CASE ~ UNCHANGED <<jobs, nextJob>>
  <2>1. /\ \A i \in 1..n : pend[r][i].project \in projects
        /\ jobs' = [j \in JobId |-> IF j \in nextJob..(nextJob + n - 1)
                                    THEN pend[r][j - nextJob + 1] ELSE jobs[j]]
        /\ nextJob' = nextJob + n
        /\ UNCHANGED projects
    BY <1>1, <1>3 DEF EnqueueCommit
  <2>2. ps \in [1..n -> projects] /\ n \in 1..(MaxJobs + 1 - nextJob)
        /\ Len(ps) = n /\ DOMAIN ps = 1..n
    BY <1>1, <2>1, BoundsAssumption
  <2>3. \A j \in JobId : j \in nextJob..(nextJob + n - 1) =>
          /\ LifeOf(jobs'[j]) = "queued"
          /\ jobs'[j].project = ps[j - nextJob + 1]
    <3>1. ASSUME NEW j \in nextJob..(nextJob + n - 1)
          PROVE  j - nextJob + 1 \in 1..n
      BY <1>1
    <3> QED  BY <1>1, <2>1, <3>1, PendingJobs DEF LifeOf, Added, TypeOK
  <2>4. PICK m \in 1..(MaxJobs + 1 - nextJob) : m = n
    BY <2>2
  <2>5. PICK qs \in [1..m -> projects] : qs = ps
    BY <2>2, <2>4
  <2>6. Life!Submit(qs)
    <3> HIDE DEF n, ps
    <3> QED  BY <1>1, <2>1, <2>2, <2>3, <2>4, <2>5 DEF Life!Submit, Life!JobId
  <2> QED  BY <2>6 DEF Life!LifeNext
<1> QED  BY <1>2, <1>3

\* Jobs go with their project.
LEMMA LifeDrop ==
  ASSUME TypeOK, NEW p \in Project, DeleteProject(p)
  PROVE  Life!LifeNext
<1>1. Life!Drop({p})
  BY DEF DeleteProject, Life!Drop, Life!JobId, LifeOf, Absent
<1> QED  BY <1>1 DEF Life!LifeNext

\* requeue_stale_ping_jobs gives jobs back.
LEMMA LifeGiveBack ==
  ASSUME TypeOK, NEW w \in Worker, Requeue(w)
  PROVE  Life!LifeNext
<1>1. PICK d \in Timeouts :
        jobs' = [j \in JobId |-> IF Stale(jobs[j], polledAt[w], d)
                                 THEN Requeued(jobs[j], polledAt[w]) ELSE jobs[j]]
  BY DEF Requeue
<1> DEFINE S == {j \in JobId : Stale(jobs[j], polledAt[w], d)}
<1>2. Life!GiveBack(S)
  BY <1>1 DEF Requeue, Life!GiveBack, Life!JobId, LifeOf, Stale, Requeued, Queued
<1> QED  BY <1>2 DEF Life!LifeNext, Life!JobId

\* A claim takes a job from the queue.
LEMMA LifeTake ==
  ASSUME TypeOK, NEW w \in Worker, ClaimJob(w)
  PROVE  Life!LifeNext \/ UNCHANGED Life!lifeVars
<1>1. CASE ~ Claimable(jobs[jobLock[w]], polledAt[w])
  BY <1>1, LifeStutter DEF ClaimJob
<1>2. CASE Claimable(jobs[jobLock[w]], polledAt[w])
  <2> DEFINE i == jobLock[w]
  <2>1. PICK d \in Timeouts : jobs' = [jobs EXCEPT ![i] = Claimed(@, polledAt[w], d)]
    BY <1>2, ClaimFacts
  <2>2. i \in JobId /\ jobs \in [JobId -> Row] /\ jobs[i].status = "queued"
    BY <1>2, ClaimFacts DEF TypeOK, TablesOK, Claimable
  <2>3. \A row \in Row : /\ Claimed(row, polledAt[w], d).status = "running"
                         /\ Claimed(row, polledAt[w], d).project = row.project
    BY DEF Claimed, Row
  <2>4. Life!Take(i)
    BY <2>1, <2>2, <2>3 DEF ClaimJob, Life!Take, Life!JobId, LifeOf
  <2> QED  BY <2>2, <2>4 DEF Life!LifeNext, Life!JobId
<1> QED  BY <1>1, <1>2

\* Writing done or failed ends a job that has not ended, whoever owns it now.
LEMMA LifeEnd ==
  ASSUME TypeOK, NEW w \in Worker, WriteOutcome(w)
  PROVE  Life!LifeNext \/ UNCHANGED Life!lifeVars
<1> DEFINE i == claim[w].job
<1>1. /\ i \in JobId /\ jobs \in [JobId -> Row] /\ outcome[w] \in {"done", "failed", NULL}
  BY BoundsAssumption
  DEF TypeOK, TablesOK, WorkersOK, WorkerTypes, WorkerOK, WriteOutcome
<1>2. UNCHANGED <<projects, nextJob>>
  BY DEF WriteOutcome
<1>3. CASE jobs[i].status = "absent" \/ outcome[w] = NULL
  BY <1>2, <1>3, LifeStutter DEF WriteOutcome
<1>4. CASE jobs[i].status # "absent" /\ outcome[w] # NULL
  <2>1. jobs' = [jobs EXCEPT ![i] = Finished(@, outcome[w])]
    BY <1>4 DEF WriteOutcome
  <2>2. \A row \in Row : /\ Finished(row, outcome[w]).status = outcome[w]
                         /\ Finished(row, outcome[w]).project = row.project
    BY DEF Finished, Row
  <2>3. CASE jobs[i].status \in {"done", "failed"}
    BY <1>1, <1>2, <1>4, <2>1, <2>2, <2>3, LifeStutter DEF LifeOf
  <2>4. CASE jobs[i].status \in {"queued", "running"}
    <3>1. Life!End(i)
      BY <1>1, <1>2, <1>4, <2>1, <2>2, <2>4 DEF Life!End, Life!JobId, LifeOf
    <3> QED  BY <1>1, <3>1 DEF Life!LifeNext, Life!JobId
  <2> QED  BY <1>1, <1>4, <2>3, <2>4 DEF Row
<1> QED  BY <1>3, <1>4

\* PingJobs implements the abstract queue: ids are used once, jobs belong to
\* live projects, only queued jobs are taken, only taken jobs are given back,
\* and a job that has ended never comes back.
THEOREM QueueKeepsItsPromise == Spec => QueuePromise
<1>1. Init => Life!LifeInit
  <2> SUFFICES ASSUME Init PROVE Life!LifeInit
    OBVIOUS
  <2>1. CASE jobs = [j \in JobId |-> Absent] /\ nextJob = 1
    BY <2>1, BoundsAssumption, NullAssumption
    DEF Init, Life!LifeInit, Life!JobId, LifeOf, Absent
  <2>2. ASSUME NEW p \in Project, NEW lease, MaxJobs > 0, nextJob = 2,
               jobs = [j \in JobId |-> IF j = 1 THEN Leftover(p, lease) ELSE Absent]
        PROVE  Life!LifeInit
    BY <2>2, BoundsAssumption, NullAssumption
    DEF Init, Life!LifeInit, Life!JobId, LifeOf, Absent, Leftover
  <2> QED  BY <2>1, <2>2 DEF Init
<1>2. TypeOK /\ [Next]_vars => [Life!LifeNext]_(Life!lifeVars)
  <2> SUFFICES ASSUME TypeOK, [Next]_vars
               PROVE  Life!LifeNext \/ UNCHANGED Life!lifeVars
    OBVIOUS
  <2>1. CASE UNCHANGED <<projects, jobs, nextJob>>
    BY <2>1, LifeStutter
  <2>2. ASSUME NEW w \in Worker,
               \/ LockScheduler(w) \/ NotYet(w) \/ Poll(w) \/ TryLock(w)
               \/ NothingClaimed(w) \/ Probe(w) \/ Apply(w) \/ RunFails(w)
               \/ LoadJob(w) \/ Crash(w)
        PROVE  UNCHANGED <<projects, jobs, nextJob>>
    BY <2>2 DEF LockScheduler, NotYet, Poll, TryLock, NothingClaimed, Probe, Apply,
       RunFails, LoadJob, Crash, tableVars
  <2>3. ASSUME NEW r \in Requester, StartRequest(r) \/ EnqueueCheck(r)
        PROVE  UNCHANGED <<projects, jobs, nextJob>>
    BY <2>3 DEF StartRequest, EnqueueCheck, tableVars
  <2> QED
    BY <2>1, <2>2, <2>3, LifeSubmit, LifeDrop, LifeGiveBack, LifeTake, LifeEnd
    DEF Next, WorkerStep, RequesterStep, Tick, vars, tableVars
<1> QED  BY <1>1, <1>2, TypeCorrect, PTL DEF Spec, QueuePromise, Life!LifeSpec

(***************************************************************************)
(* What the queue promises while callers take turns and no worker outruns  *)
(* its lease.  Without the one, two callers insert a job each for the same *)
(* project; without the other, a job goes to a second worker beside the    *)
(* first, and a late result is written over a newer one.                   *)
(***************************************************************************)

\* Callers take turns, and none asks for a project twice in one call.
OneCaller ==
  /\ \A q, r \in Requester : q = r
  /\ \A s \in Requests : \A i, j \in DOMAIN s : s[i] = s[j] => i = j

\* No worker has outrun its lease.
InTime == \A w \in Worker : Holding(w) => now < claim[w].lease

\* A project that has a row in ping_jobs exists.
RowsOfProjects == \A j \in JobId : jobs[j].status # "absent" => jobs[j].project \in projects

\* A project has one active job at most.
OneActive ==
  \A i, j \in JobId : /\ jobs[i].status \in {"queued", "running"}
                      /\ jobs[j].status \in {"queued", "running"}
                      /\ jobs[i].project = jobs[j].project
                      => i = j

\* What a call has yet to look at and what it has added are different projects,
\* each named once, and the added ones still have no active job.
CallOK(r) ==
  /\ \A i, j \in DOMAIN todo[r] : todo[r][i] = todo[r][j] => i = j
  /\ \A i, j \in DOMAIN pend[r] : pend[r][i].project = pend[r][j].project => i = j
  /\ \A i \in DOMAIN pend[r], j \in DOMAIN todo[r] : pend[r][i].project # todo[r][j]
  /\ \A i \in DOMAIN pend[r] : ~ Active(pend[r][i].project)

\* The row of a held job runs under the lease of its holder, or went with its
\* project.
HeldRow(w) ==
  LET row == jobs[claim[w].job] IN
  \/ row.status = "absent" /\ claim[w].project \notin projects
  \/ /\ row.status = "running" /\ row.project = claim[w].project
     /\ row.lease_expires_at = claim[w].lease

\* Two workers hold different jobs of different projects.
HoldersApart ==
  \A v, w \in Worker : v # w /\ Holding(v) /\ Holding(w) =>
    claim[v].job # claim[w].job /\ claim[v].project # claim[w].project

QueueInv ==
  /\ RowsOfProjects /\ OneActive
  /\ \A r \in Requester : CallOK(r)
  /\ \A w \in Worker : Holding(w) => HeldRow(w)
  /\ HoldersApart

\* An address was checked in the past, and not before it was seen.
ShownOK ==
  \A p \in Project :
    /\ ip[p].last_checked_at # NULL => ip[p].last_checked_at <= now
    /\ ip[p].last_seen_at # NULL =>
         /\ ip[p].last_checked_at # NULL
         /\ ip[p].last_seen_at <= ip[p].last_checked_at

\* A result not yet written is of the past, and no older than what its address
\* shows.
ResultOK(w) ==
  result[w] # NoResult =>
    /\ pc[w] = "apply"
    /\ result[w].reachable \in BOOLEAN
    /\ result[w].checked_at \in Nat /\ result[w].checked_at <= now
    /\ LET shown == ip[claim[w].project].last_checked_at
       IN shown # NULL => shown <= result[w].checked_at

ResultInv == ShownOK /\ \A w \in Worker : ResultOK(w)

\* A worker that holds a claim holds an id that was given out.
LEMMA HeldJobs ==
  ASSUME TypeOK
  PROVE  /\ jobs \in [JobId -> Row]
         /\ \A w \in Worker : Holding(w) => claim[w].job \in 1..(nextJob - 1)
         /\ \A w \in Worker : Holding(w) => claim[w].job \in JobId
BY HolderFacts DEF TypeOK, TablesOK

\* Steps that at most give a job back or end it, and drop claims, keep the
\* queue as it should be.
LEMMA QueueFrame ==
  ASSUME TypeOK, QueueInv, UNCHANGED <<projects, todo, pend>>,
         \A j \in JobId : \/ jobs'[j] = jobs[j]
                          \/ /\ jobs'[j].project = jobs[j].project
                             /\ jobs[j].status \in {"queued", "running"},
         \A w \in Worker : Holding(w)' =>
           claim'[w] = claim[w] /\ jobs'[claim[w].job] = jobs[claim[w].job]
  PROVE  QueueInv'
<1>1. \A w \in Worker : Holding(w)' => Holding(w)  BY DEF Holding
<1>2. RowsOfProjects'  BY DEF QueueInv, RowsOfProjects
<1>3. OneActive'  BY DEF QueueInv, OneActive
<1>4. \A p : Active(p)' => Active(p)  BY DEF Active
<1>5. \A r \in Requester : CallOK(r)'  BY <1>4 DEF QueueInv, CallOK
<1>6. \A w \in Worker : Holding(w)' => HeldRow(w)'  BY <1>1 DEF QueueInv, HeldRow
<1>7. HoldersApart'  BY <1>1 DEF QueueInv, HoldersApart
<1>. QED  BY <1>2, <1>3, <1>5, <1>6, <1>7 DEF QueueInv

\* requeue_stale_ping_jobs leaves the jobs alone whose lease is not over.
LEMMA QueueRequeue ==
  ASSUME TypeOK, ClockOK, InTime, QueueInv, NEW w \in Worker, Requeue(w)
  PROVE  QueueInv'
<1> DEFINE t == polledAt[w]
<1>1. PICK d \in Timeouts :
        jobs' = [j \in JobId |-> IF Stale(jobs[j], t, d)
                                 THEN Requeued(jobs[j], t) ELSE jobs[j]]
  BY DEF Requeue
<1>2. t \in Nat /\ now \in Nat /\ t <= now
  BY DEF TypeOK, WorkersOK, WorkerTypes, ClockOK
<1>3. \A j \in JobId : \/ jobs'[j] = jobs[j]
                       \/ /\ jobs'[j].project = jobs[j].project
                          /\ jobs[j].status \in {"queued", "running"}
  BY <1>1 DEF Stale, Requeued, Queued
<1>4. ASSUME NEW v \in Worker, Holding(v)
      PROVE  jobs'[claim[v].job] = jobs[claim[v].job]
  <2>1. claim[v].job \in JobId /\ claim[v].lease \in Nat /\ now < claim[v].lease
        /\ RowOK(jobs[claim[v].job]) /\ HeldRow(v)
    BY <1>4, HolderFacts DEF InTime, QueueInv
  <2>2. ~ Stale(jobs[claim[v].job], t, d)
    BY <1>2, <2>1, NullAssumption DEF Stale, HeldRow, RowOK, Absent
  <2>. QED  BY <1>1, <2>1, <2>2
<1>. QED  BY <1>3, <1>4, QueueFrame DEF Requeue, Holding, callerVars

\* A claim: the job was in the queue, so nobody holds it, and nobody holds
\* another job of its project.
LEMMA QueueClaim ==
  ASSUME TypeOK, QueueInv, NEW w \in Worker, ClaimJob(w)
  PROVE  QueueInv'
<1>0. UNCHANGED <<projects, todo, pend>>  BY DEF ClaimJob, callerVars
<1>1. CASE ~ Claimable(jobs[jobLock[w]], polledAt[w])
  BY <1>0, <1>1, QueueFrame DEF ClaimJob
<1>2. CASE Claimable(jobs[jobLock[w]], polledAt[w])
  <2> DEFINE i == jobLock[w]  p == jobs[i].project
  <2>1. PICK d \in Timeouts :
          /\ polledAt[w] + d \in Nat
          /\ jobs' = [jobs EXCEPT ![i] = Claimed(@, polledAt[w], d)]
          /\ claim' = [claim EXCEPT ![w] = [job |-> i, project |-> p,
                         at |-> polledAt[w], lease |-> polledAt[w] + d]]
    BY <1>2, ClaimFacts
  <2>2. i \in JobId /\ p \in Project /\ jobs[i].status = "queued"
    BY <1>2, ClaimFacts DEF Claimable
  <2>3. PICK e \in Nat : e = polledAt[w] + d  BY <2>1
  <2>4. /\ jobs'[i].status = "running" /\ jobs'[i].project = p
        /\ jobs'[i].lease_expires_at = e
        /\ \A j \in JobId \ {i} : jobs'[j] = jobs[j]
    BY <2>1, <2>2, <2>3, HeldJobs DEF Claimed, Row
  <2>5. /\ claim'[w].job = i /\ claim'[w].project = p /\ claim'[w].lease = e
        /\ \A v \in Worker \ {w} : claim'[v] = claim[v]
    BY <2>1, <2>3 DEF TypeOK, WorkersOK, WorkerTypes
  <2>6. p \in projects  BY <2>2 DEF QueueInv, RowsOfProjects
  <2>7. \A j \in JobId : /\ jobs'[j].project = jobs[j].project
                         /\ jobs'[j].status \in {"queued", "running"} <=>
                              jobs[j].status \in {"queued", "running"}
                         /\ jobs'[j].status # "absent" <=> jobs[j].status # "absent"
    BY <2>2, <2>4
  <2>8. RowsOfProjects' /\ OneActive' /\ \A q : Active(q)' => Active(q)
    BY <1>0, <2>7 DEF QueueInv, RowsOfProjects, OneActive, Active
  <2>9. \A r \in Requester : CallOK(r)'  BY <1>0, <2>8 DEF QueueInv, CallOK
  <2>10. ASSUME NEW v \in Worker \ {w}, Holding(v)'
         PROVE  /\ Holding(v) /\ HeldRow(v)' /\ claim'[v].job # i /\ claim'[v].project # p
    <3>1. Holding(v) /\ claim[v].job \in JobId /\ HeldRow(v)
      BY <2>5, <2>10, HeldJobs DEF Holding, QueueInv
    <3>2. claim[v].job # i  BY <2>2, <3>1 DEF HeldRow
    <3>3. claim[v].project # p
      BY <2>2, <2>6, <3>1, <3>2 DEF HeldRow, QueueInv, OneActive
    <3>. QED  BY <1>0, <2>4, <2>5, <3>1, <3>2, <3>3 DEF HeldRow
  <2>11. HeldRow(w)'  BY <2>4, <2>5 DEF HeldRow
  <2>12. HoldersApart'
    BY <2>5, <2>10 DEF HoldersApart, QueueInv
  <2>. QED  BY <2>8, <2>9, <2>10, <2>11, <2>12 DEF QueueInv
<1>. QED  BY <1>1, <1>2

\* The other steps of a worker drop its claim or end its job, or touch neither.
LEMMA QueueWorker ==
  ASSUME TypeOK, ClockOK, InTime, QueueInv, NEW w \in Worker, WorkerStep(w) \/ Crash(w)
  PROVE  QueueInv'
<1>1. CASE Requeue(w) \/ ClaimJob(w)
  BY <1>1, QueueRequeue, QueueClaim
<1>2. CASE \/ LockScheduler(w) \/ NotYet(w) \/ Poll(w) \/ TryLock(w)
           \/ NothingClaimed(w) \/ Probe(w) \/ Apply(w) \/ RunFails(w)
  <2>1. UNCHANGED <<projects, jobs, claim, todo, pend>>
    BY <1>2 DEF LockScheduler, NotYet, Poll, TryLock, NothingClaimed, Probe, Apply,
       RunFails, tableVars, callerVars
  <2>. QED  BY <2>1, QueueFrame DEF Holding
<1>3. ASSUME Forget(w), NEW v \in Worker, Holding(v)'
      PROVE  v # w /\ claim'[v] = claim[v]
  BY <1>3 DEF Forget, Holding, NoClaim, TypeOK, WorkersOK, WorkerTypes
<1>4. CASE LoadJob(w) \/ Crash(w)
  <2>1. UNCHANGED <<projects, jobs, todo, pend>>
    BY <1>4 DEF LoadJob, Crash, tableVars, callerVars
  <2>2. UNCHANGED claim \/ Forget(w)  BY <1>4 DEF LoadJob, Crash
  <2>. QED  BY <1>3, <2>1, <2>2, QueueFrame
<1>5. CASE WriteOutcome(w)
  <2> DEFINE i == claim[w].job
  <2>1. Forget(w) /\ UNCHANGED <<projects, todo, pend>>
    BY <1>5 DEF WriteOutcome, callerVars
  <2>2. Holding(w) /\ HeldRow(w) /\ i \in JobId /\ outcome[w] \in {"done", "failed", NULL}
    BY <1>5, NullAssumption, BoundsAssumption
    DEF WriteOutcome, QueueInv, Holding, TypeOK, WorkersOK, WorkerTypes, WorkerOK, TablesOK
  <2>3. \A j \in JobId : \/ jobs'[j] = jobs[j]
                         \/ /\ j = i /\ jobs'[j].project = jobs[j].project
                            /\ jobs[j].status \in {"queued", "running"}
    BY <1>5, <2>2, HeldJobs DEF WriteOutcome, Finished, HeldRow, Row
  <2>4. ASSUME NEW v \in Worker, Holding(v)'
        PROVE  claim'[v] = claim[v] /\ jobs'[claim[v].job] = jobs[claim[v].job]
    <3>1. v # w /\ claim'[v] = claim[v]  BY <1>3, <2>1, <2>4
    <3>2. Holding(v) /\ claim[v].job \in JobId /\ claim[v].job # i
      BY <2>2, <2>4, <3>1, HeldJobs DEF Holding, QueueInv, HoldersApart
    <3>. QED  BY <2>3, <3>1, <3>2
  <2>. QED  BY <2>1, <2>3, <2>4, QueueFrame
<1>. QED  BY <1>1, <1>2, <1>4, <1>5 DEF WorkerStep

\* A call begins, or looks at its next project: with nobody else about, a
\* project that has no active job now has none when the call commits.
LEMMA QueueLook ==
  ASSUME TypeOK, OneCaller, QueueInv, NEW r \in Requester, StartRequest(r) \/ EnqueueCheck(r)
  PROVE  QueueInv'
<1>1. UNCHANGED <<projects, jobs, claim>>
  BY DEF StartRequest, EnqueueCheck, tableVars, workerVars
<1>2. /\ RowsOfProjects' /\ OneActive' /\ HoldersApart'
      /\ \A w \in Worker : Holding(w)' => HeldRow(w)'
      /\ \A p : Active(p)' <=> Active(p)
  BY <1>1 DEF QueueInv, RowsOfProjects, OneActive, HoldersApart, Holding, HeldRow, Active
<1>3. /\ todo \in [Requester -> Seq(Project)] /\ pend \in [Requester -> Seq(Added)]
      /\ CallOK(r)
  BY DEF TypeOK, CallersOK, QueueInv
<1>4. CallOK(r)'
  <2>1. CASE StartRequest(r)
    <3>1. PICK ps \in Requests : todo' = [todo EXCEPT ![r] = ps]
      BY <2>1 DEF StartRequest
    <3>2. todo'[r] = ps /\ pend'[r] = <<>>  BY <1>3, <2>1, <3>1 DEF StartRequest
    <3>3. \A i, j \in DOMAIN ps : ps[i] = ps[j] => i = j  BY DEF OneCaller
    <3>. QED  BY <3>2, <3>3 DEF CallOK
  <2>2. CASE EnqueueCheck(r)
    <3> DEFINE s == todo[r]  p == Head(s)  m == Len(pend[r])
    <3>1. /\ s \in Seq(Project) /\ s # <<>> /\ Len(s) \in Nat /\ Len(s) > 0
          /\ DOMAIN s = 1..Len(s)
      BY <1>3, <2>2, EmptySeq, LenProperties DEF EnqueueCheck
    <3>2. /\ p = s[1] /\ p \in Project /\ DOMAIN Tail(s) = 1..(Len(s) - 1)
          /\ \A i \in DOMAIN Tail(s) : Tail(s)[i] = s[i + 1] /\ i + 1 \in DOMAIN s
      BY <3>1, HeadTailProperties
    <3>3. todo'[r] = Tail(s)  BY <1>3, <2>2 DEF EnqueueCheck
    <3>4. \A i, j \in DOMAIN todo'[r] : todo'[r][i] = todo'[r][j] => i = j
      BY <1>3, <3>1, <3>2, <3>3 DEF CallOK
    <3>5. ASSUME NEW j \in DOMAIN todo'[r] PROVE todo'[r][j] # p
      <4>1. todo'[r][j] = s[j + 1] /\ j + 1 \in DOMAIN s /\ 1 \in DOMAIN s /\ j + 1 # 1
        BY <3>1, <3>2, <3>3
      <4>. QED  BY <1>3, <3>2, <4>1 DEF CallOK
    <3>6. CASE Active(p)
      <4>1. pend'[r] = pend[r]  BY <2>2, <3>6 DEF EnqueueCheck
      <4>. QED  BY <1>2, <1>3, <3>2, <3>3, <3>4, <4>1 DEF CallOK
    <3>7. CASE ~ Active(p)
      <4>1. pend'[r] = Append(pend[r], Queued(p, now))
        BY <1>3, <2>2, <3>7 DEF EnqueueCheck
      <4>2. m \in Nat /\ DOMAIN pend[r] = 1..m  BY <1>3, LenProperties
      <4>3. /\ DOMAIN pend'[r] = 1..(m + 1) /\ pend'[r][m + 1] = Queued(p, now)
            /\ \A i \in 1..m : pend'[r][i] = pend[r][i]
        BY <1>3, <4>1, <4>2
      <4>4. \A i \in DOMAIN pend'[r] :
              \/ i = m + 1 /\ pend'[r][i].project = p
              \/ i \in DOMAIN pend[r] /\ pend'[r][i] = pend[r][i]
        BY <4>2, <4>3 DEF Queued
      <4>5. \A i \in DOMAIN pend[r] : pend[r][i].project # p
        BY <1>3, <3>1, <3>2 DEF CallOK
      <4>6. \A i, j \in DOMAIN pend'[r] : pend'[r][i].project = pend'[r][j].project => i = j
        BY <1>3, <4>4, <4>5 DEF CallOK
      <4>7. \A i \in DOMAIN pend'[r], j \in DOMAIN todo'[r] :
              pend'[r][i].project # todo'[r][j]
        BY <1>3, <3>2, <3>3, <3>5, <4>4 DEF CallOK
      <4>8. \A i \in DOMAIN pend'[r] : ~ Active(pend'[r][i].project)
        BY <1>3, <3>7, <4>4 DEF CallOK
      <4>. QED  BY <1>2, <3>4, <4>6, <4>7, <4>8 DEF CallOK
    <3>. QED  BY <3>6, <3>7
  <2>. QED  BY <2>1, <2>2
<1>5. \A q \in Requester : CallOK(q)'  BY <1>4 DEF OneCaller
<1>. QED  BY <1>2, <1>5 DEF QueueInv

\* The commit: the new jobs are of projects that had no active job, each of
\* them another one.
LEMMA QueueCommit ==
  ASSUME TypeOK, OneCaller, QueueInv, NEW r \in Requester, EnqueueCommit(r)
  PROVE  QueueInv'
<1> DEFINE n == Len(pend[r])
<1>1. /\ pend \in [Requester -> Seq(Added)] /\ n \in Nat /\ DOMAIN pend[r] = 1..n
      /\ nextJob \in Nat /\ nextJob >= 1
  BY LenProperties, BoundsAssumption DEF TypeOK, CallersOK, TablesOK
<1>2. /\ todo'[r] = <<>> /\ pend'[r] = <<>> /\ UNCHANGED <<projects, claim>>
  BY <1>1 DEF EnqueueCommit, workerVars
<1>3. \A q \in Requester : CallOK(q)'  BY <1>2 DEF OneCaller, CallOK
<1>4. \A j \in JobId :
        \/ jobs'[j] = jobs[j]
        \/ \E i \in DOMAIN pend[r] :
             /\ j = nextJob + i - 1 /\ jobs'[j] = pend[r][i] /\ jobs[j] = Absent
             /\ pend[r][i].project \in projects
  <2>1. CASE UNCHANGED jobs  BY <2>1
  <2>2. CASE jobs' # jobs
    <3>1. /\ \A i \in DOMAIN pend[r] : pend[r][i].project \in projects
          /\ jobs' = [j \in JobId |-> IF j \in nextJob..(nextJob + n - 1)
                                      THEN pend[r][j - nextJob + 1] ELSE jobs[j]]
      BY <2>2 DEF EnqueueCommit
    <3>2. ASSUME NEW j \in JobId, j \in nextJob..(nextJob + n - 1)
          PROVE  \E i \in DOMAIN pend[r] :
                   /\ j = nextJob + i - 1 /\ jobs'[j] = pend[r][i] /\ jobs[j] = Absent
                   /\ pend[r][i].project \in projects
      <4>1. j - nextJob + 1 \in DOMAIN pend[r] /\ j = nextJob + (j - nextJob + 1) - 1
        BY <1>1, <3>2, BoundsAssumption
      <4>2. jobs[j] = Absent  BY <1>1, <3>2 DEF TypeOK, TablesOK
      <4>. QED  BY <3>1, <3>2, <4>1, <4>2
    <3>. QED  BY <3>1, <3>2
  <2>. QED  BY <2>1, <2>2
<1>5. RowsOfProjects'  BY <1>2, <1>4 DEF QueueInv, RowsOfProjects
<1>6. OneActive'
  <2> SUFFICES ASSUME NEW i \in JobId, NEW j \in JobId,
                      jobs'[i].status \in {"queued", "running"},
                      jobs'[j].status \in {"queued", "running"},
                      jobs'[i].project = jobs'[j].project
               PROVE  i = j
    BY DEF OneActive
  <2>1. \A a \in DOMAIN pend[r] : ~ Active(pend[r][a].project)  BY DEF QueueInv, CallOK
  <2>2. \A a, b \in DOMAIN pend[r] : pend[r][a].project = pend[r][b].project => a = b
    BY DEF QueueInv, CallOK
  <2>3. CASE jobs'[i] = jobs[i] /\ jobs'[j] = jobs[j]
    BY <2>3 DEF QueueInv, OneActive
  <2>4. CASE jobs'[i] # jobs[i] /\ jobs'[j] # jobs[j]
    BY <1>4, <2>2, <2>4
  <2>5. CASE jobs'[i] = jobs[i] /\ jobs'[j] # jobs[j]
    BY <1>4, <2>1, <2>5 DEF Active
  <2>6. CASE jobs'[i] # jobs[i] /\ jobs'[j] = jobs[j]
    BY <1>4, <2>1, <2>6 DEF Active
  <2>. QED  BY <2>3, <2>4, <2>5, <2>6
<1>7. \A w \in Worker : Holding(w)' => HeldRow(w)'
  <2> SUFFICES ASSUME NEW w \in Worker, Holding(w) PROVE HeldRow(w)'
    BY <1>2 DEF Holding
  <2>1. claim[w].job \in JobId /\ claim[w].job \in 1..(nextJob - 1) /\ HeldRow(w)
    BY HeldJobs DEF QueueInv
  <2>2. claim[w].job \notin nextJob..(nextJob + n - 1)  BY <1>1, <2>1
  <2>3. jobs'[claim[w].job] = jobs[claim[w].job]  BY <2>1, <2>2 DEF EnqueueCommit
  <2>. QED  BY <1>2, <2>1, <2>3 DEF HeldRow
<1>8. HoldersApart'  BY <1>2 DEF QueueInv, HoldersApart, Holding
<1>. QED  BY <1>3, <1>5, <1>6, <1>7, <1>8 DEF QueueInv

\* The jobs of a deleted project go with it, also those that workers hold.
LEMMA QueueDelete ==
  ASSUME TypeOK, QueueInv, NEW p \in Project, DeleteProject(p)
  PROVE  QueueInv'
<1>1. /\ UNCHANGED <<claim, todo, pend>> /\ projects' = projects \ {p}
      /\ jobs' = [j \in JobId |-> IF jobs[j].project = p THEN Absent ELSE jobs[j]]
  BY DEF DeleteProject, workerVars, callerVars
<1>2. \A j \in JobId : \/ jobs[j].project = p /\ jobs'[j].status = "absent"
                       \/ jobs[j].project # p /\ jobs'[j] = jobs[j]
  BY <1>1 DEF Absent
<1>3. RowsOfProjects' /\ OneActive' /\ \A q : Active(q)' => Active(q)
  BY <1>1, <1>2 DEF QueueInv, RowsOfProjects, OneActive, Active
<1>4. \A r \in Requester : CallOK(r)'  BY <1>1, <1>3 DEF QueueInv, CallOK
<1>5. \A w \in Worker : Holding(w)' => HeldRow(w)'
  <2> SUFFICES ASSUME NEW w \in Worker, Holding(w) PROVE HeldRow(w)'
    BY <1>1 DEF Holding
  <2>1. claim[w].job \in JobId /\ HeldRow(w)  BY HeldJobs DEF QueueInv
  <2>2. CASE jobs[claim[w].job].project = p
    <3>1. jobs'[claim[w].job].status = "absent"  BY <1>2, <2>1, <2>2
    <3>2. claim[w].project \notin projects'  BY <1>1, <2>1, <2>2 DEF HeldRow
    <3>. QED  BY <1>1, <3>1, <3>2 DEF HeldRow
  <2>3. CASE jobs[claim[w].job].project # p
    BY <1>1, <1>2, <2>1, <2>3 DEF HeldRow
  <2>. QED  BY <2>2, <2>3
<1>6. HoldersApart'  BY <1>1 DEF QueueInv, HoldersApart, Holding
<1>. QED  BY <1>3, <1>4, <1>5, <1>6 DEF QueueInv

\* Every step keeps the queue as it should be.
LEMMA QueueStep ==
  ASSUME TypeOK, ClockOK, OneCaller, InTime, QueueInv, [Next]_vars
  PROVE  QueueInv'
<1>1. CASE Tick \/ UNCHANGED vars
  <2>1. UNCHANGED <<projects, jobs, claim, todo, pend>>
    BY <1>1 DEF Tick, vars, tableVars, workerVars, callerVars
  <2>. QED  BY <2>1, QueueFrame DEF Holding
<1>2. ASSUME NEW r \in Requester, RequesterStep(r) PROVE QueueInv'
  BY <1>2, QueueLook, QueueCommit DEF RequesterStep
<1>. QED  BY <1>1, <1>2, QueueWorker, QueueDelete DEF Next

\* At the start there is one job at most.
LEMMA InitQueue == Init => QueueInv
<1> SUFFICES ASSUME Init PROVE QueueInv
  OBVIOUS
<1>1. \A i, j \in JobId : jobs[i].status # "absent" /\ jobs[j].status # "absent" => i = j
  BY BoundsAssumption DEF Init, Absent, Leftover
<1>2. \A j \in JobId : jobs[j].status # "absent" => jobs[j].project \in Project
  <2>1. CASE jobs = [j \in JobId |-> Absent]  BY <2>1 DEF Absent
  <2>2. ASSUME NEW p \in Project, NEW lease,
               jobs = [j \in JobId |-> IF j = 1 THEN Leftover(p, lease) ELSE Absent]
        PROVE  \A j \in JobId : jobs[j].status # "absent" => jobs[j].project \in Project
    BY <2>2 DEF Absent, Leftover
  <2>. QED  BY <2>1, <2>2 DEF Init
<1>3. RowsOfProjects /\ OneActive  BY <1>1, <1>2 DEF Init, RowsOfProjects, OneActive
<1>4. \A r \in Requester : CallOK(r)  BY DEF Init, CallOK
<1>5. \A w \in Worker : ~ Holding(w)  BY DEF Init, Holding, NoClaim
<1>. QED  BY <1>3, <1>4, <1>5 DEF QueueInv, HoldersApart

\* While callers take turns and no worker outruns its lease, no two workers
\* ping one project, as the comment of _claim_next_ping_job promises; both
\* conditions are needed.
THEOREM NoProjectPingedTwice == OneCaller => (Spec /\ []InTime => []NoDuplicatedWork)
<1> SUFFICES ASSUME OneCaller PROVE Spec /\ []InTime => []NoDuplicatedWork
  OBVIOUS
<1>1. Init => QueueInv /\ ClockOK  BY InitQueue, InitClock
<1>2. QueueInv /\ ClockOK /\ TypeOK /\ TypeOK' /\ InTime /\ [Next]_vars
        => QueueInv' /\ ClockOK'
  BY QueueStep, RowsPastStep, NotesPastStep DEF ClockOK, RowsPast
<1>3. QueueInv /\ TypeOK => NoDuplicatedWork
  <2>1. ASSUME TypeOK, NEW w \in Worker, Pinging(w) PROVE Holding(w)
    BY <2>1, NullAssumption, BoundsAssumption
    DEF Pinging, Holding, TypeOK, TablesOK, WorkersOK, WorkerOK
  <2>. QED  BY <2>1 DEF QueueInv, HoldersApart, NoDuplicatedWork
<1>. QED  BY <1>1, <1>2, <1>3, TypeCorrect, PTL DEF Spec

\* What a worker needs to write its result: a result belongs to a holder.
LEMMA ResultHolder ==
  ASSUME TypeOK, NEW w \in Worker, ResultOK(w), result[w] # NoResult
  PROVE  Holding(w) /\ claim[w].project \in Project
BY NullAssumption, BoundsAssumption
DEF ResultOK, Holding, TypeOK, TablesOK, WorkersOK, WorkerOK

\* Steps that leave the addresses and the clock alone, and drop results or
\* keep them with their claims.
LEMMA ResultFrame ==
  ASSUME ResultInv, UNCHANGED <<now, ip>>,
         \A v \in Worker : \/ result'[v] = NoResult
                           \/ /\ result'[v] = result[v] /\ claim'[v] = claim[v]
                              /\ pc'[v] = pc[v]
  PROVE  ResultInv'
<1>1. ShownOK'  BY DEF ResultInv, ShownOK
<1>2. \A v \in Worker : ResultOK(v)'  BY DEF ResultInv, ResultOK
<1>. QED  BY <1>1, <1>2 DEF ResultInv

\* _apply_ping_results writes a result that is no older than what is shown, and
\* nobody else has one for the same address.
LEMMA ResultApply ==
  ASSUME TypeOK, QueueInv, ResultInv, NEW w \in Worker, Apply(w)
  PROVE  ResultInv'
<1> DEFINE p == claim[w].project  res == result[w]
<1>1. /\ UNCHANGED <<now, claim>> /\ result'[w] = NoResult /\ now \in Nat
      /\ \A v \in Worker \ {w} : result'[v] = result[v] /\ pc'[v] = pc[v]
  BY DEF Apply, TypeOK, WorkersOK, WorkerTypes
<1>2. CASE UNCHANGED ip
  BY <1>1, <1>2, ResultFrame
<1>3. CASE ip' # ip
  <2>1. res # NoResult /\ p \in projects /\ ip' = [ip EXCEPT ![p] = Applied(@, res)]
    BY <1>3 DEF Apply
  <2>2. /\ p \in Project /\ Holding(w) /\ res.reachable \in BOOLEAN /\ res.checked_at \in Nat
        /\ res.checked_at <= now
        /\ ip[p].last_checked_at # NULL => ip[p].last_checked_at <= res.checked_at
    BY <2>1, ResultHolder DEF ResultInv, ResultOK
  <2>3. /\ ip'[p].last_checked_at = res.checked_at
        /\ \/ ip'[p].last_seen_at = res.checked_at
           \/ ip'[p].last_seen_at = ip[p].last_seen_at
        /\ \A q \in Project \ {p} : ip'[q] = ip[q]
    BY <2>1, <2>2 DEF Applied, TypeOK, TablesOK
  <2>4. ip[p].last_checked_at \in Time /\ ip[p].last_seen_at \in Time
    BY <2>2 DEF TypeOK, TablesOK
  <2>5. ShownOK'
    <3> SUFFICES ASSUME NEW q \in Project
                 PROVE  /\ ip'[q].last_checked_at # NULL => ip'[q].last_checked_at <= now
                        /\ ip'[q].last_seen_at # NULL =>
                             /\ ip'[q].last_checked_at # NULL
                             /\ ip'[q].last_seen_at <= ip'[q].last_checked_at
      BY <1>1 DEF ShownOK
    <3>1. CASE q # p  BY <2>3, <3>1 DEF ResultInv, ShownOK
    <3>2. CASE q = p
      <4>1. ip[p].last_seen_at # NULL => ip[p].last_seen_at <= res.checked_at
        BY <2>2, <2>4, NullAssumption DEF ResultInv, ShownOK
      <4>. QED  BY <2>2, <2>3, <3>2, <4>1, NullAssumption
    <3>. QED  BY <3>1, <3>2
  <2>6. ASSUME NEW v \in Worker PROVE ResultOK(v)'
    <3>1. CASE v = w  BY <1>1, <3>1 DEF ResultOK
    <3>2. CASE v # w /\ result[v] = NoResult
      BY <1>1, <3>2 DEF ResultOK
    <3>3. CASE v # w /\ result[v] # NoResult
      <4>1. Holding(v) /\ claim[v].project \in Project /\ ResultOK(v)
        BY <3>3, ResultHolder DEF ResultInv
      <4>2. claim[v].project # p
        BY <2>2, <3>3, <4>1 DEF QueueInv, HoldersApart
      <4>. QED  BY <1>1, <2>3, <3>3, <4>1, <4>2 DEF ResultOK
    <3>. QED  BY <3>1, <3>2, <3>3
  <2>. QED  BY <2>5, <2>6 DEF ResultInv
<1>. QED  BY <1>2, <1>3

\* ping_address notes the time before it waits.
LEMMA ResultProbe ==
  ASSUME TypeOK, ResultInv, NEW w \in Worker, Probe(w)
  PROVE  ResultInv'
<1>1. /\ UNCHANGED <<now, ip, claim>> /\ now \in Nat /\ pc'[w] = "apply"
      /\ \A v \in Worker \ {w} : result'[v] = result[v] /\ pc'[v] = pc[v]
  BY DEF Probe, TypeOK, WorkersOK, WorkerTypes, tableVars
<1>2. \/ result'[w] = NoResult
      \/ /\ result'[w].reachable \in BOOLEAN /\ result'[w].checked_at = now
         /\ claim[w].project \in Project
  BY AnswersAssumption DEF Probe, TypeOK, TablesOK, WorkersOK, WorkerTypes
<1>3. ShownOK'  BY <1>1 DEF ResultInv, ShownOK
<1>4. ResultOK(w)'
  BY <1>1, <1>2 DEF ResultInv, ShownOK, ResultOK
<1>5. \A v \in Worker \ {w} : ResultOK(v)'  BY <1>1 DEF ResultInv, ResultOK
<1>. QED  BY <1>3, <1>4, <1>5 DEF ResultInv

\* The other steps of a worker leave addresses and results alone, or drop one.
LEMMA ResultWorker ==
  ASSUME TypeOK, QueueInv, ResultInv, NEW w \in Worker, WorkerStep(w) \/ Crash(w)
  PROVE  ResultInv'
<1>1. CASE Probe(w) \/ Apply(w)
  BY <1>1, ResultProbe, ResultApply
<1>2. CASE ~ (Probe(w) \/ Apply(w))
  <2>1. UNCHANGED <<now, ip>>
    BY <1>2 DEF WorkerStep, LockScheduler, Requeue, NotYet, Poll, TryLock, ClaimJob,
       NothingClaimed, RunFails, LoadJob, WriteOutcome, Crash, tableVars
  <2>2. \A v \in Worker \ {w} :
          result'[v] = result[v] /\ claim'[v] = claim[v] /\ pc'[v] = pc[v]
    <3>1. result' = [result EXCEPT ![w] = NoResult] \/ UNCHANGED result
      BY <1>2 DEF WorkerStep, LockScheduler, Requeue, NotYet, Poll, TryLock, ClaimJob,
         NothingClaimed, RunFails, LoadJob, WriteOutcome, Crash
    <3>. QED  BY <3>1, OthersUntouched DEF TypeOK, WorkersOK, WorkerTypes
  <2>3. result'[w] = NoResult
    <3>1. CASE RunFails(w) \/ Crash(w)
      BY <3>1 DEF RunFails, Crash, TypeOK, WorkersOK, WorkerTypes
    <3>2. CASE ~ (RunFails(w) \/ Crash(w))
      <4>1. pc[w] # "apply" /\ UNCHANGED result
        BY <1>2, <3>2 DEF WorkerStep, LockScheduler, Requeue, NotYet, Poll, TryLock,
           ClaimJob, NothingClaimed, LoadJob, WriteOutcome
      <4>. QED  BY <4>1 DEF ResultInv, ResultOK
    <3>. QED  BY <3>1, <3>2
  <2>. QED  BY <2>1, <2>2, <2>3, ResultFrame
<1>. QED  BY <1>1, <1>2

\* Every step keeps results of the past and in order.
LEMMA ResultStep ==
  ASSUME TypeOK, QueueInv, ResultInv, [Next]_vars
  PROVE  ResultInv'
<1>1. CASE Tick
  <2>1. now \in Nat /\ now' = now + 1 /\ UNCHANGED <<ip, result, claim, pc>>
    BY <1>1 DEF Tick, TypeOK, tableVars, workerVars
  <2>2. \A p \in Project : ip[p].last_checked_at \in Time
    BY DEF TypeOK, TablesOK
  <2>3. ShownOK'  BY <2>1, <2>2 DEF ResultInv, ShownOK
  <2>4. \A w \in Worker : ResultOK(w)'  BY <2>1 DEF ResultInv, ResultOK
  <2>. QED  BY <2>3, <2>4 DEF ResultInv
<1>2. CASE UNCHANGED <<now, ip, result, claim, pc>>
  BY <1>2, ResultFrame
<1>3. ASSUME NEW r \in Requester, RequesterStep(r)
      PROVE  UNCHANGED <<now, ip, result, claim, pc>>
  BY <1>3 DEF RequesterStep, StartRequest, EnqueueCheck, EnqueueCommit, tableVars, workerVars
<1>4. ASSUME NEW p \in Project, DeleteProject(p) PROVE ResultInv'
  <2>1. /\ UNCHANGED <<now, result, claim, pc>>
        /\ \A q \in Project : ip'[q] = ip[q] \/ ip'[q] = NotTested
    BY <1>4 DEF DeleteProject, workerVars, TypeOK, TablesOK
  <2>2. ShownOK'  BY <2>1 DEF ResultInv, ShownOK, NotTested
  <2>3. \A w \in Worker : ResultOK(w)'
    <3> SUFFICES ASSUME NEW w \in Worker, result[w] # NoResult PROVE ResultOK(w)'
      BY <2>1 DEF ResultOK
    <3>1. claim[w].project \in Project /\ ResultOK(w)  BY ResultHolder DEF ResultInv
    <3>. QED  BY <2>1, <3>1 DEF ResultOK, NotTested
  <2>. QED  BY <2>2, <2>3 DEF ResultInv
<1>. QED  BY <1>1, <1>2, <1>3, <1>4, ResultWorker DEF Next, vars, tableVars, workerVars

\* Nothing was tested at the start.
LEMMA InitResult == Init => ResultInv
BY DEF Init, ResultInv, ShownOK, ResultOK, NotTested

\* Under the same conditions an older result never overwrites a later one.
THEOREM ResultsAlwaysForward == OneCaller => (Spec /\ []InTime => ResultsMoveForward)
<1> SUFFICES ASSUME OneCaller PROVE Spec /\ []InTime => ResultsMoveForward
  OBVIOUS
<1> DEFINE Forward == \A p \in projects \cap projects' :
             LET old == ip[p].last_checked_at  new == ip'[p].last_checked_at IN
             old # NULL => new >= old
<1>1. Init => QueueInv /\ ClockOK /\ ResultInv  BY InitQueue, InitClock, InitResult
<1>2. QueueInv /\ ClockOK /\ ResultInv /\ TypeOK /\ TypeOK' /\ InTime /\ [Next]_vars
        => QueueInv' /\ ClockOK' /\ ResultInv'
  BY QueueStep, ResultStep, RowsPastStep, NotesPastStep DEF ClockOK, RowsPast
<1>3. TypeOK /\ ResultInv /\ [Next]_vars => [Forward]_vars
  <2> SUFFICES ASSUME TypeOK, ResultInv, [Next]_vars, NEW p \in projects \cap projects',
                      ip[p].last_checked_at # NULL
               PROVE  ip'[p].last_checked_at >= ip[p].last_checked_at
    OBVIOUS
  <2>1. p \in Project /\ ip[p].last_checked_at \in Nat
    BY DEF TypeOK, TablesOK
  <2>2. CASE ip'[p] = ip[p]  BY <2>1, <2>2
  <2>3. ASSUME NEW w \in Worker, Apply(w), ip'[p] # ip[p]
        PROVE  ip'[p].last_checked_at >= ip[p].last_checked_at
    <3>1. result[w] # NoResult /\ claim[w].project = p
          /\ ip'[p].last_checked_at = result[w].checked_at
      BY <2>1, <2>3 DEF Apply, Applied, TypeOK, TablesOK
    <3>. QED  BY <2>1, <3>1 DEF ResultInv, ResultOK
  <2>4. ASSUME NEW q \in Project, DeleteProject(q) PROVE ip'[p] = ip[p]
    BY <2>1, <2>4 DEF DeleteProject, TypeOK, TablesOK
  <2>5. ASSUME NEW r \in Requester, RequesterStep(r) PROVE ip'[p] = ip[p]
    BY <2>5 DEF RequesterStep, StartRequest, EnqueueCheck, EnqueueCommit, tableVars
  <2>6. ASSUME NEW w \in Worker, WorkerStep(w) \/ Crash(w), ~ Apply(w) PROVE ip'[p] = ip[p]
    BY <2>6 DEF WorkerStep, LockScheduler, Requeue, NotYet, Poll, TryLock, ClaimJob,
       NothingClaimed, Probe, RunFails, LoadJob, WriteOutcome, Crash, tableVars
  <2>7. CASE Tick \/ UNCHANGED vars
    BY <2>2, <2>7 DEF Tick, vars, tableVars
  <2>. QED  BY <2>2, <2>3, <2>4, <2>5, <2>6, <2>7 DEF Next
<1>. QED  BY <1>1, <1>2, <1>3, TypeCorrect, PTL DEF Spec, ResultsMoveForward

\* Under the same conditions an address was never seen after its last check.
THEOREM SeenNeverAfterCheck == OneCaller => (Spec /\ []InTime => []SeenWhenChecked)
<1> SUFFICES ASSUME OneCaller PROVE Spec /\ []InTime => []SeenWhenChecked
  OBVIOUS
<1>1. Init => QueueInv /\ ClockOK /\ ResultInv  BY InitQueue, InitClock, InitResult
<1>2. QueueInv /\ ClockOK /\ ResultInv /\ TypeOK /\ TypeOK' /\ InTime /\ [Next]_vars
        => QueueInv' /\ ClockOK' /\ ResultInv'
  BY QueueStep, ResultStep, RowsPastStep, NotesPastStep DEF ClockOK, RowsPast
<1>3. ResultInv => SeenWhenChecked  BY DEF ResultInv, ShownOK, SeenWhenChecked
<1>. QED  BY <1>1, <1>2, <1>3, TypeCorrect, PTL DEF Spec
=============================================================================
