------------------------------ MODULE PingJobs ------------------------------
(***************************************************************************)
(* The ping queue of app/services/ping.py on PostgreSQL: requests that     *)
(* enqueue jobs, several workers that requeue stale jobs, claim a job,     *)
(* ping its project and mark the job finished, and what all of them do to  *)
(* the rows of ping_jobs and to the ping columns of ip_addresses.          *)
(*                                                                         *)
(* A step of the model is one statement or one short transaction of the    *)
(* code; between any two of them anybody else may run, the clock may move, *)
(* and a worker may die.  The database is READ COMMITTED: a statement sees *)
(* what is committed when it starts, and an UPDATE that meets a concurrent *)
(* one waits and evaluates its WHERE again, so an UPDATE and the commit    *)
(* that follows it are one step.                                           *)
(*                                                                         *)
(* Abstractions: a project has one address, which stands for each of them  *)
(* (no job treats two addresses differently); the reason, the error text   *)
(* and finished_at are left out, nothing reads them to decide anything;    *)
(* every process reads the same clock, as in docker-compose.yml.           *)
(***************************************************************************)
EXTENDS Integers, Sequences, FiniteSets

CONSTANTS
  Worker,       \* worker processes (app/worker.py)
  Requester,    \* request handlers and the schedule pass, one call at a time
  Project,      \* project ids; the sequence of the database never reuses one
  Requests,     \* what a caller may ask for: sequences of projects
  Timeouts,     \* values ping_running_job_timeout_seconds may take
  Answers,      \* what a ping may find: TRUE, FALSE or, not probed, NULL
  ClaimWindow,  \* PING_CLAIM_WINDOW
  MaxJobs,      \* bound: rows ever inserted into ping_jobs
  MaxTime,      \* bound: the last instant of the clock
  MaxCrashes,   \* bound: worker deaths
  NULL          \* SQL NULL, Python None

ASSUME RequestsAssumption == Requests \subseteq Seq(Project) \ {<<>>}
ASSUME TimeoutsAssumption == Timeouts \subseteq Nat \ {0}
ASSUME AnswersAssumption == Answers \subseteq BOOLEAN \cup {NULL}
ASSUME BoundsAssumption ==
  /\ MaxJobs \in Nat /\ MaxTime \in Nat /\ MaxCrashes \in Nat
  /\ ClaimWindow \in Nat \ {0}
ASSUME NullAssumption ==
  NULL \notin Nat /\ NULL \notin BOOLEAN /\ NULL \notin Project /\ NULL \notin Worker

VARIABLES
  now,        \* datetime.utcnow()
  projects,   \* rows of table projects
  jobs,       \* jobs[j]: the row of ping_jobs with id j
  nextJob,    \* next value of the ping_jobs id sequence
  ip,         \* ip[p]: ping columns of the address of project p
  schedLock,  \* the worker holding advisory lock PING_SCHEDULER_LOCK_ID
  pc,         \* pc[w]: what worker w does next
  polledAt,   \* polledAt[w]: the local `now` of requeue or of claim
  cand,       \* cand[w]: candidates of the claim loop not yet tried
  jobLock,    \* jobLock[w]: the job whose advisory lock worker w holds
  claim,      \* claim[w]: the job worker w claimed, with its lease
  result,     \* result[w]: what the probe found
  outcome,    \* outcome[w]: the status worker w is about to write
  todo,       \* todo[r]: projects the call of requester r has yet to look at
  pend,       \* pend[r]: PingJob objects added to its session, not flushed
  crashes     \* worker deaths so far

tableVars  == <<projects, jobs, nextJob, ip>>
workerVars == <<pc, polledAt, cand, jobLock, claim, result, outcome>>
callerVars == <<todo, pend>>
vars == <<now, tableVars, schedLock, workerVars, callerVars, crashes>>

JobId == 1..MaxJobs
Time  == Nat \cup {NULL}

Absent == [status |-> "absent", project |-> NULL, run_after |-> 0,
           started_at |-> NULL, lease_expires_at |-> NULL]
Queued(p, t) == [status |-> "queued", project |-> p, run_after |-> t,
                 started_at |-> NULL, lease_expires_at |-> NULL]

NoClaim  == [job |-> NULL, project |-> NULL, at |-> 0, lease |-> 0]
NoResult == [reachable |-> NULL, checked_at |-> NULL]
NotTested == [reachable |-> NULL, last_checked_at |-> NULL,
              last_seen_at |-> NULL]

\* Mutant: a job a worker already runs no longer counts.
ActiveQueuedOnly(p) ==
  \E j \in JobId : jobs[j].project = p /\ jobs[j].status = "queued"

Active(p) ==
  \E j \in JobId : jobs[j].project = p /\ jobs[j].status \in {"queued", "running"}

\* Worker w is between its claim and the end of run_next_ping_job.
Holding(w) == claim[w].job # NULL
\* Worker w is pinging, or about to write what it found.
Pinging(w) == pc[w] \in {"probe", "apply"}
-----------------------------------------------------------------------------
\* A job that a worker of an earlier process left running.  It holds a lease,
\* given by its claim or, on upgrade, by settings.initialize from started_at,
\* or none when initialize has not seen it.
Leftover(p, lease) ==
  [status |-> "running", project |-> p, run_after |-> 0,
   started_at |-> 0, lease_expires_at |-> lease]

Init ==
  /\ now = 0
  /\ projects = Project
  /\ \/ jobs = [j \in JobId |-> Absent] /\ nextJob = 1
     \/ /\ MaxJobs > 0 /\ nextJob = 2
        /\ \E p \in Project, lease \in Timeouts \cup {NULL} :
             jobs = [j \in JobId |-> IF j = 1 THEN Leftover(p, lease) ELSE Absent]
  /\ ip = [p \in Project |-> NotTested]
  /\ schedLock = NULL
  /\ pc = [w \in Worker |-> "tick"]
  /\ polledAt = [w \in Worker |-> 0]
  /\ cand = [w \in Worker |-> {}]
  /\ jobLock = [w \in Worker |-> NULL]
  /\ claim = [w \in Worker |-> NoClaim]
  /\ result = [w \in Worker |-> NoResult]
  /\ outcome = [w \in Worker |-> NULL]
  /\ todo = [r \in Requester |-> <<>>]
  /\ pend = [r \in Requester |-> <<>>]
  /\ crashes = 0
-----------------------------------------------------------------------------
(* Callers of enqueue_project_ping: a web route, the API, the schedule     *)
(* pass.  A call names a sequence of projects; the single-project routes   *)
(* commit after one, the folder route and the schedule pass after all.     *)

StartRequest(r) ==
  /\ todo[r] = <<>> /\ pend[r] = <<>>
  /\ \E ps \in Requests : todo' = [todo EXCEPT ![r] = ps]
  /\ UNCHANGED <<now, tableVars, schedLock, workerVars, pend, crashes>>

\* _has_active_ping_job and, if there is none, db.add.  The session has
\* autoflush off: what it has already added is invisible to its own SELECT.
EnqueueCheck(r) ==
  /\ todo[r] # <<>>
  /\ todo' = [todo EXCEPT ![r] = Tail(@)]
  /\ LET p == Head(todo[r]) IN
     pend' = IF Active(p) THEN pend
             ELSE [pend EXCEPT ![r] = Append(@, Queued(p, now))]
  /\ UNCHANGED <<now, tableVars, schedLock, workerVars, crashes>>

\* commit flushes every added job.  A project deleted meanwhile fails the
\* foreign key, and with it the whole transaction.
EnqueueCommit(r) ==
  /\ todo[r] = <<>> /\ pend[r] # <<>>
  /\ nextJob + Len(pend[r]) - 1 <= MaxJobs
  /\ IF \A i \in DOMAIN pend[r] : pend[r][i].project \in projects
     THEN /\ jobs' = [j \in JobId |->
                        IF j \in nextJob..(nextJob + Len(pend[r]) - 1)
                        THEN pend[r][j - nextJob + 1] ELSE jobs[j]]
          /\ nextJob' = nextJob + Len(pend[r])
     ELSE UNCHANGED <<jobs, nextJob>>
  /\ pend' = [pend EXCEPT ![r] = <<>>]
  /\ UNCHANGED <<now, projects, ip, schedLock, workerVars, todo, crashes>>

\* delete_project; the jobs and the addresses go by ON DELETE CASCADE.
DeleteProject(p) ==
  /\ p \in projects
  /\ projects' = projects \ {p}
  /\ jobs' = [j \in JobId |-> IF jobs[j].project = p THEN Absent ELSE jobs[j]]
  /\ ip' = [ip EXCEPT ![p] = NotTested]
  /\ UNCHANGED <<now, nextJob, schedLock, workerVars, callerVars, crashes>>
-----------------------------------------------------------------------------
(* The worker: one iteration of run_ping_scheduler.                        *)

\* requeue_stale_ping_jobs takes the scheduler lock, or gives up, and reads
\* the clock.
LockScheduler(w) ==
  /\ pc[w] = "tick"
  /\ IF schedLock = NULL
     THEN /\ schedLock' = w
          /\ polledAt' = [polledAt EXCEPT ![w] = now]
          /\ pc' = [pc EXCEPT ![w] = "requeue"]
     ELSE /\ pc' = [pc EXCEPT ![w] = "due"]
          /\ UNCHANGED <<schedLock, polledAt>>
  /\ UNCHANGED <<now, tableVars, cand, jobLock, claim, result, outcome,
                 callerVars, crashes>>

\* Mutants of Stale: the timeout in force instead of the lease of the job, the
\* status not looked at, the lease not looked at.
StaleByTimeout(row, t, d) == row.status = "running" /\ row.started_at <= t - d
StaleWhateverStatus(row, t, d) ==
  row.lease_expires_at # NULL /\ row.lease_expires_at <= t
StaleWithoutLease(row, t, d) ==
  /\ row.status = "running" /\ row.lease_expires_at = NULL
  /\ row.started_at <= t - d

\* The WHERE of requeue_stale_ping_jobs at instant t with timeout d.
Stale(row, t, d) ==
  /\ row.status = "running"
  /\ \/ row.started_at = NULL
     \/ row.lease_expires_at # NULL /\ row.lease_expires_at <= t
     \/ row.lease_expires_at = NULL /\ row.started_at <= t - d

\* Mutant: started_at and lease_expires_at keep their values.
RequeuedKeepingLease(row, t) == [row EXCEPT !.status = "queued", !.run_after = t]

\* Its SET: back in the queue from instant t on, as if never started.
Requeued(row, t) == Queued(row.project, t)

\* The UPDATE.  The commit, or the end of the session, frees the lock.
Requeue(w) ==
  /\ pc[w] = "requeue"
  /\ \E d \in Timeouts :
       jobs' = [j \in JobId |-> IF Stale(jobs[j], polledAt[w], d)
                                THEN Requeued(jobs[j], polledAt[w])
                                ELSE jobs[j]]
  /\ schedLock' = NULL
  /\ pc' = [pc EXCEPT ![w] = "due"]
  /\ polledAt' = [polledAt EXCEPT ![w] = 0]
  /\ UNCHANGED <<now, projects, nextJob, ip, cand, jobLock, claim, result,
                 outcome, callerVars, crashes>>

\* time.monotonic() < next_poll_at: sleep and iterate.
NotYet(w) ==
  /\ pc[w] = "due"
  /\ pc' = [pc EXCEPT ![w] = "tick"]
  /\ UNCHANGED <<now, tableVars, schedLock, polledAt, cand, jobLock, claim,
                 result, outcome, callerVars, crashes>>

Before(c, d) == \/ c.run_after < d.run_after
                \/ c.run_after = d.run_after /\ c.id < d.id

\* The first ClaimWindow rows of the queue that are due at instant t.
Due(t) ==
  {[id |-> j, run_after |-> jobs[j].run_after] :
     j \in {k \in JobId : jobs[k].status = "queued" /\ jobs[k].run_after <= t}}
Window(C) == {c \in C : Cardinality({d \in C : Before(d, c)}) < ClaimWindow}

\* run_next_ping_job: _claim_next_ping_job reads the clock and the candidates.
Poll(w) ==
  /\ pc[w] = "due"
  /\ polledAt' = [polledAt EXCEPT ![w] = now]
  /\ cand' = [cand EXCEPT ![w] = Window(Due(now))]
  /\ pc' = [pc EXCEPT ![w] = "claim"]
  /\ UNCHANGED <<now, tableVars, schedLock, jobLock, claim, result, outcome,
                 callerVars, crashes>>

\* The next candidate's advisory lock: taken, or held by another worker and
\* the candidate is skipped.
TryLock(w) ==
  /\ pc[w] = "claim"
  /\ \E c \in cand[w] :
       /\ \A d \in cand[w] \ {c} : Before(c, d)
       /\ cand' = [cand EXCEPT ![w] = @ \ {c}]
       /\ IF \E v \in Worker : jobLock[v] = c.id
          THEN UNCHANGED <<pc, jobLock>>
          ELSE /\ jobLock' = [jobLock EXCEPT ![w] = c.id]
               /\ pc' = [pc EXCEPT ![w] = "update"]
  /\ UNCHANGED <<now, tableVars, schedLock, polledAt, claim, result, outcome,
                 callerVars, crashes>>

\* Mutant: the status is not looked at again.
ClaimableWhateverStatus(row, t) == row.status # "absent" /\ row.run_after <= t

\* The WHERE of the claiming UPDATE.
Claimable(row, t) == row.status = "queued" /\ row.run_after <= t

\* Its SET.
Claimed(row, t, d) == [row EXCEPT !.status = "running", !.started_at = t,
                                  !.lease_expires_at = t + d]

\* The guarded UPDATE: one row and the job is claimed, none and the rollback
\* leaves the next candidate.  Either way the advisory lock is gone.
ClaimJob(w) ==
  /\ pc[w] = "update"
  /\ jobLock' = [jobLock EXCEPT ![w] = NULL]
  /\ LET j == jobLock[w]  at == polledAt[w] IN
     IF Claimable(jobs[j], at)
     THEN \E d \in Timeouts :
            /\ jobs' = [jobs EXCEPT ![j] = Claimed(@, at, d)]
            /\ claim' = [claim EXCEPT ![w] = [job |-> j, project |-> jobs[j].project,
                                              at |-> at, lease |-> at + d]]
            /\ cand' = [cand EXCEPT ![w] = {}]
            /\ polledAt' = [polledAt EXCEPT ![w] = 0]
            /\ pc' = [pc EXCEPT ![w] = "probe"]
     ELSE /\ pc' = [pc EXCEPT ![w] = "claim"]
          /\ UNCHANGED <<jobs, claim, cand, polledAt>>
  /\ UNCHANGED <<now, projects, nextJob, ip, schedLock, result, outcome,
                 callerVars, crashes>>

NothingClaimed(w) ==
  /\ pc[w] = "claim" /\ cand[w] = {}
  /\ pc' = [pc EXCEPT ![w] = "tick"]
  /\ polledAt' = [polledAt EXCEPT ![w] = 0]
  /\ UNCHANGED <<now, tableVars, schedLock, cand, jobLock, claim, result,
                 outcome, callerVars, crashes>>
-----------------------------------------------------------------------------
(* The claimed job: run_ping_project, then the end of run_next_ping_job.   *)

\* ping_address notes the time, then waits for the answer; an address that
\* could not be probed at all yields nothing to write.
Probe(w) ==
  /\ pc[w] = "probe"
  /\ \E answer \in Answers :
       result' = [result EXCEPT ![w] =
         IF answer # NULL /\ claim[w].project \in projects
         THEN [reachable |-> answer, checked_at |-> now]
         ELSE NoResult]
  /\ pc' = [pc EXCEPT ![w] = "apply"]
  /\ UNCHANGED <<now, tableVars, schedLock, polledAt, cand, jobLock, claim,
                 outcome, callerVars, crashes>>

\* The row after an UPDATE by _apply_ping_results.
Applied(row, res) ==
  [reachable |-> res.reachable,
   last_checked_at |-> res.checked_at,
   last_seen_at |-> IF res.reachable THEN res.checked_at ELSE row.last_seen_at]

Apply(w) ==
  /\ pc[w] = "apply"
  /\ LET p == claim[w].project IN
     ip' = IF result[w] # NoResult /\ p \in projects
           THEN [ip EXCEPT ![p] = Applied(@, result[w])] ELSE ip
  /\ pc' = [pc EXCEPT ![w] = "finish"]
  /\ outcome' = [outcome EXCEPT ![w] = "done"]
  /\ result' = [result EXCEPT ![w] = NoResult]
  /\ UNCHANGED <<now, projects, jobs, nextJob, schedLock, polledAt, cand,
                 jobLock, claim, callerVars, crashes>>

\* Any exception of run_ping_project, a database error included.
RunFails(w) ==
  /\ pc[w] \in {"probe", "apply"}
  /\ pc' = [pc EXCEPT ![w] = "finish"]
  /\ outcome' = [outcome EXCEPT ![w] = "failed"]
  /\ result' = [result EXCEPT ![w] = NoResult]
  /\ UNCHANGED <<now, tableVars, schedLock, polledAt, cand, jobLock, claim,
                 callerVars, crashes>>

Forget(w) ==
  /\ claim' = [claim EXCEPT ![w] = NoClaim]
  /\ outcome' = [outcome EXCEPT ![w] = NULL]
  /\ pc' = [pc EXCEPT ![w] = "tick"]

\* db.get(PingJob, job_id).  Whoever claimed the job since is not looked at.
\* Assigning the status the row already has writes no status.
LoadJob(w) ==
  /\ pc[w] = "finish"
  /\ LET row == jobs[claim[w].job] IN
     IF row.status = "absent"
     THEN Forget(w)
     ELSE /\ outcome' = [outcome EXCEPT ![w] = IF row.status = @ THEN NULL ELSE @]
          /\ pc' = [pc EXCEPT ![w] = "write"]
          /\ UNCHANGED claim
  /\ UNCHANGED <<now, tableVars, schedLock, polledAt, cand, jobLock, result,
                 callerVars, crashes>>

\* The columns LoadJob's assignments change; the start and the lease stay.
Finished(row, s) == [row EXCEPT !.status = s]

\* The commit: UPDATE ... WHERE id = job_id.  A row deleted since the load
\* raises StaleDataError, which ends the iteration.
WriteOutcome(w) ==
  /\ pc[w] = "write"
  /\ LET j == claim[w].job IN
     jobs' = IF jobs[j].status # "absent" /\ outcome[w] # NULL
             THEN [jobs EXCEPT ![j] = Finished(@, outcome[w])] ELSE jobs
  /\ Forget(w)
  /\ UNCHANGED <<now, projects, nextJob, ip, schedLock, polledAt, cand, jobLock,
                 result, callerVars, crashes>>
-----------------------------------------------------------------------------
\* The process dies or is cancelled and is started again; its transaction
\* rolls back, its advisory locks are freed.  A lease that would outlast the
\* clock is never left behind: such a death could not be recovered from
\* within the bound MaxTime.
Crash(w) ==
  /\ crashes < MaxCrashes
  /\ claim[w].lease <= MaxTime
  /\ crashes' = crashes + 1
  /\ Forget(w)
  /\ schedLock' = IF schedLock = w THEN NULL ELSE schedLock
  /\ polledAt' = [polledAt EXCEPT ![w] = 0]
  /\ cand' = [cand EXCEPT ![w] = {}]
  /\ jobLock' = [jobLock EXCEPT ![w] = NULL]
  /\ result' = [result EXCEPT ![w] = NoResult]
  /\ UNCHANGED <<now, tableVars, callerVars>>

Tick ==
  /\ now < MaxTime
  /\ now' = now + 1
  /\ UNCHANGED <<tableVars, schedLock, workerVars, callerVars, crashes>>

WorkerStep(w) ==
  \/ LockScheduler(w) \/ Requeue(w) \/ NotYet(w) \/ Poll(w)
  \/ TryLock(w) \/ ClaimJob(w) \/ NothingClaimed(w)
  \/ Probe(w) \/ Apply(w) \/ RunFails(w) \/ LoadJob(w) \/ WriteOutcome(w)

RequesterStep(r) == StartRequest(r) \/ EnqueueCheck(r) \/ EnqueueCommit(r)

Next ==
  \/ \E w \in Worker : WorkerStep(w) \/ Crash(w)
  \/ \E r \in Requester : RequesterStep(r)
  \/ \E p \in Project : DeleteProject(p)
  \/ Tick

Spec == Init /\ [][Next]_vars

\* A worker that can run does run, time passes, and next_poll_at is reached
\* after finitely many iterations.  Nobody has to make a request, delete a
\* project or die.
Fairness ==
  /\ \A w \in Worker : WF_vars(WorkerStep(w)) /\ SF_vars(Poll(w))
  /\ WF_vars(Tick)

FairSpec == Spec /\ Fairness
-----------------------------------------------------------------------------
Row == [status : {"absent", "queued", "running", "done", "failed"},
        project : Project \cup {NULL}, run_after : Nat,
        started_at : Time, lease_expires_at : Time]
Added == [status : {"queued"}, project : Project, run_after : Nat,
          started_at : {NULL}, lease_expires_at : {NULL}]

RowOK(row) ==
  \/ row = Absent
  \/ /\ row.status # "absent"
     /\ row.project \in Project
     /\ row.status = "queued" => row.started_at = NULL /\ row.lease_expires_at = NULL
     /\ row.status = "running" => row.started_at \in Nat
     /\ row.lease_expires_at # NULL =>
          row.started_at \in Nat /\ row.lease_expires_at > row.started_at

TablesOK ==
  /\ projects \subseteq Project
  /\ nextJob \in 1..(MaxJobs + 1)
  /\ jobs \in [JobId -> Row]
  /\ \A j \in JobId : RowOK(jobs[j]) /\ (j >= nextJob => jobs[j] = Absent)
  /\ ip \in [Project -> [reachable : BOOLEAN \cup {NULL}, last_checked_at : Time,
                         last_seen_at : Time]]

\* A worker has a claim exactly while it runs one, and an advisory lock on a
\* job exactly before the claiming UPDATE.
WorkerOK(w) ==
  /\ jobLock[w] \in JobId <=> pc[w] = "update"
  /\ pc[w] \in {"probe", "apply", "finish", "write"} =>
       claim[w] \in [job : 1..(nextJob - 1), project : Project, at : Nat, lease : Nat]
  /\ pc[w] \notin {"probe", "apply", "finish", "write"} => claim[w] = NoClaim
  /\ cand[w] \subseteq [id : JobId, run_after : Nat]

WorkerTypes ==
  /\ schedLock \in Worker \cup {NULL}
  /\ pc \in [Worker -> {"tick", "requeue", "due", "claim", "update",
                        "probe", "apply", "finish", "write"}]
  /\ polledAt \in [Worker -> Nat]
  /\ cand \in [Worker -> SUBSET [id : Nat, run_after : Nat]]
  /\ jobLock \in [Worker -> JobId \cup {NULL}]
  /\ claim \in [Worker -> [job : Nat \cup {NULL}, project : Project \cup {NULL},
                           at : Nat, lease : Nat]]
  /\ result \in [Worker -> [reachable : BOOLEAN \cup {NULL}, checked_at : Time]]
  /\ outcome \in [Worker -> {"done", "failed", NULL}]

WorkersOK == WorkerTypes /\ \A w \in Worker : WorkerOK(w)

CallersOK ==
  /\ todo \in [Requester -> Seq(Project)]
  /\ pend \in [Requester -> Seq(Added)]

\* Types, the shape of a row of ping_jobs (a queued job has neither a start
\* nor a lease, a running one has a start, a lease outlives its start, ids
\* are given out in order), and what a worker holds at each point of its loop.
TypeOK ==
  /\ now \in Nat /\ crashes \in Nat
  /\ TablesOK
  /\ WorkersOK
  /\ CallersOK

\* Two workers that both believe they own a job hold it under leases that do
\* not overlap: the later claim came at or after the end of the earlier lease.
\* A worker that runs past its lease is the only way to have two of them
\* (_claim_next_ping_job and requeue_stale_ping_jobs together).
LeasesDisjoint ==
  \A v, w \in Worker :
    v # w /\ Holding(v) /\ claim[v].job = claim[w].job =>
      claim[v].lease <= claim[w].at \/ claim[w].lease <= claim[v].at

\* What the row of a job tells about worker w, which still believes it owns
\* it: the job is over, or running under the lease of w, or it was requeued at
\* or after the end of that lease, and perhaps claimed again since.
OwnerOK(w) ==
  LET row == jobs[claim[w].job] IN
  \/ row.status \in {"absent", "done", "failed"}
  \/ /\ row.status = "running"
     /\ row.started_at = claim[w].at /\ row.lease_expires_at = claim[w].lease
  \/ row.status = "running" /\ row.started_at >= claim[w].lease
  \/ row.status = "queued" /\ row.run_after >= claim[w].lease

\* The inductive invariant behind LeasesDisjoint.
LeaseInv ==
  /\ TypeOK
  /\ \A w \in Worker : Holding(w) => OwnerOK(w)
  /\ LeasesDisjoint

\* No instant a process noted or stored lies ahead of the clock.
ClockOK ==
  /\ \A w \in Worker : polledAt[w] <= now
  /\ \A j \in JobId : /\ jobs[j].run_after <= now
                      /\ jobs[j].started_at # NULL => jobs[j].started_at <= now
  /\ \A r \in Requester : \A i \in DOMAIN pend[r] : pend[r][i].run_after <= now

\* While its lease lasts, the row of a job says what its owner believes: it is
\* running under that lease, or its project is gone, or some earlier owner
\* came back late and finished it.
LeaseIsHonoured ==
  \A w \in Worker : Holding(w) /\ now < claim[w].lease =>
    LET row == jobs[claim[w].job] IN
    \/ row.status \in {"absent", "done", "failed"}
    \/ /\ row.status = "running"
       /\ row.started_at = claim[w].at
       /\ row.lease_expires_at = claim[w].lease

\* Every job that is in the queue or running ends or goes with its project,
\* although workers die and come back (requeue_stale_ping_jobs).
EveryJobEnds ==
  \A j \in JobId : jobs[j].status \in {"queued", "running"} ~>
                   jobs[j].status \in {"done", "failed", "absent"}

\* The abstract queue: done and failed are one, the rest of a row is hidden.
LifeOf(row) == IF row.status \in {"done", "failed"} THEN "ended" ELSE row.status
Life == INSTANCE JobLifecycle WITH status <- [j \in JobId |-> LifeOf(jobs[j])],
                                   target <- [j \in JobId |-> jobs[j].project]
QueuePromise == Life!LifeSpec

\* _claim_next_ping_job: "several PostgreSQL workers compete without
\* duplicating work": no two of them ping the same project at once.
NoDuplicatedWork ==
  \A v, w \in Worker : v # w /\ Pinging(v) /\ Pinging(w) =>
    claim[v].project # claim[w].project

\* What an address shows never goes back in time, whichever worker writes it:
\* a later result is not overwritten by an older one (_apply_ping_results).
ResultsMoveForward ==
  [][\A p \in projects \cap projects' :
       LET old == ip[p].last_checked_at  new == ip'[p].last_checked_at IN
       old # NULL => new >= old]_vars

\* An address was never seen later than it was last checked: the two columns
\* written by _apply_ping_results belong to one history of checks.
SeenWhenChecked ==
  \A p \in Project :
    ip[p].last_seen_at # NULL => ip[p].last_seen_at <= ip[p].last_checked_at
=============================================================================
