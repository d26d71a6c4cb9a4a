---------------------------- MODULE PingSchedules ----------------------------
(***************************************************************************)
(* Who puts jobs into the ping queue: the schedules of projects and        *)
(* folders (app/services/ping.py), the pass of every worker over the       *)
(* schedules that are due, the administrator's changes, and the creation   *)
(* of a project with its first schedule and its first ping                 *)
(* (app/web/routes.py).                                                    *)
(*                                                                         *)
(* The queue itself is the one JobLifecycle specifies and PingJobs         *)
(* implements: workers take jobs, end them and give them back.             *)
(*                                                                         *)
(* As in PingJobs a step is one statement or one short transaction, READ   *)
(* COMMITTED; a session does not flush before it commits, writes only the  *)
(* columns it changed, and a commit that meets a vanished row, a taken     *)
(* unique key or a missing parent fails as a whole.  The loop over all     *)
(* projects that looks for missing schedules, and the loop over the        *)
(* projects of one folder, are one step each.                              *)
(***************************************************************************)
EXTENDS JobLifecycle, SequencesExt

CONSTANTS
  Worker,           \* processes that run run_ping_scheduler
  Handler,          \* requests the web processes serve at a time
  Folder,           \* folder ids
  Home,             \* Home[p]: folder_id of project p; no route changes it
  Scheduled,        \* owners that may have a schedule when the model starts
  First,            \* projects that exist when it starts
  DefaultInterval,  \* PING_INTERVAL_SECONDS
  Edits,            \* what an administrator may save: [enabled, interval]
  MaxTime,          \* bound: the last instant of the clock
  MaxCrashes        \* bound: worker deaths

Owner == Project \cup Folder
NoSchedule == [enabled |-> FALSE, interval |-> 0, next |-> NULL]

ASSUME OwnersAssumption ==
  /\ Project \cap Folder = {} /\ IsFiniteSet(Project)
  /\ Home \in [Project -> Folder]
  /\ First \subseteq Project /\ Scheduled \subseteq First \cup Folder
ASSUME IntervalsAssumption ==
  /\ DefaultInterval \in Nat \ {0}
  /\ Edits \subseteq [enabled : BOOLEAN, interval : Nat \ {0}]
ASSUME LimitsAssumption == MaxJobs \in Nat /\ MaxTime \in Nat /\ MaxCrashes \in Nat
ASSUME DistinctAssumption ==
  /\ Worker \cap Handler = {}
  /\ NULL \notin Nat /\ NULL \notin Owner /\ NULL \notin Worker

VARIABLES
  now,        \* datetime.utcnow()
  folders,    \* rows of table folders
  unborn,     \* project ids the sequence has not given out yet
  sched,      \* sched[o]: the row of ping_schedules of owner o
  schedLock,  \* the worker holding advisory lock PING_SCHEDULER_LOCK_ID
  pc,         \* pc[x]: what worker or handler x does next; "off": nobody asks h
  polledAt,   \* polledAt[w]: the instant worker w read the clock
  missing,    \* missing[w]: projects w is about to give a schedule
  due,        \* due[w]: the due schedules w read, as it read them
  left,       \* left[w]: those it has yet to look at
  pend,       \* pend[x]: projects of the jobs added to x's session
  form,       \* form[h]: what the request of handler h is about
  crashes     \* worker deaths so far

tables  == <<folders, unborn, sched>>
passing == <<schedLock, polledAt, missing, due, left>>
vars == <<lifeVars, now, tables, passing, pc, pend, form, crashes>>

Active(p) == \E j \in JobId : target[j] = p /\ status[j] \in {"queued", "running"}

Live == projects \cup folders

\* The projects that are o, or lie in folder o.
Under(o) == {p \in projects : p = o \/ Home[p] = o}

\* The WHERE of enqueue_due_ping_schedules at instant t.
IsDue(o, t) == sched[o].enabled /\ sched[o].next # NULL /\ sched[o].next <= t

DefaultRow(t) == [enabled |-> TRUE, interval |-> DefaultInterval,
                  next |-> t + DefaultInterval]

NoForm == [owner |-> NULL, old |-> NoSchedule, new |-> NoSchedule, run_now |-> FALSE]

Init ==
  /\ now = 0
  /\ projects = First
  /\ nextJob = 1
  /\ status = [j \in JobId |-> "absent"]
  /\ target = [j \in JobId |-> NULL]
  /\ folders = Folder
  /\ unborn = Project \ First
  /\ sched \in [Owner -> {NoSchedule, DefaultRow(0), [DefaultRow(0) EXCEPT
                            !.enabled = FALSE, !.next = NULL]}]
  /\ \A o \in Owner : o \notin Scheduled => sched[o] = NoSchedule
  /\ schedLock = NULL
  /\ \E asked \in BOOLEAN :
       pc = [x \in Worker \cup Handler |->
               IF x \in Worker THEN "ensure" ELSE IF asked THEN "idle" ELSE "off"]
  /\ polledAt = [w \in Worker |-> 0]
  /\ missing = [w \in Worker |-> {}]
  /\ due = [w \in Worker |-> {}]
  /\ left = [w \in Worker |-> {}]
  /\ pend = [x \in Worker \cup Handler |-> <<>>]
  /\ form = [h \in Handler |-> NoForm]
  /\ crashes = 0
-----------------------------------------------------------------------------
\* enqueue_project_ping(commit=False) for every project of S: the jobs that
\* join x's session.  Its own earlier additions are invisible, autoflush off.
Enqueue(x, S) ==
  pend' = [pend EXCEPT ![x] = @ \o SetToSeq({p \in S : ~Active(p)})]

\* The INSERTs of the jobs of x's session.
Insert(x) == IF pend[x] = <<>> THEN UNCHANGED lifeVars ELSE Submit(pend[x])

\* Their foreign keys hold.
ParentsExist(x) == \A i \in DOMAIN pend[x] : pend[x][i] \in projects
-----------------------------------------------------------------------------
(* One iteration of run_ping_scheduler, up to the claim.                   *)

\* Mutant: the scheduler lock shuts nobody out.
LockFreeAlways(w) == TRUE

\* pg_try_advisory_xact_lock; a session may take its own lock again.
LockFree(w) == schedLock \in {NULL, w}

\* Mutant: the schedule of the folder counts as one of the project.
MissingUncovered ==
  {p \in projects : sched[p] = NoSchedule /\ sched[Home[p]] = NoSchedule}

\* Projects without a schedule of their own.
Missing == {p \in projects : sched[p] = NoSchedule}

\* ensure_default_project_schedules, up to its commit.  With nothing to add
\* the transaction stays open and keeps the lock, unless the commit of
\* requeue_stale_ping_jobs, which comes next, frees it.
Ensure(w) ==
  /\ pc[w] = "ensure"
  /\ IF LockFree(w) /\ Missing # {}
     THEN /\ missing' = [missing EXCEPT ![w] = Missing]
          /\ polledAt' = [polledAt EXCEPT ![w] = now]
          /\ pc' = [pc EXCEPT ![w] = "insert"]
          /\ schedLock' = w
     ELSE /\ pc' = [pc EXCEPT ![w] = "due"]
          /\ schedLock' \in IF LockFree(w) THEN {w, NULL} ELSE {schedLock}
          /\ UNCHANGED <<missing, polledAt>>
  /\ UNCHANGED <<lifeVars, now, tables, due, left, pend, form, crashes>>

\* Its commit.  A schedule inserted or a project deleted meanwhile fails it,
\* and the exception ends the iteration.
EnsureCommit(w) ==
  /\ pc[w] = "insert"
  /\ IF missing[w] \subseteq Missing
     THEN /\ sched' = [o \in Owner |-> IF o \in missing[w]
                                       THEN DefaultRow(polledAt[w]) ELSE sched[o]]
          /\ pc' = [pc EXCEPT ![w] = "due"]
     ELSE /\ pc' = [pc EXCEPT ![w] = "ensure"]
          /\ UNCHANGED sched
  /\ schedLock' = NULL
  /\ missing' = [missing EXCEPT ![w] = {}]
  /\ polledAt' = [polledAt EXCEPT ![w] = 0]
  /\ UNCHANGED <<lifeVars, now, folders, unborn, due, left, pend, form, crashes>>

\* enqueue_due_ping_schedules takes the lock, or gives up, and reads the clock
\* and the due schedules.
ReadDue(w) ==
  /\ pc[w] = "due"
  /\ LET D == {[owner |-> o, row |-> sched[o]] : o \in {q \in Live : IsDue(q, now)}} IN
     IF LockFree(w) /\ D # {}
     THEN /\ due' = [due EXCEPT ![w] = D]
          /\ left' = [left EXCEPT ![w] = D]
          /\ polledAt' = [polledAt EXCEPT ![w] = now]
          /\ schedLock' = w
          /\ pc' = [pc EXCEPT ![w] = "pass"]
     ELSE /\ schedLock' = IF schedLock = w THEN NULL ELSE schedLock
          /\ pc' = [pc EXCEPT ![w] = "ensure"]
          /\ UNCHANGED <<due, left, polledAt>>
  /\ UNCHANGED <<lifeVars, now, tables, missing, pend, form, crashes>>

\* Mutant: the projects of a folder are not looked up.
ReachesItself(o) == {o} \cap Project

\* The projects a schedule pings: its own, or those its folder has now.
Reaches(o) == IF o \in Project THEN {o} ELSE {p \in projects : Home[p] = o}

\* One round of the loop over the due schedules, earliest first.
PassSchedule(w) ==
  /\ pc[w] = "pass"
  /\ \E s \in left[w] :
       /\ \A r \in left[w] : s.row.next <= r.row.next
       /\ Enqueue(w, Reaches(s.owner))
       /\ left' = [left EXCEPT ![w] = @ \ {s}]
  /\ UNCHANGED <<lifeVars, now, tables, schedLock, polledAt, missing, due, pc,
                 form, crashes>>

\* Mutant: the UPDATE writes back the whole row it read.
PassedWhole(row, s, t) == [s.row EXCEPT !.next = t + s.row.interval]

\* What the pass does to a schedule's row: only next_run_at, from the interval
\* it read (last_run_at is left out).
Passed(row, s, t) == [row EXCEPT !.next = t + s.row.interval]

\* The commit: every added job and every schedule, or nothing.
PassCommit(w) ==
  /\ pc[w] = "pass" /\ left[w] = {}
  /\ nextJob + Len(pend[w]) - 1 <= MaxJobs
  /\ IF ParentsExist(w) /\ \A s \in due[w] : sched[s.owner] # NoSchedule
     THEN /\ Insert(w)
          /\ sched' = [o \in Owner |->
               IF \E s \in due[w] : s.owner = o
               THEN Passed(sched[o], CHOOSE s \in due[w] : s.owner = o, polledAt[w])
               ELSE sched[o]]
     ELSE UNCHANGED <<lifeVars, sched>>
  /\ schedLock' = NULL
  /\ due' = [due EXCEPT ![w] = {}]
  /\ pend' = [pend EXCEPT ![w] = <<>>]
  /\ polledAt' = [polledAt EXCEPT ![w] = 0]
  /\ pc' = [pc EXCEPT ![w] = "ensure"]
  /\ UNCHANGED <<now, folders, unborn, missing, left, form, crashes>>

\* The worker dies and comes back; its transaction is rolled back.
Crash(w) ==
  /\ crashes < MaxCrashes
  /\ crashes' = crashes + 1
  /\ schedLock' = IF schedLock = w THEN NULL ELSE schedLock
  /\ pc' = [pc EXCEPT ![w] = "ensure"]
  /\ polledAt' = [polledAt EXCEPT ![w] = 0]
  /\ missing' = [missing EXCEPT ![w] = {}]
  /\ due' = [due EXCEPT ![w] = {}]
  /\ left' = [left EXCEPT ![w] = {}]
  /\ pend' = [pend EXCEPT ![w] = <<>>]
  /\ UNCHANGED <<lifeVars, now, tables, form>>
-----------------------------------------------------------------------------
(* Requests that change schedules.                                         *)

\* update_project_ping_schedule, update_folder_ping_schedule: the row is read
\* and given its new values in memory.
LoadSchedule(h) ==
  /\ pc[h] = "idle"
  /\ \E o \in Live, e \in Edits, run_now \in BOOLEAN :
       form' = [form EXCEPT ![h] =
         [owner |-> o, old |-> sched[o], run_now |-> run_now,
          new |-> [enabled |-> e.enabled, interval |-> e.interval,
                   next |-> IF e.enabled THEN now + e.interval ELSE NULL]]]
  /\ pc' = [pc EXCEPT ![h] = "save"]
  /\ UNCHANGED <<lifeVars, now, tables, passing, pend, crashes>>

\* create_project and import_project_csv: the project and its addresses.
CreateProject(h) ==
  /\ pc[h] = "idle"
  /\ \E p \in unborn :
       /\ Home[p] \in folders
       /\ Add(p)
       /\ unborn' = unborn \ {p}
       /\ form' = [form EXCEPT ![h] = [NoForm EXCEPT !.owner = p, !.run_now = TRUE]]
  /\ pc' = [pc EXCEPT ![h] = "first"]
  /\ UNCHANGED <<now, folders, sched, passing, pend, crashes>>

\* ensure_project_ping_schedule, up to its commit.
FirstSchedule(h) ==
  /\ pc[h] = "first"
  /\ IF sched[form[h].owner] = NoSchedule
     THEN /\ form' = [form EXCEPT ![h].new = DefaultRow(now)]
          /\ pc' = [pc EXCEPT ![h] = "save"]
     ELSE /\ pc' = [pc EXCEPT ![h] = "ask"]
          /\ UNCHANGED form
  /\ UNCHANGED <<lifeVars, now, tables, passing, pend, crashes>>

\* Mutant: next_run_at is written only with a new interval.
SavedLazily(row, old, new) ==
  [enabled |-> new.enabled, interval |-> new.interval,
   next |-> IF new.interval # old.interval THEN new.next ELSE row.next]

\* An INSERT, or an UPDATE of the columns the request changed.  Two readings
\* of the clock differ, so next_run_at changes unless it was and stays NULL.
Saved(row, old, new) ==
  [enabled  |-> IF new.enabled  # old.enabled  THEN new.enabled  ELSE row.enabled,
   interval |-> IF new.interval # old.interval THEN new.interval ELSE row.interval,
   next     |-> IF new.next = NULL /\ old.next = NULL THEN row.next ELSE new.next]

\* db.commit of the schedule.  An INSERT fails on a schedule inserted since or
\* an owner deleted since, an UPDATE on a schedule deleted since; the handler
\* then ends with an error.
SaveSchedule(h) ==
  /\ pc[h] = "save"
  /\ LET o == form[h].owner  old == form[h].old
         inserted == o \in Live /\ sched[o] = NoSchedule IN
     IF (old = NoSchedule) = inserted /\ o \in Live
     THEN /\ sched' = [sched EXCEPT ![o] = Saved(@, old, form[h].new)]
          /\ pc' = [pc EXCEPT ![h] = IF form[h].run_now THEN "ask" ELSE "idle"]
     ELSE /\ pc' = [pc EXCEPT ![h] = "idle"]
          /\ UNCHANGED sched
  /\ form' = IF pc'[h] = "idle" THEN [form EXCEPT ![h] = NoForm] ELSE form
  /\ UNCHANGED <<lifeVars, now, folders, unborn, passing, pend, crashes>>

\* enqueue_project_ping, for the project or for every project of the folder.
Ask(h) ==
  /\ pc[h] = "ask"
  /\ Enqueue(h, Reaches(form[h].owner))
  /\ pc' = [pc EXCEPT ![h] = "answer"]
  /\ UNCHANGED <<lifeVars, now, tables, passing, form, crashes>>

\* The commit of the jobs, and the end of the request.
Answer(h) ==
  /\ pc[h] = "answer"
  /\ nextJob + Len(pend[h]) - 1 <= MaxJobs
  /\ IF ParentsExist(h) THEN Insert(h) ELSE UNCHANGED lifeVars
  /\ pend' = [pend EXCEPT ![h] = <<>>]
  /\ form' = [form EXCEPT ![h] = NoForm]
  /\ pc' = [pc EXCEPT ![h] = "idle"]
  /\ UNCHANGED <<now, tables, passing, crashes>>

\* delete_project and delete_folder, with what they cascade to.
Delete(o) ==
  /\ o \in Live
  /\ Drop(Under(o))
  /\ folders' = folders \ {o}
  /\ sched' = [q \in Owner |-> IF q \in {o} \cup Under(o) THEN NoSchedule ELSE sched[q]]
  /\ UNCHANGED <<now, unborn, passing, pc, pend, form, crashes>>
-----------------------------------------------------------------------------
\* The workers' side of the queue, as JobLifecycle specifies it.
QueueStep ==
  /\ \/ \E j \in JobId : Take(j) \/ End(j)
     \/ \E S \in SUBSET JobId : S # {} /\ GiveBack(S)
  /\ UNCHANGED <<now, tables, passing, pc, pend, form, crashes>>

Tick ==
  /\ now < MaxTime
  /\ now' = now + 1
  /\ UNCHANGED <<lifeVars, tables, passing, pc, pend, form, crashes>>

WorkerStep(w) ==
  \/ Ensure(w) \/ EnsureCommit(w) \/ ReadDue(w) \/ PassSchedule(w) \/ PassCommit(w)

HandlerStep(h) ==
  \/ LoadSchedule(h) \/ CreateProject(h) \/ FirstSchedule(h)
  \/ SaveSchedule(h) \/ Ask(h) \/ Answer(h)

Next ==
  \/ \E w \in Worker : WorkerStep(w) \/ Crash(w)
  \/ \E h \in Handler : HandlerStep(h)
  \/ \E o \in Owner : Delete(o)
  \/ QueueStep
  \/ Tick

Spec == Init /\ [][Next]_vars

\* A worker that can run does run.  A request may be cut off at any point, and
\* nobody has to make one.
FairSpec == Spec /\ \A w \in Worker : WF_vars(WorkerStep(w))
-----------------------------------------------------------------------------
Row == [enabled : BOOLEAN, interval : Nat, next : Nat \cup {NULL}]
Read == [owner : Owner, row : Row]
PcOK ==
  /\ pc \in [Worker \cup Handler -> {"ensure", "insert", "due", "pass", "idle",
                                     "first", "save", "ask", "answer", "off"}]
  /\ \A w \in Worker : pc[w] \in {"insert", "pass"} => schedLock = w

\* Types; only what exists has a schedule; ids are given out once; a worker in
\* the middle of its pass holds the scheduler lock.
TypeOK ==
  /\ LifeTypeOK
  /\ now \in Nat /\ crashes \in Nat
  /\ folders \subseteq Folder
  /\ unborn \subseteq Project \ projects
  /\ sched \in [Owner -> Row]
  /\ \A o \in Owner : o \notin Live => sched[o] = NoSchedule
  /\ schedLock \in Worker \cup {NULL}
  /\ PcOK
  /\ polledAt \in [Worker -> Nat]
  /\ missing \in [Worker -> SUBSET Project]
  /\ due \in [Worker -> SUBSET Read]
  /\ \A w \in Worker : left[w] \subseteq due[w]
  /\ pend \in [Worker \cup Handler -> Seq(Project)]
  /\ form \in [Handler -> [owner : Owner \cup {NULL}, old : Row, new : Row,
                           run_now : BOOLEAN]]

\* The jobs of p that wait or run, and the schedules that ping p.
ActiveJobs(p) == {j \in JobId : target[j] = p /\ status[j] \in {"queued", "running"}}
SchedulesOf(p) == {o \in {p, Home[p]} : sched[o] # NoSchedule}

\* While nobody asks, a project has at most one job that waits or runs for each
\* schedule that pings it.  A pass looks for an active job before it adds one, but
\* does not see those it has itself added, so a project and its folder that are
\* due together add one each; the scheduler lock keeps other passes out until
\* the commit, which takes all of them or none (enqueue_due_ping_schedules).
ActivePerSchedule ==
  (\A h \in Handler : pc[h] = "off") =>
    \A p \in projects : Cardinality(ActiveJobs(p)) <= Cardinality(SchedulesOf(p))

\* Every project gets a schedule, although the request that created it may
\* die before it adds one, and the insertions of two processes may collide
\* (ensure_default_project_schedules, ensure_project_ping_schedule).
EveryProjectScheduled ==
  \A p \in Project : p \in projects ~> (p \notin projects \/ sched[p] # NoSchedule)

\* A due schedule is served: from the moment it is due and no pass has taken it
\* up, each project it stands for gets a ping, although workers die in the
\* middle of a pass and a pass fails as a whole when something it read is
\* deleted (enqueue_due_ping_schedules).
DueIsServed ==
  \A o \in Owner, p \in Project :
    (/\ IsDue(o, now) /\ p \in Under(o)
     /\ \A w \in Worker : \A s \in due[w] : s.owner # o)
      ~> (Active(p) \/ p \notin projects)

\* What an administrator saved stays until an administrator saves again: a
\* pass that read the row before never brings back whether it was enabled, or
\* its interval.
SavedStays ==
  [][\A o \in Owner :
       LET old == sched[o]  new == sched'[o] IN
       old # NoSchedule /\ new # NoSchedule
         /\ <<old.enabled, old.interval>> # <<new.enabled, new.interval>> =>
       \E h \in Handler : pc[h] = "save" /\ form[h].owner = o /\ pc'[h] # "save"]_vars

\* Requests that follow each other.
OneAtATime == \A g, h \in Handler : g = h

\* With one request at a time, an enabled schedule has a next run, whatever
\* passes, saves and deaths interleave: without one it would never be due again
\* (enqueue_due_ping_schedules).  A request writes the columns that differ from
\* what it read, so requests that overlap may leave enabled of one and no
\* next_run_at of the other.
EnabledHasNext ==
  OneAtATime => \A o \in Owner : sched[o].enabled => sched[o].next # NULL

\* "Ping right after a subnet is created" (README.md): when the request that
\* created a project is over, the project has a job or is gone.  Stated for
\* instances in which no administrator edits schedules.
CreatedIsQueued ==
  [][\A h \in Handler :
       LET p == form[h].owner IN
       p # NULL /\ form'[h].owner = NULL /\ p \in projects' =>
         \E j \in JobId : target'[j] = p]_vars
=============================================================================
