---------------------------- MODULE JobLifecycle ----------------------------
(***************************************************************************)
(* What the ping_jobs table promises to the rest of IPTable, with no word  *)
(* about workers, leases, locks or sessions.  A job is submitted for a     *)
(* project that exists, under an id never used before; it is taken by a    *)
(* worker, may be given back to the queue, and ends once and for all; it   *)
(* disappears with its project and in no other way.                        *)
(*                                                                         *)
(* PingJobs, the detailed model of app/services/ping.py, is checked to     *)
(* implement this specification.                                           *)
(***************************************************************************)
EXTENDS Integers, Sequences

CONSTANTS
  Project,   \* project ids
  MaxJobs,   \* bound: how many jobs are ever submitted
  NULL       \* SQL NULL

VARIABLES
  projects,  \* the rows of table projects
  nextJob,   \* the next value of the ping_jobs id sequence
  status,    \* status[j]: the life of job j, "absent" when there is no row
  target     \* target[j]: the project of job j, NULL when there is no row

lifeVars == <<projects, nextJob, status, target>>

JobId == 1..MaxJobs
Life == {"absent", "queued", "running", "ended"}

LifeTypeOK ==
  /\ projects \subseteq Project
  /\ nextJob \in 1..(MaxJobs + 1)
  /\ status \in [JobId -> Life]
  /\ target \in [JobId -> Project \cup {NULL}]

\* The queue may hold jobs of earlier processes when it is first looked at.
LifeInit ==
  /\ projects \subseteq Project
  /\ nextJob \in 1..(MaxJobs + 1)
  /\ status \in [JobId -> {"absent", "running"}]
  /\ target \in [JobId -> projects \cup {NULL}]
  /\ \A j \in JobId : /\ (status[j] = "absent") <=> (target[j] = NULL)
                      /\ (status[j] = "absent") <=> (j >= nextJob)

\* The jobs of one transaction, for projects ps[1], ps[2], ..., appear at once.
Submit(ps) ==
  /\ Len(ps) > 0 /\ nextJob + Len(ps) - 1 <= MaxJobs
  /\ \A i \in DOMAIN ps : ps[i] \in projects
  /\ nextJob' = nextJob + Len(ps)
  /\ LET fresh == nextJob..(nextJob + Len(ps) - 1) IN
     /\ status' = [j \in JobId |-> IF j \in fresh THEN "queued" ELSE status[j]]
     /\ target' = [j \in JobId |->
                     IF j \in fresh THEN ps[j - nextJob + 1] ELSE target[j]]
  /\ UNCHANGED projects

Take(j) ==
  /\ status[j] = "queued"
  /\ status' = [status EXCEPT ![j] = "running"]
  /\ UNCHANGED <<projects, nextJob, target>>

\* Any set S of taken jobs returns to the queue in one step.
GiveBack(S) ==
  /\ \A j \in S : status[j] = "running"
  /\ status' = [j \in JobId |-> IF j \in S THEN "queued" ELSE status[j]]
  /\ UNCHANGED <<projects, nextJob, target>>

\* A job that was given back may still be ended by whoever took it before.
End(j) ==
  /\ status[j] \in {"queued", "running"}
  /\ status' = [status EXCEPT ![j] = "ended"]
  /\ UNCHANGED <<projects, nextJob, target>>

\* Any set P of projects goes at once, alone or with their folder.
Drop(P) ==
  /\ P \subseteq projects
  /\ projects' = projects \ P
  /\ status' = [j \in JobId |-> IF target[j] \in P THEN "absent" ELSE status[j]]
  /\ target' = [j \in JobId |-> IF target[j] \in P THEN NULL ELSE target[j]]
  /\ UNCHANGED nextJob

\* Ids of projects come from a sequence of their own.
Add(p) ==
  /\ p \notin projects
  /\ projects' = projects \cup {p}
  /\ UNCHANGED <<nextJob, status, target>>

LifeNext ==
  \/ \E n \in 1..(MaxJobs + 1 - nextJob) : \E ps \in [1..n -> projects] : Submit(ps)
  \/ \E S \in SUBSET JobId : GiveBack(S)
  \/ \E j \in JobId : Take(j) \/ End(j)
  \/ \E p \in Project : Add(p)
  \/ \E P \in SUBSET Project : Drop(P)

LifeSpec == LifeInit /\ [][LifeNext]_lifeVars
=============================================================================
