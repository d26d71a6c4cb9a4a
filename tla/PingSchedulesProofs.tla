-------------------------- MODULE PingSchedulesProofs --------------------------
(***************************************************************************)
(* Proofs about PingSchedules, for any workers, requests at a time,        *)
(* projects in any folders, schedules, edits and bounds.                   *)
(***************************************************************************)
EXTENDS PingSchedules, CommonLemmas

(***************************************************************************)
(* The inductive invariant.                                                *)
(***************************************************************************)

\* A job that is there is one of a project that is there.
JobsOK ==
  \A j \in JobId : /\ (status[j] = "absent") <=> (target[j] = NULL)
                   /\ target[j] \in projects \cup {NULL}
                   /\ j >= nextJob => status[j] = "absent"

\* A project lies in a folder; a schedule has an interval.
RowsOK ==
  /\ \A p \in projects : Home[p] \in folders
  /\ \A o \in Owner : sched[o] # NoSchedule => sched[o].interval # 0

\* Outside a pass nothing of it is left; in a pass, each schedule that was due
\* was read once, and still has its row unless its owner is gone.
PassOK(w) ==
  /\ pc[w] # "pass" => due[w] = {} /\ left[w] = {} /\ pend[w] = <<>>
  /\ \A s \in due[w] : /\ s.owner \notin unborn /\ s.row.next # NULL
                       /\ s.owner \in Live => sched[s.owner] # NoSchedule
                       /\ \A r \in due[w] : r.owner = s.owner => r = s

\* What a request is about exists or is gone for good, and so is the row it read.
FormOK(h) ==
  LET f == form[h]
  IN /\ pc[h] \in {"first", "save"} => f.owner \in Owner \ unborn
     /\ pc[h] = "first" => f.old = NoSchedule
     /\ pc[h] = "save" => /\ f.new.interval # 0
                          /\ f.new.enabled <=> f.new.next # NULL
                          /\ f.old # NoSchedule /\ f.owner \in Live
                               => sched[f.owner] # NoSchedule

\* With one request at a time, nobody switches a schedule on or off between the
\* read of a request and its write.
StillAsRead ==
  OneAtATime =>
    \A h \in Handler : pc[h] = "save" =>
      LET f == form[h]
      IN f.old # NoSchedule /\ sched[f.owner] # NoSchedule
           => (sched[f.owner].enabled <=> f.old.enabled)

\* Nobody asks.
Unasked == \A h \in Handler : pc[h] = "off"

\* The jobs for p in the session of worker w, and the schedules over p that its
\* pass has looked at.
Added(w, p) == {k \in DOMAIN pend[w] : pend[w][k] = p}
Looked(w, p) == {o \in {p, Home[p]} : \E s \in due[w] \ left[w] : s.owner = o}

\* A pass adds at most one job for p with each schedule over p it looks at, and
\* none when p has an active one.
WithinSchedules(p) ==
  /\ Cardinality(ActiveJobs(p)) <= Cardinality(SchedulesOf(p))
  /\ \A w \in Worker : /\ Cardinality(Added(w, p)) <= Cardinality(Looked(w, p))
                       /\ Added(w, p) # {} => ActiveJobs(p) = {}

Inv ==
  /\ TypeOK /\ left \in [Worker -> SUBSET Read]
  /\ JobsOK /\ RowsOK /\ EnabledHasNext /\ StillAsRead
  /\ \A w \in Worker : PassOK(w)
  /\ \A h \in Handler : FormOK(h)
  /\ Unasked => \A p \in projects : WithinSchedules(p)

-----------------------------------------------------------------------------
(***************************************************************************)
(* The jobs that join a session.                                           *)
(***************************************************************************)

\* What enqueue_project_ping adds for the projects of S: those without an active
\* job, each once, behind what the session has.
LEMMA EnqueueFacts ==
  ASSUME TypeOK, NEW x \in Worker \cup Handler, NEW S \in SUBSET Project, Enqueue(x, S)
  PROVE  /\ pend' \in [Worker \cup Handler -> Seq(Project)]
         /\ \A y \in Worker \cup Handler : y # x => pend'[y] = pend[y]
         /\ DOMAIN pend[x] \subseteq DOMAIN pend'[x]
         /\ \A k \in DOMAIN pend[x] : pend'[x][k] = pend[x][k]
         /\ \A k \in DOMAIN pend'[x] \ DOMAIN pend[x] :
              /\ pend'[x][k] \in S /\ ~Active(pend'[x][k])
              /\ \A m \in DOMAIN pend'[x] \ DOMAIN pend[x] :
                   pend'[x][m] = pend'[x][k] => m = k
<1> DEFINE new == {p \in S : ~Active(p)}
<1>1. projects \subseteq Project /\ pend \in [Worker \cup Handler -> Seq(Project)]
  BY DEF TypeOK, LifeTypeOK
<1>2. IsFiniteSet(new)  BY <1>1, FS_Subset, OwnersAssumption
<1>3. PICK t \in Seq(new) : /\ t = SetToSeq(new)
                            /\ \A i, j \in 1..Len(t) : t[i] = t[j] => i = j
  BY <1>2, SetToSeqFacts
<1>4. /\ pend' = [pend EXCEPT ![x] = pend[x] \o t]  BY <1>3 DEF Enqueue
<1>5. t \in Seq(Project)
  <2>1. new \subseteq Project  BY <1>1
  <2>. QED  BY <2>1, <1>3
<1>6. PICK q \in Seq(Project) : q = pend[x]  BY <1>1
<1>7. /\ q \o t \in Seq(Project) /\ Len(q \o t) = Len(q) + Len(t)
      /\ \A k \in 1..Len(q) : (q \o t)[k] = q[k]
      /\ \A k \in (Len(q) + 1)..(Len(q) + Len(t)) : (q \o t)[k] = t[k - Len(q)]
  BY <1>5
<1>8. pend'[x] = q \o t /\ pend' \in [Worker \cup Handler -> Seq(Project)]
      /\ \A y \in Worker \cup Handler : y # x => pend'[y] = pend[y]
  BY <1>1, <1>4, <1>6, <1>7
<1>9. Len(q) \in Nat /\ Len(t) \in Nat /\ DOMAIN q = 1..Len(q) /\ DOMAIN t = 1..Len(t)
      /\ DOMAIN (q \o t) = 1..(Len(q) + Len(t))
  BY <1>3, <1>5, <1>7
<1>10. \A k \in DOMAIN (q \o t) \ DOMAIN q : k - Len(q) \in 1..Len(t) /\ (q \o t)[k] = t[k - Len(q)]
  BY <1>7, <1>9
<1>11. ASSUME NEW k \in DOMAIN (q \o t) \ DOMAIN q
       PROVE  /\ (q \o t)[k] \in S /\ ~Active((q \o t)[k])
              /\ \A m \in DOMAIN (q \o t) \ DOMAIN q : (q \o t)[m] = (q \o t)[k] => m = k
  <2>1. k - Len(q) \in 1..Len(t) /\ (q \o t)[k] = t[k - Len(q)]  BY <1>10
  <2>2. t[k - Len(q)] \in new  BY <1>3, <2>1
  <2>3. ASSUME NEW m \in DOMAIN (q \o t) \ DOMAIN q, (q \o t)[m] = (q \o t)[k]
        PROVE  m = k
    <3>1. m - Len(q) \in 1..Len(t) /\ (q \o t)[m] = t[m - Len(q)]  BY <1>10
    <3>2. m - Len(q) = k - Len(q)  BY <1>3, <2>1, <2>3, <3>1
    <3>. QED  BY <1>9, <3>2
  <2>. QED  BY <2>1, <2>2, <2>3
<1>. QED  BY <1>6, <1>7, <1>8, <1>9, <1>11

-----------------------------------------------------------------------------
(***************************************************************************)
(* Counting jobs and schedules.                                            *)
(***************************************************************************)

\* Two schedules at most.
LEMMA AtMostTwo ==
  ASSUME NEW a, NEW b, NEW S, S \subseteq {a, b}
  PROVE  IsFiniteSet(S) /\ Cardinality(S) \in Nat
<1>1. IsFiniteSet({a} \cup {b})  BY FS_Singleton, FS_AddElement
<1>2. {a} \cup {b} = {a, b}  OBVIOUS
<1>3. IsFiniteSet(S)  BY <1>1, <1>2, FS_Subset
<1>. QED  BY <1>3, FS_CardinalityType

\* Fewer jobs, and more schedules.
LEMMA FewerOrMore ==
  ASSUME NEW J, NEW K, IsFiniteSet(K), J \subseteq K,
         NEW a, NEW b, NEW S, NEW T, S \subseteq T, T \subseteq {a, b},
         Cardinality(K) <= Cardinality(S)
  PROVE  Cardinality(J) <= Cardinality(T)
<1>1. IsFiniteSet(T)  BY AtMostTwo
<1>2. IsFiniteSet(J) /\ Cardinality(J) <= Cardinality(K)  BY FS_Subset
<1>3. IsFiniteSet(S) /\ Cardinality(S) <= Cardinality(T)  BY <1>1, FS_Subset
<1>4. /\ Cardinality(J) \in Nat /\ Cardinality(K) \in Nat
      /\ Cardinality(S) \in Nat /\ Cardinality(T) \in Nat
  BY <1>1, <1>2, <1>3, FS_CardinalityType
<1>. QED  BY <1>2, <1>3, <1>4

\* One more of each.
LEMMA OneMore ==
  ASSUME NEW K, IsFiniteSet(K), NEW k, NEW J, J \subseteq K \cup {k},
         NEW S, IsFiniteSet(S), NEW o, o \notin S,
         Cardinality(K) <= Cardinality(S)
  PROVE  Cardinality(J) <= Cardinality(S \cup {o})
<1>1. /\ IsFiniteSet(K \cup {k}) /\ Cardinality(K \cup {k}) <= Cardinality(K) + 1
      /\ Cardinality(S \cup {o}) = Cardinality(S) + 1
  <2>1. Cardinality(K) \in Nat  BY FS_CardinalityType
  <2>2. /\ IsFiniteSet(K \cup {k})
        /\ Cardinality(K \cup {k}) = IF k \in K THEN Cardinality(K) ELSE Cardinality(K) + 1
    BY FS_AddElement
  <2>3. Cardinality(S \cup {o}) = Cardinality(S) + 1  BY FS_AddElement
  <2>. QED  BY <2>1, <2>2, <2>3
<1>2. IsFiniteSet(J) /\ Cardinality(J) <= Cardinality(K \cup {k})  BY <1>1, FS_Subset
<1>3. /\ Cardinality(J) \in Nat /\ Cardinality(K) \in Nat /\ Cardinality(S) \in Nat
      /\ Cardinality(K \cup {k}) \in Nat
  BY <1>1, <1>2, FS_CardinalityType
<1>. QED  BY <1>1, <1>2, <1>3

\* As many places of a sequence as ids that follow one another from n.
LEMMA PlacesOfJobs ==
  ASSUME NEW A, A \subseteq Nat, IsFiniteSet(A), NEW n \in Nat,
         NEW J, J \subseteq Nat, \A j \in J : j - n + 1 \in A
  PROVE  IsFiniteSet(J) /\ Cardinality(J) <= Cardinality(A)
<1> DEFINE f == [j \in J |-> j - n + 1]
<1>1. f \in [J -> A]  OBVIOUS
<1>2. ASSUME NEW i \in J, NEW j \in J, f[i] = f[j] PROVE i = j
  <2>1. i \in Nat /\ j \in Nat /\ i - n + 1 = j - n + 1  BY <1>2
  <2>. QED  BY <2>1
<1>3. f \in Injection(J, A)
  <2>. HIDE DEF f
  <2>. QED  BY <1>1, <1>2 DEF Injection, IsInjective
<1>. QED  BY <1>3, FS_Injection

\* The jobs of a project, and the places of a session.
LEMMA CountedFinite ==
  ASSUME TypeOK, NEW p, NEW w \in Worker
  PROVE  /\ IsFiniteSet(ActiveJobs(p))
         /\ IsFiniteSet(Added(w, p)) /\ Added(w, p) \subseteq Nat
<1>1. IsFiniteSet(JobId)
  <2>1. IsFiniteSet(1..MaxJobs)  BY LimitsAssumption, FS_Interval
  <2>. QED  BY <2>1 DEF JobId
<1>2. ActiveJobs(p) \subseteq JobId  BY DEF ActiveJobs
<1>3. pend[w] \in Seq(Project)  BY DEF TypeOK
<1>4. Len(pend[w]) \in Nat /\ DOMAIN pend[w] = 1..Len(pend[w])  BY <1>3
<1>5. IsFiniteSet(1..Len(pend[w])) /\ 1..Len(pend[w]) \subseteq Nat  BY <1>4, FS_Interval
<1>6. Added(w, p) \subseteq 1..Len(pend[w])  BY <1>4 DEF Added
<1>. QED  BY <1>1, <1>2, <1>5, <1>6, FS_Subset

\* A session with no jobs has none for p.
LEMMA EmptySession ==
  ASSUME NEW w, pend'[w] = <<>>, NEW p
  PROVE  Cardinality(Added(w, p)') <= Cardinality(Looked(w, p)') /\ Added(w, p)' = {}
<1>1. Added(w, p)' = {}  BY DEF Added
<1>2. Looked(w, p)' \subseteq {p, Home[p]}  BY DEF Looked
<1>3. Cardinality(Looked(w, p)') \in Nat  BY <1>2, AtMostTwo
<1>4. Cardinality({}) = 0  BY FS_EmptySet
<1>. QED  BY <1>1, <1>3, <1>4

\* Jobs that end or go, and schedules that come, while no pass moves.
LEMMA StillWithin ==
  ASSUME Inv, UNCHANGED <<due, left, pend>>, Unasked,
         NEW p \in projects,
         ActiveJobs(p)' \subseteq ActiveJobs(p), SchedulesOf(p) \subseteq SchedulesOf(p)'
  PROVE  WithinSchedules(p)'
<1>1. WithinSchedules(p) /\ TypeOK  BY DEF Inv
<1>2. IsFiniteSet(ActiveJobs(p))
  <2>1. ActiveJobs(p) \subseteq JobId  BY DEF ActiveJobs
  <2>2. IsFiniteSet(1..MaxJobs)  BY LimitsAssumption, FS_Interval
  <2>. QED  BY <2>1, <2>2, FS_Subset DEF JobId
<1>3. SchedulesOf(p)' \subseteq {p, Home[p]}  BY DEF SchedulesOf
<1>4. Cardinality(ActiveJobs(p)) <= Cardinality(SchedulesOf(p))  BY <1>1 DEF WithinSchedules
<1>5. Cardinality(ActiveJobs(p)') <= Cardinality(SchedulesOf(p)')
  BY <1>2, <1>3, <1>4, FewerOrMore
<1>6. \A w \in Worker : Added(w, p)' = Added(w, p) /\ Looked(w, p)' = Looked(w, p)
  BY DEF Added, Looked
<1>. QED  BY <1>1, <1>5, <1>6 DEF WithinSchedules

-----------------------------------------------------------------------------
(***************************************************************************)
(* Every step keeps the invariant: first the steps of a worker that change *)
(* no table.                                                               *)
(***************************************************************************)

LEMMA WorkerFrame ==
  ASSUME Inv, NEW w \in Worker, UNCHANGED <<lifeVars, tables, form>>,
         TypeOK', left' \in [Worker -> SUBSET Read],
         \A x \in Worker \cup Handler : x # w => pc'[x] = pc[x] /\ pend'[x] = pend[x],
         \A v \in Worker : v # w => due'[v] = due[v] /\ left'[v] = left[v],
         PassOK(w)',
         Unasked => \A p \in projects :
           /\ Cardinality(Added(w, p)') <= Cardinality(Looked(w, p)')
           /\ Added(w, p)' # {} => ActiveJobs(p) = {}
  PROVE  Inv'
<1>1. UNCHANGED <<projects, nextJob, status, target, folders, unborn, sched, form>>
  BY DEF lifeVars, tables
<1>2. \A h \in Handler : pc'[h] = pc[h]  BY DistinctAssumption
<1>3. JobsOK' /\ RowsOK' /\ EnabledHasNext'
  BY <1>1 DEF Inv, JobsOK, RowsOK, EnabledHasNext
<1>4. StillAsRead'  BY <1>1, <1>2 DEF Inv, StillAsRead
<1>5. ASSUME NEW v \in Worker PROVE PassOK(v)'
  <2>1. CASE v = w  BY <2>1
  <2>2. CASE v # w
    <3>1. pc'[v] = pc[v] /\ pend'[v] = pend[v] /\ due'[v] = due[v] /\ left'[v] = left[v]
      BY <2>2
    <3>. QED  BY <1>1, <3>1 DEF Inv, PassOK, Live
  <2>. QED  BY <2>1, <2>2
<1>6. ASSUME NEW h \in Handler PROVE FormOK(h)'
  BY <1>1, <1>2 DEF Inv, FormOK, Live
<1>7. ASSUME Unasked', NEW p \in projects' PROVE WithinSchedules(p)'
  <2>1. Unasked /\ p \in projects  BY <1>1, <1>2, <1>7 DEF Unasked
  <2>2. WithinSchedules(p)  BY <2>1 DEF Inv
  <2>3. ActiveJobs(p)' = ActiveJobs(p) /\ SchedulesOf(p)' = SchedulesOf(p)
    BY <1>1 DEF ActiveJobs, SchedulesOf
  <2>4. ASSUME NEW v \in Worker
        PROVE  /\ Cardinality(Added(v, p)') <= Cardinality(Looked(v, p)')
               /\ Added(v, p)' # {} => ActiveJobs(p) = {}
    <3>1. CASE v = w  BY <2>1, <3>1
    <3>2. CASE v # w
      <4>1. Added(v, p)' = Added(v, p) /\ Looked(v, p)' = Looked(v, p)
        BY <3>2 DEF Added, Looked
      <4>. QED  BY <2>2, <4>1 DEF WithinSchedules
    <3>. QED  BY <3>1, <3>2
  <2>. QED  BY <2>2, <2>3, <2>4 DEF WithinSchedules
<1>. QED  BY <1>3, <1>4, <1>5, <1>6, <1>7 DEF Inv

LEMMA EnsureKeeps ==
  ASSUME Inv, NEW w \in Worker, Ensure(w)
  PROVE  Inv'
<1>1. UNCHANGED <<lifeVars, now, tables, due, left, pend, form, crashes>>  BY DEF Ensure
<1>2. pc[w] = "ensure" /\ pc'[w] \in {"insert", "due"}
      /\ \A x \in Worker \cup Handler : x # w => pc'[x] = pc[x]
  BY DEF Ensure, Inv, TypeOK, PcOK
<1>3. TypeOK'
  <2>1. UNCHANGED <<projects, nextJob, status, target, folders, unborn, sched, now, crashes,
                    due, left, pend, form>>
    BY <1>1 DEF lifeVars, tables
  <2>2. LifeTypeOK'  BY <2>1 DEF Inv, TypeOK, LifeTypeOK
  <2>3. Missing \subseteq Project  BY DEF Missing, Inv, TypeOK, LifeTypeOK
  <2>4. missing' \in [Worker -> SUBSET Project] /\ polledAt' \in [Worker -> Nat]
    BY <2>3 DEF Ensure, Inv, TypeOK
  <2>5. schedLock' \in Worker \cup {NULL}
    BY DEF Ensure, Inv, TypeOK
  <2>6. PcOK'
    <3>1. pc' \in [Worker \cup Handler -> {"ensure", "insert", "due", "pass", "idle",
                                           "first", "save", "ask", "answer", "off"}]
      BY DEF Ensure, Inv, TypeOK, PcOK
    <3>2. ASSUME NEW v \in Worker, pc'[v] \in {"insert", "pass"} PROVE schedLock' = v
      <4>1. CASE v = w  BY <1>2, <3>2, <4>1 DEF Ensure, Inv, TypeOK, PcOK
      <4>2. CASE v # w
        <5>1. schedLock = v  BY <1>2, <3>2, <4>2 DEF Inv, TypeOK, PcOK
        <5>2. schedLock \notin {NULL, w}  BY <4>2, <5>1, DistinctAssumption
        <5>. QED  BY <5>1, <5>2 DEF Ensure, LockFree
      <4>. QED  BY <4>1, <4>2
    <3>. QED  BY <3>1, <3>2 DEF PcOK
  <2>7. \A o \in Owner : o \notin Live' => sched'[o] = NoSchedule
    BY <2>1 DEF Inv, TypeOK, Live
  <2>. QED  BY <2>1, <2>2, <2>4, <2>5, <2>6, <2>7 DEF Inv, TypeOK
<1>4. PassOK(w)'
  BY <1>1, <1>2 DEF Inv, PassOK, Live, lifeVars, tables
<1>5. left' \in [Worker -> SUBSET Read]  BY <1>1 DEF Inv
<1>6. \A p \in projects : Cardinality(Added(w, p)') <= Cardinality(Looked(w, p)') /\ Added(w, p)' = {}
  <2>1. pend'[w] = <<>>  BY <1>1, <1>2 DEF Inv, PassOK
  <2>. QED  BY <2>1, EmptySession
<1>. QED  BY <1>1, <1>2, <1>3, <1>4, <1>5, <1>6, WorkerFrame

LEMMA ReadDueKeeps ==
  ASSUME Inv, NEW w \in Worker, ReadDue(w)
  PROVE  Inv'
<1> DEFINE D == {[owner |-> o, row |-> sched[o]] : o \in {q \in Live : IsDue(q, now)}}
<1>1. UNCHANGED <<projects, nextJob, status, target, folders, unborn, sched, now, crashes,
                  missing, pend, form>>
  BY DEF ReadDue, lifeVars, tables
<1>2. pc[w] = "due" /\ pc'[w] \in {"pass", "ensure"}
      /\ \A x \in Worker \cup Handler : x # w => pc'[x] = pc[x]
  BY DEF ReadDue, Inv, TypeOK, PcOK
<1>3. /\ due' \in [Worker -> SUBSET Read] /\ left' \in [Worker -> SUBSET Read]
      /\ \A v \in Worker : v # w => due'[v] = due[v] /\ left'[v] = left[v]
      /\ due'[w] \in {due[w], D} /\ left'[w] = IF due'[w] = due[w] THEN left'[w] ELSE due'[w]
      /\ left'[w] \subseteq due'[w]
      /\ due'[w] # due[w] => pc'[w] = "pass"
      /\ pc'[w] # "pass" => due'[w] = due[w] /\ left'[w] = left[w]
  <2>1. D \subseteq Read
    BY DEF Inv, TypeOK, LifeTypeOK, Live, Owner, Read
  <2>2. due \in [Worker -> SUBSET Read] /\ left \in [Worker -> SUBSET Read]
        /\ left[w] \subseteq due[w]
    BY DEF Inv, TypeOK
  <2>3. CASE LockFree(w) /\ D # {}
    <3>1. due' = [due EXCEPT ![w] = D] /\ left' = [left EXCEPT ![w] = D]
          /\ pc' = [pc EXCEPT ![w] = "pass"]
      BY <2>3 DEF ReadDue
    <3>2. pc'[w] = "pass"  BY <3>1 DEF Inv, TypeOK, PcOK
    <3>. QED  BY <2>1, <2>2, <3>1, <3>2
  <2>4. CASE ~(LockFree(w) /\ D # {})
    <3>1. due' = due /\ left' = left  BY <2>4 DEF ReadDue
    <3>. QED  BY <2>2, <3>1
  <2>. QED  BY <2>3, <2>4
<1>4. TypeOK'
  <2>1. LifeTypeOK'  BY <1>1 DEF Inv, TypeOK, LifeTypeOK
  <2>2. polledAt' \in [Worker -> Nat] /\ schedLock' \in Worker \cup {NULL}
    BY DEF ReadDue, Inv, TypeOK
  <2>3. PcOK'
    <3>1. pc' \in [Worker \cup Handler -> {"ensure", "insert", "due", "pass", "idle",
                                           "first", "save", "ask", "answer", "off"}]
      <4>1. \E l \in {"pass", "ensure"} : pc' = [pc EXCEPT ![w] = l]  BY DEF ReadDue
      <4>. QED  BY <4>1 DEF Inv, TypeOK, PcOK
    <3>2. ASSUME NEW v \in Worker, pc'[v] \in {"insert", "pass"} PROVE schedLock' = v
      <4>1. CASE v = w  BY <1>2, <3>2, <4>1 DEF ReadDue, Inv, TypeOK, PcOK
      <4>2. CASE v # w
        <5>1. schedLock = v  BY <1>2, <3>2, <4>2 DEF Inv, TypeOK, PcOK
        <5>2. schedLock \notin {NULL, w}  BY <4>2, <5>1, DistinctAssumption
        <5>. QED  BY <5>1, <5>2 DEF ReadDue, LockFree
      <4>. QED  BY <4>1, <4>2
    <3>. QED  BY <3>1, <3>2 DEF PcOK
  <2>4. \A o \in Owner : o \notin Live' => sched'[o] = NoSchedule
    BY <1>1 DEF Inv, TypeOK, Live
  <2>5. \A v \in Worker : left'[v] \subseteq due'[v]
    BY <1>3 DEF Inv, TypeOK
  <2>. QED  BY <1>1, <1>3, <2>1, <2>2, <2>3, <2>4, <2>5 DEF Inv, TypeOK
<1>5. PassOK(w)'
  <2>1. ASSUME NEW s \in D
        PROVE  /\ s.owner \notin unborn /\ s.row.next # NULL
               /\ sched[s.owner] # NoSchedule
               /\ s = [owner |-> s.owner, row |-> sched[s.owner]]
    <3>1. PICK o \in Live : IsDue(o, now) /\ s = [owner |-> o, row |-> sched[o]]
      BY <2>1
    <3>2. o \notin unborn  BY OwnersAssumption DEF Inv, TypeOK, Live
    <3>3. sched[o].enabled /\ sched[o].next # NULL  BY <3>1 DEF IsDue
    <3>4. sched[o] # NoSchedule  BY <3>3 DEF NoSchedule
    <3>. QED  BY <3>1, <3>2, <3>3, <3>4
  <2>2. PassOK(w)  BY DEF Inv
  <2>3. CASE due'[w] = D /\ pc'[w] = "pass"  BY <1>1, <2>1, <2>3 DEF PassOK
  <2>4. CASE ~(due'[w] = D /\ pc'[w] = "pass")
    <3>1. due'[w] = due[w]  BY <1>3, <2>4
    <3>2. due[w] = {} /\ left[w] = {} /\ pend[w] = <<>>  BY <1>2, <2>2 DEF PassOK
    <3>. QED  BY <1>1, <1>3, <3>1, <3>2 DEF PassOK
  <2>. QED  BY <2>3, <2>4
<1>6. \A p \in projects : Cardinality(Added(w, p)') <= Cardinality(Looked(w, p)') /\ Added(w, p)' = {}
  <2>1. pend'[w] = <<>>  BY <1>1, <1>2 DEF Inv, PassOK
  <2>. QED  BY <2>1, EmptySession
<1>. QED  BY <1>1, <1>2, <1>3, <1>4, <1>5, <1>6, WorkerFrame DEF lifeVars, tables

\* What the schedules that are due add for a project whose folder has none is
\* what its own schedule adds.
LEMMA PassScheduleKeeps ==
  ASSUME Inv, NEW w \in Worker, PassSchedule(w)
  PROVE  Inv'
<1>1. UNCHANGED <<projects, nextJob, status, target, folders, unborn, sched, now, crashes,
                  missing, polledAt, schedLock, due, pc, form>>
  BY DEF PassSchedule, lifeVars, tables
<1>2. PICK s \in left[w] : /\ Enqueue(w, Reaches(s.owner))
                           /\ left' = [left EXCEPT ![w] = @ \ {s}]
  BY DEF PassSchedule
<1>3. /\ left \in [Worker -> SUBSET Read] /\ s \in due[w] /\ s.owner \in Owner /\ pc[w] = "pass"
      /\ left[w] \subseteq due[w]
  BY <1>2 DEF Inv, TypeOK, Read, PassSchedule
<1>4. left' \in [Worker -> SUBSET Read] /\ left'[w] = left[w] \ {s}
      /\ \A v \in Worker : v # w => left'[v] = left[v]
  BY <1>2, <1>3
<1>5. Reaches(s.owner) \in SUBSET Project
  BY DEF Reaches, Inv, TypeOK, LifeTypeOK
<1>6. /\ pend' \in [Worker \cup Handler -> Seq(Project)]
      /\ \A y \in Worker \cup Handler : y # w => pend'[y] = pend[y]
      /\ DOMAIN pend[w] \subseteq DOMAIN pend'[w]
      /\ \A k \in DOMAIN pend[w] : pend'[w][k] = pend[w][k]
      /\ \A k \in DOMAIN pend'[w] \ DOMAIN pend[w] :
           /\ pend'[w][k] \in Reaches(s.owner) /\ ~Active(pend'[w][k])
           /\ \A m \in DOMAIN pend'[w] \ DOMAIN pend[w] : pend'[w][m] = pend'[w][k] => m = k
  <2>1. TypeOK  BY DEF Inv
  <2>. QED  BY <1>2, <1>5, <2>1, EnqueueFacts
<1>7. TypeOK'
  <2>1. LifeTypeOK' /\ PcOK'  BY <1>1 DEF Inv, TypeOK, LifeTypeOK, PcOK
  <2>2. \A o \in Owner : o \notin Live' => sched'[o] = NoSchedule
    BY <1>1 DEF Inv, TypeOK, Live
  <2>3. \A v \in Worker : left'[v] \subseteq due'[v]  BY <1>1, <1>4 DEF Inv, TypeOK
  <2>. QED  BY <1>1, <1>6, <2>1, <2>2, <2>3 DEF Inv, TypeOK
<1>8. PassOK(w)'  BY <1>1, <1>3 DEF Inv, PassOK, Live
<1>9. ASSUME Unasked, NEW p \in projects
      PROVE  /\ Cardinality(Added(w, p)') <= Cardinality(Looked(w, p)')
             /\ Added(w, p)' # {} => ActiveJobs(p) = {}
  <2>1. WithinSchedules(p) /\ PassOK(w) /\ TypeOK  BY <1>9 DEF Inv
  <2>2. /\ Cardinality(Added(w, p)) <= Cardinality(Looked(w, p))
        /\ Added(w, p) # {} => ActiveJobs(p) = {}
    BY <2>1 DEF WithinSchedules
  <2>3. /\ IsFiniteSet(Added(w, p)) /\ Added(w, p) \subseteq Added(w, p)'
        /\ \A k \in Added(w, p)' \ Added(w, p) :
             /\ k \in DOMAIN pend'[w] \ DOMAIN pend[w] /\ pend'[w][k] = p
    BY <1>6, <2>1, CountedFinite DEF Added
  <2>4. CASE p \notin Reaches(s.owner)
    <3>1. Added(w, p)' = Added(w, p)  BY <1>6, <2>3, <2>4
    <3>2. s.owner \notin {p, Home[p]}  BY <1>9, <2>4, OwnersAssumption DEF Reaches, Inv, TypeOK, LifeTypeOK
    <3>3. Looked(w, p)' = Looked(w, p)  BY <1>1, <1>4, <3>2 DEF Looked
    <3>. QED  BY <2>2, <3>1, <3>3
  <2>5. CASE p \in Reaches(s.owner)
    <3>1. s.owner \in {p, Home[p]}  BY <2>5 DEF Reaches
    <3>2. Looked(w, p)' = Looked(w, p) \cup {s.owner} /\ s.owner \notin Looked(w, p)
      BY <1>1, <1>2, <1>3, <1>4, <2>1, <3>1 DEF Looked, PassOK
    <3>3. IsFiniteSet(Looked(w, p))
      <4>1. Looked(w, p) \subseteq {p, Home[p]}  BY DEF Looked
      <4>. QED  BY <4>1, AtMostTwo
    <3>4. \E k : Added(w, p)' \subseteq Added(w, p) \cup {k}
      <4>1. CASE Added(w, p)' \ Added(w, p) = {}  BY <4>1
      <4>2. ASSUME NEW k \in Added(w, p)' \ Added(w, p)
            PROVE  Added(w, p)' \subseteq Added(w, p) \cup {k}
        BY <1>6, <2>3
      <4>. QED  BY <4>1, <4>2
    <3>5. Cardinality(Added(w, p)') <= Cardinality(Looked(w, p)')
      <4>1. PICK k : Added(w, p)' \subseteq Added(w, p) \cup {k}  BY <3>4
      <4>. QED  BY <2>2, <2>3, <3>2, <3>3, <4>1, OneMore
    <3>6. ASSUME NEW k \in Added(w, p)' \ Added(w, p) PROVE ActiveJobs(p) = {}
      <4>1. ~Active(p)  BY <1>6, <2>3
      <4>. QED  BY <4>1 DEF Active, ActiveJobs
    <3>. QED  BY <2>2, <3>5, <3>6
  <2>. QED  BY <2>4, <2>5
<1>. QED  BY <1>1, <1>4, <1>6, <1>7, <1>8, <1>9, WorkerFrame DEF lifeVars, tables

LEMMA CrashKeeps ==
  ASSUME Inv, NEW w \in Worker, Crash(w)
  PROVE  Inv'
<1>1. UNCHANGED <<projects, nextJob, status, target, folders, unborn, sched, now, form>>
  BY DEF Crash, lifeVars, tables
<1>2. /\ pc' = [pc EXCEPT ![w] = "ensure"] /\ due' = [due EXCEPT ![w] = {}]
      /\ left' = [left EXCEPT ![w] = {}] /\ pend' = [pend EXCEPT ![w] = <<>>]
      /\ polledAt' = [polledAt EXCEPT ![w] = 0] /\ missing' = [missing EXCEPT ![w] = {}]
      /\ crashes' = crashes + 1 /\ schedLock' = IF schedLock = w THEN NULL ELSE schedLock
  BY DEF Crash
<1>3. /\ pc'[w] = "ensure" /\ due'[w] = {} /\ left'[w] = {} /\ pend'[w] = <<>>
      /\ \A x \in Worker \cup Handler : x # w => pc'[x] = pc[x] /\ pend'[x] = pend[x]
      /\ \A v \in Worker : v # w => due'[v] = due[v] /\ left'[v] = left[v]
  BY <1>2 DEF Inv, TypeOK, PcOK
<1>4. left' \in [Worker -> SUBSET Read]  BY <1>2 DEF Inv
<1>5. TypeOK'
  <2>1. LifeTypeOK'  BY <1>1 DEF Inv, TypeOK, LifeTypeOK
  <2>2. PcOK'
    <3>1. pc' \in [Worker \cup Handler -> {"ensure", "insert", "due", "pass", "idle",
                                           "first", "save", "ask", "answer", "off"}]
      BY <1>2 DEF Inv, TypeOK, PcOK
    <3>2. \A v \in Worker : pc'[v] \in {"insert", "pass"} => schedLock' = v
      BY <1>2, <1>3 DEF Inv, TypeOK, PcOK
    <3>. QED  BY <3>1, <3>2 DEF PcOK
  <2>3. \A o \in Owner : o \notin Live' => sched'[o] = NoSchedule
    BY <1>1 DEF Inv, TypeOK, Live
  <2>4. pend' \in [Worker \cup Handler -> Seq(Project)]
    <3>1. <<>> \in Seq(Project)  OBVIOUS
    <3>. QED  BY <1>2, <3>1 DEF Inv, TypeOK
  <2>5. \A v \in Worker : left'[v] \subseteq due'[v]  BY <1>3 DEF Inv, TypeOK
  <2>. QED  BY <1>1, <1>2, <2>1, <2>2, <2>3, <2>4, <2>5 DEF Inv, TypeOK
<1>6. PassOK(w)'  BY <1>3 DEF PassOK
<1>7. \A p \in projects : Cardinality(Added(w, p)') <= Cardinality(Looked(w, p)') /\ Added(w, p)' = {}
  <2>1. pend'[w] = <<>>  BY <1>3
  <2>. QED  BY <2>1, EmptySession
<1>. QED  BY <1>1, <1>3, <1>4, <1>5, <1>6, <1>7, WorkerFrame DEF lifeVars, tables

-----------------------------------------------------------------------------
(***************************************************************************)
(* The commits of a worker.                                                *)
(***************************************************************************)

\* The row a project without a schedule gets.
LEMMA DefaultRowFacts ==
  ASSUME NEW t \in Nat
  PROVE  /\ DefaultRow(t) \in Row /\ DefaultRow(t) # NoSchedule
         /\ DefaultRow(t).enabled /\ DefaultRow(t).interval # 0 /\ DefaultRow(t).next # NULL
         /\ DefaultRow(t).next \in Nat
<1>1. t + DefaultInterval \in Nat /\ t + DefaultInterval # NULL
  BY IntervalsAssumption, DistinctAssumption
<1>. QED  BY <1>1, IntervalsAssumption DEF DefaultRow, NoSchedule, Row

\* The commit of the missing schedules changes no row that is there.
LEMMA EnsureCommitRows ==
  ASSUME Inv, NEW w \in Worker, EnsureCommit(w)
  PROVE  /\ sched' \in [Owner -> Row]
         /\ \A o \in Owner :
              \/ sched'[o] = sched[o]
              \/ /\ o \in projects /\ sched[o] = NoSchedule
                 /\ sched'[o] # NoSchedule /\ sched'[o].interval # 0 /\ sched'[o].next # NULL
<1> DEFINE row == DefaultRow(polledAt[w])
<1>1. row \in Row /\ row # NoSchedule /\ row.enabled /\ row.interval # 0 /\ row.next # NULL
  <2>1. polledAt[w] \in Nat  BY DEF Inv, TypeOK
  <2>. QED  BY <2>1, DefaultRowFacts
<1> HIDE DEF row
<1>2. sched \in [Owner -> Row]  BY DEF Inv, TypeOK
<1>3. CASE missing[w] \subseteq Missing
  <2>1. sched' = [o \in Owner |-> IF o \in missing[w] THEN row ELSE sched[o]]
    BY <1>3 DEF EnsureCommit, row
  <2>. QED  BY <1>1, <1>2, <1>3, <2>1 DEF Missing
<1>4. CASE ~(missing[w] \subseteq Missing)  BY <1>2, <1>4 DEF EnsureCommit
<1>. QED  BY <1>3, <1>4 DEF EnsureCommit

LEMMA EnsureCommitKeeps ==
  ASSUME Inv, NEW w \in Worker, EnsureCommit(w)
  PROVE  Inv'
<1>1. UNCHANGED <<projects, nextJob, status, target, folders, unborn, now, crashes,
                  due, left, pend, form>>
  BY DEF EnsureCommit, lifeVars
<1>2. /\ schedLock' = NULL
      /\ missing' = [missing EXCEPT ![w] = {}] /\ polledAt' = [polledAt EXCEPT ![w] = 0]
  BY DEF EnsureCommit
<1>3. /\ pc[w] = "insert" /\ pc'[w] \in {"due", "ensure"}
      /\ \A x \in Worker \cup Handler : x # w => pc'[x] = pc[x]
      /\ pc' \in [Worker \cup Handler -> {"ensure", "insert", "due", "pass", "idle",
                                          "first", "save", "ask", "answer", "off"}]
  BY DEF EnsureCommit, Inv, TypeOK, PcOK
<1>5. /\ sched' \in [Owner -> Row]
      /\ \A o \in Owner :
           \/ sched'[o] = sched[o]
           \/ /\ o \in projects /\ sched[o] = NoSchedule
              /\ sched'[o] # NoSchedule /\ sched'[o].interval # 0 /\ sched'[o].next # NULL
  BY EnsureCommitRows
<1>6. \A o \in Owner : sched[o] # NoSchedule => sched'[o] = sched[o]  BY <1>5
<1>7. projects \subseteq Owner /\ folders \subseteq Owner
  BY DEF Inv, TypeOK, LifeTypeOK, Owner
<1>8. TypeOK'
  <2>1. LifeTypeOK'  BY <1>1 DEF Inv, TypeOK, LifeTypeOK
  <2>2. PcOK'
    <3>1. ASSUME NEW v \in Worker, v # w PROVE pc'[v] \notin {"insert", "pass"}
      <4>1. pc[v] \in {"insert", "pass"} => v = w  BY <1>3 DEF Inv, TypeOK, PcOK
      <4>. QED  BY <1>3, <3>1, <4>1
    <3>. QED  BY <1>3, <3>1 DEF PcOK
  <2>3. \A o \in Owner : o \notin Live' => sched'[o] = NoSchedule
    BY <1>1, <1>5 DEF Inv, TypeOK, Live
  <2>4. missing' \in [Worker -> SUBSET Project] /\ polledAt' \in [Worker -> Nat]
    BY <1>2 DEF Inv, TypeOK
  <2>. QED  BY <1>1, <1>2, <1>5, <2>1, <2>2, <2>3, <2>4 DEF Inv, TypeOK
<1>9. JobsOK' /\ left' \in [Worker -> SUBSET Read]  BY <1>1 DEF Inv, JobsOK
<1>10. RowsOK'  BY <1>1, <1>5 DEF Inv, RowsOK
<1>11. EnabledHasNext'  BY <1>5 DEF Inv, EnabledHasNext
<1>12. \A h \in Handler : pc'[h] = pc[h]  BY <1>3, DistinctAssumption
<1>13. ASSUME NEW h \in Handler PROVE FormOK(h)'
  BY <1>1, <1>6, <1>12 DEF Inv, FormOK, Live
<1>14. StillAsRead'
  <2>1. SUFFICES ASSUME OneAtATime, NEW h \in Handler, pc'[h] = "save",
                        form[h].old # NoSchedule, sched'[form[h].owner] # NoSchedule
                 PROVE  sched'[form[h].owner].enabled <=> form[h].old.enabled
    BY <1>1 DEF StillAsRead
  <2>2. pc[h] = "save"  BY <1>12, <2>1
  <2>3. form[h].owner \in Owner /\ (form[h].owner \in Live => sched[form[h].owner] # NoSchedule)
    BY <2>1, <2>2 DEF Inv, FormOK
  <2>4. sched'[form[h].owner] = sched[form[h].owner]  BY <1>5, <2>3 DEF Live
  <2>. QED  BY <2>1, <2>2, <2>4 DEF Inv, StillAsRead
<1>15. ASSUME NEW v \in Worker PROVE PassOK(v)'
  <2>1. PassOK(v)  BY DEF Inv
  <2>2. pc'[v] # "pass" => pc[v] # "pass"
    <3>1. CASE v = w  BY <1>3, <3>1
    <3>2. CASE v # w  BY <1>3, <3>2
    <3>. QED  BY <3>1, <3>2
  <2>3. \A s \in due[v] : s.owner \in Owner  BY DEF Inv, TypeOK, Read
  <2>. QED  BY <1>1, <1>6, <2>1, <2>2, <2>3 DEF PassOK, Live
<1>16. ASSUME Unasked', NEW p \in projects' PROVE WithinSchedules(p)'
  <2>1. Unasked /\ p \in projects  BY <1>1, <1>12, <1>16 DEF Unasked
  <2>2. {p, Home[p]} \subseteq Owner  BY <2>1, <1>7, OwnersAssumption DEF Owner, Inv, TypeOK, LifeTypeOK
  <2>3. SchedulesOf(p) \subseteq SchedulesOf(p)'  BY <1>6, <2>2 DEF SchedulesOf
  <2>4. ActiveJobs(p)' = ActiveJobs(p)  BY <1>1 DEF ActiveJobs
  <2>. QED  BY <1>1, <2>1, <2>3, <2>4, StillWithin
<1>. QED  BY <1>8, <1>9, <1>10, <1>11, <1>13, <1>14, <1>15, <1>16 DEF Inv

\* The jobs of one transaction: each added job is there, and no other has changed.
LEMMA SubmitFacts ==
  ASSUME LifeTypeOK, JobsOK, NEW ps \in Seq(Project), Submit(ps)
  PROVE  /\ LifeTypeOK' /\ JobsOK' /\ projects' = projects
         /\ \A j \in JobId :
              \/ status'[j] = status[j] /\ target'[j] = target[j]
              \/ /\ j - nextJob + 1 \in DOMAIN ps
                 /\ target'[j] = ps[j - nextJob + 1]
<1> DEFINE fresh == nextJob..(nextJob + Len(ps) - 1)
<1>1. /\ Len(ps) \in Nat /\ nextJob \in Nat /\ nextJob > 0 /\ MaxJobs \in Nat
      /\ nextJob + Len(ps) - 1 <= MaxJobs /\ nextJob' = nextJob + Len(ps)
      /\ UNCHANGED projects /\ \A i \in DOMAIN ps : ps[i] \in projects
      /\ DOMAIN ps = 1..Len(ps) /\ Len(ps) > 0
  BY LimitsAssumption DEF Submit, LifeTypeOK
<1>2. /\ status' = [j \in JobId |-> IF j \in fresh THEN "queued" ELSE status[j]]
      /\ target' = [j \in JobId |-> IF j \in fresh THEN ps[j - nextJob + 1] ELSE target[j]]
  BY DEF Submit
<1>3. \A j \in fresh : j - nextJob + 1 \in DOMAIN ps  BY <1>1
<1>4. NULL \notin projects  BY DistinctAssumption DEF LifeTypeOK, Owner
<1>5. LifeTypeOK'
  <2>1. nextJob' \in 1..(MaxJobs + 1) /\ projects' \subseteq Project  BY <1>1 DEF LifeTypeOK
  <2>2. status' \in [JobId -> Life]  BY <1>2 DEF LifeTypeOK, Life
  <2>3. target' \in [JobId -> Project \cup {NULL}]
    BY <1>1, <1>2, <1>3 DEF LifeTypeOK
  <2>. QED  BY <2>1, <2>2, <2>3 DEF LifeTypeOK
<1>6. ASSUME NEW j \in JobId
      PROVE  /\ (status'[j] = "absent") <=> (target'[j] = NULL)
             /\ target'[j] \in projects' \cup {NULL}
             /\ j >= nextJob' => status'[j] = "absent"
             /\ \/ status'[j] = status[j] /\ target'[j] = target[j]
                \/ /\ j - nextJob + 1 \in DOMAIN ps
                   /\ target'[j] = ps[j - nextJob + 1]
  <2>1. CASE j \in fresh
    <3>1. status'[j] = "queued" /\ target'[j] = ps[j - nextJob + 1]  BY <1>2, <2>1
    <3>2. j - nextJob + 1 \in DOMAIN ps /\ ~(j >= nextJob')  BY <1>1, <1>3, <2>1
    <3>. QED  BY <1>1, <1>4, <3>1, <3>2
  <2>2. CASE j \notin fresh
    <3>1. status'[j] = status[j] /\ target'[j] = target[j]  BY <1>2, <2>2
    <3>2. j >= nextJob' => j >= nextJob  BY <1>1, LimitsAssumption DEF JobId
    <3>. QED  BY <1>1, <3>1, <3>2 DEF JobsOK
  <2>. QED  BY <2>1, <2>2
<1>. QED  BY <1>1, <1>5, <1>6 DEF JobsOK

\* The commit of the jobs of x's session: each is there, and no other has changed.
LEMMA InsertFacts ==
  ASSUME Inv, NEW x \in Worker \cup Handler, Insert(x)
  PROVE  /\ LifeTypeOK' /\ JobsOK' /\ projects' = projects
         /\ \A j \in JobId :
              \/ status'[j] = status[j] /\ target'[j] = target[j]
              \/ /\ j - nextJob + 1 \in DOMAIN pend[x]
                 /\ target'[j] = pend[x][j - nextJob + 1]
<1>1. LifeTypeOK /\ JobsOK /\ pend[x] \in Seq(Project)  BY DEF Inv, TypeOK
<1>2. CASE pend[x] = <<>>
  <2>1. UNCHANGED <<projects, nextJob, status, target>>  BY <1>2 DEF Insert, lifeVars
  <2>. QED  BY <1>1, <2>1 DEF LifeTypeOK, JobsOK
<1>3. CASE pend[x] # <<>>
  <2>1. Submit(pend[x])  BY <1>3 DEF Insert
  <2>. QED  BY <1>1, <2>1, SubmitFacts
<1>. QED  BY <1>2, <1>3

\* Nothing of a pass is with a worker that does not hold the lock.
LEMMA PassHolder ==
  ASSUME Inv, NEW w \in Worker, pc[w] = "pass", NEW v \in Worker, v # w
  PROVE  pc[v] # "pass" /\ due[v] = {} /\ left[v] = {} /\ pend[v] = <<>>
BY DEF Inv, TypeOK, PcOK, PassOK

\* A schedule of a pass gets its next run and keeps the rest of its row.
LEMMA PassedFacts ==
  ASSUME NEW row \in Row, NEW s \in Read, NEW t \in Nat
  PROVE  /\ Passed(row, s, t) \in Row /\ Passed(row, s, t) # NoSchedule
         /\ Passed(row, s, t).enabled = row.enabled
         /\ Passed(row, s, t).interval = row.interval
         /\ Passed(row, s, t).next \in Nat /\ Passed(row, s, t).next # NULL
<1>1. t + s.row.interval \in Nat  BY DEF Read, Row
<1>2. t + s.row.interval # NULL  BY <1>1, DistinctAssumption
<1> DEFINE n == t + s.row.interval
<1>3. Passed(row, s, t) = [row EXCEPT !.next = n]  BY DEF Passed
<1> HIDE DEF n
<1>4. n \in Nat /\ n # NULL  BY <1>1, <1>2 DEF n
<1>. QED  BY <1>3, <1>4 DEF Row, NoSchedule

\* The commit of a pass gives rows that are there their next run, and changes
\* nothing else in them.
LEMMA PassCommitRows ==
  ASSUME Inv, NEW w \in Worker, PassCommit(w)
  PROVE  /\ sched' \in [Owner -> Row]
         /\ \A o \in Owner :
              \/ sched'[o] = sched[o]
              \/ /\ sched[o] # NoSchedule /\ sched'[o] # NoSchedule /\ sched'[o].next # NULL
                 /\ sched'[o].enabled = sched[o].enabled
                 /\ sched'[o].interval = sched[o].interval
<1>1. sched \in [Owner -> Row] /\ due[w] \subseteq Read /\ polledAt[w] \in Nat
  BY DEF Inv, TypeOK
<1>2. CASE UNCHANGED sched  BY <1>1, <1>2
<1>3. CASE /\ \A s \in due[w] : sched[s.owner] # NoSchedule
           /\ sched' = [o \in Owner |->
                 IF \E s \in due[w] : s.owner = o
                 THEN Passed(sched[o], CHOOSE s \in due[w] : s.owner = o, polledAt[w])
                 ELSE sched[o]]
  <2>1. ASSUME NEW o \in Owner, \E s \in due[w] : s.owner = o
        PROVE  /\ sched'[o] \in Row /\ sched[o] # NoSchedule /\ sched'[o] # NoSchedule
               /\ sched'[o].next # NULL /\ sched'[o].enabled = sched[o].enabled
               /\ sched'[o].interval = sched[o].interval
    <3>1. PICK s \in due[w] : s.owner = o /\ s = CHOOSE r \in due[w] : r.owner = o
      BY <2>1
    <3>2. sched'[o] = Passed(sched[o], s, polledAt[w])  BY <1>3, <2>1, <3>1
    <3>3. s \in Read /\ sched[o] \in Row /\ sched[o] # NoSchedule  BY <1>1, <1>3, <3>1
    <3>. QED  BY <1>1, <3>2, <3>3, PassedFacts
  <2>2. \A o \in Owner : ~(\E s \in due[w] : s.owner = o) => sched'[o] = sched[o]
    BY <1>3
  <2>3. \A o \in Owner : sched'[o] \in Row  BY <1>1, <2>1, <2>2
  <2>4. sched' \in [Owner -> Row]  BY <1>3, <2>3
  <2>. QED  BY <2>1, <2>2, <2>4
<1>. QED  BY <1>2, <1>3 DEF PassCommit

LEMMA PassCommitKeeps ==
  ASSUME Inv, NEW w \in Worker, PassCommit(w)
  PROVE  Inv'
<1>1. UNCHANGED <<now, folders, unborn, missing, left, form, crashes>>  BY DEF PassCommit
<1>2. /\ schedLock' = NULL /\ due' = [due EXCEPT ![w] = {}] /\ pend' = [pend EXCEPT ![w] = <<>>]
      /\ polledAt' = [polledAt EXCEPT ![w] = 0] /\ pc' = [pc EXCEPT ![w] = "ensure"]
      /\ pc[w] = "pass" /\ left[w] = {}
  BY DEF PassCommit
<1>3. /\ pc'[w] = "ensure" /\ due'[w] = {} /\ pend'[w] = <<>>
      /\ \A x \in Worker \cup Handler : x # w => pc'[x] = pc[x] /\ pend'[x] = pend[x]
      /\ \A v \in Worker : v # w => due'[v] = due[v]
  BY <1>2 DEF Inv, TypeOK, PcOK
<1>4. \A v \in Worker :
        pc'[v] # "pass" /\ due'[v] = {} /\ left'[v] = {} /\ pend'[v] = <<>>
  BY <1>1, <1>2, <1>3, PassHolder
<1>5. /\ LifeTypeOK' /\ JobsOK' /\ projects' = projects
      /\ \A j \in JobId :
           \/ status'[j] = status[j] /\ target'[j] = target[j]
           \/ /\ j - nextJob + 1 \in DOMAIN pend[w]
              /\ target'[j] = pend[w][j - nextJob + 1]
  <2>1. CASE Insert(w)  BY <2>1, InsertFacts
  <2>2. CASE UNCHANGED lifeVars
    <3>1. UNCHANGED <<projects, nextJob, status, target>>  BY <2>2 DEF lifeVars
    <3>. QED  BY <3>1 DEF Inv, TypeOK, LifeTypeOK, JobsOK
  <2>. QED  BY <2>1, <2>2 DEF PassCommit
<1>6. /\ sched' \in [Owner -> Row]
      /\ \A o \in Owner :
           \/ sched'[o] = sched[o]
           \/ /\ sched[o] # NoSchedule /\ sched'[o] # NoSchedule /\ sched'[o].next # NULL
              /\ sched'[o].enabled = sched[o].enabled /\ sched'[o].interval = sched[o].interval
  BY PassCommitRows
<1>7. \A o \in Owner : (sched'[o] = NoSchedule <=> sched[o] = NoSchedule)  BY <1>6
<1>8. projects \subseteq Owner /\ folders \subseteq Owner
  BY DEF Inv, TypeOK, LifeTypeOK, Owner
<1>9. \A h \in Handler : pc'[h] = pc[h]  BY <1>3, DistinctAssumption
<1>10. TypeOK'
  <2>1. PcOK'
    <3>1. pc' \in [Worker \cup Handler -> {"ensure", "insert", "due", "pass", "idle",
                                           "first", "save", "ask", "answer", "off"}]
      BY <1>2 DEF Inv, TypeOK, PcOK
    <3>2. \A v \in Worker : pc'[v] # "insert"
      BY <1>2, <1>3 DEF Inv, TypeOK, PcOK
    <3>. QED  BY <1>4, <3>1, <3>2 DEF PcOK
  <2>2. \A o \in Owner : o \notin Live' => sched'[o] = NoSchedule
    BY <1>1, <1>5, <1>7 DEF Inv, TypeOK, Live
  <2>3. polledAt' \in [Worker -> Nat] /\ due' \in [Worker -> SUBSET Read]
        /\ \A v \in Worker : left'[v] \subseteq due'[v]
    BY <1>2, <1>4 DEF Inv, TypeOK
  <2>4. pend' \in [Worker \cup Handler -> Seq(Project)]
    <3>1. <<>> \in Seq(Project)  OBVIOUS
    <3>. QED  BY <1>2, <3>1 DEF Inv, TypeOK
  <2>. QED  BY <1>1, <1>2, <1>5, <1>6, <2>1, <2>2, <2>3, <2>4 DEF Inv, TypeOK
<1>11. left' \in [Worker -> SUBSET Read]  BY <1>1 DEF Inv
<1>12. RowsOK'  BY <1>1, <1>5, <1>6 DEF Inv, RowsOK
<1>13. EnabledHasNext'  BY <1>6 DEF Inv, EnabledHasNext
<1>14. ASSUME NEW h \in Handler PROVE FormOK(h)'
  BY <1>1, <1>5, <1>7, <1>9 DEF Inv, FormOK, Live
<1>15. StillAsRead'
  <2>1. SUFFICES ASSUME OneAtATime, NEW h \in Handler, pc'[h] = "save",
                        form[h].old # NoSchedule, sched'[form[h].owner] # NoSchedule
                 PROVE  sched'[form[h].owner].enabled <=> form[h].old.enabled
    BY <1>1 DEF StillAsRead
  <2>2. form[h].owner \in Owner  BY <1>9, <2>1 DEF Inv, FormOK
  <2>3. sched[form[h].owner] # NoSchedule
        /\ sched'[form[h].owner].enabled = sched[form[h].owner].enabled
    BY <1>6, <2>1, <2>2
  <2>. QED  BY <1>9, <2>1, <2>3 DEF Inv, StillAsRead
<1>16. ASSUME NEW v \in Worker PROVE PassOK(v)'
  BY <1>4 DEF PassOK
<1>17. ASSUME Unasked', NEW p \in projects' PROVE WithinSchedules(p)'
  <2>1. Unasked /\ p \in projects  BY <1>5, <1>9, <1>17 DEF Unasked
  <2>2. WithinSchedules(p) /\ TypeOK  BY <2>1 DEF Inv
  <2>3. {p, Home[p]} \subseteq Owner  BY <2>1, OwnersAssumption DEF Owner, Inv, TypeOK, LifeTypeOK
  <2>4. SchedulesOf(p)' = SchedulesOf(p) /\ SchedulesOf(p) \subseteq {p, Home[p]}
    BY <1>7, <2>3 DEF SchedulesOf
  <2>5. IsFiniteSet(ActiveJobs(p)) /\ IsFiniteSet(Added(w, p)) /\ Added(w, p) \subseteq Nat
    BY <2>2, CountedFinite
  <2>6. Cardinality(ActiveJobs(p)') <= Cardinality(SchedulesOf(p)')
    <3>1. CASE ActiveJobs(p)' \subseteq ActiveJobs(p)
      <4>1. Cardinality(ActiveJobs(p)) <= Cardinality(SchedulesOf(p))
        BY <2>2 DEF WithinSchedules
      <4>. QED  BY <2>4, <2>5, <3>1, <4>1, FewerOrMore
    <3>2. CASE ~(ActiveJobs(p)' \subseteq ActiveJobs(p))
      <4>1. PICK j \in ActiveJobs(p)' : j \notin ActiveJobs(p)  BY <3>2
      <4>2. j \in JobId /\ target'[j] = p /\ ~(status'[j] = status[j] /\ target'[j] = target[j])
        BY <4>1 DEF ActiveJobs
      <4>3. j - nextJob + 1 \in Added(w, p) /\ ~UNCHANGED lifeVars
        BY <1>5, <4>2 DEF Added, lifeVars
      <4>4. ActiveJobs(p) = {} /\ Cardinality(Added(w, p)) <= Cardinality(Looked(w, p))
        BY <2>2, <4>3 DEF WithinSchedules
      <4>5. \A i \in ActiveJobs(p)' : i - nextJob + 1 \in Added(w, p)
        <5>1. SUFFICES ASSUME NEW i \in ActiveJobs(p)' PROVE i - nextJob + 1 \in Added(w, p)
          OBVIOUS
        <5>2. i \in JobId /\ target'[i] = p /\ status'[i] \in {"queued", "running"}
          BY <5>1 DEF ActiveJobs
        <5>3. ~(status'[i] = status[i] /\ target'[i] = target[i])
          BY <4>4, <5>2 DEF ActiveJobs
        <5>. QED  BY <1>5, <5>2, <5>3 DEF Added
      <4>6. nextJob \in Nat /\ ActiveJobs(p)' \subseteq Nat
        BY LimitsAssumption DEF ActiveJobs, JobId, Inv, TypeOK, LifeTypeOK
      <4>7. Cardinality(ActiveJobs(p)') <= Cardinality(Added(w, p)) /\ IsFiniteSet(ActiveJobs(p)')
        <5>1. PICK n \in Nat : n = nextJob  BY <4>6
        <5>. QED  BY <2>5, <4>5, <4>6, <5>1, PlacesOfJobs
      <4>8. Looked(w, p) \subseteq SchedulesOf(p)
        <5>1. \A s \in due[w] : sched[s.owner] # NoSchedule  BY <4>3 DEF PassCommit
        <5>. QED  BY <5>1 DEF Looked, SchedulesOf
      <4>9. IsFiniteSet(SchedulesOf(p))  BY <2>4, AtMostTwo
      <4>10. IsFiniteSet(Looked(w, p)) /\ Cardinality(Looked(w, p)) <= Cardinality(SchedulesOf(p))
        BY <4>8, <4>9, FS_Subset
      <4>11. /\ Cardinality(ActiveJobs(p)') \in Nat /\ Cardinality(Added(w, p)) \in Nat
             /\ Cardinality(Looked(w, p)) \in Nat /\ Cardinality(SchedulesOf(p)) \in Nat
        BY <2>5, <4>7, <4>9, <4>10, FS_CardinalityType
      <4>. QED  BY <2>4, <4>4, <4>7, <4>10, <4>11
    <3>. QED  BY <3>1, <3>2
  <2>7. \A v \in Worker :
          Cardinality(Added(v, p)') <= Cardinality(Looked(v, p)') /\ Added(v, p)' = {}
    BY <1>4, EmptySession
  <2>. QED  BY <2>6, <2>7 DEF WithinSchedules
<1>. QED  BY <1>10, <1>5, <1>11, <1>12, <1>13, <1>14, <1>15, <1>16, <1>17 DEF Inv

-----------------------------------------------------------------------------
(***************************************************************************)
(* The steps of a request.  While somebody asks, nothing is promised.      *)
(***************************************************************************)

LEMMA HandlerMoves ==
  ASSUME Inv, NEW h \in Handler, NEW l \in {"idle", "first", "save", "ask", "answer"},
         pc' = [pc EXCEPT ![h] = l], schedLock' = schedLock
  PROVE  /\ PcOK' /\ pc'[h] = l
         /\ \A x \in Worker \cup Handler : x # h => pc'[x] = pc[x]
         /\ \A w \in Worker : w # h /\ pc'[w] = pc[w]
         /\ ~Unasked'
<1>1. /\ pc' \in [Worker \cup Handler -> {"ensure", "insert", "due", "pass", "idle",
                                          "first", "save", "ask", "answer", "off"}]
      /\ pc'[h] = l /\ \A x \in Worker \cup Handler : x # h => pc'[x] = pc[x]
  BY DEF Inv, TypeOK, PcOK
<1>2. \A w \in Worker : w # h /\ pc'[w] = pc[w]  BY <1>1, DistinctAssumption
<1>3. PcOK'  BY <1>1, <1>2 DEF Inv, TypeOK, PcOK
<1>4. pc'[h] # "off"  BY <1>1
<1>. QED  BY <1>1, <1>2, <1>3, <1>4 DEF Unasked

\* Those that change no table.
LEMMA HandlerFrame ==
  ASSUME Inv, NEW h \in Handler, NEW l \in {"idle", "first", "save", "ask", "answer"},
         pc' = [pc EXCEPT ![h] = l],
         UNCHANGED <<lifeVars, now, tables, passing, crashes>>,
         pend' \in [Worker \cup Handler -> Seq(Project)],
         \A x \in Worker \cup Handler : x # h => pend'[x] = pend[x],
         form' \in [Handler -> [owner : Owner \cup {NULL}, old : Row, new : Row,
                                run_now : BOOLEAN]],
         \A g \in Handler : g # h => form'[g] = form[g],
         FormOK(h)',
         l = "save" /\ form'[h].old # NoSchedule =>
           (sched[form'[h].owner].enabled <=> form'[h].old.enabled)
  PROVE  Inv'
<1>1. UNCHANGED <<projects, nextJob, status, target, folders, unborn, sched, schedLock,
                  polledAt, missing, due, left, now, crashes>>
  BY DEF lifeVars, tables, passing
<1>2. /\ PcOK' /\ pc'[h] = l
      /\ \A x \in Worker \cup Handler : x # h => pc'[x] = pc[x]
      /\ \A w \in Worker : w # h /\ pc'[w] = pc[w]
      /\ ~Unasked'
  BY <1>1, HandlerMoves
<1>3. TypeOK'
  <2>1. LifeTypeOK'  BY <1>1 DEF Inv, TypeOK, LifeTypeOK
  <2>2. \A o \in Owner : o \notin Live' => sched'[o] = NoSchedule
    BY <1>1 DEF Inv, TypeOK, Live
  <2>. QED  BY <1>1, <1>2, <2>1, <2>2 DEF Inv, TypeOK
<1>4. /\ left' \in [Worker -> SUBSET Read] /\ JobsOK' /\ RowsOK' /\ EnabledHasNext'
  BY <1>1 DEF Inv, JobsOK, RowsOK, EnabledHasNext
<1>5. ASSUME NEW g \in Handler PROVE FormOK(g)'
  <2>1. CASE g = h  BY <2>1
  <2>2. CASE g # h
    <3>1. pc'[g] = pc[g] /\ form'[g] = form[g]  BY <1>2, <2>2
    <3>. QED  BY <1>1, <3>1 DEF Inv, FormOK, Live
  <2>. QED  BY <2>1, <2>2
<1>6. StillAsRead'
  <2>1. SUFFICES ASSUME OneAtATime, NEW g \in Handler, pc'[g] = "save",
                        form'[g].old # NoSchedule, sched[form'[g].owner] # NoSchedule
                 PROVE  sched[form'[g].owner].enabled <=> form'[g].old.enabled
    BY <1>1 DEF StillAsRead
  <2>2. g = h  BY <2>1 DEF OneAtATime
  <2>. QED  BY <1>2, <2>1, <2>2
<1>7. ASSUME NEW w \in Worker PROVE PassOK(w)'
  <2>1. pc'[w] = pc[w] /\ pend'[w] = pend[w]  BY <1>2
  <2>. QED  BY <1>1, <2>1 DEF Inv, PassOK, Live
<1>. QED  BY <1>2, <1>3, <1>4, <1>5, <1>6, <1>7 DEF Inv

LEMMA LoadScheduleKeeps ==
  ASSUME Inv, NEW h \in Handler, LoadSchedule(h)
  PROVE  Inv'
<1>1. PICK o \in Live, e \in Edits, run_now \in BOOLEAN :
        form' = [form EXCEPT ![h] =
          [owner |-> o, old |-> sched[o], run_now |-> run_now,
           new |-> [enabled |-> e.enabled, interval |-> e.interval,
                    next |-> IF e.enabled THEN now + e.interval ELSE NULL]]]
  BY DEF LoadSchedule
<1>2. /\ UNCHANGED <<lifeVars, now, tables, passing, pend, crashes>>
      /\ pc' = [pc EXCEPT ![h] = "save"]
  BY DEF LoadSchedule
<1>3. UNCHANGED <<projects, folders, unborn, sched>>  BY <1>2 DEF lifeVars, tables
<1>4. /\ e.enabled \in BOOLEAN /\ e.interval \in Nat \ {0}
      /\ now + e.interval \in Nat /\ now + e.interval # NULL
  BY IntervalsAssumption, DistinctAssumption DEF Inv, TypeOK
<1>5. o \in Owner /\ sched[o] \in Row /\ o \notin unborn
  BY OwnersAssumption DEF Inv, TypeOK, LifeTypeOK, Live, Owner
<1> DEFINE new == [enabled |-> e.enabled, interval |-> e.interval,
                   next |-> IF e.enabled THEN now + e.interval ELSE NULL]
<1>6. new \in Row /\ new.interval # 0 /\ (new.enabled <=> new.next # NULL)
  BY <1>4 DEF Row
<1>7. form' = [form EXCEPT ![h] =
                 [owner |-> o, old |-> sched[o], run_now |-> run_now, new |-> new]]
  BY <1>1
<1> HIDE DEF new
<1>8. form \in [Handler -> [owner : Owner \cup {NULL}, old : Row, new : Row,
                            run_now : BOOLEAN]]
  BY DEF Inv, TypeOK
<1>9. /\ form' \in [Handler -> [owner : Owner \cup {NULL}, old : Row, new : Row,
                                run_now : BOOLEAN]]
      /\ \A g \in Handler : g # h => form'[g] = form[g]
      /\ form'[h] = [owner |-> o, old |-> sched[o], run_now |-> run_now, new |-> new]
  BY <1>5, <1>6, <1>7, <1>8
<1>10. pc'[h] = "save"  BY <1>2 DEF Inv, TypeOK, PcOK
<1>11. FormOK(h)'
  <2>1. form'[h].owner = o /\ form'[h].old = sched[o] /\ form'[h].new = new  BY <1>9
  <2>. QED  BY <1>3, <1>5, <1>6, <1>10, <2>1 DEF FormOK
<1>12. sched[form'[h].owner].enabled <=> form'[h].old.enabled  BY <1>9
<1>13. pend' \in [Worker \cup Handler -> Seq(Project)] /\ pend' = pend
  BY <1>2 DEF Inv, TypeOK
<1>. QED  BY <1>2, <1>9, <1>11, <1>12, <1>13, HandlerFrame

LEMMA FirstScheduleKeeps ==
  ASSUME Inv, NEW h \in Handler, FirstSchedule(h)
  PROVE  Inv'
<1>1. UNCHANGED <<lifeVars, now, tables, passing, pend, crashes>> /\ pc[h] = "first"
  BY DEF FirstSchedule
<1>2. pend' \in [Worker \cup Handler -> Seq(Project)] /\ pend' = pend
  BY <1>1 DEF Inv, TypeOK
<1>3. form \in [Handler -> [owner : Owner \cup {NULL}, old : Row, new : Row,
                            run_now : BOOLEAN]]
  BY DEF Inv, TypeOK
<1>4. form[h].owner \in Owner \ unborn /\ form[h].old = NoSchedule  BY <1>1 DEF Inv, FormOK
<1>5. CASE sched[form[h].owner] = NoSchedule
  <2>1. form' = [form EXCEPT ![h].new = DefaultRow(now)] /\ pc' = [pc EXCEPT ![h] = "save"]
    BY <1>5 DEF FirstSchedule
  <2>2. /\ DefaultRow(now) \in Row /\ DefaultRow(now).enabled
        /\ DefaultRow(now).interval # 0 /\ DefaultRow(now).next # NULL
    BY DefaultRowFacts DEF Inv, TypeOK
  <2> DEFINE row == DefaultRow(now)
  <2> HIDE DEF row
  <2>3. form' = [form EXCEPT ![h].new = row]  BY <2>1 DEF row
  <2>4. row \in Row /\ row.enabled /\ row.interval # 0 /\ row.next # NULL  BY <2>2 DEF row
  <2>5. /\ form' \in [Handler -> [owner : Owner \cup {NULL}, old : Row, new : Row,
                                  run_now : BOOLEAN]]
        /\ \A g \in Handler : g # h => form'[g] = form[g]
        /\ form'[h].owner = form[h].owner /\ form'[h].old = form[h].old
        /\ form'[h].new = row
    BY <1>3, <2>3, <2>4
  <2>6. pc'[h] = "save" /\ unborn' = unborn  BY <1>1, <2>1 DEF Inv, TypeOK, PcOK, tables
  <2>7. FormOK(h)'  BY <1>4, <2>4, <2>5, <2>6 DEF FormOK
  <2>. QED  BY <1>1, <1>2, <1>4, <2>1, <2>5, <2>7, HandlerFrame
<1>6. CASE sched[form[h].owner] # NoSchedule
  <2>1. form' = form /\ pc' = [pc EXCEPT ![h] = "ask"]  BY <1>6 DEF FirstSchedule
  <2>2. pc'[h] = "ask"  BY <2>1 DEF Inv, TypeOK, PcOK
  <2>3. FormOK(h)'  BY <2>2 DEF FormOK
  <2>. QED  BY <1>1, <1>2, <1>3, <2>1, <2>3, HandlerFrame
<1>. QED  BY <1>5, <1>6

LEMMA AskKeeps ==
  ASSUME Inv, NEW h \in Handler, Ask(h)
  PROVE  Inv'
<1>1. /\ UNCHANGED <<lifeVars, now, tables, passing, form, crashes>>
      /\ pc' = [pc EXCEPT ![h] = "answer"] /\ Enqueue(h, Reaches(form[h].owner))
  BY DEF Ask
<1>2. Reaches(form[h].owner) \in SUBSET Project
  BY DEF Reaches, Inv, TypeOK, LifeTypeOK
<1>3. /\ pend' \in [Worker \cup Handler -> Seq(Project)]
      /\ \A x \in Worker \cup Handler : x # h => pend'[x] = pend[x]
  <2>1. TypeOK  BY DEF Inv
  <2>. QED  BY <1>1, <1>2, <2>1, EnqueueFacts
<1>4. pc'[h] = "answer"  BY <1>1 DEF Inv, TypeOK, PcOK
<1>5. FormOK(h)'  BY <1>4 DEF FormOK
<1>6. form' \in [Handler -> [owner : Owner \cup {NULL}, old : Row, new : Row,
                             run_now : BOOLEAN]] /\ form' = form
  BY <1>1 DEF Inv, TypeOK
<1>. QED  BY <1>1, <1>3, <1>5, <1>6, HandlerFrame

\* A request that is over, or about nothing yet.
LEMMA NoFormFacts ==
  /\ NoForm \in [owner : Owner \cup {NULL}, old : Row, new : Row, run_now : BOOLEAN]
  /\ NoForm.old = NoSchedule /\ NoSchedule \in Row
  BY DEF NoForm, NoSchedule, Row

LEMMA CreateProjectKeeps ==
  ASSUME Inv, NEW h \in Handler, CreateProject(h)
  PROVE  Inv'
<1>1. PICK p \in unborn :
        /\ Home[p] \in folders /\ Add(p) /\ unborn' = unborn \ {p}
        /\ form' = [form EXCEPT ![h] = [NoForm EXCEPT !.owner = p, !.run_now = TRUE]]
  BY DEF CreateProject
<1>2. /\ UNCHANGED <<now, folders, sched, schedLock, polledAt, missing, due, left, pend, crashes>>
      /\ pc' = [pc EXCEPT ![h] = "first"]
  BY DEF CreateProject, passing
<1>3. /\ projects' = projects \cup {p} /\ UNCHANGED <<nextJob, status, target>>
      /\ p \in Project /\ p \in Owner /\ p \notin projects
  BY <1>1 DEF Add, Inv, TypeOK, Owner
<1>4. /\ PcOK' /\ pc'[h] = "first"
      /\ \A x \in Worker \cup Handler : x # h => pc'[x] = pc[x]
      /\ \A w \in Worker : w # h /\ pc'[w] = pc[w]
      /\ ~Unasked'
  BY <1>2, HandlerMoves
<1> DEFINE f == [NoForm EXCEPT !.owner = p, !.run_now = TRUE]
<1>5. /\ f \in [owner : Owner \cup {NULL}, old : Row, new : Row, run_now : BOOLEAN]
      /\ f.owner = p /\ f.old = NoSchedule
  BY <1>3, NoFormFacts DEF NoForm
<1> HIDE DEF f
<1>6. /\ form' \in [Handler -> [owner : Owner \cup {NULL}, old : Row, new : Row,
                                run_now : BOOLEAN]]
      /\ form'[h] = f /\ \A g \in Handler : g # h => form'[g] = form[g]
  <2>1. form' = [form EXCEPT ![h] = f]  BY <1>1 DEF f
  <2>. QED  BY <1>5, <2>1 DEF Inv, TypeOK
<1>7. TypeOK'
  <2>1. LifeTypeOK'  BY <1>3 DEF Inv, TypeOK, LifeTypeOK
  <2>2. unborn' \subseteq Project \ projects'  BY <1>1, <1>3 DEF Inv, TypeOK
  <2>3. \A o \in Owner : o \notin Live' => sched'[o] = NoSchedule
    BY <1>2, <1>3 DEF Inv, TypeOK, Live
  <2>. QED  BY <1>2, <1>4, <1>6, <2>1, <2>2, <2>3 DEF Inv, TypeOK
<1>8. /\ left' \in [Worker -> SUBSET Read] /\ EnabledHasNext'
  BY <1>2 DEF Inv, EnabledHasNext
<1>9. JobsOK' /\ RowsOK'  BY <1>1, <1>2, <1>3 DEF Inv, JobsOK, RowsOK
<1>10. ASSUME NEW g \in Handler PROVE FormOK(g)'
  <2>1. CASE g = h
    <3>1. form'[g].owner = p /\ form'[g].old = NoSchedule /\ pc'[g] = "first"
      BY <1>4, <1>5, <1>6, <2>1
    <3>2. p \in Owner \ unborn'  BY <1>1, <1>3
    <3>. QED  BY <3>1, <3>2 DEF FormOK
  <2>2. CASE g # h
    <3>1. pc'[g] = pc[g] /\ form'[g] = form[g] /\ FormOK(g)  BY <1>4, <1>6, <2>2 DEF Inv
    <3>2. form[g].owner \in Owner \ unborn => (form[g].owner \in Live' => form[g].owner \in Live)
      BY <1>1, <1>2, <1>3 DEF Live
    <3>3. unborn' \subseteq unborn /\ sched' = sched  BY <1>1, <1>2
    <3>. QED  BY <3>1, <3>2, <3>3 DEF FormOK
  <2>. QED  BY <2>1, <2>2
<1>11. StillAsRead'
  <2>1. SUFFICES ASSUME OneAtATime, NEW g \in Handler, pc'[g] = "save" PROVE FALSE
    BY DEF StillAsRead
  <2>2. g = h  BY <2>1 DEF OneAtATime
  <2>. QED  BY <1>4, <2>1, <2>2
<1>12. ASSUME NEW w \in Worker PROVE PassOK(w)'
  <2>1. pc'[w] = pc[w] /\ PassOK(w)  BY <1>4 DEF Inv
  <2>2. \A s \in due[w] : s.owner \in Live' => s.owner \in Live
    BY <1>1, <1>2, <1>3, <2>1 DEF PassOK, Live
  <2>. QED  BY <1>1, <1>2, <2>1, <2>2 DEF PassOK
<1>. QED  BY <1>4, <1>7, <1>8, <1>9, <1>10, <1>11, <1>12 DEF Inv

\* What the commit of a request leaves in a row: the values the request asked
\* for, or those of the row where they are what the request read.
LEMMA SavedFacts ==
  ASSUME Inv, NEW h \in Handler, pc[h] = "save",
         NEW o, o = form[h].owner, o \in Live, NEW old, old = form[h].old,
         (old = NoSchedule) <=> (sched[o] = NoSchedule)
  PROVE  LET row == Saved(sched[o], old, form[h].new)
         IN  /\ row \in Row /\ row # NoSchedule /\ row.interval # 0
             /\ OneAtATime => (row.enabled => row.next # NULL)
<1>1. PICK new \in Row : new = form[h].new  BY DEF Inv, TypeOK
<1>2. old \in Row /\ o \in Owner /\ sched[o] \in Row
  BY DEF Inv, TypeOK, LifeTypeOK, Live, Owner
<1>3. new.interval # 0 /\ (new.enabled <=> new.next # NULL)  BY <1>1 DEF Inv, FormOK
<1>4. OneAtATime /\ old # NoSchedule => (sched[o].enabled <=> old.enabled)
  BY DEF Inv, StillAsRead
<1>5. sched[o] # NoSchedule => sched[o].interval # 0  BY <1>2 DEF Inv, RowsOK
<1> DEFINE row == Saved(sched[o], old, new)
<1>6. /\ row.enabled  = IF new.enabled  # old.enabled  THEN new.enabled  ELSE sched[o].enabled
      /\ row.interval = IF new.interval # old.interval THEN new.interval ELSE sched[o].interval
      /\ row.next     = IF new.next = NULL /\ old.next = NULL THEN sched[o].next ELSE new.next
      /\ row = [enabled |-> row.enabled, interval |-> row.interval, next |-> row.next]
  BY DEF Saved
<1> HIDE DEF row
<1>7. /\ new.enabled \in BOOLEAN /\ new.interval \in Nat /\ new.next \in Nat \cup {NULL}
      /\ old.enabled \in BOOLEAN
      /\ sched[o].enabled \in BOOLEAN /\ sched[o].interval \in Nat
      /\ sched[o].next \in Nat \cup {NULL}
  BY <1>2 DEF Row
<1>8. row \in Row
  <2>1. row.enabled \in BOOLEAN /\ row.interval \in Nat /\ row.next \in Nat \cup {NULL}
    BY <1>6, <1>7
  <2>. QED  BY <1>6, <2>1 DEF Row
<1>9. row.interval # 0
  <2>1. CASE old = NoSchedule
    <3>1. old.interval = 0  BY <2>1 DEF NoSchedule
    <3>. QED  BY <1>3, <1>6, <3>1
  <2>2. CASE old # NoSchedule  BY <1>3, <1>5, <1>6, <2>2
  <2>. QED  BY <2>1, <2>2
<1>10. row # NoSchedule  BY <1>9 DEF NoSchedule
<1>11. ASSUME OneAtATime, row.enabled PROVE row.next # NULL
  <2>1. new.enabled
    <3>1. CASE old = NoSchedule
      <4>1. ~sched[o].enabled /\ ~old.enabled  BY <3>1 DEF NoSchedule
      <4>. QED  BY <1>6, <1>7, <1>11, <4>1
    <3>2. CASE old # NoSchedule
      <4>1. sched[o].enabled <=> old.enabled  BY <1>4, <1>11, <3>2
      <4>. QED  BY <1>6, <1>7, <1>11, <4>1
    <3>. QED  BY <3>1, <3>2
  <2>. QED  BY <1>3, <1>6, <2>1
<1>. QED  BY <1>1, <1>8, <1>9, <1>10, <1>11 DEF row

\* The commit of a request writes the row of its owner, which is there, or
\* nothing.
LEMMA SaveScheduleRows ==
  ASSUME Inv, NEW h \in Handler, SaveSchedule(h)
  PROVE  /\ sched' \in [Owner -> Row]
         /\ \A o \in Owner :
              \/ sched'[o] = sched[o]
              \/ /\ o = form[h].owner /\ o \in Live
                 /\ sched'[o] # NoSchedule /\ sched'[o].interval # 0
                 /\ OneAtATime => (sched'[o].enabled => sched'[o].next # NULL)
         /\ \E l \in {"idle", "ask"} : pc' = [pc EXCEPT ![h] = l]
<1> DEFINE o == form[h].owner
           old == form[h].old
           inserted == o \in Live /\ sched[o] = NoSchedule
<1>1. pc[h] = "save"  BY DEF SaveSchedule
<1>2. sched \in [Owner -> Row]  BY DEF Inv, TypeOK
<1>3. CASE (old = NoSchedule) = inserted /\ o \in Live
  <2>1. /\ sched' = [sched EXCEPT ![o] = Saved(sched[o], old, form[h].new)]
        /\ pc' = [pc EXCEPT ![h] = IF form[h].run_now THEN "ask" ELSE "idle"]
    BY <1>3 DEF SaveSchedule
  <2> DEFINE row == Saved(sched[o], old, form[h].new)
  <2>2. /\ row \in Row /\ row # NoSchedule /\ row.interval # 0
        /\ OneAtATime => (row.enabled => row.next # NULL)
    <3>1. (old = NoSchedule) <=> (sched[o] = NoSchedule)  BY <1>3
    <3>. QED  BY <1>1, <1>3, <3>1, SavedFacts
  <2> HIDE DEF row
  <2>3. sched' = [sched EXCEPT ![o] = row]  BY <2>1 DEF row
  <2>. QED  BY <1>2, <1>3, <2>1, <2>2, <2>3
<1>4. CASE ~((old = NoSchedule) = inserted /\ o \in Live)
  <2>1. sched' = sched /\ pc' = [pc EXCEPT ![h] = "idle"]  BY <1>4 DEF SaveSchedule
  <2>. QED  BY <1>2, <2>1
<1>. QED  BY <1>3, <1>4

LEMMA SaveScheduleKeeps ==
  ASSUME Inv, NEW h \in Handler, SaveSchedule(h)
  PROVE  Inv'
<1>1. UNCHANGED <<projects, nextJob, status, target, now, folders, unborn, schedLock, polledAt,
                  missing, due, left, pend, crashes>>
  BY DEF SaveSchedule, lifeVars, passing
<1>2. /\ sched' \in [Owner -> Row]
      /\ \A o \in Owner :
           \/ sched'[o] = sched[o]
           \/ /\ o \in Live /\ sched'[o] # NoSchedule /\ sched'[o].interval # 0
              /\ OneAtATime => (sched'[o].enabled => sched'[o].next # NULL)
  BY SaveScheduleRows
<1>3. PICK l \in {"idle", "ask"} : pc' = [pc EXCEPT ![h] = l]  BY SaveScheduleRows
<1>4. /\ PcOK' /\ pc'[h] = l
      /\ \A x \in Worker \cup Handler : x # h => pc'[x] = pc[x]
      /\ \A w \in Worker : w # h /\ pc'[w] = pc[w]
      /\ ~Unasked'
  BY <1>1, <1>3, HandlerMoves
<1>5. /\ form' \in [Handler -> [owner : Owner \cup {NULL}, old : Row, new : Row,
                                run_now : BOOLEAN]]
      /\ \A g \in Handler : g # h => form'[g] = form[g]
  <2>1. form' = form \/ form' = [form EXCEPT ![h] = NoForm]  BY DEF SaveSchedule
  <2>. QED  BY <2>1, NoFormFacts DEF Inv, TypeOK
<1>6. \A o \in Owner : sched[o] # NoSchedule => sched'[o] # NoSchedule  BY <1>2
<1>7. projects \subseteq Owner /\ folders \subseteq Owner
  BY DEF Inv, TypeOK, LifeTypeOK, Owner
<1>8. TypeOK'
  <2>1. LifeTypeOK'  BY <1>1 DEF Inv, TypeOK, LifeTypeOK
  <2>2. \A o \in Owner : o \notin Live' => sched'[o] = NoSchedule
    BY <1>1, <1>2 DEF Inv, TypeOK, Live
  <2>. QED  BY <1>1, <1>2, <1>4, <1>5, <2>1, <2>2 DEF Inv, TypeOK
<1>9. left' \in [Worker -> SUBSET Read] /\ JobsOK'  BY <1>1 DEF Inv, JobsOK
<1>10. RowsOK'  BY <1>1, <1>2 DEF Inv, RowsOK
<1>11. EnabledHasNext'  BY <1>2 DEF Inv, EnabledHasNext
<1>12. ASSUME NEW g \in Handler PROVE FormOK(g)'
  <2>1. CASE g = h  BY <1>3, <1>4, <2>1 DEF FormOK
  <2>2. CASE g # h
    <3>1. pc'[g] = pc[g] /\ form'[g] = form[g] /\ FormOK(g)  BY <1>4, <1>5, <2>2 DEF Inv
    <3>. QED  BY <1>1, <1>6, <1>7, <3>1 DEF FormOK, Live
  <2>. QED  BY <2>1, <2>2
<1>13. StillAsRead'
  <2>1. SUFFICES ASSUME OneAtATime, NEW g \in Handler, pc'[g] = "save" PROVE FALSE
    BY DEF StillAsRead
  <2>2. g = h  BY <2>1 DEF OneAtATime
  <2>. QED  BY <1>3, <1>4, <2>1, <2>2
<1>14. ASSUME NEW w \in Worker PROVE PassOK(w)'
  <2>1. pc'[w] = pc[w] /\ PassOK(w)  BY <1>4 DEF Inv
  <2>. QED  BY <1>1, <1>6, <1>7, <2>1 DEF PassOK, Live
<1>. QED  BY <1>4, <1>8, <1>9, <1>10, <1>11, <1>12, <1>13, <1>14 DEF Inv

LEMMA AnswerKeeps ==
  ASSUME Inv, NEW h \in Handler, Answer(h)
  PROVE  Inv'
<1>1. /\ UNCHANGED <<now, folders, unborn, sched, schedLock, polledAt, missing, due, left, crashes>>
      /\ pend' = [pend EXCEPT ![h] = <<>>] /\ form' = [form EXCEPT ![h] = NoForm]
      /\ pc' = [pc EXCEPT ![h] = "idle"]
  BY DEF Answer, tables, passing
<1>2. LifeTypeOK' /\ JobsOK' /\ projects' = projects
  <2>1. CASE Insert(h)  BY <2>1, InsertFacts
  <2>2. CASE UNCHANGED lifeVars
    <3>1. UNCHANGED <<projects, nextJob, status, target>>  BY <2>2 DEF lifeVars
    <3>. QED  BY <3>1 DEF Inv, TypeOK, LifeTypeOK, JobsOK
  <2>. QED  BY <2>1, <2>2 DEF Answer
<1>3. /\ PcOK' /\ pc'[h] = "idle"
      /\ \A x \in Worker \cup Handler : x # h => pc'[x] = pc[x]
      /\ \A w \in Worker : w # h /\ pc'[w] = pc[w]
      /\ ~Unasked'
  BY <1>1, HandlerMoves
<1>4. /\ form' \in [Handler -> [owner : Owner \cup {NULL}, old : Row, new : Row,
                                run_now : BOOLEAN]]
      /\ \A g \in Handler : g # h => form'[g] = form[g]
  BY <1>1, NoFormFacts DEF Inv, TypeOK
<1>5. /\ pend' \in [Worker \cup Handler -> Seq(Project)]
      /\ \A w \in Worker : pend'[w] = pend[w]
  <2>1. <<>> \in Seq(Project)  OBVIOUS
  <2>. QED  BY <1>1, <1>3, <2>1 DEF Inv, TypeOK
<1>6. TypeOK'
  <2>1. \A o \in Owner : o \notin Live' => sched'[o] = NoSchedule
    BY <1>1, <1>2 DEF Inv, TypeOK, Live
  <2>. QED  BY <1>1, <1>2, <1>3, <1>4, <1>5, <2>1 DEF Inv, TypeOK
<1>7. /\ left' \in [Worker -> SUBSET Read] /\ RowsOK' /\ EnabledHasNext'
  BY <1>1, <1>2 DEF Inv, RowsOK, EnabledHasNext
<1>8. ASSUME NEW g \in Handler PROVE FormOK(g)'
  <2>1. CASE g = h  BY <1>3, <2>1 DEF FormOK
  <2>2. CASE g # h
    <3>1. pc'[g] = pc[g] /\ form'[g] = form[g] /\ FormOK(g)  BY <1>3, <1>4, <2>2 DEF Inv
    <3>. QED  BY <1>1, <1>2, <3>1 DEF FormOK, Live
  <2>. QED  BY <2>1, <2>2
<1>9. StillAsRead'
  <2>1. SUFFICES ASSUME OneAtATime, NEW g \in Handler, pc'[g] = "save" PROVE FALSE
    BY DEF StillAsRead
  <2>2. g = h  BY <2>1 DEF OneAtATime
  <2>. QED  BY <1>3, <2>1, <2>2
<1>10. ASSUME NEW w \in Worker PROVE PassOK(w)'
  <2>1. pc'[w] = pc[w] /\ PassOK(w)  BY <1>3 DEF Inv
  <2>. QED  BY <1>1, <1>2, <1>5, <2>1 DEF PassOK, Live
<1>. QED  BY <1>2, <1>3, <1>6, <1>7, <1>8, <1>9, <1>10 DEF Inv

-----------------------------------------------------------------------------
(***************************************************************************)
(* The other steps.                                                        *)
(***************************************************************************)

\* What a deletion leaves: nobody's row but of those that are gone has changed.
LEMMA DeleteRows ==
  ASSUME Inv, NEW o \in Owner, Delete(o)
  PROVE  /\ \A q \in Live' : q \in Live /\ sched'[q] = sched[q]
         /\ \A q \in Owner : q \notin Live' => sched'[q] = NoSchedule
         /\ sched' \in [Owner -> Row]
         /\ \A p \in projects' : p \in projects /\ Home[p] \in folders'
                                 /\ sched'[Home[p]] = sched[Home[p]]
<1>1. /\ o \in Live /\ projects' = projects \ Under(o) /\ folders' = folders \ {o}
      /\ sched' = [q \in Owner |-> IF q \in {o} \cup Under(o) THEN NoSchedule ELSE sched[q]]
  BY DEF Delete, Drop
<1>2. /\ projects \subseteq Project /\ folders \subseteq Folder /\ Project \cap Folder = {}
      /\ Under(o) \subseteq projects /\ sched \in [Owner -> Row]
  BY OwnersAssumption DEF Inv, TypeOK, LifeTypeOK, Under
<1>3. o \notin Live'
  <2>1. CASE o \in projects  BY <1>1, <1>2, <2>1 DEF Live, Under
  <2>2. CASE o \notin projects  BY <1>1, <2>2 DEF Live
  <2>. QED  BY <2>1, <2>2
<1>4. \A q \in Live' : q \in Live /\ q \notin {o} \cup Under(o) /\ q \in Owner
  BY <1>1, <1>2, <1>3 DEF Live, Owner
<1>5. \A q \in Owner : q \notin Live' => q \in {o} \cup Under(o) \/ sched[q] = NoSchedule
  BY <1>1, <1>2 DEF Inv, TypeOK, Live
<1>6. sched' \in [Owner -> Row]  BY <1>1, <1>2, NoFormFacts
<1>7. ASSUME NEW p \in projects'
      PROVE  p \in projects /\ Home[p] \in folders' /\ sched'[Home[p]] = sched[Home[p]]
  <2>1. p \in projects /\ Home[p] # o  BY <1>1 DEF Under
  <2>2. Home[p] \in folders'  BY <1>1, <2>1 DEF Inv, RowsOK
  <2>. QED  BY <1>1, <1>4, <2>1, <2>2 DEF Live
<1>. QED  BY <1>1, <1>4, <1>5, <1>6, <1>7

LEMMA DeleteKeeps ==
  ASSUME Inv, NEW o \in Owner, Delete(o)
  PROVE  Inv'
<1>1. UNCHANGED <<now, unborn, schedLock, polledAt, missing, due, left, pc, pend, form, crashes>>
  BY DEF Delete, passing
<1>2. /\ \A q \in Live' : q \in Live /\ sched'[q] = sched[q]
      /\ \A q \in Owner : q \notin Live' => sched'[q] = NoSchedule
      /\ sched' \in [Owner -> Row]
      /\ \A p \in projects' : p \in projects /\ Home[p] \in folders'
                              /\ sched'[Home[p]] = sched[Home[p]]
  BY DeleteRows
<1>3. /\ projects' = projects \ Under(o) /\ nextJob' = nextJob /\ folders' = folders \ {o}
      /\ status' = [j \in JobId |-> IF target[j] \in Under(o) THEN "absent" ELSE status[j]]
      /\ target' = [j \in JobId |-> IF target[j] \in Under(o) THEN NULL ELSE target[j]]
  BY DEF Delete, Drop
<1>4. Live' \subseteq Owner /\ projects \subseteq Project /\ NULL \notin projects
  BY <1>3, DistinctAssumption DEF Inv, TypeOK, LifeTypeOK, Live, Owner
<1>5. \A j \in JobId : /\ \/ target'[j] = NULL /\ status'[j] = "absent"
                          \/ target'[j] = target[j] /\ status'[j] = status[j]
                       /\ target'[j] \in projects' \cup {NULL}
  BY <1>3 DEF Inv, JobsOK
<1>6. JobsOK'  BY <1>3, <1>5 DEF Inv, JobsOK
<1>7. TypeOK'
  <2>1. LifeTypeOK'
    <3>1. status' \in [JobId -> Life]  BY <1>3 DEF Inv, TypeOK, LifeTypeOK, Life
    <3>2. target' \in [JobId -> Project \cup {NULL}]  BY <1>3 DEF Inv, TypeOK, LifeTypeOK
    <3>. QED  BY <1>3, <3>1, <3>2 DEF Inv, TypeOK, LifeTypeOK
  <2>2. PcOK'  BY <1>1 DEF Inv, TypeOK, PcOK
  <2>. QED  BY <1>1, <1>2, <1>3, <2>1, <2>2 DEF Inv, TypeOK
<1>8. RowsOK'
  <2>1. \A q \in Owner : sched'[q] # NoSchedule => sched'[q] = sched[q]  BY <1>2
  <2>. QED  BY <1>2, <2>1 DEF Inv, RowsOK
<1>9. EnabledHasNext'
  <2>1. \A q \in Owner : sched'[q].enabled => sched'[q] = sched[q]  BY <1>2 DEF NoSchedule
  <2>. QED  BY <2>1 DEF Inv, EnabledHasNext
<1>10. StillAsRead'
  <2>1. SUFFICES ASSUME OneAtATime, NEW h \in Handler, pc[h] = "save",
                        form[h].old # NoSchedule, sched'[form[h].owner] # NoSchedule
                 PROVE  sched'[form[h].owner].enabled <=> form[h].old.enabled
    BY <1>1 DEF StillAsRead
  <2>2. form[h].owner \in Owner  BY <2>1 DEF Inv, FormOK
  <2>3. sched'[form[h].owner] = sched[form[h].owner]  BY <1>2, <2>1, <2>2
  <2>. QED  BY <2>1, <2>3 DEF Inv, StillAsRead
<1>11. ASSUME NEW w \in Worker PROVE PassOK(w)'
  BY <1>1, <1>2 DEF Inv, PassOK
<1>12. ASSUME NEW h \in Handler PROVE FormOK(h)'
  BY <1>1, <1>2 DEF Inv, FormOK
<1>13. ASSUME Unasked', NEW p \in projects' PROVE WithinSchedules(p)'
  <2>1. Unasked /\ p \in projects /\ p # NULL  BY <1>1, <1>2, <1>4, <1>13 DEF Unasked
  <2>2. ActiveJobs(p)' \subseteq ActiveJobs(p)
    BY <1>5, <2>1 DEF ActiveJobs
  <2>3. p \in Live' /\ sched'[p] = sched[p] /\ sched'[Home[p]] = sched[Home[p]]
    BY <1>2, <1>13 DEF Live
  <2>4. SchedulesOf(p) \subseteq SchedulesOf(p)'  BY <2>3 DEF SchedulesOf
  <2>. QED  BY <1>1, <2>1, <2>2, <2>4, StillWithin
<1>14. left' \in [Worker -> SUBSET Read]  BY <1>1 DEF Inv
<1>. QED  BY <1>6, <1>7, <1>8, <1>9, <1>10, <1>11, <1>12, <1>13, <1>14 DEF Inv

\* Taking a job, ending it or giving it back makes no job active that was not.
LEMMA QueueStepKeeps ==
  ASSUME Inv, QueueStep
  PROVE  Inv'
<1>1. UNCHANGED <<now, folders, unborn, sched, schedLock, polledAt, missing, due, left, pc, pend,
                  form, crashes>>
  BY DEF QueueStep, tables, passing
<1>2. /\ UNCHANGED <<projects, nextJob, target>> /\ status' \in [JobId -> Life]
      /\ \A j \in JobId : /\ (status'[j] = "absent") <=> (status[j] = "absent")
                          /\ status'[j] \in {"queued", "running"}
                               => status[j] \in {"queued", "running"}
  <2>1. status \in [JobId -> Life]  BY DEF Inv, TypeOK, LifeTypeOK
  <2>2. CASE \E j \in JobId : Take(j)  BY <2>1, <2>2 DEF Take, Life
  <2>3. CASE \E j \in JobId : End(j)  BY <2>1, <2>3 DEF End, Life
  <2>4. CASE \E S \in SUBSET JobId : GiveBack(S)  BY <2>1, <2>4 DEF GiveBack, Life
  <2>. QED  BY <2>2, <2>3, <2>4 DEF QueueStep
<1>3. TypeOK' /\ left' \in [Worker -> SUBSET Read]
  <2>1. LifeTypeOK' /\ PcOK'  BY <1>1, <1>2 DEF Inv, TypeOK, LifeTypeOK, PcOK
  <2>2. \A o \in Owner : o \notin Live' => sched'[o] = NoSchedule
    BY <1>1, <1>2 DEF Inv, TypeOK, Live
  <2>. QED  BY <1>1, <1>2, <2>1, <2>2 DEF Inv, TypeOK
<1>4. JobsOK' /\ RowsOK' /\ EnabledHasNext' /\ StillAsRead'
  BY <1>1, <1>2 DEF Inv, JobsOK, RowsOK, EnabledHasNext, StillAsRead
<1>5. ASSUME NEW w \in Worker PROVE PassOK(w)'
  BY <1>1, <1>2 DEF Inv, PassOK, Live
<1>6. ASSUME NEW h \in Handler PROVE FormOK(h)'
  BY <1>1, <1>2 DEF Inv, FormOK, Live
<1>7. ASSUME Unasked', NEW p \in projects' PROVE WithinSchedules(p)'
  <2>1. Unasked /\ p \in projects  BY <1>1, <1>2, <1>7 DEF Unasked
  <2>2. ActiveJobs(p)' \subseteq ActiveJobs(p)  BY <1>2 DEF ActiveJobs
  <2>3. SchedulesOf(p)' = SchedulesOf(p)  BY <1>1 DEF SchedulesOf
  <2>. QED  BY <1>1, <2>1, <2>2, <2>3, StillWithin
<1>. QED  BY <1>3, <1>4, <1>5, <1>6, <1>7 DEF Inv

\* The clock, or no step.
LEMMA IdleKeeps ==
  ASSUME Inv, Tick \/ UNCHANGED vars
  PROVE  Inv'
<1>1. /\ UNCHANGED <<projects, nextJob, status, target, folders, unborn, sched, schedLock, polledAt,
                     missing, due, left, pc, pend, form, crashes>>
      /\ now' \in Nat
  <2>1. now \in Nat  BY DEF Inv, TypeOK
  <2>. QED  BY <2>1 DEF Tick, vars, lifeVars, tables, passing
<1>2. TypeOK' /\ left' \in [Worker -> SUBSET Read]
  <2>1. LifeTypeOK' /\ PcOK'  BY <1>1 DEF Inv, TypeOK, LifeTypeOK, PcOK
  <2>2. \A o \in Owner : o \notin Live' => sched'[o] = NoSchedule
    BY <1>1 DEF Inv, TypeOK, Live
  <2>. QED  BY <1>1, <2>1, <2>2 DEF Inv, TypeOK
<1>3. JobsOK' /\ RowsOK' /\ EnabledHasNext' /\ StillAsRead'
  BY <1>1 DEF Inv, JobsOK, RowsOK, EnabledHasNext, StillAsRead
<1>4. ASSUME NEW w \in Worker PROVE PassOK(w)'
  BY <1>1 DEF Inv, PassOK, Live
<1>5. ASSUME NEW h \in Handler PROVE FormOK(h)'
  BY <1>1 DEF Inv, FormOK, Live
<1>6. ASSUME Unasked', NEW p \in projects' PROVE WithinSchedules(p)'
  <2>1. Unasked /\ p \in projects  BY <1>1, <1>6 DEF Unasked
  <2>2. ActiveJobs(p)' = ActiveJobs(p) /\ SchedulesOf(p)' = SchedulesOf(p)
    BY <1>1 DEF ActiveJobs, SchedulesOf
  <2>. QED  BY <1>1, <2>1, <2>2, StillWithin
<1>. QED  BY <1>2, <1>3, <1>4, <1>5, <1>6 DEF Inv

-----------------------------------------------------------------------------
(***************************************************************************)
(* The invariant holds.                                                    *)
(***************************************************************************)

LEMMA InitHolds == Init => Inv
<1>. SUFFICES ASSUME Init PROVE Inv  OBVIOUS
<1>1. /\ now = 0 /\ projects = First /\ nextJob = 1 /\ folders = Folder /\ crashes = 0
      /\ status = [j \in JobId |-> "absent"] /\ target = [j \in JobId |-> NULL]
      /\ unborn = Project \ First /\ schedLock = NULL
      /\ \A o \in Owner : o \notin Scheduled => sched[o] = NoSchedule
      /\ polledAt = [w \in Worker |-> 0] /\ missing = [w \in Worker |-> {}]
      /\ due = [w \in Worker |-> {}] /\ left = [w \in Worker |-> {}]
      /\ pend = [x \in Worker \cup Handler |-> <<>>] /\ form = [h \in Handler |-> NoForm]
  BY DEF Init
<1>2. /\ pc \in [Worker \cup Handler -> {"ensure", "idle", "off"}]
      /\ \A w \in Worker : pc[w] = "ensure"
      /\ \A h \in Handler : pc[h] \in {"idle", "off"}
  <2>1. PICK asked \in BOOLEAN :
          pc = [x \in Worker \cup Handler |->
                  IF x \in Worker THEN "ensure" ELSE IF asked THEN "idle" ELSE "off"]
    BY DEF Init
  <2>. QED  BY <2>1, DistinctAssumption
<1>3. /\ sched \in [Owner -> Row]
      /\ \A o \in Owner : sched[o] # NoSchedule => sched[o].interval # 0
      /\ \A o \in Owner : sched[o].enabled => sched[o].next # NULL
  <2> DEFINE row == DefaultRow(0)
             stopped == [row EXCEPT !.enabled = FALSE, !.next = NULL]
  <2>1. /\ row \in Row /\ row # NoSchedule /\ row.enabled /\ row.interval # 0
        /\ row.next # NULL
    BY DefaultRowFacts
  <2>2. sched \in [Owner -> {NoSchedule, row, stopped}]  BY DEF Init
  <2> HIDE DEF row
  <2>3. stopped \in Row /\ ~stopped.enabled /\ stopped.interval # 0  BY <2>1 DEF Row
  <2> HIDE DEF stopped
  <2>4. NoSchedule \in Row /\ ~NoSchedule.enabled  BY NoFormFacts DEF NoSchedule
  <2>5. \A o \in Owner : sched[o] \in {NoSchedule, row, stopped}  BY <2>2
  <2>. QED  BY <2>1, <2>2, <2>3, <2>4, <2>5
<1>4. TypeOK
  <2>1. LifeTypeOK
    BY <1>1, OwnersAssumption, LimitsAssumption DEF LifeTypeOK, Life
  <2>2. PcOK  BY <1>2 DEF PcOK
  <2>3. \A o \in Owner : o \notin Live => sched[o] = NoSchedule
    BY <1>1, OwnersAssumption DEF Live
  <2>4. pend \in [Worker \cup Handler -> Seq(Project)]
    <3>1. <<>> \in Seq(Project)  OBVIOUS
    <3>. QED  BY <1>1, <3>1
  <2>5. form \in [Handler -> [owner : Owner \cup {NULL}, old : Row, new : Row,
                              run_now : BOOLEAN]]
    BY <1>1, NoFormFacts
  <2>. QED  BY <1>1, <1>3, <2>1, <2>2, <2>3, <2>4, <2>5 DEF TypeOK
<1>5. left \in [Worker -> SUBSET Read]  BY <1>1
<1>6. NULL \notin Project  BY DistinctAssumption DEF Owner
<1>7. JobsOK  BY <1>1, <1>6 DEF JobsOK
<1>8. RowsOK  BY <1>1, <1>3, OwnersAssumption DEF RowsOK
<1>9. EnabledHasNext  BY <1>3 DEF EnabledHasNext
<1>10. StillAsRead  BY <1>2 DEF StillAsRead
<1>11. \A w \in Worker : PassOK(w)  BY <1>1 DEF PassOK
<1>12. \A h \in Handler : FormOK(h)  BY <1>2 DEF FormOK
<1>13. ASSUME NEW p \in projects PROVE WithinSchedules(p)
  <2>1. p # NULL  BY <1>4, <1>6 DEF TypeOK, LifeTypeOK
  <2>2. ActiveJobs(p) = {}  BY <1>1, <2>1 DEF ActiveJobs
  <2>3. \A w \in Worker : Added(w, p) = {}  BY <1>1 DEF Added
  <2>4. /\ SchedulesOf(p) \subseteq {p, Home[p]}
        /\ \A w \in Worker : Looked(w, p) \subseteq {p, Home[p]}
    BY DEF SchedulesOf, Looked
  <2>5. /\ Cardinality(SchedulesOf(p)) \in Nat /\ Cardinality({}) = 0
        /\ \A w \in Worker : Cardinality(Looked(w, p)) \in Nat
    BY <2>4, AtMostTwo, FS_EmptySet
  <2>. QED  BY <2>2, <2>3, <2>5 DEF WithinSchedules
<1>. QED  BY <1>4, <1>5, <1>7, <1>8, <1>9, <1>10, <1>11, <1>12, <1>13 DEF Inv

LEMMA NextKeeps == Inv /\ [Next]_vars => Inv'
<1>. SUFFICES ASSUME Inv, [Next]_vars PROVE Inv'  OBVIOUS
<1>1. ASSUME NEW w \in Worker, WorkerStep(w) PROVE Inv'
  BY <1>1, EnsureKeeps, EnsureCommitKeeps, ReadDueKeeps, PassScheduleKeeps, PassCommitKeeps
     DEF WorkerStep
<1>2. ASSUME NEW w \in Worker, Crash(w) PROVE Inv'  BY <1>2, CrashKeeps
<1>3. ASSUME NEW h \in Handler, HandlerStep(h) PROVE Inv'
  BY <1>3, LoadScheduleKeeps, CreateProjectKeeps, FirstScheduleKeeps, SaveScheduleKeeps,
     AskKeeps, AnswerKeeps
     DEF HandlerStep
<1>4. ASSUME NEW o \in Owner, Delete(o) PROVE Inv'  BY <1>4, DeleteKeeps
<1>5. CASE QueueStep  BY <1>5, QueueStepKeeps
<1>6. CASE Tick \/ UNCHANGED vars  BY <1>6, IdleKeeps
<1>. QED  BY <1>1, <1>2, <1>3, <1>4, <1>5, <1>6 DEF Next

LEMMA InvHolds == Spec => []Inv
  BY InitHolds, NextKeeps, PTL DEF Spec

(***************************************************************************)
(* What the invariant says.                                                *)
(***************************************************************************)

\* Rows, sessions and requests have the shape the code gives them, only what
\* exists has a schedule, and whoever is in the middle of a pass holds the
\* scheduler lock.
THEOREM SchedulesTypeCorrect == Spec => []TypeOK
<1>1. Inv => TypeOK  BY DEF Inv
<1>. QED  BY <1>1, InvHolds, PTL

\* With one request at a time, no schedule is left switched on without a next
\* run, however passes, deaths and deletions fall between the read of a request
\* and its write.
THEOREM EnabledSchedulesRun == Spec => []EnabledHasNext
<1>1. Inv => EnabledHasNext  BY DEF Inv
<1>. QED  BY <1>1, InvHolds, PTL

\* While nobody asks, any number of workers dying and passing at any time never
\* give a project more jobs that wait or run than there are schedules over it.
THEOREM OnePingPerSchedule == Spec => []ActivePerSchedule
<1>1. Inv => ActivePerSchedule  BY DEF Inv, Unasked, WithinSchedules, ActivePerSchedule
<1>. QED  BY <1>1, InvHolds, PTL

\* Whether a schedule is on, and how often it runs, changes with the commit of a
\* request about it and with nothing else, deletion apart.
LEMMA OnlySavesEdit ==
  ASSUME Inv, [Next]_vars, NEW o \in Owner,
         sched[o] # NoSchedule, sched'[o] # NoSchedule,
         <<sched[o].enabled, sched[o].interval>> # <<sched'[o].enabled, sched'[o].interval>>
  PROVE  \E h \in Handler : pc[h] = "save" /\ form[h].owner = o /\ pc'[h] # "save"
<1>1. ASSUME NEW w \in Worker, WorkerStep(w) PROVE FALSE
  <2>1. CASE EnsureCommit(w)  BY <2>1, EnsureCommitRows
  <2>2. CASE PassCommit(w)  BY <2>2, PassCommitRows
  <2>3. CASE Ensure(w) \/ ReadDue(w) \/ PassSchedule(w)
    <3>1. sched' = sched  BY <2>3 DEF Ensure, ReadDue, PassSchedule, tables
    <3>. QED  BY <3>1
  <2>. QED  BY <1>1, <2>1, <2>2, <2>3 DEF WorkerStep
<1>2. ASSUME NEW w \in Worker, Crash(w) PROVE FALSE
  <2>1. sched' = sched  BY <1>2 DEF Crash, tables
  <2>. QED  BY <2>1
<1>3. ASSUME NEW h \in Handler, HandlerStep(h)
      PROVE  pc[h] = "save" /\ form[h].owner = o /\ pc'[h] # "save"
  <2>1. CASE SaveSchedule(h)
    <3>1. form[h].owner = o /\ \E l \in {"idle", "ask"} : pc' = [pc EXCEPT ![h] = l]
      BY <2>1, SaveScheduleRows
    <3>2. pc'[h] # "save"  BY <3>1 DEF Inv, TypeOK, PcOK
    <3>. QED  BY <2>1, <3>1, <3>2 DEF SaveSchedule
  <2>2. CASE \/ LoadSchedule(h) \/ CreateProject(h) \/ FirstSchedule(h)
             \/ Ask(h) \/ Answer(h)
    <3>1. sched' = sched
      BY <2>2 DEF LoadSchedule, CreateProject, FirstSchedule, Ask, Answer, tables
    <3>. QED  BY <3>1
  <2>. QED  BY <1>3, <2>1, <2>2 DEF HandlerStep
<1>4. ASSUME NEW q \in Owner, Delete(q) PROVE FALSE
  <2>1. sched'[o] = sched[o]  BY <1>4, DeleteRows
  <2>. QED  BY <2>1
<1>5. ASSUME QueueStep \/ Tick \/ UNCHANGED vars PROVE FALSE
  <2>1. sched' = sched  BY <1>5 DEF QueueStep, Tick, vars, tables
  <2>. QED  BY <2>1
<1>. QED  BY <1>1, <1>2, <1>3, <1>4, <1>5 DEF Next

\* What an administrator saved stays until an administrator saves again: no pass
\* that read a row before brings back what it read.
THEOREM SavedSchedulesStay == Spec => SavedStays
<1>1. Inv /\ [Next]_vars =>
        [\A o \in Owner :
           LET old == sched[o]  new == sched'[o] IN
           old # NoSchedule /\ new # NoSchedule
             /\ <<old.enabled, old.interval>> # <<new.enabled, new.interval>> =>
           \E h \in Handler : pc[h] = "save" /\ form[h].owner = o /\ pc'[h] # "save"]_vars
  BY OnlySavesEdit
<1>. QED  BY <1>1, InvHolds, PTL DEF Spec, SavedStays
=============================================================================
