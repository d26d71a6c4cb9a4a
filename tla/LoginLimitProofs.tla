--------------------------- MODULE LoginLimitProofs ---------------------------
(***************************************************************************)
(* Proofs about LoginLimit, for any number of logins at a time, any        *)
(* settings and any bounds.                                                *)
(***************************************************************************)
EXTENDS LoginLimit, CommonLemmas

(***************************************************************************)
(* The inductive invariant.                                                *)
(***************************************************************************)

\* The failures of the window that ends at x, and the logins that may add to it.
Window(x) == {e \in ever : e.at <= x /\ e.at + settings.window >= x}
Pending(x) ==
  {h \in Handler : \/ /\ req[h].pc = "insert"
                      /\ req[h].at <= x /\ req[h].at + settings.window >= x
                   \/ req[h].pc = "verify" /\ now <= x}

\* A window that is full admits nobody, so what may still join it was under way
\* when it filled.
WindowsBounded ==
  settings.lockout > settings.window =>
    \A x \in Nat : Cardinality(Window(x)) + Cardinality(Pending(x))
                     <= settings.attempts - 1 + Cardinality(Handler)

Inserting == {h \in Handler : req[h].pc = "insert"}

\* Each failure on its way to the table has an id left.
IdsLeft == nextId + Cardinality(Inserting) <= MaxEvents + 1

Inv == TypeOK /\ IdsLeft /\ WindowsBounded

-----------------------------------------------------------------------------
(***************************************************************************)
(* Events and their times.                                                 *)
(***************************************************************************)

LEMMA BoundsNat == MaxTime \in Nat /\ MaxEvents \in Nat /\ IsFiniteSet(Handler)
BY LoginAssumption

LEMMA SettingsFacts ==
  ASSUME TypeOK
  PROVE  /\ settings.attempts \in Nat \ {0} /\ settings.window \in Nat \ {0}
         /\ settings.lockout \in Nat \ {0} /\ now \in Nat /\ KeepSeconds \in Nat
         /\ KeepSeconds >= settings.window + settings.window
         /\ KeepSeconds >= settings.lockout + settings.window
<1>1. /\ settings.attempts \in Nat \ {0} /\ settings.window \in Nat \ {0}
      /\ settings.lockout \in Nat \ {0}
  BY LoginAssumption DEF TypeOK
<1>2. now \in Nat  BY BoundsNat DEF TypeOK
<1>. QED  BY <1>1, <1>2 DEF KeepSeconds, Max2

LEMMA EventFacts == \A e \in Event : e.at \in Nat /\ e.at <= MaxTime /\ e.id \in 1..MaxEvents
BY BoundsNat DEF Event

LEMMA EventsFinite ==
  ASSUME NEW S, S \subseteq Event
  PROVE  IsFiniteSet(S)
<1> DEFINE P == (1..MaxEvents) \X (0..MaxTime)
           g == [e \in S |-> <<e.id, e.at>>]
<1>1. IsFiniteSet(1..MaxEvents) /\ IsFiniteSet(0..MaxTime)  BY BoundsNat, FS_Interval
<1>2. IsFiniteSet(P)  BY <1>1, FS_Product
<1>3. g \in Injection(S, P)
  <2>1. \A e \in S : <<e.id, e.at>> \in P  BY DEF Event
  <2>2. \A d, e \in S : d.id = e.id /\ d.at = e.at => d = e  BY DEF Event
  <2>. QED  BY <2>1, <2>2 DEF Injection, IsInjective
<1>. QED  BY <1>2, <1>3, FS_Injection

LEMMA Earliest ==
  ASSUME NEW S, S \subseteq Event, S # {}
  PROVE  \E e \in S : \A d \in S : e.at <= d.at
<1> DEFINE T == {e.at : e \in S}
<1>1. T \subseteq Nat /\ T # {}  BY EventFacts
<1>2. PICK t \in T : \A u \in T : t <= u  BY <1>1, LeastNatural
<1>. QED  BY <1>2

LEMMA Latest ==
  ASSUME NEW S, S \subseteq Event, S # {}
  PROVE  \E e \in S : \A d \in S : d.at <= e.at
<1> DEFINE T == {MaxTime - e.at : e \in S}
<1>1. \A e \in S : e.at \in Nat /\ MaxTime - e.at \in Nat  BY EventFacts, BoundsNat
<1>2. T \subseteq Nat /\ T # {}  BY <1>1
<1>3. PICK t \in T : \A u \in T : t <= u  BY <1>2, LeastNatural
<1>4. PICK e \in S : t = MaxTime - e.at  BY <1>3
<1>5. ASSUME NEW d \in S PROVE d.at <= e.at
  <2>1. MaxTime - e.at <= MaxTime - d.at  BY <1>3, <1>4
  <2>. QED  BY <1>1, <2>1, BoundsNat
<1>. QED  BY <1>5

LEMMA NewestFacts ==
  ASSUME NEW S, S \subseteq Event, S # {}
  PROVE  Newest(S) \in S /\ \A d \in S : d.at <= Newest(S).at
BY Latest DEF Newest

\* With enough events there is one that ORDER BY ... LIMIT attempts leaves last.
LEMMA OldestFacts ==
  ASSUME TypeOK, NEW S, S \subseteq Event, Cardinality(S) >= settings.attempts
  PROVE  \E e \in S : /\ Oldest(S) = e.at
                      /\ Cardinality(Later(S, e)) < settings.attempts
                      /\ Cardinality(NotBefore(S, e)) >= settings.attempts
<1>1. PICK n \in Nat \ {0} : n = settings.attempts  BY SettingsFacts
<1>2. \A T : T \subseteq S => IsFiniteSet(T) /\ Cardinality(T) \in Nat
  BY EventsFinite, FS_CardinalityType
<1> DEFINE T == {e \in S : Cardinality(NotBefore(S, e)) >= n}
<1>3. T # {}
  <2>1. S # {}  BY <1>1, FS_EmptySet
  <2>2. PICK e \in S : \A d \in S : e.at <= d.at  BY <2>1, Earliest
  <2>3. NotBefore(S, e) = S
    <3>1. \A d \in S : d.at \in Nat /\ e.at \in Nat  BY EventFacts
    <3>. QED  BY <2>2, <3>1 DEF NotBefore
  <2>. QED  BY <1>1, <2>2, <2>3
<1>4. PICK e \in T : \A d \in T : d.at <= e.at
  <2>1. T \subseteq Event  OBVIOUS
  <2>. QED  BY <1>3, <2>1, Latest
<1>5. Cardinality(Later(S, e)) < n
  <2>1. SUFFICES ASSUME ~(Cardinality(Later(S, e)) < n) PROVE FALSE  OBVIOUS
  <2>2. Later(S, e) \subseteq S  BY DEF Later
  <2>3. Cardinality(Later(S, e)) >= n  BY <1>1, <1>2, <2>1, <2>2
  <2>4. Later(S, e) # {}  BY <1>1, <2>3, FS_EmptySet
  <2>5. PICK d \in Later(S, e) : \A c \in Later(S, e) : d.at <= c.at
    BY <2>2, <2>4, Earliest
  <2>6. d \in S /\ d.at > e.at /\ e \in S  BY <2>5 DEF Later
  <2>7. \A c \in S : c.at \in Nat  BY EventFacts
  <2>8. NotBefore(S, d) = Later(S, e)
    BY <2>5, <2>6, <2>7 DEF NotBefore, Later
  <2>9. d \in T  BY <2>3, <2>6, <2>8
  <2>. QED  BY <1>4, <2>6, <2>7, <2>9
<1>6. \E d \in S : /\ Cardinality(Later(S, d)) < settings.attempts
                   /\ Cardinality(NotBefore(S, d)) >= settings.attempts
  BY <1>1, <1>4, <1>5
<1>. QED  BY <1>6 DEF Oldest

-----------------------------------------------------------------------------
(***************************************************************************)
(* Who is refused.                                                         *)
(***************************************************************************)

\* What the rows left by the pruning say, all the failures say.
LEMMA Refused ==
  ASSUME TypeOK
  PROVE  RetryAfter(now) <=>
           \E f \in ever :
             /\ \A e \in ever : e.at <= f.at
             /\ now < f.at + settings.lockout
             /\ Cardinality({e \in ever : e.at + settings.window >= f.at}) >= settings.attempts
<1> DEFINE S == Kept(events, now)
           Closes(f) == {e \in ever : e.at + settings.window >= f.at}
<1>1. PICK n \in Nat \ {0}, w \in Nat \ {0}, l \in Nat \ {0}, k \in Nat, t \in Nat :
        /\ n = settings.attempts /\ w = settings.window /\ l = settings.lockout
        /\ k = KeepSeconds /\ t = now /\ k >= w + w /\ k >= l + w
  BY SettingsFacts
<1>2. ever \subseteq Event /\ S \subseteq ever /\ \A e \in ever : e.at \in Nat
  BY EventFacts DEF TypeOK, Kept
<1>3. \A e \in ever : e \in S \/ e.at + k < t
  BY <1>1, <1>2 DEF TypeOK, Kept
<1>4. \A T : T \subseteq ever => IsFiniteSet(T) /\ Cardinality(T) \in Nat
  BY <1>2, EventsFinite, FS_CardinalityType
<1>5. RetryAfter(now) <=> /\ Cardinality(S) >= n
                          /\ Newest(S).at - Oldest(S) <= w
                          /\ Newest(S).at + l > t
  BY <1>1 DEF RetryAfter, LockedAt
<1> HIDE DEF S
<1>6. ASSUME RetryAfter(now)
      PROVE  \E f \in ever : /\ \A e \in ever : e.at <= f.at
                             /\ now < f.at + settings.lockout
                             /\ Cardinality(Closes(f)) >= settings.attempts
  <2>1. S \subseteq Event /\ Cardinality(S) >= n  BY <1>2, <1>5, <1>6
  <2>2. S # {}  BY <1>1, <2>1, FS_EmptySet
  <2>3. PICK f \in S : f = Newest(S) /\ \A d \in S : d.at <= f.at
    BY <2>1, <2>2, NewestFacts
  <2>4. PICK o \in S : Oldest(S) = o.at /\ Cardinality(NotBefore(S, o)) >= n
    BY <1>1, <2>1, OldestFacts
  <2>5. f.at - o.at <= w /\ f.at + l > t /\ f.at \in Nat /\ o.at \in Nat /\ f \in ever
    BY <1>2, <1>5, <1>6, <2>3, <2>4
  <2>6. \A e \in ever : e.at <= f.at
    <3>1. \A e \in ever : e.at + k < t => e.at <= f.at  BY <1>1, <1>2, <2>5
    <3>. QED  BY <1>3, <2>3, <3>1
  <2>7. Cardinality(Closes(f)) >= n
    <3>1. NotBefore(S, o) \subseteq Closes(f)
      <4>1. \A e \in NotBefore(S, o) : e \in ever /\ e.at >= o.at  BY <1>2 DEF NotBefore
      <4>2. \A e \in NotBefore(S, o) : e.at + w >= f.at  BY <1>1, <1>2, <2>5, <4>1
      <4>. QED  BY <1>1, <4>1, <4>2
    <3>2. Closes(f) \subseteq ever  OBVIOUS
    <3>3. IsFiniteSet(Closes(f))  BY <1>4, <3>2
    <3>4. /\ Cardinality(NotBefore(S, o)) <= Cardinality(Closes(f))
          /\ Cardinality(NotBefore(S, o)) \in Nat /\ Cardinality(Closes(f)) \in Nat
      BY <3>1, <3>3, FS_Subset, FS_CardinalityType
    <3>. QED  BY <1>1, <2>4, <3>4
  <2>8. now < f.at + settings.lockout  BY <1>1, <2>5
  <2>9. Cardinality(Closes(f)) >= settings.attempts  BY <1>1, <2>7
  <2> HIDE DEF Closes
  <2>. QED  BY <2>5, <2>6, <2>8, <2>9
<1>7. ASSUME NEW f \in ever, \A e \in ever : e.at <= f.at, now < f.at + settings.lockout,
             Cardinality(Closes(f)) >= settings.attempts
      PROVE  RetryAfter(now)
  <2>1. t < f.at + l /\ Cardinality(Closes(f)) >= n /\ f.at \in Nat  BY <1>1, <1>2, <1>7
  <2>2. Closes(f) \subseteq S
    <3>1. \A e \in Closes(f) : e \in ever /\ e.at + w >= f.at /\ e.at \in Nat  BY <1>1, <1>2
    <3>2. \A e \in Closes(f) : ~(e.at + k < t)  BY <1>1, <2>1, <3>1
    <3>. QED  BY <1>3, <3>1, <3>2
  <2>3. f \in S  BY <1>1, <1>2, <1>3, <2>1
  <2>4. S \subseteq Event /\ S # {} /\ IsFiniteSet(S) /\ Cardinality(S) \in Nat
    BY <1>2, <1>4, <2>3
  <2>5. Cardinality(S) >= n
    <3>1. Cardinality(Closes(f)) <= Cardinality(S) /\ Cardinality(Closes(f)) \in Nat
      BY <2>2, <2>4, FS_Subset, FS_CardinalityType
    <3>. QED  BY <1>1, <2>1, <2>4, <3>1
  <2>6. Newest(S).at = f.at
    <3>1. Newest(S) \in S /\ f.at <= Newest(S).at  BY <2>3, <2>4, NewestFacts
    <3>2. Newest(S).at <= f.at /\ Newest(S).at \in Nat  BY <1>2, <1>7, <3>1
    <3>. QED  BY <2>1, <3>1, <3>2
  <2>7. PICK o \in S : Oldest(S) = o.at /\ Cardinality(Later(S, o)) < n
    BY <1>1, <2>4, <2>5, OldestFacts
  <2>8. o.at + w >= f.at
    <3>1. SUFFICES ASSUME o.at + w < f.at PROVE FALSE
      BY <1>1, <1>2, <2>1
    <3>2. Closes(f) \subseteq Later(S, o)
      <4>1. \A e \in Closes(f) : e \in S /\ e.at + w >= f.at /\ e.at \in Nat
        BY <1>1, <1>2, <2>2
      <4>2. o.at \in Nat  BY <1>2
      <4>3. \A e \in Closes(f) : e.at > o.at  BY <1>1, <2>1, <3>1, <4>1, <4>2
      <4>. QED  BY <4>1, <4>3 DEF Later
    <3>3. IsFiniteSet(Later(S, o))  BY <1>2, <1>4 DEF Later
    <3>4. /\ Cardinality(Closes(f)) <= Cardinality(Later(S, o))
          /\ Cardinality(Closes(f)) \in Nat /\ Cardinality(Later(S, o)) \in Nat
      BY <3>2, <3>3, FS_Subset, FS_CardinalityType
    <3>. QED  BY <1>1, <2>1, <2>7, <3>4
  <2>9. Newest(S).at - Oldest(S) <= w /\ Newest(S).at + l > t
    <3>1. o.at \in Nat  BY <1>2
    <3>. QED  BY <1>1, <2>1, <2>6, <2>7, <2>8, <3>1
  <2>. QED  BY <1>5, <2>5, <2>9
<1>. QED  BY <1>6, <1>7

-----------------------------------------------------------------------------
(***************************************************************************)
(* Each step keeps the invariant.                                          *)
(***************************************************************************)

Request == [pc : {"idle", "verify", "insert", "count"}, at : 0..now]

LEMMA RequestFacts ==
  ASSUME TypeOK
  PROVE  Idle \in Request /\ Idle.pc = "idle" /\ [pc |-> "insert", at |-> now] \in Request
<1>1. 0 \in 0..now /\ now \in 0..now  BY SettingsFacts
<1>. QED  BY <1>1 DEF Idle, Request

\* Pruning by a time that has come loses no row of use.
LEMMA KeptFacts ==
  ASSUME TypeOK, NEW t \in 0..now
  PROVE  /\ Kept(events, t) \subseteq events
         /\ \A e \in ever \ Kept(events, t) : e.at + KeepSeconds < now
<1>1. PICK k \in Nat, n \in Nat : k = KeepSeconds /\ n = now  BY SettingsFacts
<1>2. \A e \in ever : e.at \in Nat  BY EventFacts DEF TypeOK
<1>3. t \in Nat /\ t <= n  BY <1>1
<1>4. \A e \in ever \ events : e.at + k < n  BY <1>1 DEF TypeOK
<1>5. Kept(events, t) = {e \in events : e.at + k >= t}  BY <1>1 DEF Kept
<1>6. \A e \in ever \ Kept(events, t) : e.at + k < n  BY <1>1, <1>2, <1>3, <1>4, <1>5
<1>. QED  BY <1>1, <1>5, <1>6

\* A step of one login that adds no failure.
LEMMA TypeFrame ==
  ASSUME TypeOK, NEW h \in Handler, NEW r \in Request, req' = [req EXCEPT ![h] = r],
         UNCHANGED <<now, settings, ever, nextId>>, events' \subseteq events,
         \A e \in ever \ events' : e.at + KeepSeconds < now
  PROVE  TypeOK'
<1>1. now' = now /\ settings' = settings /\ ever' = ever /\ nextId' = nextId  OBVIOUS
<1>2. KeepSeconds' = KeepSeconds  BY <1>1 DEF KeepSeconds
<1>3. req' \in [Handler -> [pc : {"idle", "verify", "insert", "count"}, at : 0..now']]
  BY <1>1 DEF TypeOK, Request
<1>4. events' \subseteq ever'  BY <1>1 DEF TypeOK
<1>5. \A e \in ever' \ events' : e.at + KeepSeconds' < now'  BY <1>1, <1>2
<1>. QED  BY <1>1, <1>3, <1>4, <1>5 DEF TypeOK

LEMMA CountsFacts ==
  ASSUME TypeOK
  PROVE  /\ IsFiniteSet(Handler) /\ Cardinality(Handler) \in Nat
         /\ \A H : H \subseteq Handler => /\ IsFiniteSet(H) /\ Cardinality(H) \in Nat
                                          /\ Cardinality(H) <= Cardinality(Handler)
         /\ \A S : S \subseteq ever => IsFiniteSet(S) /\ Cardinality(S) \in Nat
<1>1. ever \subseteq Event  BY DEF TypeOK
<1>2. \A S : S \subseteq ever => IsFiniteSet(S) /\ Cardinality(S) \in Nat
  BY <1>1, EventsFinite, FS_CardinalityType
<1>. QED  BY <1>2, BoundsNat, FS_Subset, FS_CardinalityType

\* A window that is not full is bounded whoever is under way; one that is, when
\* it grows by no more than the logins under way get fewer.
LEMMA BoundedStep ==
  ASSUME TypeOK, TypeOK', WindowsBounded, settings' = settings,
         settings.lockout > settings.window =>
           \A x \in Nat : \/ Cardinality(Window(x)') <= settings.attempts - 1
                          \/ Cardinality(Window(x)') + Cardinality(Pending(x)')
                               <= Cardinality(Window(x)) + Cardinality(Pending(x))
  PROVE  WindowsBounded'
<1>1. SUFFICES ASSUME settings.lockout > settings.window, NEW x \in Nat
               PROVE  Cardinality(Window(x)') + Cardinality(Pending(x)')
                        <= settings.attempts - 1 + Cardinality(Handler)
  BY DEF WindowsBounded
<1>2. Window(x) \subseteq ever /\ Pending(x) \subseteq Handler
      /\ Window(x)' \subseteq ever' /\ Pending(x)' \subseteq Handler
  BY DEF Window, Pending
<1>3. \A S : S \subseteq ever' => IsFiniteSet(S) /\ Cardinality(S) \in Nat
  <2>1. ever' \subseteq Event  BY DEF TypeOK
  <2>. QED  BY <2>1, EventsFinite, FS_CardinalityType
<1>4. PICK a \in Nat, b \in Nat, c \in Nat, d \in Nat, m \in Nat, n \in Nat :
        /\ a = Cardinality(Window(x)) /\ b = Cardinality(Pending(x))
        /\ c = Cardinality(Window(x)') /\ d = Cardinality(Pending(x)') /\ d <= m
        /\ m = Cardinality(Handler) /\ n = settings.attempts
  BY <1>2, <1>3, CountsFacts, SettingsFacts
<1>5. a + b <= n - 1 + m  BY <1>1, <1>4 DEF WindowsBounded
<1>6. c <= n - 1 \/ c + d <= a + b  BY <1>1, <1>4
<1>7. c + d <= n - 1 + m  BY <1>4, <1>5, <1>6
<1>. QED  BY <1>4, <1>7

\* A login that meets a full window is refused.
LEMMA FullRefuses ==
  ASSUME TypeOK, settings.lockout > settings.window, NEW x \in Nat, now <= x,
         Cardinality(Window(x)) >= settings.attempts
  PROVE  RetryAfter(now)
<1>1. PICK n \in Nat \ {0}, w \in Nat \ {0}, l \in Nat \ {0}, t \in Nat :
        n = settings.attempts /\ w = settings.window /\ l = settings.lockout /\ t = now
  BY SettingsFacts
<1>2. ever \subseteq Event /\ \A e \in ever : e.at \in Nat /\ e.at <= t
  BY <1>1, EventFacts DEF TypeOK
<1>3. Window(x) # {} /\ Window(x) \subseteq ever  BY <1>1, FS_EmptySet DEF Window
<1>4. PICK f \in ever : \A e \in ever : e.at <= f.at  BY <1>2, <1>3, Latest
<1>5. PICK d \in Window(x) : d \in ever /\ d.at <= f.at /\ d.at + w >= x
  BY <1>1, <1>3, <1>4 DEF Window
<1>6. t < f.at + l  BY <1>1, <1>2, <1>5
<1> DEFINE C == {e \in ever : e.at + settings.window >= f.at}
<1>7. Window(x) \subseteq C
  <2>1. \A e \in Window(x) : e \in ever /\ e.at + w >= x  BY <1>1 DEF Window
  <2>2. f.at <= x  BY <1>1, <1>2
  <2>. QED  BY <1>1, <1>2, <2>1, <2>2
<1>8. Cardinality(C) >= settings.attempts
  <2>1. IsFiniteSet(C) /\ Cardinality(C) \in Nat  BY CountsFacts
  <2>2. Cardinality(Window(x)) <= Cardinality(C) /\ Cardinality(Window(x)) \in Nat
    BY <1>7, <2>1, FS_Subset, FS_CardinalityType
  <2>. QED  BY <1>1, <2>1, <2>2
<1>. QED  BY <1>1, <1>4, <1>6, <1>8, Refused

LEMMA SameWindow ==
  ASSUME TypeOK, NEW x, Window(x)' = Window(x), Pending(x)' \subseteq Pending(x)
  PROVE  Cardinality(Window(x)') + Cardinality(Pending(x)')
           <= Cardinality(Window(x)) + Cardinality(Pending(x))
<1>1. Window(x) \subseteq ever /\ Pending(x) \subseteq Handler  BY DEF Window, Pending
<1>2. /\ Cardinality(Window(x)) \in Nat /\ IsFiniteSet(Pending(x))
      /\ Cardinality(Pending(x)) \in Nat
  BY <1>1, CountsFacts
<1>3. Cardinality(Pending(x)') <= Cardinality(Pending(x)) /\ Cardinality(Pending(x)') \in Nat
  BY <1>2, FS_Subset, FS_CardinalityType
<1>. QED  BY <1>2, <1>3

LEMMA ReqChange ==
  ASSUME TypeOK, NEW h \in Handler, NEW r \in Request, req' = [req EXCEPT ![h] = r]
  PROVE  req'[h] = r /\ \A g \in Handler : g # h => req'[g] = req[g]
BY DEF TypeOK

\* The ids are enough as long as a login that will insert took one into account.
LEMMA SameInserting ==
  ASSUME TypeOK, IdsLeft, nextId' = nextId, Inserting' \subseteq Inserting
  PROVE  IdsLeft'
<1>1. Inserting \subseteq Handler /\ Inserting' \subseteq Handler  BY DEF Inserting
<1>2. IsFiniteSet(Inserting) /\ Cardinality(Inserting) \in Nat
      /\ Cardinality(Inserting') \in Nat /\ Cardinality(Inserting') <= Cardinality(Inserting)
  <2>1. IsFiniteSet(Inserting)  BY <1>1, CountsFacts
  <2>. QED  BY <1>1, <2>1, CountsFacts, FS_Subset
<1>3. nextId \in Nat  BY BoundsNat DEF TypeOK
<1>. QED  BY <1>2, <1>3, BoundsNat DEF IdsLeft

LEMMA CheckKeeps ==
  ASSUME Inv, NEW h \in Handler, Check(h)
  PROVE  Inv'
<1>1. TypeOK /\ IdsLeft /\ WindowsBounded /\ req[h] \in Request
  BY DEF Inv, TypeOK, Request
<1>2. PICK p \in {"idle", "verify"} : p = IF RetryAfter(now) THEN "idle" ELSE "verify"
  OBVIOUS
<1>3. PICK r \in Request : r = [req[h] EXCEPT !.pc = p] /\ r.pc = p
  <2>1. [req[h] EXCEPT !.pc = p] \in Request /\ [req[h] EXCEPT !.pc = p].pc = p
    BY <1>1 DEF Request
  <2>. QED  BY <2>1
<1>4. /\ req[h].pc = "idle" /\ events' = Kept(events, now) /\ req' = [req EXCEPT ![h] = r]
      /\ UNCHANGED <<now, settings, ever, nextId>>
  BY <1>2, <1>3 DEF Check
<1>5. now \in 0..now  BY <1>1, SettingsFacts
<1>6. TypeOK'  BY <1>1, <1>4, <1>5, KeptFacts, TypeFrame
<1>7. req'[h] = r /\ \A g \in Handler : g # h => req'[g] = req[g]  BY <1>1, <1>4, ReqChange
<1>8. Inserting' = Inserting  BY <1>3, <1>4, <1>7 DEF Inserting
<1>9. IdsLeft'  BY <1>1, <1>4, <1>8, SameInserting
<1>10. ASSUME settings.lockout > settings.window, NEW x \in Nat
       PROVE  \/ Cardinality(Window(x)') <= settings.attempts - 1
              \/ Cardinality(Window(x)') + Cardinality(Pending(x)')
                   <= Cardinality(Window(x)) + Cardinality(Pending(x))
  <2>1. Window(x)' = Window(x)  BY <1>4 DEF Window
  <2>2. CASE Cardinality(Window(x)) >= settings.attempts
    <3>1. now <= x => r.pc = "idle"  BY <1>1, <1>2, <1>3, <1>10, <2>2, FullRefuses
    <3>2. h \notin Pending(x)'
      <4>1. r.pc # "insert" /\ ~(r.pc = "verify" /\ now <= x)  BY <1>2, <1>3, <3>1
      <4>. QED  BY <1>4, <1>7, <4>1 DEF Pending
    <3>3. Pending(x)' \subseteq Pending(x)  BY <1>4, <1>7, <3>2 DEF Pending
    <3>. QED  BY <1>1, <2>1, <3>3, SameWindow
  <2>3. CASE ~(Cardinality(Window(x)) >= settings.attempts)
    <3>1. Window(x) \subseteq ever  BY DEF Window
    <3>2. Cardinality(Window(x)) \in Nat /\ settings.attempts \in Nat
      BY <1>1, <3>1, CountsFacts, SettingsFacts
    <3>. QED  BY <2>1, <2>3, <3>2
  <2>. QED  BY <2>2, <2>3
<1>11. WindowsBounded'  BY <1>1, <1>4, <1>6, <1>10, BoundedStep
<1>. QED  BY <1>6, <1>9, <1>11 DEF Inv

LEMMA FailKeeps ==
  ASSUME Inv, NEW h \in Handler, Fail(h)
  PROVE  Inv'
<1>1. TypeOK /\ IdsLeft /\ WindowsBounded  BY DEF Inv
<1>2. PICK r \in Request : r = [pc |-> "insert", at |-> now]
  BY <1>1, RequestFacts
<1>3. /\ req[h].pc = "verify" /\ req' = [req EXCEPT ![h] = r]
      /\ UNCHANGED <<now, settings, events, ever, nextId>>
      /\ nextId + Cardinality(Inserting) <= MaxEvents
  BY <1>2 DEF Fail, Inserting
<1>4. r.pc = "insert" /\ r.at = now  BY <1>2
<1>5. TypeOK'
  <2>1. \A e \in ever \ events : e.at + KeepSeconds < now  BY <1>1 DEF TypeOK
  <2>. QED  BY <1>1, <1>3, <2>1, TypeFrame
<1>6. req'[h] = r /\ \A g \in Handler : g # h => req'[g] = req[g]  BY <1>1, <1>3, ReqChange
<1>7. IdsLeft'
  <2>1. Inserting' = Inserting \cup {h} /\ h \notin Inserting
    BY <1>3, <1>4, <1>6 DEF Inserting
  <2>2. IsFiniteSet(Inserting) /\ Cardinality(Inserting) \in Nat
    <3>1. Inserting \subseteq Handler  BY DEF Inserting
    <3>. QED  BY <1>1, <3>1, CountsFacts
  <2>3. Cardinality(Inserting') = Cardinality(Inserting) + 1  BY <2>1, <2>2, FS_AddElement
  <2>4. nextId \in Nat /\ nextId' = nextId  BY <1>1, <1>3, BoundsNat DEF TypeOK
  <2>. QED  BY <1>3, <2>2, <2>3, <2>4, BoundsNat DEF IdsLeft
<1>8. ASSUME NEW x \in Nat
      PROVE  Cardinality(Window(x)') + Cardinality(Pending(x)')
               <= Cardinality(Window(x)) + Cardinality(Pending(x))
  <2>1. Window(x)' = Window(x)  BY <1>3 DEF Window
  <2>2. Pending(x)' \subseteq Pending(x)  BY <1>3, <1>4, <1>6 DEF Pending
  <2>. QED  BY <1>1, <2>1, <2>2, SameWindow
<1>9. WindowsBounded'  BY <1>1, <1>3, <1>5, <1>8, BoundedStep
<1>. QED  BY <1>5, <1>7, <1>9 DEF Inv

LEMMA RecordFailureKeeps ==
  ASSUME Inv, NEW h \in Handler, RecordFailure(h)
  PROVE  Inv'
<1>1. TypeOK /\ IdsLeft /\ WindowsBounded /\ req[h] \in Request
  BY DEF Inv, TypeOK, Request
<1>2. PICK r \in Request : r = [req[h] EXCEPT !.pc = "count"] /\ r.pc = "count"
  <2>1. [req[h] EXCEPT !.pc = "count"] \in Request /\ [req[h] EXCEPT !.pc = "count"].pc = "count"
    BY <1>1 DEF Request
  <2>. QED  BY <2>1
<1>3. h \in Inserting /\ req[h].pc = "insert"  BY DEF RecordFailure, Inserting
<1>4. /\ IsFiniteSet(Inserting) /\ Cardinality(Inserting) \in Nat /\ nextId \in Nat
      /\ Cardinality(Inserting \ {h}) = Cardinality(Inserting) - 1
      /\ Cardinality(Inserting \ {h}) \in Nat
  <2>1. Inserting \subseteq Handler /\ Inserting \ {h} \subseteq Handler  BY DEF Inserting
  <2>2. nextId \in Nat  BY <1>1, BoundsNat DEF TypeOK
  <2>. QED  BY <1>1, <1>3, <2>1, <2>2, CountsFacts, FS_RemoveElement
<1>5. nextId \in 1..MaxEvents
  <2>1. nextId >= 1  BY <1>1 DEF TypeOK
  <2>2. nextId + Cardinality(Inserting) <= MaxEvents + 1  BY <1>1 DEF IdsLeft
  <2>. QED  BY <1>4, <2>1, <2>2, BoundsNat
<1>6. now \in Nat /\ now <= MaxTime /\ req[h].at \in 0..now
  BY <1>1, BoundsNat DEF TypeOK, Request
<1>7. PICK e \in Event : e = Failure(h) /\ e.id = nextId /\ e.at = req[h].at
  <2>1. req[h].at \in 0..MaxTime  BY <1>6, BoundsNat
  <2>2. Failure(h) \in Event  BY <1>5, <2>1 DEF Failure, Event
  <2>. QED  BY <2>2 DEF Failure
<1>8. /\ events' = events \cup {e} /\ ever' = ever \cup {e} /\ nextId' = nextId + 1
      /\ req' = [req EXCEPT ![h] = r] /\ now' = now /\ settings' = settings
  BY <1>2, <1>7 DEF RecordFailure
<1>9. req'[h] = r /\ \A g \in Handler : g # h => req'[g] = req[g]  BY <1>1, <1>8, ReqChange
<1>10. TypeOK'
  <2>1. KeepSeconds' = KeepSeconds  BY <1>8 DEF KeepSeconds
  <2>2. nextId' \in 1..(MaxEvents + 1)  BY <1>5, <1>8, BoundsNat
  <2>3. events' \subseteq ever' /\ ever' \subseteq Event  BY <1>1, <1>8 DEF TypeOK
  <2>4. \A d \in ever' : d.id < nextId' /\ d.at <= now'
    <3>1. \A d \in ever : d.id < nextId /\ d.at <= now /\ d.id \in Nat
      BY <1>1, EventFacts, BoundsNat DEF TypeOK
    <3>2. e.id < nextId + 1 /\ e.at <= now  BY <1>4, <1>6, <1>7
    <3>. QED  BY <1>4, <1>8, <3>1, <3>2
  <2>5. \A d \in ever' \ events' : d.at + KeepSeconds' < now'
    <3>1. ever' \ events' \subseteq ever \ events  BY <1>8
    <3>2. \A d \in ever \ events : d.at + KeepSeconds < now  BY <1>1 DEF TypeOK
    <3>. QED  BY <1>8, <2>1, <3>1, <3>2
  <2>6. req' \in [Handler -> [pc : {"idle", "verify", "insert", "count"}, at : 0..now']]
    BY <1>1, <1>8 DEF TypeOK, Request
  <2>7. now' \in 0..MaxTime /\ settings' \in Settings  BY <1>1, <1>8 DEF TypeOK
  <2>. QED  BY <2>2, <2>3, <2>4, <2>5, <2>6, <2>7 DEF TypeOK
<1>11. IdsLeft'
  <2>1. Inserting' = Inserting \ {h}  BY <1>2, <1>9 DEF Inserting
  <2>. QED  BY <1>1, <1>4, <1>8, <2>1, BoundsNat DEF IdsLeft
<1>12. ASSUME NEW x \in Nat
       PROVE  Cardinality(Window(x)') + Cardinality(Pending(x)')
                <= Cardinality(Window(x)) + Cardinality(Pending(x))
  <2>1. CASE e.at <= x /\ e.at + settings.window >= x
    <3>1. /\ Window(x)' = Window(x) \cup {e} /\ h \in Pending(x)
          /\ Pending(x)' = Pending(x) \ {h}
      <4>1. Window(x)' = Window(x) \cup {e}  BY <1>8, <2>1 DEF Window
      <4>2. h \in Pending(x)  BY <1>3, <1>7, <2>1 DEF Pending
      <4>3. Pending(x)' = Pending(x) \ {h}  BY <1>2, <1>8, <1>9 DEF Pending
      <4>. QED  BY <4>1, <4>2, <4>3
    <3>2. /\ IsFiniteSet(Window(x)) /\ Cardinality(Window(x)) \in Nat
          /\ IsFiniteSet(Pending(x)) /\ Cardinality(Pending(x)) \in Nat
      <4>1. Window(x) \subseteq ever /\ Pending(x) \subseteq Handler  BY DEF Window, Pending
      <4>. QED  BY <1>1, <4>1, CountsFacts
    <3>3. /\ Cardinality(Window(x)') = Cardinality(Window(x))
          \/ Cardinality(Window(x)') = Cardinality(Window(x)) + 1
      BY <3>1, <3>2, FS_AddElement
    <3>4. Cardinality(Pending(x)') = Cardinality(Pending(x)) - 1
      BY <3>1, <3>2, FS_RemoveElement
    <3>. QED  BY <3>2, <3>3, <3>4
  <2>2. CASE ~(e.at <= x /\ e.at + settings.window >= x)
    <3>1. Window(x)' = Window(x)  BY <1>8, <2>2 DEF Window
    <3>2. Pending(x)' \subseteq Pending(x)  BY <1>2, <1>8, <1>9 DEF Pending
    <3>. QED  BY <1>1, <3>1, <3>2, SameWindow
  <2>. QED  BY <2>1, <2>2
<1>13. WindowsBounded'  BY <1>1, <1>8, <1>10, <1>12, BoundedStep
<1>. QED  BY <1>10, <1>11, <1>13 DEF Inv

LEMMA CountAfterKeeps ==
  ASSUME Inv, NEW h \in Handler, CountAfter(h)
  PROVE  Inv'
<1>1. TypeOK /\ IdsLeft /\ WindowsBounded  BY DEF Inv
<1>2. PICK r \in Request : r = Idle /\ r.pc = "idle"
  BY <1>1, RequestFacts
<1>3. PICK t \in 0..now : t = req[h].at  BY <1>1 DEF TypeOK
<1>4. /\ events' = Kept(events, t) /\ req' = [req EXCEPT ![h] = r]
      /\ UNCHANGED <<now, settings, ever, nextId>>
  BY <1>2, <1>3 DEF CountAfter
<1>5. TypeOK'  BY <1>1, <1>4, KeptFacts, TypeFrame
<1>6. req'[h] = r /\ \A g \in Handler : g # h => req'[g] = req[g]  BY <1>1, <1>4, ReqChange
<1>7. Inserting' \subseteq Inserting  BY <1>2, <1>6 DEF Inserting
<1>8. IdsLeft'  BY <1>1, <1>4, <1>7, SameInserting
<1>9. ASSUME NEW x \in Nat
      PROVE  Cardinality(Window(x)') + Cardinality(Pending(x)')
               <= Cardinality(Window(x)) + Cardinality(Pending(x))
  <2>1. Window(x)' = Window(x)  BY <1>4 DEF Window
  <2>2. Pending(x)' \subseteq Pending(x)  BY <1>2, <1>4, <1>6 DEF Pending
  <2>. QED  BY <1>1, <2>1, <2>2, SameWindow
<1>10. WindowsBounded'  BY <1>1, <1>4, <1>5, <1>9, BoundedStep
<1>. QED  BY <1>5, <1>8, <1>10 DEF Inv

LEMMA SucceedKeeps ==
  ASSUME Inv, NEW h \in Handler, Succeed(h)
  PROVE  Inv'
<1>1. TypeOK /\ IdsLeft /\ WindowsBounded  BY DEF Inv
<1>2. PICK r \in Request : r = Idle /\ r.pc = "idle"
  BY <1>1, RequestFacts
<1>3. /\ events' = {} /\ ever' = {} /\ req' = [req EXCEPT ![h] = r]
      /\ now' = now /\ settings' = settings /\ nextId' = nextId
  BY <1>2 DEF Succeed
<1>4. TypeOK'
  <2>1. req' \in [Handler -> [pc : {"idle", "verify", "insert", "count"}, at : 0..now']]
    BY <1>1, <1>3 DEF TypeOK, Request
  <2>. QED  BY <1>1, <1>3, <2>1 DEF TypeOK
<1>5. req'[h] = r /\ \A g \in Handler : g # h => req'[g] = req[g]  BY <1>1, <1>3, ReqChange
<1>6. Inserting' \subseteq Inserting  BY <1>2, <1>5 DEF Inserting
<1>7. IdsLeft'  BY <1>1, <1>3, <1>6, SameInserting
<1>8. ASSUME NEW x \in Nat PROVE Cardinality(Window(x)') <= settings.attempts - 1
  <2>1. Window(x)' = {}  BY <1>3 DEF Window
  <2>. QED  BY <1>1, <2>1, FS_EmptySet, SettingsFacts
<1>9. WindowsBounded'  BY <1>1, <1>3, <1>4, <1>8, BoundedStep
<1>. QED  BY <1>4, <1>7, <1>9 DEF Inv

LEMMA TickKeeps ==
  ASSUME Inv, Tick
  PROVE  Inv'
<1>1. TypeOK /\ IdsLeft /\ WindowsBounded  BY DEF Inv
<1>2. PICK n \in Nat, k \in Nat : n = now /\ k = KeepSeconds  BY <1>1, SettingsFacts
<1>3. /\ now' = n + 1 /\ n < MaxTime /\ settings' = settings /\ events' = events /\ ever' = ever
      /\ nextId' = nextId /\ req' = req
  BY <1>2 DEF Tick
<1>4. TypeOK'
  <2>1. KeepSeconds' = KeepSeconds  BY <1>3 DEF KeepSeconds
  <2>2. \A e \in ever : e.at \in Nat /\ e.at <= n /\ e.id < nextId
    BY <1>1, <1>2, EventFacts DEF TypeOK
  <2>3. \A e \in ever \ events : e.at + k < n  BY <1>1, <1>2 DEF TypeOK
  <2>4. \A e \in ever' : e.id < nextId' /\ e.at <= now'  BY <1>3, <2>2
  <2>5. \A e \in ever' \ events' : e.at + KeepSeconds' < now'  BY <1>2, <1>3, <2>1, <2>2, <2>3
  <2>6. req' \in [Handler -> [pc : {"idle", "verify", "insert", "count"}, at : 0..now']]
    <3>1. 0..n \subseteq 0..(n + 1)  OBVIOUS
    <3>2. req \in [Handler -> [pc : {"idle", "verify", "insert", "count"}, at : 0..n]]
      BY <1>1, <1>2 DEF TypeOK
    <3>. QED  BY <1>3, <3>1, <3>2
  <2>7. now' \in 0..MaxTime  BY <1>3, BoundsNat
  <2>8. /\ settings' \in Settings /\ nextId' \in 1..(MaxEvents + 1)
        /\ events' \subseteq ever' /\ ever' \subseteq Event
    BY <1>1, <1>3 DEF TypeOK
  <2>. QED  BY <2>4, <2>5, <2>6, <2>7, <2>8 DEF TypeOK
<1>5. Inserting' \subseteq Inserting  BY <1>3 DEF Inserting
<1>6. IdsLeft'  BY <1>1, <1>3, <1>5, SameInserting
<1>7. ASSUME NEW x \in Nat
      PROVE  Cardinality(Window(x)') + Cardinality(Pending(x)')
               <= Cardinality(Window(x)) + Cardinality(Pending(x))
  <2>1. Window(x)' = Window(x)  BY <1>3 DEF Window
  <2>2. now' <= x => now <= x  BY <1>2, <1>3
  <2>3. Pending(x)' \subseteq Pending(x)  BY <1>3, <2>2 DEF Pending
  <2>. QED  BY <1>1, <2>1, <2>3, SameWindow
<1>8. WindowsBounded'  BY <1>1, <1>3, <1>4, <1>7, BoundedStep
<1>. QED  BY <1>4, <1>6, <1>8 DEF Inv

-----------------------------------------------------------------------------
(***************************************************************************)
(* The invariant and the theorems.                                         *)
(***************************************************************************)

LEMMA InitInv == Init => Inv
<1>. SUFFICES ASSUME Init PROVE Inv  OBVIOUS
<1>1. /\ now = 0 /\ settings \in Settings /\ events = {} /\ ever = {} /\ nextId = 1
      /\ req = [h \in Handler |-> [pc |-> "idle", at |-> 0]]
  BY DEF Init, Idle
<1>2. TypeOK
  <2>1. 0 \in 0..MaxTime /\ 1 \in 1..(MaxEvents + 1)  BY BoundsNat
  <2>. QED  BY <1>1, <2>1 DEF TypeOK
<1>3. \A h \in Handler : req[h].pc = "idle"  BY <1>1
<1>4. Inserting = {}  BY <1>3 DEF Inserting
<1>5. IdsLeft  BY <1>1, <1>4, FS_EmptySet, BoundsNat DEF IdsLeft
<1>6. WindowsBounded
  <2>1. SUFFICES ASSUME NEW x \in Nat
                 PROVE  Cardinality(Window(x)) + Cardinality(Pending(x))
                          <= settings.attempts - 1 + Cardinality(Handler)
    BY DEF WindowsBounded
  <2>2. Window(x) = {} /\ Pending(x) = {}  BY <1>1, <1>3 DEF Window, Pending
  <2>. QED  BY <1>2, <2>2, FS_EmptySet, CountsFacts, SettingsFacts
<1>. QED  BY <1>2, <1>5, <1>6 DEF Inv

LEMMA NextKeeps == Inv /\ [Next]_vars => Inv'
<1>. SUFFICES ASSUME Inv, [Next]_vars PROVE Inv'  OBVIOUS
<1>1. CASE Next  
  BY <1>1, CheckKeeps, FailKeeps, RecordFailureKeeps, CountAfterKeeps, SucceedKeeps, TickKeeps
  DEF Next
<1>2. CASE UNCHANGED vars
  <2>1. /\ now' = now /\ settings' = settings /\ events' = events /\ ever' = ever
        /\ nextId' = nextId /\ req' = req
    BY <1>2 DEF vars
  <2>2. TypeOK'  BY <2>1 DEF Inv, TypeOK, KeepSeconds
  <2>3. IdsLeft'  BY <2>1 DEF Inv, IdsLeft, Inserting
  <2>4. \A x : Window(x)' = Window(x) /\ Pending(x)' = Pending(x)
    BY <2>1 DEF Window, Pending
  <2>5. WindowsBounded'  BY <2>1, <2>4 DEF Inv, WindowsBounded
  <2>. QED  BY <2>2, <2>3, <2>5 DEF Inv
<1>. QED  BY <1>1, <1>2

THEOREM InvHolds == Spec => []Inv
BY InitInv, NextKeeps, PTL DEF Spec

\* The rows are failures since the last success, and a row the pruning took is
\* past every use, whichever clock the pruning went by.
THEOREM LoginTypeCorrect == Spec => []TypeOK
<1>1. Inv => TypeOK  BY DEF Inv
<1>. QED  BY <1>1, InvHolds, PTL

\* Pruning never changes who is refused: the rows it leaves give the answer that
\* all failures since the last success give.
THEOREM AlwaysRefusedExactly == Spec => []RefusedExactly
<1>1. Inv => RefusedExactly
  <2>1. RetryAfter(now) \in BOOLEAN  BY DEF RetryAfter, LockedAt
  <2>. QED  BY <2>1, Refused DEF Inv, RefusedExactly
<1>. QED  BY <1>1, InvHolds, PTL

\* With a lockout longer than the window, a window has at most one failure less
\* than the limit and one for each login that can be under way, however the
\* logins that passed the check together go on.
THEOREM FailuresAlwaysBounded == Spec => []FailuresBounded
<1>1. Inv => FailuresBounded
  <2>. SUFFICES ASSUME Inv, settings.lockout > settings.window, NEW f \in ever
                PROVE  Cardinality({e \in ever : e.at <= f.at /\ e.at + settings.window >= f.at})
                         <= settings.attempts - 1 + Cardinality(Handler)
    BY DEF FailuresBounded
  <2>1. TypeOK /\ f.at \in Nat  BY EventFacts DEF Inv, TypeOK
  <2>2. PICK x \in Nat : x = f.at  BY <2>1
  <2>3. Cardinality(Window(x)) + Cardinality(Pending(x))
          <= settings.attempts - 1 + Cardinality(Handler)
    BY DEF Inv, WindowsBounded
  <2>4. Window(x) \subseteq ever /\ Pending(x) \subseteq Handler  BY DEF Window, Pending
  <2>5. /\ Cardinality(Window(x)) \in Nat /\ Cardinality(Pending(x)) \in Nat
        /\ Cardinality(Handler) \in Nat /\ settings.attempts \in Nat
    BY <2>1, <2>4, CountsFacts, SettingsFacts
  <2>6. Cardinality(Window(x)) <= settings.attempts - 1 + Cardinality(Handler)
    BY <2>3, <2>5
  <2>. QED  BY <2>2, <2>6 DEF Window
<1>. QED  BY <1>1, InvHolds, PTL
=============================================================================
