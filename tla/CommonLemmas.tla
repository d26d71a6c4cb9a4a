------------------------------ MODULE CommonLemmas ------------------------------
(***************************************************************************)
(* Facts about sequences and numbers that the proofs about several         *)
(* components cite.                                                        *)
(***************************************************************************)
EXTENDS Naturals, SequencesExt, FiniteSetTheorems, SequenceTheorems, WellFoundedInduction, TLAPS

\* A finite set as a sequence: each element once.
LEMMA SetToSeqFacts ==
  ASSUME NEW S, IsFiniteSet(S)
  PROVE  /\ SetToSeq(S) \in Seq(S)
         /\ \A x \in S : \E i \in 1..Len(SetToSeq(S)) : SetToSeq(S)[i] = x
         /\ \A i, j \in 1..Len(SetToSeq(S)) : SetToSeq(S)[i] = SetToSeq(S)[j] => i = j
<1>1. PICK n \in Nat : n = Cardinality(S)  BY FS_CardinalityType
<1>2. PICK f \in [1..n -> S] : IsInjective(f)
  <2>1. PICK f : f \in Bijection(1..n, S)
    BY <1>1, FS_CardinalityType DEF ExistsBijection
  <2>. QED  BY <2>1 DEF Bijection, Injection, IsInjective
<1>3. SetToSeq(S) \in [1..n -> S] /\ IsInjective(SetToSeq(S))  BY <1>1, <1>2 DEF SetToSeq
<1> DEFINE s == SetToSeq(S)
<1> HIDE DEF s
<1>4. s \in [1..n -> S] /\ IsInjective(s)  BY <1>3 DEF s
<1>5. s \in Seq(S) /\ Len(s) = n  BY <1>1, <1>4
<1>6. \A x \in S : \E i \in 1..n : s[i] = x
  <2>1. s \in Injection(1..n, S)  BY <1>4 DEF Injection, IsInjective
  <2>2. Cardinality(1..n) = n  BY <1>1, FS_Interval
  <2>3. s \in Surjection(1..n, S)  BY <1>1, <2>1, <2>2, FS_Injection
  <2>. QED  BY <2>3 DEF Surjection
<1>. QED  BY <1>4, <1>5, <1>6 DEF IsInjective, s

\* A set of natural numbers has a least element.
LEMMA LeastNatural ==
  ASSUME NEW T, T \subseteq Nat, T # {}
  PROVE  \E x \in T : \A y \in T : x <= y
<1>1. PICK x \in T : \A y \in T : ~ (<<y, x>> \in OpToRel(<, Nat))
  BY NatLessThanWellFounded, WFMin
<1>2. ASSUME NEW y \in T PROVE x <= y
  <2>1. x \in Nat /\ y \in Nat  OBVIOUS
  <2>2. <<y, x>> \in Nat \X Nat /\ <<y, x>>[1] = y /\ <<y, x>>[2] = x  BY <2>1
  <2>3. ~(y < x)  BY <1>1, <2>2 DEF OpToRel
  <2>. QED  BY <2>1, <2>3
<1>. QED  BY <1>2

\* A set of numbers below a bound has a greatest element.
LEMMA GreatestNatural ==
  ASSUME NEW T, T # {}, NEW n \in Nat, \A x \in T : x \in Nat /\ x <= n
  PROVE  \E x \in T : \A y \in T : y <= x
<1> DEFINE gaps == {n - x : x \in T}
<1>1. gaps \subseteq Nat /\ gaps # {}  OBVIOUS
<1>2. PICK g \in gaps : \A h \in gaps : g <= h
  <2>. HIDE DEF gaps
  <2>. QED  BY <1>1, LeastNatural
<1>3. PICK x \in T : g = n - x  OBVIOUS
<1>4. ASSUME NEW y \in T PROVE y <= x
  <2>1. n - y \in gaps  OBVIOUS
  <2>2. g <= n - y  BY <1>2, <2>1
  <2>3. x \in Nat /\ y \in Nat  OBVIOUS
  <2>. HIDE DEF gaps
  <2>. QED  BY <1>3, <2>2, <2>3
<1>. QED  BY <1>4

(***************************************************************************)
(* Powers of two and division.                                             *)
(***************************************************************************)

\* Induction, on a set.
LEMMA SetInduction ==
  ASSUME NEW S, 0 \in S, \A n \in Nat : n \in S => n + 1 \in S
  PROVE  Nat \subseteq S
<1> SUFFICES ASSUME Nat \ S # {} PROVE FALSE
  OBVIOUS
<1>1. PICK n \in Nat \ S : \A m \in Nat \ S : n <= m  BY LeastNatural
<1>2. n # 0 /\ n - 1 \in Nat  BY <1>1
<1>3. n - 1 \in S
  <2>1. ~(n <= n - 1)  BY <1>2
  <2>. QED  BY <1>1, <1>2, <2>1
<1>4. (n - 1) + 1 \in S  BY <1>2, <1>3
<1>. QED  BY <1>2, <1>4

\* A set of n elements has 2^n subsets.
LEMMA SubsetsOfInterval ==
  ASSUME NEW n \in Nat
  PROVE  /\ IsFiniteSet(SUBSET (1..n)) /\ Cardinality(SUBSET (1..n)) = 2^n
         /\ 2^n \in Nat
<1>1. IsFiniteSet(1..n) /\ Cardinality(1..n) = n  BY FS_Interval
<1>. QED  BY <1>1, FS_SUBSET, FS_CardinalityType

\* So the powers of two double.
LEMMA PowerOfTwo ==
  /\ 2^0 = 1
  /\ \A n \in Nat : 2^n \in Nat \ {0} /\ 2^(n + 1) = 2 * 2^n
<1>1. 2^0 = 1  OBVIOUS
<1>2. ASSUME NEW n \in Nat PROVE 2^(n + 1) = 2 * 2^n
  <2> DEFINE A == SUBSET (1..n)
             B == {X \cup {n + 1} : X \in A}
  <2>1. SUBSET (1..(n + 1)) = A \cup B
    <3>1. ASSUME NEW X \in SUBSET (1..(n + 1)) PROVE X \in A \cup B
      <4>1. X \ {n + 1} \in A
        <5>1. \A x \in X \ {n + 1} : x \in 1..n  OBVIOUS
        <5>. QED  BY <5>1
      <4>2. CASE n + 1 \in X
        <5>1. X = (X \ {n + 1}) \cup {n + 1}  BY <4>2
        <5>. QED  BY <4>1, <5>1
      <4>3. CASE n + 1 \notin X
        <5>1. X = X \ {n + 1}  BY <4>3
        <5>. QED  BY <4>1, <5>1
      <4>. QED  BY <4>2, <4>3
    <3>2. 1..n \subseteq 1..(n + 1) /\ n + 1 \in 1..(n + 1)  OBVIOUS
    <3>. QED  BY <3>1, <3>2
  <2>2. A \cap B = {}
    <3>1. n + 1 \notin 1..n  OBVIOUS
    <3>. QED  BY <3>1
  <2>3. IsFiniteSet(A) /\ Cardinality(A) = 2^n /\ 2^n \in Nat  BY SubsetsOfInterval
  <2>4. IsFiniteSet(B) /\ Cardinality(B) = Cardinality(A)
    <3> DEFINE f == [X \in A |-> X \cup {n + 1}]
    <3>1. f \in Bijection(A, B)
      <4>1. f \in [A -> B]  OBVIOUS
      <4>2. ASSUME NEW X \in A, NEW Y \in A, f[X] = f[Y] PROVE X = Y
        <5>1. n + 1 \notin X /\ n + 1 \notin Y
          <6>1. n + 1 \notin 1..n  OBVIOUS
          <6>. QED  BY <6>1
        <5>2. X \cup {n + 1} = Y \cup {n + 1}  BY <4>2
        <5>. QED  BY <5>1, <5>2
      <4>3. \A t \in B : \E X \in A : f[X] = t  OBVIOUS
      <4>. HIDE DEF f, A, B
      <4>. QED  BY <4>1, <4>2, <4>3 DEF Bijection, Injection, Surjection, IsInjective
    <3>. HIDE DEF A, B, f
    <3>2. ExistsBijection(A, B)  BY <3>1 DEF ExistsBijection
    <3>. QED  BY <2>3, <3>2, FS_Bijection
  <2>5. Cardinality(A \cup B) = Cardinality(A) + Cardinality(B)
    <3>. HIDE DEF A, B
    <3>1. Cardinality(A \cap B) = 0  BY <2>2, FS_EmptySet
    <3>. QED  BY <2>3, <2>4, <3>1, FS_Union
  <2>6. n + 1 \in Nat /\ Cardinality(SUBSET (1..(n + 1))) = 2^(n + 1)
    <3>1. PICK k \in Nat : k = n + 1  OBVIOUS
    <3>2. Cardinality(SUBSET (1..k)) = 2^k  BY SubsetsOfInterval
    <3>. HIDE DEF A, B
    <3>. QED  BY <3>1, <3>2
  <2>. HIDE DEF A, B
  <2>7. 2^(n + 1) = 2^n + 2^n  BY <2>1, <2>3, <2>4, <2>5, <2>6
  <2>8. PICK x \in Nat : x = 2^n  BY <2>3
  <2>. QED  BY <2>7, <2>8
<1>3. \A n \in Nat : 2^n \in Nat \ {0}
  <2> DEFINE S == {n \in Nat : 2^n # 0}
  <2>1. \A n \in Nat : 2^n \in Nat  BY SubsetsOfInterval
  <2>2. 0 \in S  BY <1>1
  <2>3. \A n \in Nat : n \in S => n + 1 \in S
    <3> SUFFICES ASSUME NEW n \in S PROVE 2^(n + 1) # 0
      OBVIOUS
    <3>. QED  BY <1>2, <2>1
  <2>4. Nat \subseteq S
    <3>. HIDE DEF S
    <3>. QED  BY <2>2, <2>3, SetInduction
  <2>. QED  BY <2>1, <2>4
<1>. QED  BY <1>1, <1>2, <1>3

\* Products of natural numbers, which the solver does not multiply out.
LEMMA Product ==
  ASSUME NEW a \in Nat, NEW b \in Nat, NEW c \in Nat
  PROVE  /\ a * b \in Nat /\ a * b = b * a
         /\ a * (b * c) = (a * b) * c
         /\ a * (b + c) = a * b + a * c
         /\ a * (b + 1) = a * b + a
         /\ a <= b => c * a <= c * b
         /\ a < b => c * a + c <= c * b
<1>1. /\ a * b \in Nat /\ a * b = b * a /\ a * (b * c) = (a * b) * c
      /\ a * (b + c) = a * b + a * c /\ a * (b + 1) = a * b + a
  OBVIOUS
<1>2. a <= b => c * a <= c * b
  <2> SUFFICES ASSUME a <= b PROVE c * a <= c * b
    OBVIOUS
  <2>1. PICK d \in Nat : b = a + d  BY a <= b, b - a \in Nat
  <2>2. c * b = c * a + c * d /\ c * d \in Nat /\ c * a \in Nat  BY <2>1
  <2>. QED  BY <2>2
<1>3. a < b => c * a + c <= c * b
  <2> SUFFICES ASSUME a < b PROVE c * a + c <= c * b
    OBVIOUS
  <2>1. PICK d \in Nat : b = a + 1 + d  BY a < b, b - (a + 1) \in Nat
  <2>2. c * b = c * a + c + c * d /\ c * d \in Nat /\ c * a \in Nat  BY <2>1
  <2>. QED  BY <2>2
<1>. QED  BY <1>1, <1>2, <1>3

\* Powers multiply where exponents add.
LEMMA PowerSum ==
  ASSUME NEW i \in Nat, NEW j \in Nat
  PROVE  2^(i + j) = 2^i * 2^j
<1> DEFINE S == {k \in Nat : 2^(i + k) = 2^i * 2^k}
<1>1. 0 \in S
  <2>1. i + 0 = i /\ 2^0 = 1 /\ 2^i \in Nat  BY PowerOfTwo
  <2>. QED  BY <2>1
<1>2. ASSUME NEW k \in Nat, k \in S PROVE k + 1 \in S
  <2>1. i + (k + 1) = (i + k) + 1 /\ i + k \in Nat  OBVIOUS
  <2>2. 2^(i + (k + 1)) = 2 * 2^(i + k)  BY <2>1, PowerOfTwo
  <2>3. 2^(i + k) = 2^i * 2^k /\ 2^(k + 1) = 2 * 2^k /\ 2^i \in Nat /\ 2^k \in Nat
    BY <1>2, PowerOfTwo
  <2>4. PICK x \in Nat, y \in Nat : x = 2^i /\ y = 2^k  BY <2>3
  <2>5. 2 * (x * y) = x * (2 * y)  OBVIOUS
  <2>. QED  BY <2>2, <2>3, <2>4, <2>5
<1>3. Nat \subseteq S
  <2>. HIDE DEF S
  <2>. QED  BY <1>1, <1>2, SetInduction
<1>. QED  BY <1>3

\* Division by a positive number.
LEMMA Division ==
  ASSUME NEW a \in Nat, NEW m \in Nat \ {0}
  PROVE  /\ a \div m \in Nat /\ a % m \in Nat /\ a % m < m
         /\ a = m * (a \div m) + (a % m)
         /\ m * (a \div m) <= a /\ a < m * (a \div m) + m
         /\ \A q \in Nat : m * q <= a /\ a < m * q + m => a \div m = q
<1>1. /\ a \div m \in Nat /\ a % m \in 0..(m - 1)
      /\ a = m * (a \div m) + (a % m)
  OBVIOUS
<1>2. PICK d \in Nat, r \in Nat : d = a \div m /\ r = a % m  BY <1>1
<1>3. m * d \in Nat /\ a = m * d + r /\ r < m  BY <1>1, <1>2
<1>4. ASSUME NEW q \in Nat, m * q <= a, a < m * q + m PROVE d = q
  <2>1. m * q \in Nat  OBVIOUS
  <2>2. ~ (q < d)
    <3>1. q < d => m * q + m <= m * d  BY Product
    <3>. QED  BY <1>3, <1>4, <2>1, <3>1
  <2>3. ~ (d < q)
    <3>1. d < q => m * d + m <= m * q  BY Product
    <3>. QED  BY <1>3, <1>4, <2>1, <3>1
  <2>. QED  BY <2>2, <2>3
<1>. QED  BY <1>1, <1>2, <1>3, <1>4
=============================================================================
