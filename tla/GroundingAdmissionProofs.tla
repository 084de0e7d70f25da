------------------------ MODULE GroundingAdmissionProofs ------------------------
(***************************************************************************)
(* Theorems of GroundingAdmission, for any batches, bundles and verdicts,  *)
(* any numbers of samples and judgments that the policy allows, and any    *)
(* concurrency.                                                            *)
(***************************************************************************)
EXTENDS GroundingAdmission, FiniteSetTheorems, WellFoundedInduction, TLAPS

-----------------------------------------------------------------------------
(* Numbers in order. *)

\* There is a least one among any natural numbers.
LEMMA LeastNatural ==
  ASSUME NEW S \in SUBSET Nat, S # {}
  PROVE  \E m \in S : \A k \in S : m <= k
<1>1. IsWellFoundedOn(OpToRel(<, Nat), Nat)
  BY NatLessThanWellFounded
<1>2. PICK m \in S : \A k \in S : ~ (<<k, m>> \in OpToRel(<, Nat))
  BY <1>1, WFMin
<1>3. \A k \in Nat : <<k, m>> \in OpToRel(<, Nat) <=> k < m
  BY DEF OpToRel
<1>4. \A k \in S : ~ (k < m)
  BY <1>2, <1>3, Zenon
<1>5. m \in Nat /\ \A k \in S : k \in Nat
  OBVIOUS
<1> QED
  BY <1>4, <1>5

Increasing(q, n) == \A i, j \in 1 .. n : i < j => q[i] < q[j]

\* Numbers can be put in order, by taking the least of them first.
LEMMA OrderExists ==
  ASSUME NEW S \in SUBSET Nat, IsFiniteSet(S)
  PROVE  \E q \in [1 .. Cardinality(S) -> S] : Increasing(q, Cardinality(S))
<1> DEFINE Ordered(T) == \E q \in [1 .. Cardinality(T) -> T] : Increasing(q, Cardinality(T))
           Bad == {n \in Nat : \E T \in SUBSET Nat : IsFiniteSet(T) /\ Cardinality(T) = n /\ ~ Ordered(T)}
<1> SUFFICES Bad = {}
  BY FS_CardinalityType
<1> SUFFICES ASSUME Bad # {} PROVE FALSE
  OBVIOUS
<1>1. PICK n \in Bad : \A k \in Bad : n <= k
  BY LeastNatural
<1>2. PICK T \in SUBSET Nat : IsFiniteSet(T) /\ Cardinality(T) = n /\ ~ Ordered(T)
  BY <1>1
<1>3. CASE T = {}
  <2>1. Cardinality(T) = 0
    BY <1>3, FS_EmptySet
  <2>2. [i \in 1 .. 0 |-> 0] \in [1 .. 0 -> T] /\ Increasing([i \in 1 .. 0 |-> 0], 0)
    BY DEF Increasing
  <2> QED
    BY <1>2, <2>1, <2>2
<1>4. CASE T # {}
  <2>1. PICK m \in T : \A k \in T : m <= k
    BY <1>4, LeastNatural
  <2> DEFINE R == T \ {m}
  <2>2. IsFiniteSet(R) /\ Cardinality(R) = n - 1 /\ n \in Nat /\ n - 1 \in Nat
    <3>1. n \in Nat /\ n # 0
      BY <1>2, <1>4, FS_CardinalityType, FS_EmptySet
    <3>2. IsFiniteSet(R) /\ Cardinality(R) = n - 1
      BY <1>2, <2>1, FS_RemoveElement
    <3> QED
      BY <3>1, <3>2
  <2>3. Ordered(R)
    <3> SUFFICES ASSUME ~ Ordered(R) PROVE FALSE
      OBVIOUS
    <3>1. R \in SUBSET Nat
      OBVIOUS
    <3>2. n - 1 \in Bad
      BY <2>2, <3>1
    <3> HIDE DEF Bad
    <3> QED
      BY <1>1, <2>2, <3>2
  <2>4. PICK q \in [1 .. n - 1 -> R] : Increasing(q, n - 1)
    BY <2>2, <2>3
  <2> DEFINE p == [i \in 1 .. n |-> IF i = 1 THEN m ELSE q[i - 1]]
  <2>5. p \in [1 .. n -> T]
    BY <2>1, <2>2, <2>4
  <2>6. \A i \in 1 .. n - 1 : m < q[i] /\ q[i] \in Nat
    <3> TAKE i \in 1 .. n - 1
    <3>1. q[i] \in T /\ q[i] # m
      BY <2>4
    <3>2. m \in Nat /\ q[i] \in Nat /\ m <= q[i]
      BY <2>1, <3>1
    <3> QED
      BY <3>1, <3>2
  <2>7. Increasing(p, n)
    <3> SUFFICES ASSUME NEW i \in 1 .. n, NEW j \in 1 .. n, i < j PROVE p[i] < p[j]
      BY DEF Increasing
    <3>1. p[j] = q[j - 1] /\ j - 1 \in 1 .. n - 1
      BY <2>2
    <3>2. CASE i = 1
      BY <2>6, <3>1, <3>2
    <3>3. CASE i # 1
      <4>1. p[i] = q[i - 1] /\ i - 1 \in 1 .. n - 1 /\ i - 1 < j - 1
        BY <2>2, <3>3
      <4> QED
        BY <2>4, <3>1, <4>1 DEF Increasing
    <3> QED
      BY <3>2, <3>3
  <2> QED
    BY <1>2, <2>5, <2>7
<1> QED
  BY <1>3, <1>4

\* What Ascending returns lists each index once.
LEMMA AscendingFacts ==
  ASSUME NEW S \in SUBSET Nat, IsFiniteSet(S)
  PROVE  /\ Ascending(S) \in Seq(S) /\ Len(Ascending(S)) = Cardinality(S)
         /\ \A i, j \in 1 .. Len(Ascending(S)) : i < j => Ascending(S)[i] < Ascending(S)[j]
         /\ S = ToSet(Ascending(S))
<1> DEFINE n == Cardinality(S)
           q == Ascending(S)
<1>1. n \in Nat
  BY FS_CardinalityType
<1>2. q \in [1 .. n -> S] /\ \A i, j \in 1 .. n : i < j => q[i] < q[j]
  BY OrderExists DEF Ascending, Increasing
<1>3. \A i, j \in 1 .. n : q[i] = q[j] => i = j
  <2> SUFFICES ASSUME NEW i \in 1 .. n, NEW j \in 1 .. n, q[i] = q[j], i < j PROVE FALSE
    BY <1>1
  <2>1. q[i] < q[j] /\ q[i] \in Nat
    BY <1>2
  <2> HIDE DEF q
  <2> QED
    BY <2>1
<1>4. q \in Injection(1 .. n, S)
  BY <1>2, <1>3 DEF Injection, IsInjective
<1>5. Cardinality(1 .. n) = n
  BY <1>1, FS_Interval
<1>6. q \in Surjection(1 .. n, S)
  BY <1>4, <1>5, FS_Injection
<1>7. DOMAIN q = 1 .. n /\ q \in Seq(S) /\ Len(q) = n
  BY <1>1, <1>2
<1>8. S = ToSet(q)
  BY <1>2, <1>6, <1>7 DEF Surjection, ToSet
<1> QED
  BY <1>2, <1>7, <1>8

-----------------------------------------------------------------------------
(* Tasks that wait and tasks that run. *)

Job == Nat \X Nat \X Nat

LEMMA ListIsFunction ==
  ASSUME NEW S, NEW q \in Seq(S)
  PROVE  q \in [1 .. Len(q) -> S] /\ DOMAIN q = 1 .. Len(q) /\ Len(q) \in Nat
OBVIOUS

Apart(S, T) == S \cap T = {}

\* What a part of a list holds.
LEMMA SliceFacts ==
  ASSUME NEW S, NEW w \in Seq(S), NEW m \in Nat, NEW k \in Nat, m <= k, k <= Len(w),
         NEW q, q = SubSeq(w, m + 1, k)
  PROVE  /\ q \in Seq(S) /\ q \in [1 .. k - m -> S] /\ DOMAIN q = 1 .. k - m
         /\ \A i \in 1 .. k - m : q[i] = w[m + i]
<1>1. /\ q \in Seq(S) /\ Len(q) = k - m
      /\ \A i \in 1 .. k - m : q[i] = w[m + i]
  OBVIOUS
<1>2. q \in [1 .. Len(q) -> S] /\ DOMAIN q = 1 .. Len(q)
  BY <1>1, ListIsFunction
<1>3. 1 .. Len(q) = 1 .. k - m
  BY <1>1
<1> QED
  BY <1>1, <1>2, <1>3, Zenon

LEMMA UpTo ==
  ASSUME NEW n \in Nat
  PROVE  IsFiniteSet(1 .. n) /\ Cardinality(1 .. n) = n
BY FS_Interval

LEMMA ElementsAtMost ==
  ASSUME NEW n \in Nat, NEW p, DOMAIN p = 1 .. n, p = [i \in 1 .. n |-> p[i]]
  PROVE  IsFiniteSet(ToSet(p)) /\ Cardinality(ToSet(p)) <= n
<1>1. p \in Surjection(1 .. n, ToSet(p))
  BY DEF Surjection, ToSet
<1> QED
  BY <1>1, UpTo, FS_Surjection

LEMMA UnionAtMost ==
  ASSUME NEW S, NEW T, IsFiniteSet(S), IsFiniteSet(T)
  PROVE  /\ IsFiniteSet(S \cup T) /\ Cardinality(S \cup T) \in Nat
         /\ Cardinality(S \cup T) <= Cardinality(S) + Cardinality(T)
<1>1. /\ Cardinality(S) \in Nat /\ Cardinality(T) \in Nat /\ Cardinality(S \cap T) \in Nat
  BY FS_Intersection, FS_CardinalityType
<1>2. /\ IsFiniteSet(S \cup T)
      /\ Cardinality(S \cup T) = Cardinality(S) + Cardinality(T) - Cardinality(S \cap T)
  BY FS_Union
<1>3. Cardinality(S \cup T) \in Nat
  BY <1>2, FS_CardinalityType
<1> QED
  BY <1>1, <1>2, <1>3

\* The first n of a list, and the rest.
Parted(w, n, p, q) == p = SubSeq(w, 1, n) /\ q = SubSeq(w, n + 1, Len(w))

\* A list from which the first n are started.
LEMMA StartedJobs ==
  ASSUME NEW w \in Seq(Job), NEW b \in SUBSET Job, IsFiniteSet(b), NEW cap \in Nat,
         IsInjective(w), Apart(ToSet(w), b), NEW n \in 0 .. Len(w), Cardinality(b) + n <= cap,
         NEW p, NEW q, Parted(w, n, p, q)
  PROVE  /\ q \in Seq(Job) /\ b \cup ToSet(p) \in SUBSET Job
         /\ IsInjective(q) /\ Apart(ToSet(q), b \cup ToSet(p))
         /\ ToSet(q) \cup (b \cup ToSet(p)) = ToSet(w) \cup b
         /\ IsFiniteSet(b \cup ToSet(p)) /\ Cardinality(b \cup ToSet(p)) <= cap
<1>1. n \in Nat /\ n <= Len(w) /\ Len(w) \in Nat /\ DOMAIN w = 1 .. Len(w)
  OBVIOUS
<1> p = SubSeq(w, 1, n) /\ q = SubSeq(w, n + 1, Len(w))
  BY DEF Parted
<1>2. /\ p \in [1 .. n -> Job] /\ DOMAIN p = 1 .. n /\ \A i \in 1 .. n : p[i] = w[i]
  <2>1. p \in Seq(Job) /\ Len(p) = n /\ \A i \in 1 .. n : p[i] = w[i]
    BY <1>1
  <2> QED
    BY <2>1, ListIsFunction, Zenon
<1>3. /\ q \in Seq(Job) /\ DOMAIN q = 1 .. Len(w) - n
      /\ \A i \in 1 .. Len(w) - n : q[i] = w[n + i]
  BY <1>1, SliceFacts
<1>4. \A i, j \in 1 .. Len(w) : w[i] = w[j] => i = j
  BY <1>1 DEF IsInjective
<1>5. IsInjective(q)
  <2> SUFFICES ASSUME NEW i \in 1 .. Len(w) - n, NEW j \in 1 .. Len(w) - n, q[i] = q[j] PROVE i = j
    BY <1>3 DEF IsInjective
  <2>1. w[n + i] = w[n + j] /\ n + i \in 1 .. Len(w) /\ n + j \in 1 .. Len(w)
    BY <1>1, <1>3
  <2>2. n + i = n + j
    BY <1>4, <2>1
  <2> QED
    BY <1>1, <2>2
<1>6. ToSet(q) = {w[i] : i \in n + 1 .. Len(w)}
  <2>1. ASSUME NEW i \in n + 1 .. Len(w) PROVE w[i] \in ToSet(q)
    <3>1. i - n \in 1 .. Len(w) - n /\ n + (i - n) = i
      BY <1>1
    <3> QED
      BY <1>3, <3>1 DEF ToSet
  <2>2. ASSUME NEW i \in 1 .. Len(w) - n PROVE q[i] \in {w[k] : k \in n + 1 .. Len(w)}
    <3>1. q[i] = w[n + i] /\ n + i \in n + 1 .. Len(w)
      BY <1>1, <1>3
    <3> QED
      BY <3>1
  <2> QED
    BY <1>3, <2>1, <2>2 DEF ToSet
<1>7. ToSet(p) = {w[i] : i \in 1 .. n}
  BY <1>2 DEF ToSet
<1>8. ToSet(w) = ToSet(p) \cup ToSet(q)
  <2>1. ToSet(w) = {w[i] : i \in 1 .. Len(w)}
    BY <1>1 DEF ToSet
  <2>2. 1 .. Len(w) = (1 .. n) \cup (n + 1 .. Len(w))
    BY <1>1
  <2> QED
    BY <1>6, <1>7, <2>1, <2>2
<1>9. ToSet(q) \cap ToSet(p) = {}
  <2> SUFFICES ASSUME NEW i \in n + 1 .. Len(w), NEW j \in 1 .. n, w[i] = w[j] PROVE FALSE
    BY <1>6, <1>7
  <2>1. i \in 1 .. Len(w) /\ j \in 1 .. Len(w) /\ i # j
    BY <1>1
  <2> QED
    BY <1>4, <2>1
<1>10. IsFiniteSet(b \cup ToSet(p)) /\ Cardinality(b \cup ToSet(p)) <= cap
  <2>1. IsFiniteSet(ToSet(p)) /\ Cardinality(ToSet(p)) <= n
    BY <1>1, <1>2, ElementsAtMost
  <2>2. Cardinality(ToSet(p)) \in Nat /\ Cardinality(b) \in Nat
    BY <2>1, FS_CardinalityType
  <2>3. /\ IsFiniteSet(b \cup ToSet(p)) /\ Cardinality(b \cup ToSet(p)) \in Nat
        /\ Cardinality(b \cup ToSet(p)) <= Cardinality(b) + Cardinality(ToSet(p))
    BY <2>1, UnionAtMost
  <2> QED
    BY <1>1, <2>1, <2>2, <2>3
<1>11. ToSet(p) \subseteq Job
  BY <1>2 DEF ToSet
<1>12. ToSet(q) \cap b = {}
  BY <1>8 DEF Apart
<1> QED
  BY <1>3, <1>5, <1>8, <1>9, <1>10, <1>11, <1>12 DEF Apart

\* What each limiter has, when it has started what it may.
LEMMA PumpFacts ==
  ASSUME NEW waiting \in [Role -> Seq(Job)], NEW busy \in [Role -> SUBSET Job],
         \A x \in Role : /\ IsFiniteSet(busy[x]) /\ Cardinality(busy[x]) <= Cap[x]
                         /\ IsInjective(waiting[x]) /\ Apart(ToSet(waiting[x]), busy[x]),
         Pump(waiting, busy)
  PROVE  /\ queue' \in [Role -> Seq(Job)] /\ running' \in [Role -> SUBSET Job]
         /\ \A x \in Role :
              /\ IsFiniteSet(running'[x]) /\ Cardinality(running'[x]) <= Cap[x]
              /\ IsInjective(queue'[x]) /\ Apart(ToSet(queue'[x]), running'[x])
              /\ ToSet(queue'[x]) \cup running'[x] = ToSet(waiting[x]) \cup busy[x]
<1> DEFINE n(x) == IF Cap[x] - Cardinality(busy[x]) < Len(waiting[x])
                     THEN Cap[x] - Cardinality(busy[x]) ELSE Len(waiting[x])
<1>1. /\ running' = [x \in Role |-> busy[x] \cup ToSet(SubSeq(waiting[x], 1, n(x)))]
      /\ queue' = [x \in Role |-> SubSeq(waiting[x], n(x) + 1, Len(waiting[x]))]
  BY Zenon DEF Pump
<1>2. \A x \in Role : Cap[x] \in Nat
  BY AdmissionPolicy
<1> HIDE DEF n
<1>3. ASSUME NEW x \in Role
      PROVE  /\ queue'[x] \in Seq(Job) /\ running'[x] \in SUBSET Job
             /\ IsFiniteSet(running'[x]) /\ Cardinality(running'[x]) <= Cap[x]
             /\ IsInjective(queue'[x]) /\ Apart(ToSet(queue'[x]), running'[x])
             /\ ToSet(queue'[x]) \cup running'[x] = ToSet(waiting[x]) \cup busy[x]
  <2>1. /\ running'[x] = busy[x] \cup ToSet(SubSeq(waiting[x], 1, n(x)))
        /\ queue'[x] = SubSeq(waiting[x], n(x) + 1, Len(waiting[x]))
    BY <1>1
  <2>2. n(x) = IF Cap[x] - Cardinality(busy[x]) < Len(waiting[x])
                 THEN Cap[x] - Cardinality(busy[x]) ELSE Len(waiting[x])
    BY DEF n
  <2>3. waiting[x] \in Seq(Job) /\ busy[x] \in SUBSET Job
    OBVIOUS
  <2>4. Cardinality(busy[x]) \in Nat /\ Cardinality(busy[x]) <= Cap[x] /\ Len(waiting[x]) \in Nat
    BY <2>3, FS_CardinalityType
  <2>5. n(x) \in 0 .. Len(waiting[x]) /\ Cardinality(busy[x]) + n(x) <= Cap[x]
    BY <1>2, <2>2, <2>4
  <2> DEFINE w == waiting[x]
             b == busy[x]
             m == n(x)
             p == SubSeq(w, 1, m)
             q == SubSeq(w, m + 1, Len(w))
  <2>6. running'[x] = b \cup ToSet(p) /\ queue'[x] = q /\ w = waiting[x] /\ b = busy[x]
    BY <2>1
  <2>7. /\ Cap[x] \in Nat /\ w \in Seq(Job) /\ b \in SUBSET Job
        /\ m \in 0 .. Len(w) /\ Cardinality(b) + m <= Cap[x]
        /\ IsFiniteSet(b) /\ IsInjective(w) /\ Apart(ToSet(w), b)
    BY <1>2, <2>3, <2>5
  <2>9. Parted(w, m, p, q)
    BY DEF Parted
  <2> HIDE DEF w, b, m, p, q
  <2>8. /\ q \in Seq(Job) /\ b \cup ToSet(p) \in SUBSET Job
        /\ IsInjective(q) /\ Apart(ToSet(q), b \cup ToSet(p))
        /\ ToSet(q) \cup (b \cup ToSet(p)) = ToSet(w) \cup b
        /\ IsFiniteSet(b \cup ToSet(p)) /\ Cardinality(b \cup ToSet(p)) <= Cap[x]
    BY <2>7, <2>9, StartedJobs
  <2> QED
    BY <2>6, <2>8, Zenon
<1> QED
  BY <1>1, <1>3
-----------------------------------------------------------------------------
(* The tasks of a wave. *)

\* A part of a set that counts as many is all of it.
LEMMA AllCounted ==
  ASSUME NEW T, IsFiniteSet(T), NEW S \in SUBSET T, Cardinality(S) = Cardinality(T)
  PROVE  S = T
BY FS_Subset

LEMMA AllRequestsCounted ==
  ASSUME NEW n \in Nat, NEW P, Cardinality({r \in 1 .. n : Whole(r) \notin P}) = n
  PROVE  \A r \in 1 .. n : Whole(r) \notin P
<1> DEFINE S == {r \in 1 .. n : Whole(r) \notin P}
<1>1. IsFiniteSet(1 .. n) /\ Cardinality(1 .. n) = n
  BY UpTo
<1>2. S \in SUBSET (1 .. n) /\ Cardinality(S) = n
  OBVIOUS
<1>3. S = 1 .. n
  <2> HIDE DEF S
  <2> QED
    BY <1>1, <1>2, AllCounted
<1> QED
  BY <1>3

LEMMA OneMoreCounted ==
  ASSUME NEW n \in Nat, NEW S \in SUBSET (1 .. n), NEW r, r \notin S
  PROVE  Cardinality(S \cup {r}) = Cardinality(S) + 1
<1>1. IsFiniteSet(S)
  BY UpTo, FS_Subset
<1> QED
  BY <1>1, FS_AddElement

\* The judges come one after the other on each target.
LEMMA PairsInOrder ==
  ASSUME NEW n \in Nat, NEW i \in 1 .. 2 * n
  PROVE  /\ ((i - 1) \div 2) + 1 \in 1 .. n /\ ((i - 1) % 2) + 1 \in 1 .. 2
         /\ i = 2 * ((i - 1) \div 2) + ((i - 1) % 2) + 1
OBVIOUS

LEMMA JudgesAreTwo == Cardinality(Judge) = 2
<1>1. 2 \in Nat
  OBVIOUS
<1> QED
  BY <1>1, UpTo, Zenon DEF Judge

LEMMA JudgmentsFacts ==
  ASSUME NEW r \in Nat, Len(wave[r].targets) \in Nat
  PROVE  /\ Judgments(r) \in Seq(Job) /\ IsInjective(Judgments(r))
         /\ ToSet(Judgments(r)) = {<<r, t, j>> : t \in 1 .. Len(wave[r].targets), j \in Judge}
<1> DEFINE n == Len(wave[r].targets)
           q == [i \in 1 .. 2 * n |-> <<r, ((i - 1) \div 2) + 1, ((i - 1) % 2) + 1>>]
<1>1. Judgments(r) = q
  BY JudgesAreTwo DEF Judgments
<1>2. n \in Nat
  OBVIOUS
<1> HIDE DEF n
<1>3. \A i \in 1 .. 2 * n : /\ ((i - 1) \div 2) + 1 \in 1 .. n /\ ((i - 1) % 2) + 1 \in 1 .. 2
                            /\ i = 2 * ((i - 1) \div 2) + ((i - 1) % 2) + 1
  BY <1>2, PairsInOrder
<1>4. \A i \in 1 .. 2 * n : q[i] \in Job
  BY <1>2, <1>3 DEF Job
<1>5. q \in Seq(Job) /\ DOMAIN q = 1 .. 2 * n
  BY <1>2, <1>4
<1>6. IsInjective(q)
  <2> SUFFICES ASSUME NEW i \in 1 .. 2 * n, NEW k \in 1 .. 2 * n, q[i] = q[k] PROVE i = k
    BY <1>5 DEF IsInjective
  <2>1. ((i - 1) \div 2) + 1 = ((k - 1) \div 2) + 1 /\ ((i - 1) % 2) + 1 = ((k - 1) % 2) + 1
    OBVIOUS
  <2> QED
    BY <1>2, <1>3, <2>1
<1>7. ToSet(q) = {<<r, t, j>> : t \in 1 .. n, j \in Judge}
  <2>1. ASSUME NEW i \in 1 .. 2 * n PROVE q[i] \in {<<r, t, j>> : t \in 1 .. n, j \in Judge}
    BY <1>3 DEF Judge
  <2>2. ASSUME NEW t \in 1 .. n, NEW j \in Judge PROVE <<r, t, j>> \in ToSet(q)
    <3> DEFINE i == 2 * (t - 1) + j
    <3>0. i = 2 * (t - 1) + j /\ j \in 1 .. 2
      BY DEF Judge
    <3> HIDE DEF i
    <3>1. i \in 1 .. 2 * n /\ ((i - 1) \div 2) + 1 = t /\ ((i - 1) % 2) + 1 = j
      <4> HIDE DEF q
      <4> QED
        BY <1>2, <3>0
    <3>2. q[i] = <<r, t, j>> /\ i \in DOMAIN q
      BY <1>5, <3>1
    <3> HIDE DEF q
    <3> QED
      BY <3>2 DEF ToSet
  <2> QED
    BY <1>5, <2>1, <2>2 DEF ToSet
<1> QED
  BY <1>1, <1>5, <1>6, <1>7 DEF n

Requests == [candidate : Nat, sample : Nat, targets : Seq(Nat)]

LEMMA TasksFacts ==
  ASSUME wave \in Seq(Requests)
  PROVE  /\ JudgmentTasks \subseteq Job /\ IsFiniteSet(JudgmentTasks)
         /\ \A r \in 1 .. Len(wave) : /\ Judgments(r) \in Seq(Job) /\ IsInjective(Judgments(r))
                                      /\ ToSet(Judgments(r)) \subseteq JudgmentTasks
                                      /\ \A job \in ToSet(Judgments(r)) : job[1] = r
         /\ \A r \in 1 .. Len(wave) : \A t \in 1 .. Len(wave[r].targets), j \in Judge :
              <<r, t, j>> \in ToSet(Judgments(r))
         /\ \A job \in JudgmentTasks : \E r \in 1 .. Len(wave) :
              \E t \in 1 .. Len(wave[r].targets), j \in Judge : job = <<r, t, j>>
<1> DEFINE f == [r \in 1 .. Len(wave) |-> ToSet(Judgments(r))]
           S == {ToSet(Judgments(r)) : r \in 1 .. Len(wave)}
<1>1. ASSUME NEW r \in 1 .. Len(wave)
      PROVE  /\ r \in Nat /\ Len(wave[r].targets) \in Nat
             /\ Judgments(r) \in Seq(Job) /\ IsInjective(Judgments(r))
             /\ ToSet(Judgments(r)) = {<<r, t, j>> : t \in 1 .. Len(wave[r].targets), j \in Judge}
  <2>1. r \in Nat /\ Len(wave[r].targets) \in Nat
    <3>1. wave[r] \in Requests /\ r \in Nat
      OBVIOUS
    <3>2. wave[r].targets \in Seq(Nat)
      BY <3>1 DEF Requests
    <3> QED
      BY <3>1, <3>2
  <2> QED
    BY <2>1, JudgmentsFacts
<1>2. \A T \in S : IsFiniteSet(T)
  <2> SUFFICES ASSUME NEW r \in 1 .. Len(wave) PROVE IsFiniteSet(ToSet(Judgments(r)))
    OBVIOUS
  <2> DEFINE q == Judgments(r)
  <2>1. q \in Seq(Job)
    BY <1>1
  <2> HIDE DEF q
  <2>2. Len(q) \in Nat /\ DOMAIN q = 1 .. Len(q) /\ q = [i \in 1 .. Len(q) |-> q[i]]
    BY <2>1
  <2>3. IsFiniteSet(ToSet(q))
    BY <2>2, ElementsAtMost
  <2> QED
    BY <2>3 DEF q
<1>3. IsFiniteSet(S)
  <2>1. f \in Surjection(1 .. Len(wave), S)
    BY DEF Surjection
  <2>2. Len(wave) \in Nat
    OBVIOUS
  <2> HIDE DEF f, S
  <2> QED
    BY <2>1, <2>2, UpTo, FS_Surjection
<1>4. IsFiniteSet(JudgmentTasks)
  <2>1. JudgmentTasks = UNION S
    BY DEF JudgmentTasks
  <2> HIDE DEF S
  <2> QED
    BY <1>2, <1>3, <2>1, FS_UNION
<1>5. \A job : job \in JudgmentTasks <=> \E r \in 1 .. Len(wave) : job \in ToSet(Judgments(r))
  BY DEF JudgmentTasks
<1>6. \A r \in 1 .. Len(wave) : ToSet(Judgments(r)) \subseteq Job
  BY <1>1 DEF ToSet
<1>7. JudgmentTasks \subseteq Job
  BY <1>5, <1>6
<1>8. \A r \in 1 .. Len(wave) : \A job \in ToSet(Judgments(r)) : job[1] = r
  BY <1>1
<1>9. \A job \in JudgmentTasks : \E r \in 1 .. Len(wave) :
              \E t \in 1 .. Len(wave[r].targets), j \in Judge : job = <<r, t, j>>
  BY <1>1, <1>5
<1>10. \A r \in 1 .. Len(wave) : \A t \in 1 .. Len(wave[r].targets), j \in Judge :
              <<r, t, j>> \in ToSet(Judgments(r))
  BY <1>1
<1> QED
  BY <1>1, <1>4, <1>5, <1>7, <1>8, <1>9, <1>10

-----------------------------------------------------------------------------
(* What the limiters hold. *)

\* What a limiter has been given and has not done.
Pending(x) == ToSet(queue[x]) \cup running[x]

\* The judgments that are there.
Handed == {<<v.request, v.target, v.judge>> : v \in judged}

\* No limiter runs more than its cap allows, and none has a task twice.
LimitersAreSane ==
  /\ queue \in [Role -> Seq(Job)] /\ running \in [Role -> SUBSET Job] /\ done \in [Role -> Nat]
  /\ \A x \in Role : /\ IsFiniteSet(running[x]) /\ Cardinality(running[x]) <= Cap[x]
                     /\ IsInjective(queue[x]) /\ Apart(ToSet(queue[x]), running[x])

LEMMA JoinedLists ==
  ASSUME NEW p \in Seq(Job), NEW q \in Seq(Job), IsInjective(p), IsInjective(q), Apart(ToSet(p), ToSet(q)),
         NEW w, w = p \o q
  PROVE  w \in Seq(Job) /\ IsInjective(w) /\ ToSet(w) = ToSet(p) \cup ToSet(q)
<1>1. /\ w \in Seq(Job) /\ DOMAIN w = 1 .. Len(p) + Len(q) /\ Len(p) \in Nat /\ Len(q) \in Nat
      /\ \A i \in 1 .. Len(p) + Len(q) : w[i] = IF i <= Len(p) THEN p[i] ELSE q[i - Len(p)]
  OBVIOUS
<1>2. DOMAIN p = 1 .. Len(p) /\ DOMAIN q = 1 .. Len(q)
  OBVIOUS
<1>3. \A i \in 1 .. Len(p) : p[i] \in ToSet(p)
  BY <1>2 DEF ToSet
<1>4. \A i \in 1 .. Len(q) : q[i] \in ToSet(q)
  BY <1>2 DEF ToSet
<1>5. \A i \in 1 .. Len(p), j \in 1 .. Len(q) : p[i] # q[j]
  BY <1>3, <1>4 DEF Apart
<1>6. IsInjective(w)
  <2> SUFFICES ASSUME NEW i \in 1 .. Len(p) + Len(q), NEW j \in 1 .. Len(p) + Len(q), w[i] = w[j] PROVE i = j
    BY <1>1 DEF IsInjective
  <2>1. CASE i <= Len(p) /\ j <= Len(p)
    <3>1. p[i] = p[j] /\ i \in 1 .. Len(p) /\ j \in 1 .. Len(p)
      BY <1>1, <2>1
    <3> QED
      BY <1>2, <3>1 DEF IsInjective
  <2>2. CASE i > Len(p) /\ j > Len(p)
    <3>1. q[i - Len(p)] = q[j - Len(p)] /\ i - Len(p) \in 1 .. Len(q) /\ j - Len(p) \in 1 .. Len(q)
      BY <1>1, <2>2
    <3>2. i - Len(p) = j - Len(p)
      BY <1>2, <3>1 DEF IsInjective
    <3> QED
      BY <1>1, <3>2
  <2>3. CASE i <= Len(p) /\ j > Len(p)
    <3>1. p[i] = q[j - Len(p)] /\ i \in 1 .. Len(p) /\ j - Len(p) \in 1 .. Len(q)
      BY <1>1, <2>3
    <3> QED
      BY <1>5, <3>1
  <2>4. CASE i > Len(p) /\ j <= Len(p)
    <3>1. q[i - Len(p)] = p[j] /\ j \in 1 .. Len(p) /\ i - Len(p) \in 1 .. Len(q)
      BY <1>1, <2>4
    <3> QED
      BY <1>5, <3>1
  <2> QED
    BY <1>1, <2>1, <2>2, <2>3, <2>4
<1>7. ToSet(w) = ToSet(p) \cup ToSet(q)
  <2>1. ASSUME NEW i \in 1 .. Len(p) + Len(q) PROVE w[i] \in ToSet(p) \cup ToSet(q)
    <3>1. CASE i <= Len(p)
      BY <1>1, <1>3, <3>1
    <3>2. CASE i > Len(p)
      <4>1. i - Len(p) \in 1 .. Len(q) /\ w[i] = q[i - Len(p)]
        BY <1>1, <3>2
      <4> QED
        BY <1>4, <4>1
    <3> QED
      BY <1>1, <3>1, <3>2
  <2>2. ASSUME NEW i \in 1 .. Len(p) PROVE p[i] \in ToSet(w)
    <3>1. i \in DOMAIN w /\ w[i] = p[i]
      BY <1>1
    <3> QED
      BY <3>1 DEF ToSet
  <2>3. ASSUME NEW i \in 1 .. Len(q) PROVE q[i] \in ToSet(w)
    <3>1. i + Len(p) \in DOMAIN w /\ w[i + Len(p)] = q[i]
      BY <1>1
    <3> QED
      BY <3>1 DEF ToSet
  <2>4. ToSet(w) \subseteq ToSet(p) \cup ToSet(q)
    BY <1>1, <2>1 DEF ToSet
  <2>5. ToSet(p) \cup ToSet(q) \subseteq ToSet(w)
    <3>1. \A e \in ToSet(p) : \E i \in 1 .. Len(p) : e = p[i]
      BY <1>2 DEF ToSet
    <3>2. \A e \in ToSet(q) : \E i \in 1 .. Len(q) : e = q[i]
      BY <1>2 DEF ToSet
    <3> QED
      BY <2>2, <2>3, <3>1, <3>2
  <2> QED
    BY <2>4, <2>5
<1> QED
  BY <1>1, <1>6, <1>7

Fits(next, jobs) ==
  failure = NoFailure => Apart(ToSet(queue[next]), ToSet(jobs)) /\ Apart(ToSet(jobs), running[next])

FailureStops == failure # NoFailure => queue = All(<<>>)

OnlyLessRuns ==
  failure # NoFailure => queue' = queue /\ \A y \in Role : running'[y] \subseteq running[y]

MovesOn(x, job, next, jobs) ==
  \A y \in Role : Pending(y)' = (Pending(y) \ (IF y = x THEN {job} ELSE {}))
                       \cup (IF y = next /\ failure = NoFailure THEN ToSet(jobs) ELSE {})

\* A task that is done leaves its limiter; what it schedules reaches the next
\* one, unless the wave has failed.
LEMMA PassedFacts ==
  ASSUME LimitersAreSane, FailureStops,
         NEW x \in Role, NEW next \in Role, NEW job \in Job, NEW jobs \in Seq(Job),
         IsInjective(jobs), Fits(next, jobs), Passed(x, job, next, jobs)
  PROVE  LimitersAreSane' /\ OnlyLessRuns /\ MovesOn(x, job, next, jobs)
<1> USE DEF FailureStops, Fits, OnlyLessRuns, MovesOn
<1> DEFINE waiting == [queue EXCEPT ![next] = queue[next] \o jobs]
           busy == Retired(x, job)
<1>1. /\ job \in running[x] /\ done' = [done EXCEPT ![x] = done[x] + 1]
      /\ \/ failure = NoFailure /\ Pump(waiting, busy)
         \/ failure # NoFailure /\ running' = busy /\ queue' = queue
  BY DEF Passed
<1>2. done' \in [Role -> Nat]
  BY <1>1 DEF LimitersAreSane
<1>3. /\ queue \in [Role -> Seq(Job)] /\ running \in [Role -> SUBSET Job]
      /\ \A y \in Role : /\ IsFiniteSet(running[y]) /\ Cardinality(running[y]) <= Cap[y]
                         /\ IsInjective(queue[y]) /\ Apart(ToSet(queue[y]), running[y])
  BY DEF LimitersAreSane
<1>4. busy \in [Role -> SUBSET Job] /\ \A y \in Role : busy[y] = running[y] \ (IF y = x THEN {job} ELSE {})
  BY <1>3 DEF Retired
<1>5. \A y \in Role : Cap[y] \in Nat
  BY AdmissionPolicy
<1>6. ASSUME NEW y \in Role PROVE IsFiniteSet(busy[y]) /\ Cardinality(busy[y]) <= Cap[y]
  <2>1. busy[y] \in SUBSET running[y]
    BY <1>4
  <2>2. IsFiniteSet(running[y]) /\ Cardinality(running[y]) \in Nat /\ Cardinality(running[y]) <= Cap[y]
    BY <1>3, FS_CardinalityType
  <2> HIDE DEF busy
  <2>3. IsFiniteSet(busy[y]) /\ Cardinality(busy[y]) <= Cardinality(running[y])
    BY <2>1, <2>2, FS_Subset
  <2>4. Cardinality(busy[y]) \in Nat
    BY <2>3, FS_CardinalityType
  <2> QED
    BY <1>5, <2>2, <2>3, <2>4
<1>7. CASE failure = NoFailure
  <2>1. ASSUME NEW y \in Role
        PROVE  /\ waiting[y] \in Seq(Job) /\ IsInjective(waiting[y])
               /\ ToSet(waiting[y]) = ToSet(queue[y]) \cup (IF y = next THEN ToSet(jobs) ELSE {})
    <3>1. CASE y # next
      <4>1. waiting[y] = queue[y]
        BY <1>3, <3>1
      <4> QED
        BY <1>3, <3>1, <4>1
    <3>2. CASE y = next
      <4>1. waiting[next] = queue[next] \o jobs /\ queue[next] \in Seq(Job) /\ IsInjective(queue[next])
        BY <1>3
      <4> DEFINE w == waiting[next]
      <4>2. w = queue[next] \o jobs
        BY <4>1
      <4> HIDE DEF w
      <4>3. w \in Seq(Job) /\ IsInjective(w) /\ ToSet(w) = ToSet(queue[next]) \cup ToSet(jobs)
        BY <1>7, <4>1, <4>2, JoinedLists
      <4> QED
        BY <3>2, <4>3 DEF w
    <3> QED
      BY <3>1, <3>2
  <2>2. waiting \in [Role -> Seq(Job)]
    BY <1>3, <2>1
  <2>3. ASSUME NEW y \in Role PROVE Apart(ToSet(waiting[y]), busy[y])
    <3>1. ToSet(waiting[y]) = ToSet(queue[y]) \cup (IF y = next THEN ToSet(jobs) ELSE {})
      BY <2>1
    <3>2. busy[y] \subseteq running[y] /\ Apart(ToSet(queue[y]), running[y])
      BY <1>3, <1>4
    <3> HIDE DEF waiting, busy
    <3> QED
      BY <1>7, <3>1, <3>2 DEF Apart
  <2>4. Pump(waiting, busy)
    BY <1>1, <1>7
  <2> HIDE DEF waiting, busy
  <2>5. /\ queue' \in [Role -> Seq(Job)] /\ running' \in [Role -> SUBSET Job]
        /\ \A y \in Role :
             /\ IsFiniteSet(running'[y]) /\ Cardinality(running'[y]) <= Cap[y]
             /\ IsInjective(queue'[y]) /\ Apart(ToSet(queue'[y]), running'[y])
             /\ ToSet(queue'[y]) \cup running'[y] = ToSet(waiting[y]) \cup busy[y]
    BY <1>4, <1>6, <2>1, <2>2, <2>3, <2>4, PumpFacts
  <2>6. LimitersAreSane'
    BY <1>2, <2>5 DEF LimitersAreSane
  <2>7. ASSUME NEW y \in Role
        PROVE  Pending(y)' = (Pending(y) \ (IF y = x THEN {job} ELSE {}))
                               \cup (IF y = next /\ failure = NoFailure THEN ToSet(jobs) ELSE {})
    <3>1. Pending(y)' = ToSet(waiting[y]) \cup busy[y]
      BY <2>5 DEF Pending
    <3>2. job \notin ToSet(queue[x])
      BY <1>1, <1>3 DEF Apart
    <3> QED
      BY <1>4, <1>7, <2>1, <3>1, <3>2 DEF Pending
  <2> QED
    BY <1>7, <2>6, <2>7
<1>8. CASE failure # NoFailure
  <2>1. running' = busy /\ queue' = queue /\ queue = All(<<>>)
    BY <1>1, <1>8
  <2>2. \A y \in Role : queue[y] = <<>> /\ ToSet(queue[y]) = {}
    BY <2>1 DEF All, ToSet
  <2>3. LimitersAreSane'
    <3>1. \A y \in Role : running'[y] \subseteq running[y]
      BY <1>4, <2>1
    <3> HIDE DEF busy
    <3> QED
      BY <1>2, <1>3, <1>4, <1>6, <2>1, <3>1 DEF LimitersAreSane, Apart
  <2>4. \A y \in Role : Pending(y)' = Pending(y) \ (IF y = x THEN {job} ELSE {})
    BY <1>4, <2>1, <2>2 DEF Pending
  <2> QED
    BY <1>4, <1>8, <2>1, <2>3, <2>4
<1> QED
  BY <1>7, <1>8

-----------------------------------------------------------------------------
(* What holds at every step of a batch of claims. *)

ClaimTypes ==
  /\ sets \in Seq(Nat) /\ wave \in Seq(Requests)
  /\ failure \in {NoFailure} \cup [role : Role, kind : {"own"}]
  /\ limiter \in [Role -> {"open", "resolved", "rejected"}]
  /\ bracket \in [Role -> {"entering", "entered", "closed", "broken"}]
  /\ batch \in {"idle", "opening", "flowing", "returned", "thrown"}

\* What the limiters have been given is work of this wave.
JobsAreOfTheWave ==
  /\ \A x \in {"planning", "answering"} : Pending(x) \subseteq {Whole(r) : r \in 1 .. Len(wave)}
  /\ Pending("judgment") \cup Handed \subseteq JudgmentTasks

\* A request is in one role at a time, and a judgment is asked for once.
EachJobOnce ==
  /\ Apart(Pending("planning"), Pending("answering"))
  /\ Apart(Pending("judgment"), Handed)
  /\ \A job \in Pending("judgment") \cup Handed :
       Whole(job[1]) \notin Pending("planning") /\ Whole(job[1]) \notin Pending("answering")

Planned == {r \in 1 .. Len(wave) : Whole(r) \notin Pending("planning")}

Answered == {r \in 1 .. Len(wave) : Whole(r) \notin Pending("planning") \cup Pending("answering")}

\* As long as nothing has failed, each limiter counts the work it has passed on.
WorkIsCounted ==
  batch = "flowing" /\ failure = NoFailure =>
    /\ done["planning"] = Cardinality(Planned)
    /\ done["answering"] = Cardinality(Answered)
    /\ done["judgment"] = Cardinality(Handed)

\* A limiter has settled when its work is done, or has failed and come to rest.
LimitersFollow ==
  \A x \in Role :
    /\ limiter[x] # "open" => running[x] = {}
    /\ batch = "flowing" /\ failure = NoFailure =>
         limiter[x] # "rejected" /\ (limiter[x] = "resolved" => done[x] = Expected(x))

OpeningIsAtRest ==
  batch = "opening" =>
    /\ queue = All(<<>>) /\ running = All({}) /\ done = All(0) /\ judged = {}
    /\ \A x \in Role : limiter[x] = IF failure = NoFailure THEN "open" ELSE "rejected"

BracketsFollow ==
  /\ \A x \in Role :
       /\ InWave /\ bracket[x] \in {"closed", "broken"} => limiter[x] # "open"
       /\ InWave /\ bracket[x] = "broken" => failure # NoFailure
       /\ batch = "flowing" => bracket[x] # "entering"
       /\ ~ InWave => running[x] = {} /\ bracket[x] \in {"closed", "broken"}
  /\ batch \in {"idle", "returned"} => failure = NoFailure
  /\ batch = "thrown" => failure # NoFailure

PipeInv ==
  /\ ClaimTypes /\ LimitersAreSane /\ JobsAreOfTheWave /\ EachJobOnce /\ WorkIsCounted
  /\ LimitersFollow /\ FailureStops /\ OpeningIsAtRest /\ BracketsFollow

LEMMA TasksAreStable ==
  ASSUME wave' = wave
  PROVE  /\ JudgmentTasks' = JudgmentTasks
         /\ \A x \in Role : Expected(x)' = Expected(x)
         /\ \A r : Judgments(r)' = Judgments(r)
BY DEF JudgmentTasks, Judgments, Expected

AtRestWhenDone ==
  \A x \in Role : batch = "flowing" /\ failure = NoFailure /\ done[x] = Expected(x) => Pending(x) = {}

\* A limiter that has counted all its work has nothing left.
LEMMA DoneIsAtRest ==
  ClaimTypes /\ JobsAreOfTheWave /\ EachJobOnce /\ WorkIsCounted => AtRestWhenDone
<1> SUFFICES ASSUME ClaimTypes, JobsAreOfTheWave, EachJobOnce, WorkIsCounted, NEW x \in Role,
                    batch = "flowing", failure = NoFailure, done[x] = Expected(x)
             PROVE  Pending(x) = {}
  BY DEF AtRestWhenDone
<1>1. Len(wave) \in Nat
  BY DEF ClaimTypes
<1>2. CASE x = "planning"
  <2> DEFINE P == Pending("planning")
             n == Len(wave)
  <2>1. Cardinality({r \in 1 .. n : Whole(r) \notin P}) = n
    BY <1>2 DEF WorkIsCounted, Expected, Planned
  <2>2. P \subseteq {Whole(r) : r \in 1 .. n}
    BY DEF JobsAreOfTheWave
  <2>3. n \in Nat
    BY <1>1
  <2> HIDE DEF P, n
  <2>4. \A r \in 1 .. n : Whole(r) \notin P
    BY <2>1, <2>3, AllRequestsCounted
  <2>5. P = {}
    BY <2>2, <2>4
  <2> QED
    BY <1>2, <2>5 DEF P
<1>3. CASE x = "answering"
  <2> DEFINE P == Pending("planning") \cup Pending("answering")
             n == Len(wave)
  <2>1. Cardinality({r \in 1 .. n : Whole(r) \notin P}) = n
    BY <1>3 DEF WorkIsCounted, Expected, Answered
  <2>2. P \subseteq {Whole(r) : r \in 1 .. n}
    BY DEF JobsAreOfTheWave
  <2>3. n \in Nat
    BY <1>1
  <2> HIDE DEF P, n
  <2>4. \A r \in 1 .. n : Whole(r) \notin P
    BY <2>1, <2>3, AllRequestsCounted
  <2>5. P = {}
    BY <2>2, <2>4
  <2> QED
    BY <1>3, <2>5 DEF P
<1>4. CASE x = "judgment"
  <2>1. Handed \in SUBSET JudgmentTasks /\ Cardinality(Handed) = Cardinality(JudgmentTasks)
    BY <1>4 DEF JobsAreOfTheWave, WorkIsCounted, Expected
  <2>2. IsFiniteSet(JudgmentTasks)
    BY TasksFacts DEF ClaimTypes
  <2>3. Handed = JudgmentTasks
    BY <2>1, <2>2, AllCounted
  <2> QED
    BY <1>4, <2>3 DEF JobsAreOfTheWave, EachJobOnce, Apart
<1> QED
  BY <1>2, <1>3, <1>4 DEF Role

\* What follows for the limiters from a task that is done.
LEMMA PassedSettles ==
  ASSUME PipeInv, NEW x \in Role, NEW next \in Role, NEW job \in Job, NEW jobs \in Seq(Job),
         Passed(x, job, next, jobs),
         LimitersAreSane', JobsAreOfTheWave', EachJobOnce', WorkIsCounted', OnlyLessRuns
  PROVE  PipeInv'
<1> USE DEF PipeInv, OnlyLessRuns
<1>1. /\ job \in running[x] /\ batch = "flowing"
      /\ done' = [done EXCEPT ![x] = done[x] + 1]
      /\ failure' = failure /\ limiter' = [y \in Role |-> LimiterSettled(y)]
      /\ UNCHANGED <<sets, objections, samples, wave, bracket, batch, faults>>
  BY DEF Passed, Settle
<1>2. limiter[x] = "open"
  BY <1>1 DEF LimitersFollow
<1>3. ASSUME NEW y \in Role
      PROVE  /\ limiter[y] # "open" => limiter'[y] = limiter[y] /\ done'[y] = done[y]
             /\ limiter'[y] \in {"open", "resolved", "rejected"}
             /\ limiter[y] = "open" /\ failure # NoFailure /\ limiter'[y] # "open" => running'[y] = {}
             /\ limiter[y] = "open" /\ failure = NoFailure =>
                  limiter'[y] # "rejected" /\ (limiter'[y] = "resolved" => done'[y] = Expected(y))
  <2>1. limiter'[y] = LimiterSettled(y)
    BY <1>1
  <2>2. limiter[y] # "open" => done'[y] = done[y]
    BY <1>1, <1>2 DEF LimitersAreSane
  <2> QED
    BY <1>1, <2>1, <2>2 DEF LimiterSettled, ClaimTypes
<1>4. ClaimTypes'
  <2>1. limiter' \in [Role -> {"open", "resolved", "rejected"}]
    BY <1>1, <1>3
  <2> QED
    BY <1>1, <2>1 DEF ClaimTypes, Requests
<1>5. \A y \in Role : batch' = "flowing" /\ failure' = NoFailure /\ done'[y] = Expected(y)' => Pending(y)' = {}
  <2>1. AtRestWhenDone'
    BY <1>4, DoneIsAtRest, PTL
  <2> QED
    BY <2>1 DEF AtRestWhenDone
<1>6. LimitersFollow'
  <2> SUFFICES ASSUME NEW y \in Role
               PROVE  /\ limiter'[y] # "open" => running'[y] = {}
                      /\ failure = NoFailure =>
                           limiter'[y] # "rejected" /\ (limiter'[y] = "resolved" => done'[y] = Expected(y))
    BY <1>1, TasksAreStable DEF LimitersFollow
  <2>1. CASE failure = NoFailure
    <3>1. limiter'[y] # "rejected" /\ (limiter'[y] = "resolved" => done'[y] = Expected(y))
      BY <1>1, <1>3, <2>1 DEF LimitersFollow
    <3>2. limiter'[y] = "resolved" => Pending(y)' = {}
      BY <1>1, <1>5, <2>1, <3>1, TasksAreStable
    <3> QED
      BY <1>3, <3>1, <3>2 DEF Pending
  <2>2. CASE failure # NoFailure
    BY <1>3, <2>2 DEF LimitersFollow
  <2> QED
    BY <2>1, <2>2
<1>7. FailureStops'
  BY <1>1 DEF FailureStops, All
<1>8. OpeningIsAtRest'
  BY <1>1 DEF OpeningIsAtRest
<1>9. BracketsFollow'
  BY <1>1, <1>3 DEF BracketsFollow, InWave
<1> QED
  BY <1>4, <1>6, <1>7, <1>8, <1>9

LEMMA WholesDiffer ==
  ASSUME NEW r \in Nat
  PROVE  /\ Whole(r) \in Job /\ <<Whole(r)>> \in Seq(Job) /\ IsInjective(<<Whole(r)>>)
         /\ ToSet(<<Whole(r)>>) = {Whole(r)}
         /\ \A k : Whole(k) = Whole(r) <=> k = r
<1>1. Whole(r) \in Job /\ \A k : Whole(k) = Whole(r) <=> k = r
  BY DEF Whole, Job
<1> HIDE DEF Whole
<1>2. <<Whole(r)>> \in Seq(Job) /\ DOMAIN <<Whole(r)>> = {1} /\ <<Whole(r)>>[1] = Whole(r)
  BY <1>1
<1> QED
  BY <1>1, <1>2 DEF IsInjective, ToSet

\* A planned request goes on to the answering role.
LEMMA PlanKeepsPipe ==
  ASSUME PipeInv, NEW r \in 1 .. Len(wave), Plan(r)
  PROVE  PipeInv'
<1> DEFINE job == Whole(r)
           more == IF failure = NoFailure THEN {job} ELSE {}
<1>1. Len(wave) \in Nat /\ r \in Nat
  BY DEF PipeInv, ClaimTypes
<1>2. /\ job \in Job /\ <<job>> \in Seq(Job) /\ IsInjective(<<job>>) /\ ToSet(<<job>>) = {job}
      /\ \A k : Whole(k) = job <=> k = r
  BY <1>1, WholesDiffer
<1>3. Passed("planning", job, "answering", <<job>>) /\ judged' = judged
  BY DEF Plan
<1>4. /\ job \in running["planning"] /\ batch = "flowing"
      /\ failure' = failure /\ wave' = wave /\ batch' = batch
      /\ done' = [done EXCEPT !["planning"] = done["planning"] + 1]
  BY <1>3 DEF Passed
<1>5. "planning" \in Role /\ "answering" \in Role
  BY DEF Role
<1> HIDE DEF job
<1>6. job \in Pending("planning") /\ job \notin Pending("answering")
  BY <1>4 DEF Pending, PipeInv, EachJobOnce, Apart
<1>7. LimitersAreSane /\ FailureStops /\ Fits("answering", <<job>>)
  BY <1>2, <1>6 DEF Fits, Apart, Pending, PipeInv
<1>8. LimitersAreSane' /\ OnlyLessRuns /\ MovesOn("planning", job, "answering", <<job>>)
  BY <1>2, <1>3, <1>5, <1>7, PassedFacts
<1>9. /\ Pending("planning")' = Pending("planning") \ {job}
      /\ Pending("answering")' = Pending("answering") \cup more
      /\ Pending("judgment")' = Pending("judgment")
  BY <1>2, <1>8 DEF MovesOn, Role
<1>10. Handed' = Handed /\ JudgmentTasks' = JudgmentTasks
  BY <1>3, <1>4, TasksAreStable DEF Handed
<1>11. JobsAreOfTheWave'
  BY <1>4, <1>6, <1>9, <1>10 DEF PipeInv, JobsAreOfTheWave
<1>12. EachJobOnce'
  BY <1>6, <1>9, <1>10 DEF PipeInv, EachJobOnce, Apart
<1>13. WorkIsCounted'
  <2> SUFFICES ASSUME failure = NoFailure
               PROVE  /\ done'["planning"] = Cardinality(Planned')
                      /\ done'["answering"] = Cardinality(Answered') /\ done'["judgment"] = Cardinality(Handed')
    BY <1>4 DEF WorkIsCounted
  <2>1. /\ done["planning"] = Cardinality(Planned)
        /\ done["answering"] = Cardinality(Answered) /\ done["judgment"] = Cardinality(Handed)
    BY <1>4 DEF PipeInv, WorkIsCounted
  <2>2. /\ done'["planning"] = done["planning"] + 1 /\ done'["answering"] = done["answering"]
        /\ done'["judgment"] = done["judgment"]
    BY <1>4 DEF PipeInv, LimitersAreSane, Role
  <2>3. Planned' = Planned \cup {r} /\ r \notin Planned
    BY <1>2, <1>4, <1>6, <1>9 DEF Planned, job
  <2>4. Planned \in SUBSET (1 .. Len(wave))
    BY DEF Planned
  <2>6. Cardinality(Planned') = Cardinality(Planned) + 1
    BY <1>1, <2>3, <2>4, OneMoreCounted
  <2>7. Answered' = Answered
    BY <1>4, <1>6, <1>9 DEF Answered
  <2> QED
    BY <1>4, <1>10, <2>1, <2>2, <2>6, <2>7
<1> QED
  BY <1>2, <1>3, <1>5, <1>8, <1>11, <1>12, <1>13, PassedSettles

\* An answered request goes on to the judges.
LEMMA AnswerKeepsPipe ==
  ASSUME PipeInv, NEW r \in 1 .. Len(wave), Answer(r)
  PROVE  PipeInv'
<1> DEFINE job == Whole(r)
           jobs == Judgments(r)
           more == IF failure = NoFailure THEN ToSet(jobs) ELSE {}
<1>1. Len(wave) \in Nat /\ r \in Nat /\ wave \in Seq(Requests)
  BY DEF PipeInv, ClaimTypes
<1>2. job \in Job /\ \A k : Whole(k) = job <=> k = r
  BY <1>1, WholesDiffer
<1>3. Passed("answering", job, "judgment", jobs) /\ judged' = judged
  BY DEF Answer
<1>4. /\ job \in running["answering"] /\ batch = "flowing"
      /\ failure' = failure /\ wave' = wave /\ batch' = batch
      /\ done' = [done EXCEPT !["answering"] = done["answering"] + 1]
  BY <1>3 DEF Passed
<1>5. "answering" \in Role /\ "judgment" \in Role
  BY DEF Role
<1>6. /\ jobs \in Seq(Job) /\ IsInjective(jobs) /\ ToSet(jobs) \subseteq JudgmentTasks
      /\ \A k \in ToSet(jobs) : k[1] = r
  BY <1>1, TasksFacts
<1> HIDE DEF jobs
<1>7. /\ job \in Pending("answering") /\ job \notin Pending("planning")
      /\ \A k \in ToSet(jobs) : k \notin Pending("judgment") \cup Handed
  <2>1. job \in Pending("answering") /\ job \notin Pending("planning")
    BY <1>4 DEF Pending, PipeInv, EachJobOnce, Apart
  <2>2. ASSUME NEW k \in ToSet(jobs), k \in Pending("judgment") \cup Handed PROVE FALSE
    <3>1. Whole(k[1]) \notin Pending("answering")
      BY <2>2 DEF PipeInv, EachJobOnce
    <3> QED
      BY <1>6, <2>1, <3>1
  <2> QED
    BY <2>1, <2>2
<1> HIDE DEF job
<1>8. LimitersAreSane /\ FailureStops /\ Fits("judgment", jobs)
  BY <1>7 DEF Fits, Apart, Pending, PipeInv
<1>9. LimitersAreSane' /\ OnlyLessRuns /\ MovesOn("answering", job, "judgment", jobs)
  BY <1>2, <1>3, <1>5, <1>6, <1>8, PassedFacts
<1>10. /\ Pending("planning")' = Pending("planning")
       /\ Pending("answering")' = Pending("answering") \ {job}
       /\ Pending("judgment")' = Pending("judgment") \cup more
  BY <1>9 DEF MovesOn, Role
<1>11. Handed' = Handed /\ JudgmentTasks' = JudgmentTasks
  BY <1>3, <1>4, TasksAreStable DEF Handed
<1>12. JobsAreOfTheWave'
  BY <1>4, <1>6, <1>10, <1>11 DEF PipeInv, JobsAreOfTheWave
<1>13. EachJobOnce'
  <2>1. Apart(Pending("planning")', Pending("answering")') /\ Apart(Pending("judgment")', Handed')
    BY <1>7, <1>10, <1>11 DEF PipeInv, EachJobOnce, Apart
  <2>2. ASSUME NEW k \in Pending("judgment")' \cup Handed'
        PROVE  Whole(k[1]) \notin Pending("planning")' /\ Whole(k[1]) \notin Pending("answering")'
    <3>1. CASE k \in Pending("judgment") \cup Handed
      BY <1>10, <3>1 DEF PipeInv, EachJobOnce
    <3>2. CASE k \in ToSet(jobs)
      BY <1>6, <1>7, <1>10, <3>2 DEF job
    <3> QED
      BY <1>10, <1>11, <2>2, <3>1, <3>2
  <2> QED
    BY <2>1, <2>2 DEF EachJobOnce
<1>14. WorkIsCounted'
  <2> SUFFICES ASSUME failure = NoFailure
               PROVE  /\ done'["planning"] = Cardinality(Planned')
                      /\ done'["answering"] = Cardinality(Answered') /\ done'["judgment"] = Cardinality(Handed')
    BY <1>4 DEF WorkIsCounted
  <2>1. /\ done["planning"] = Cardinality(Planned)
        /\ done["answering"] = Cardinality(Answered) /\ done["judgment"] = Cardinality(Handed)
    BY <1>4 DEF PipeInv, WorkIsCounted
  <2>2. /\ done'["answering"] = done["answering"] + 1 /\ done'["planning"] = done["planning"]
        /\ done'["judgment"] = done["judgment"]
    BY <1>4 DEF PipeInv, LimitersAreSane, Role
  <2>3. Answered' = Answered \cup {r} /\ r \notin Answered
    BY <1>2, <1>4, <1>7, <1>10 DEF Answered, job
  <2>4. Answered \in SUBSET (1 .. Len(wave))
    BY DEF Answered
  <2>5. Cardinality(Answered') = Cardinality(Answered) + 1
    BY <1>1, <2>3, <2>4, OneMoreCounted
  <2>6. Planned' = Planned
    BY <1>4, <1>10 DEF Planned
  <2> QED
    BY <1>4, <1>11, <2>1, <2>2, <2>5, <2>6
<1> QED
  BY <1>2, <1>3, <1>5, <1>6, <1>9, <1>12, <1>13, <1>14, PassedSettles

\* A judgment is recorded once.
LEMMA JudgeKeepsPipe ==
  ASSUME PipeInv, NEW r \in 1 .. Len(wave), NEW t \in 1 .. Len(wave[r].targets), NEW j \in Judge,
         JudgeTarget(r, t, j)
  PROVE  PipeInv'
<1> DEFINE job == <<r, t, j>>
<1>1. Len(wave) \in Nat /\ r \in Nat /\ wave \in Seq(Requests)
  BY DEF PipeInv, ClaimTypes
<1>2. PICK b : judged' = judged \cup {[request |-> r, target |-> t, judge |-> j, rejected |-> b]}
  BY DEF JudgeTarget
<1>3. Passed("judgment", job, "judgment", <<>>)
  BY DEF JudgeTarget
<1>4. /\ job \in running["judgment"] /\ batch = "flowing"
      /\ failure' = failure /\ wave' = wave /\ batch' = batch
      /\ done' = [done EXCEPT !["judgment"] = done["judgment"] + 1]
  BY <1>3 DEF Passed
<1>5. "judgment" \in Role /\ job \in Job /\ <<>> \in Seq(Job) /\ IsInjective(<<>>) /\ ToSet(<<>>) = {}
  <2>1. job \in Job
    BY <1>4 DEF PipeInv, LimitersAreSane, Role
  <2> QED
    BY <2>1 DEF Role, IsInjective, ToSet
<1>6. Handed' = Handed \cup {job}
  <2> DEFINE u == [request |-> r, target |-> t, judge |-> j, rejected |-> b]
  <2>1. <<u.request, u.target, u.judge>> = job /\ judged' = judged \cup {u}
    BY <1>2
  <2> HIDE DEF u, job
  <2> QED
    BY <2>1, Zenon DEF Handed
<1> HIDE DEF job
<1>7. job \in Pending("judgment") /\ job \notin Handed
  BY <1>4 DEF Pending, PipeInv, EachJobOnce, Apart
<1>8. LimitersAreSane /\ FailureStops /\ Fits("judgment", <<>>)
  BY <1>5 DEF Fits, Apart, PipeInv
<1>9. LimitersAreSane' /\ OnlyLessRuns /\ MovesOn("judgment", job, "judgment", <<>>)
  BY <1>3, <1>5, <1>8, PassedFacts
<1>10. /\ Pending("planning")' = Pending("planning") /\ Pending("answering")' = Pending("answering")
       /\ Pending("judgment")' = Pending("judgment") \ {job}
  BY <1>5, <1>9 DEF MovesOn, Role
<1>11. JudgmentTasks' = JudgmentTasks
  BY <1>4, TasksAreStable
<1>12. JobsAreOfTheWave'
  BY <1>4, <1>6, <1>7, <1>10, <1>11 DEF PipeInv, JobsAreOfTheWave
<1>13. EachJobOnce'
  <2>1. Apart(Pending("planning")', Pending("answering")') /\ Apart(Pending("judgment")', Handed')
    BY <1>6, <1>7, <1>10 DEF PipeInv, EachJobOnce, Apart
  <2>2. Pending("judgment")' \cup Handed' \subseteq Pending("judgment") \cup Handed
    BY <1>6, <1>7, <1>10
  <2> QED
    BY <1>10, <2>1, <2>2 DEF PipeInv, EachJobOnce
<1>14. WorkIsCounted'
  <2> SUFFICES ASSUME failure = NoFailure
               PROVE  /\ done'["planning"] = Cardinality(Planned')
                      /\ done'["answering"] = Cardinality(Answered') /\ done'["judgment"] = Cardinality(Handed')
    BY <1>4 DEF WorkIsCounted
  <2>1. /\ done["planning"] = Cardinality(Planned)
        /\ done["answering"] = Cardinality(Answered) /\ done["judgment"] = Cardinality(Handed)
    BY <1>4 DEF PipeInv, WorkIsCounted
  <2>2. /\ done'["judgment"] = done["judgment"] + 1 /\ done'["planning"] = done["planning"]
        /\ done'["answering"] = done["answering"]
    BY <1>4 DEF PipeInv, LimitersAreSane, Role
  <2>3. IsFiniteSet(Handed)
    BY <1>1, TasksFacts, FS_Subset DEF PipeInv, JobsAreOfTheWave
  <2>4. Cardinality(Handed') = Cardinality(Handed) + 1
    BY <1>6, <1>7, <2>3, FS_AddElement
  <2>5. Planned' = Planned /\ Answered' = Answered
    BY <1>4, <1>10 DEF Planned, Answered
  <2> QED
    BY <1>4, <2>1, <2>2, <2>4, <2>5
<1> QED
  BY <1>3, <1>5, <1>9, <1>12, <1>13, <1>14, PassedSettles

\* A failure empties the queues and settles what is at rest.
LEMMA AbortKeepsPipe ==
  ASSUME PipeInv, InWave, NEW x \in Role, NEW kind, NEW hit, failure = NoFailure => kind = "own",
         AbortRoles(x, kind, hit), Settle,
         done' \in [Role -> Nat], batch = "opening" => done' = done,
         UNCHANGED <<sets, wave, judged, batch>>,
         \/ bracket' = bracket
         \/ bracket' = [bracket EXCEPT ![x] = "broken"] /\ (batch = "opening" \/ limiter[x] # "open")
  PROVE  PipeInv'
<1> USE DEF PipeInv
<1>1. failure' \in [role : Role, kind : {"own"}] /\ failure' # NoFailure
  BY DEF AbortRoles, Blame, ClaimTypes, NoFailure
<1>2. /\ queue' = All(<<>>) /\ running' \in [Role -> SUBSET Job]
      /\ \A y \in Role : running'[y] \subseteq running[y]
  BY DEF AbortRoles, LimitersAreSane
<1>3. /\ \A y \in Role : queue'[y] = <<>> /\ ToSet(queue'[y]) = {} /\ IsInjective(queue'[y])
      /\ queue' \in [Role -> Seq(Job)]
  BY <1>2 DEF All, ToSet, IsInjective
<1>4. \A y \in Role : limiter'[y] = IF limiter[y] # "open" THEN limiter[y]
                                    ELSE IF running'[y] = {} THEN "rejected" ELSE "open"
  BY <1>1 DEF Settle, LimiterSettled
<1>5. \A y \in Role : Pending(y)' \subseteq Pending(y)
  BY <1>2, <1>3 DEF Pending
<1>6. Handed' = Handed /\ JudgmentTasks' = JudgmentTasks
  BY TasksAreStable DEF Handed
<1>7. ClaimTypes'
  <2>1. limiter' \in [Role -> {"open", "resolved", "rejected"}]
    BY <1>4 DEF Settle, ClaimTypes
  <2>2. bracket' \in [Role -> {"entering", "entered", "closed", "broken"}]
    BY DEF ClaimTypes
  <2> QED
    BY <1>1, <2>1, <2>2 DEF ClaimTypes, Requests
<1>8. LimitersAreSane'
  <2> SUFFICES ASSUME NEW y \in Role
               PROVE  IsFiniteSet(running'[y]) /\ Cardinality(running'[y]) <= Cap[y]
    BY <1>2, <1>3 DEF LimitersAreSane, Apart
  <2> DEFINE S == running[y]
             T == running'[y]
  <2>1. IsFiniteSet(S) /\ Cardinality(S) <= Cap[y] /\ T \in SUBSET S /\ Cap[y] \in Nat
    BY <1>2, AdmissionPolicy DEF LimitersAreSane
  <2> HIDE DEF S, T
  <2>2. IsFiniteSet(T) /\ Cardinality(T) <= Cardinality(S)
    BY <2>1, FS_Subset
  <2>3. Cardinality(T) \in Nat /\ Cardinality(S) \in Nat
    BY <2>1, <2>2, FS_CardinalityType
  <2>4. IsFiniteSet(T) /\ Cardinality(T) <= Cap[y]
    BY <2>1, <2>2, <2>3
  <2> QED
    BY <2>4 DEF T
<1>9. JobsAreOfTheWave'
  BY <1>5, <1>6 DEF JobsAreOfTheWave, Role
<1>10. EachJobOnce'
  <2>1. /\ Pending("planning")' \subseteq Pending("planning")
        /\ Pending("answering")' \subseteq Pending("answering")
        /\ Pending("judgment")' \subseteq Pending("judgment")
    BY <1>5 DEF Role
  <2> QED
    BY <1>6, <2>1 DEF EachJobOnce, Apart
<1>11. WorkIsCounted' /\ FailureStops'
  BY <1>1, <1>2 DEF WorkIsCounted, FailureStops, All
<1>12. LimitersFollow'
  BY <1>1, <1>2, <1>4 DEF LimitersFollow
<1>13. OpeningIsAtRest'
  <2> SUFFICES ASSUME batch = "opening" PROVE OpeningIsAtRest'
    BY DEF OpeningIsAtRest
  <2>1. /\ running = All({}) /\ done' = All(0) /\ judged' = {}
        /\ \A y \in Role : limiter[y] \in {"open", "rejected"}
    BY DEF OpeningIsAtRest, All
  <2>2. \A y \in Role : running'[y] = {}
    BY <1>2, <2>1 DEF All
  <2>3. running' = All({})
    BY <1>2, <2>2 DEF All
  <2>4. \A y \in Role : limiter'[y] = "rejected"
    BY <1>4, <2>1, <2>2
  <2> QED
    BY <1>1, <1>2, <2>1, <2>3, <2>4 DEF OpeningIsAtRest, All
<1>14. BracketsFollow'
  <2>1. batch = "opening" => \A y \in Role : limiter'[y] # "open"
    BY <1>1, <1>13 DEF OpeningIsAtRest
  <2>2. \A y \in Role : limiter[y] # "open" => limiter'[y] # "open"
    BY <1>4
  <2>3. \A y \in Role : bracket'[y] = bracket[y] \/ (y = x /\ bracket'[y] = "broken" /\ limiter'[y] # "open")
    BY <2>1, <2>2 DEF ClaimTypes
  <2> QED
    BY <1>1, <2>2, <2>3 DEF BracketsFollow, InWave
<1> QED
  BY <1>7, <1>8, <1>9, <1>10, <1>11, <1>12, <1>13, <1>14

LEMMA FailuresKeepPipe ==
  ASSUME PipeInv, NEW x \in Role,
         CloseAborted(x) \/ StageFails(x) \/ \E job \in running[x] : CallFails(x, job)
  PROVE  PipeInv'
<1>1. ASSUME NEW job \in running[x], CallFails(x, job) PROVE PipeInv'
  <2>1. /\ batch = "flowing" /\ done' = [done EXCEPT ![x] = done[x] + 1]
        /\ AbortRoles(x, "own", {job}) /\ Settle /\ UNCHANGED <<sets, wave, judged, bracket, batch>>
    BY <1>1 DEF CallFails
  <2>2. InWave /\ done' \in [Role -> Nat]
    BY <2>1 DEF InWave, PipeInv, LimitersAreSane
  <2> QED
    BY <2>1, <2>2, AbortKeepsPipe
<1>2. ASSUME CloseAborted(x) PROVE PipeInv'
  <2> DEFINE kind == IF failure.role = x THEN failure.kind ELSE "upstream"
  <2>1. /\ InWave /\ limiter[x] = "rejected" /\ bracket' = [bracket EXCEPT ![x] = "broken"] /\ done' = done
        /\ AbortRoles(x, kind, {}) /\ Settle /\ UNCHANGED <<sets, wave, judged, batch>>
    BY <1>2 DEF CloseAborted, Bracket
  <2>2. failure # NoFailure
    BY <2>1 DEF InWave, PipeInv, LimitersFollow, OpeningIsAtRest
  <2>3. done' \in [Role -> Nat]
    BY <2>1 DEF PipeInv, LimitersAreSane
  <2> HIDE DEF kind
  <2> QED
    BY <2>1, <2>2, <2>3, AbortKeepsPipe
<1>3. ASSUME StageFails(x) PROVE PipeInv'
  <2>1. /\ InWave /\ (batch = "opening" \/ limiter[x] # "open")
        /\ bracket' = [bracket EXCEPT ![x] = "broken"] /\ done' = done
        /\ AbortRoles(x, "own", {}) /\ Settle /\ UNCHANGED <<sets, wave, judged, batch>>
    BY <1>3 DEF StageFails, Bracket
  <2>2. done' \in [Role -> Nat]
    BY <2>1 DEF PipeInv, LimitersAreSane
  <2> QED
    BY <2>1, <2>2, AbortKeepsPipe
<1> QED
  BY <1>1, <1>2, <1>3

\* Entering a stage, and closing one whose limiter is done.
LEMMA StagesKeepPipe ==
  ASSUME PipeInv, NEW x \in Role, EnterStage(x) \/ CloseStage(x)
  PROVE  PipeInv'
<1> USE DEF PipeInv
<1>1. /\ UNCHANGED <<sets, wave, queue, running, done, judged, failure, limiter, batch>> /\ InWave
      /\ \/ batch = "opening" /\ bracket' = [bracket EXCEPT ![x] = "entered"]
         \/ limiter[x] = "resolved" /\ bracket' = [bracket EXCEPT ![x] = "closed"]
  BY DEF EnterStage, CloseStage, Bracket
<1>2. ClaimTypes'
  BY <1>1 DEF ClaimTypes, Requests
<1>3. /\ \A y \in Role : Pending(y)' = Pending(y) 
      /\ Handed' = Handed /\ JudgmentTasks' = JudgmentTasks /\ Planned' = Planned /\ Answered' = Answered
  BY <1>1, TasksAreStable DEF Pending, Handed, Planned, Answered
<1>4. LimitersAreSane' /\ FailureStops' /\ OpeningIsAtRest'
  BY <1>1 DEF LimitersAreSane, FailureStops, OpeningIsAtRest
<1>5. JobsAreOfTheWave'
  BY <1>1, <1>3 DEF JobsAreOfTheWave, Role
<1>6. EachJobOnce'
  BY <1>1, <1>3 DEF EachJobOnce, Role
<1>7. WorkIsCounted'
  BY <1>1, <1>3 DEF WorkIsCounted
<1>8. LimitersFollow'
  BY <1>1, TasksAreStable DEF LimitersFollow
<1>9. BracketsFollow'
  <2>1. \A y \in Role : \/ bracket'[y] = bracket[y]
                        \/ y = x /\ batch = "opening" /\ bracket'[y] = "entered"
                        \/ y = x /\ limiter[y] # "open" /\ bracket'[y] = "closed"
    BY <1>1 DEF ClaimTypes
  <2> QED
    BY <1>1, <2>1 DEF BracketsFollow, InWave
<1> QED
  BY <1>2, <1>4, <1>5, <1>6, <1>7, <1>8, <1>9

\* The packets of a wave start together.
LEMMA ReleaseKeepsPipe ==
  ASSUME PipeInv, Release
  PROVE  PipeInv'
<1> USE DEF PipeInv
<1> DEFINE list == [r \in 1 .. Len(wave) |-> Whole(r)]
           waiting == [queue EXCEPT !["planning"] = list]
<1>1. /\ batch = "opening" /\ batch' = "flowing" /\ \A x \in Role : bracket[x] # "entering"
      /\ UNCHANGED <<sets, wave, done, judged, failure, limiter, bracket>>
      /\ \/ failure = NoFailure /\ Pump(waiting, running)
         \/ failure # NoFailure /\ queue' = queue /\ running' = running
  BY DEF Release
<1>2. /\ queue = All(<<>>) /\ running = All({}) /\ done = All(0) /\ judged = {}
      /\ \A x \in Role : limiter[x] = IF failure = NoFailure THEN "open" ELSE "rejected"
  BY <1>1 DEF OpeningIsAtRest
<1>3. Len(wave) \in Nat
  BY DEF ClaimTypes
<1>4. /\ list \in Seq(Job) /\ IsInjective(list) /\ ToSet(list) = {Whole(r) : r \in 1 .. Len(wave)}
  <2>1. \A r \in 1 .. Len(wave) : Whole(r) \in Job /\ \A k : Whole(k) = Whole(r) <=> k = r
    <3>1. \A r \in 1 .. Len(wave) : r \in Nat
      BY <1>3
    <3> QED
      BY <3>1, WholesDiffer, Zenon
  <2>2. list \in Seq(Job) /\ DOMAIN list = 1 .. Len(wave)
    BY <1>3, <2>1
  <2> QED
    BY <2>1, <2>2 DEF IsInjective, ToSet
<1>5. ClaimTypes'
  BY <1>1 DEF ClaimTypes, Requests
<1>6. Handed' = {} /\ JudgmentTasks' = JudgmentTasks
  BY <1>1, <1>2, TasksAreStable DEF Handed
<1> HIDE DEF list
<1>7. /\ LimitersAreSane'
      /\ Pending("planning")' = IF failure = NoFailure THEN ToSet(list) ELSE {}
      /\ Pending("answering")' = {} /\ Pending("judgment")' = {}
      /\ failure # NoFailure => queue' = queue /\ running' = running
  <2>1. CASE failure = NoFailure
    <3>1. \A y \in Role : waiting[y] = IF y = "planning" THEN list ELSE <<>>
      BY <1>2 DEF All
    <3>2. waiting \in [Role -> Seq(Job)]
      BY <1>4 DEF LimitersAreSane
    <3>3. ToSet(<<>>) = {} /\ IsInjective(<<>>)
      BY DEF ToSet, IsInjective
    <3>4. \A y \in Role : /\ IsFiniteSet(running[y]) /\ Cardinality(running[y]) <= Cap[y]
                          /\ IsInjective(waiting[y]) /\ Apart(ToSet(waiting[y]), running[y])
      BY <1>2, <1>4, <3>1, <3>3 DEF LimitersAreSane, Apart, All
    <3>5. running \in [Role -> SUBSET Job] /\ Pump(waiting, running)
      BY <1>1, <2>1 DEF LimitersAreSane
    <3> HIDE DEF waiting
    <3>6. /\ queue' \in [Role -> Seq(Job)] /\ running' \in [Role -> SUBSET Job]
          /\ \A x \in Role :
              /\ IsFiniteSet(running'[x]) /\ Cardinality(running'[x]) <= Cap[x]
              /\ IsInjective(queue'[x]) /\ Apart(ToSet(queue'[x]), running'[x])
              /\ ToSet(queue'[x]) \cup running'[x] = ToSet(waiting[x]) \cup running[x]
      BY <3>2, <3>4, <3>5, PumpFacts
    <3>7. LimitersAreSane'
      BY <1>1, <3>6 DEF LimitersAreSane
    <3>8. \A x \in Role : Pending(x)' = ToSet(waiting[x])
      BY <1>2, <3>6 DEF Pending, All
    <3> QED
      BY <2>1, <3>1, <3>3, <3>7, <3>8 DEF Role
  <2>2. CASE failure # NoFailure
    <3>1. LimitersAreSane' /\ queue' = queue /\ running' = running
      BY <1>1, <2>2 DEF LimitersAreSane
    <3>2. \A x \in Role : Pending(x)' = {}
      BY <1>2, <3>1 DEF Pending, All, ToSet
    <3> QED
      BY <2>2, <3>1, <3>2 DEF Role
  <2> QED
    BY <2>1, <2>2
<1>8. JobsAreOfTheWave'
  BY <1>1, <1>4, <1>6, <1>7 DEF JobsAreOfTheWave
<1>9. EachJobOnce'
  BY <1>6, <1>7 DEF EachJobOnce, Apart
<1>10. WorkIsCounted'
  <2> SUFFICES ASSUME failure = NoFailure
               PROVE  /\ done'["planning"] = Cardinality(Planned')
                      /\ done'["answering"] = Cardinality(Answered') /\ done'["judgment"] = Cardinality(Handed')
    BY <1>1 DEF WorkIsCounted
  <2>1. Planned' = {} /\ Answered' = {}
    BY <1>1, <1>4, <1>7 DEF Planned, Answered
  <2>2. Cardinality({}) = 0
    BY FS_EmptySet
  <2>3. done'["planning"] = 0 /\ done'["answering"] = 0 /\ done'["judgment"] = 0
    BY <1>1, <1>2 DEF All, Role
  <2> QED
    BY <1>6, <2>1, <2>2, <2>3
<1>11. LimitersFollow'
  BY <1>1, <1>2, <1>7 DEF LimitersFollow, All
<1>12. FailureStops' /\ OpeningIsAtRest'
  BY <1>1, <1>2, <1>7 DEF FailureStops, OpeningIsAtRest
<1>13. BracketsFollow'
  BY <1>1 DEF BracketsFollow, InWave
<1> QED
  BY <1>5, <1>7, <1>8, <1>9, <1>10, <1>11, <1>12, <1>13

-----------------------------------------------------------------------------
(* What a wave asks for. *)

LEMMA BlocksInOrder ==
  ASSUME NEW n \in Nat, NEW q \in Nat \ {0}, NEW i \in 1 .. q * n
  PROVE  ((i - 1) \div q) + 1 \in 1 .. n /\ ((i - 1) % q) + 1 \in 1 .. q
OBVIOUS

LEMMA BlockHasIndex ==
  ASSUME NEW n \in Nat, NEW q \in Nat \ {0}, NEW c \in 1 .. n, NEW s \in 1 .. q
  PROVE  \E i \in 1 .. q * n : /\ ((i - 1) \div q) + 1 = c /\ ((i - 1) % q) + 1 = s
                               /\ c = n /\ s = q => i = q * n
<1> DEFINE i == (c - 1) * q + s
<1>1. i \in 1 .. q * n
  OBVIOUS
<1>2. (i - 1) \div q = c - 1
  OBVIOUS
<1>3. (i - 1) % q = s - 1
  OBVIOUS
<1>4. c = n /\ s = q => i = q * n
  OBVIOUS
<1>5. (c - 1) + 1 = c /\ (s - 1) + 1 = s
  OBVIOUS
<1> HIDE DEF i
<1> QED
  BY <1>1, <1>2, <1>3, <1>4, <1>5

LEMMA ListFromFunction ==
  ASSUME NEW n \in Nat, NEW S, NEW q, DOMAIN q = 1 .. n, q = [i \in 1 .. n |-> q[i]], \A i \in 1 .. n : q[i] \in S
  PROVE  q \in Seq(S) /\ Len(q) = n
OBVIOUS

LEMMA WiderList ==
  ASSUME NEW S, NEW T, T \subseteq S, NEW q \in Seq(T)
  PROVE  q \in Seq(S)
<1>1. Len(q) \in Nat /\ q = [i \in 1 .. Len(q) |-> q[i]] /\ \A i \in 1 .. Len(q) : q[i] \in T
  OBVIOUS
<1>2. \A i \in 1 .. Len(q) : q[i] \in S
  BY <1>1
<1> QED
  BY <1>1, <1>2

LEMMA RequestFacts ==
  ASSUME NEW c, NEW s, NEW targets
  PROVE  /\ Request(c, s, targets).candidate = c /\ Request(c, s, targets).sample = s
         /\ Request(c, s, targets).targets = targets
         /\ c \in Nat /\ s \in Nat /\ targets \in Seq(Nat) => Request(c, s, targets) \in Requests
BY DEF Request, Requests

LEMMA PolicyFacts == Samples \in Nat /\ Quorum \in Nat /\ Quorum >= 2 /\ Quorum <= Samples /\ Quorum \in Nat \ {0}
BY AdmissionPolicy

\* Every target is put before the judges by the first requests of its claim set.
AsksAll(requests, counts) ==
  /\ \A i \in 1 .. Len(requests) :
       /\ requests[i].candidate \in 1 .. Len(counts) /\ requests[i].sample \in 1 .. Quorum
       /\ requests[i].targets = [t \in 1 .. counts[requests[i].candidate] |-> t]
  /\ \A c \in 1 .. Len(counts), s \in 1 .. Quorum :
       \E i \in 1 .. Len(requests) : requests[i].candidate = c /\ requests[i].sample = s
  /\ Len(requests) > 0 => requests[Len(requests)].sample = Quorum

LEMMA FirstWaveFacts ==
  ASSUME NEW counts \in Seq(Nat), NEW requests, requests = FirstWave(counts)
  PROVE  /\ requests \in Seq(Requests) /\ Len(requests) \in Nat /\ AsksAll(requests, counts)
         /\ counts # <<>> => Len(requests) > 0 /\ requests # <<>>
<1> DEFINE n == Len(counts)
           N == Quorum * n
           cand(i) == ((i - 1) \div Quorum) + 1
           samp(i) == ((i - 1) % Quorum) + 1
<1>1. n \in Nat /\ \A c \in 1 .. n : counts[c] \in Nat
  OBVIOUS
<1>2. requests = [i \in 1 .. N |-> Request(cand(i), samp(i), [t \in 1 .. counts[cand(i)] |-> t])]
  BY DEF FirstWave
<1>3. N \in Nat /\ (n > 0 => N > 0) /\ (N > 0 => n > 0)
  BY <1>1, PolicyFacts
<1>4. \A i \in 1 .. N : cand(i) \in 1 .. n /\ samp(i) \in 1 .. Quorum
  BY <1>1, PolicyFacts, BlocksInOrder
<1>5. \A c \in 1 .. n, s \in 1 .. Quorum : \E i \in 1 .. N :
         cand(i) = c /\ samp(i) = s /\ (c = n /\ s = Quorum => i = N)
  BY <1>1, PolicyFacts, BlockHasIndex
<1>6. counts # <<>> => n > 0
  OBVIOUS
<1> HIDE DEF cand, samp, n, N
<1>7. \A i \in 1 .. N : requests[i] = Request(cand(i), samp(i), [t \in 1 .. counts[cand(i)] |-> t])
  BY <1>2
<1>8. ASSUME NEW i \in 1 .. N
      PROVE  /\ requests[i] \in Requests
             /\ requests[i].candidate = cand(i) /\ requests[i].sample = samp(i)
             /\ requests[i].targets = [t \in 1 .. counts[requests[i].candidate] |-> t]
  <2> DEFINE targets == [t \in 1 .. counts[cand(i)] |-> t]
  <2>1. counts[cand(i)] \in Nat
    BY <1>1, <1>4
  <2>2. targets \in Seq(Nat)
    BY <2>1
  <2>3. cand(i) \in Nat /\ samp(i) \in Nat
    BY <1>1, <1>4, PolicyFacts
  <2>4. requests[i] = Request(cand(i), samp(i), targets)
    BY <1>7
  <2> HIDE DEF targets
  <2>5. /\ requests[i] \in Requests /\ requests[i].candidate = cand(i) /\ requests[i].sample = samp(i)
        /\ requests[i].targets = targets
    BY <2>2, <2>3, <2>4, RequestFacts
  <2> QED
    BY <2>5 DEF targets
<1>9. DOMAIN requests = 1 .. N /\ requests = [i \in 1 .. N |-> requests[i]]
  BY <1>2
<1>10. requests \in Seq(Requests) /\ Len(requests) = N
  BY <1>3, <1>8, <1>9, ListFromFunction
<1>11. Len(requests) > 0 => requests[Len(requests)].sample = Quorum
  <2> SUFFICES ASSUME N > 0 PROVE requests[N].sample = Quorum
    BY <1>10
  <2>1. n \in 1 .. n /\ Quorum \in 1 .. Quorum
    BY <1>1, <1>3, PolicyFacts
  <2>2. samp(N) = Quorum
    BY <1>5, <2>1
  <2>3. N \in 1 .. N
    BY <1>3
  <2> QED
    BY <1>8, <2>2, <2>3
<1>12. counts # <<>> => Len(requests) > 0 /\ requests # <<>>
  BY <1>3, <1>6, <1>10
<1>13. \A i \in 1 .. Len(requests) :
              /\ requests[i].candidate \in 1 .. n /\ requests[i].sample \in 1 .. Quorum
              /\ requests[i].targets = [t \in 1 .. counts[requests[i].candidate] |-> t]
  <2>1. Len(requests) = N
    BY <1>10
  <2> QED
    BY <1>4, <1>8, <2>1
<1>14. \A c \in 1 .. n, s \in 1 .. Quorum :
              \E i \in 1 .. Len(requests) : requests[i].candidate = c /\ requests[i].sample = s
  <2>1. Len(requests) = N
    BY <1>10
  <2> TAKE c \in 1 .. n, s \in 1 .. Quorum
  <2>2. PICK i \in 1 .. N : cand(i) = c /\ samp(i) = s
    BY <1>5
  <2> QED
    BY <1>8, <2>1, <2>2
<1> QED
  BY <1>3, <1>10, <1>11, <1>12, <1>13, <1>14 DEF n, AsksAll

\* What is unresolved, and nothing else, is put before them once more.
AsksAgain(requests, s, found) ==
  /\ \A i \in 1 .. Len(requests) :
       /\ requests[i].candidate \in 1 .. Len(sets) /\ requests[i].sample = s
       /\ ToSet(requests[i].targets) = Unresolved(requests[i].candidate, found)
  /\ \A c \in 1 .. Len(sets) : Unresolved(c, found) # {} =>
       \E i \in 1 .. Len(requests) : requests[i].candidate = c

LEMMA NextWaveFacts ==
  ASSUME sets \in Seq(Nat), NEW s \in Nat, NEW found, NEW requests, requests = NextWave(s, found)
  PROVE  /\ requests \in Seq(Requests) /\ Len(requests) \in Nat /\ AsksAgain(requests, s, found)
         /\ requests = <<>> <=> \A c \in 1 .. Len(sets) : Unresolved(c, found) = {}
<1> DEFINE C == {c \in 1 .. Len(sets) : Unresolved(c, found) # {}}
           asked == Ascending(C)
<1>1. C \in SUBSET Nat /\ IsFiniteSet(C)
  <2>1. C \in SUBSET (1 .. Len(sets)) /\ Len(sets) \in Nat /\ IsFiniteSet(1 .. Len(sets))
    BY UpTo
  <2> HIDE DEF C
  <2>2. IsFiniteSet(C)
    BY <2>1, FS_Subset
  <2>3. \A c \in C : c \in Nat
    BY <2>1
  <2> QED
    BY <2>2, <2>3
<1>2. \A c \in 1 .. Len(sets) : Unresolved(c, found) \in SUBSET Nat /\ IsFiniteSet(Unresolved(c, found))
  <2> TAKE c \in 1 .. Len(sets)
  <2>1. Unresolved(c, found) \in SUBSET (1 .. sets[c]) /\ sets[c] \in Nat
    BY DEF Unresolved
  <2>2. IsFiniteSet(1 .. sets[c])
    BY <2>1, UpTo
  <2> QED
    BY <2>1, <2>2, FS_Subset
<1>3. asked \in Seq(C) /\ C = ToSet(asked)
  BY <1>1, AscendingFacts
<1>4. \A c \in C : Ascending(Unresolved(c, found)) \in Seq(Nat)
                   /\ Unresolved(c, found) = ToSet(Ascending(Unresolved(c, found)))
  <2> TAKE c \in C
  <2> DEFINE U == Unresolved(c, found)
  <2>1. U \in SUBSET Nat /\ IsFiniteSet(U)
    BY <1>2
  <2> HIDE DEF U
  <2>2. Ascending(U) \in Seq(U) /\ U = ToSet(Ascending(U))
    BY <2>1, AscendingFacts
  <2>3. Ascending(U) \in Seq(Nat)
    BY <2>1, <2>2, WiderList
  <2> QED
    BY <2>2, <2>3 DEF U
<1>5. requests = [i \in 1 .. Len(asked) |-> Request(asked[i], s, Ascending(Unresolved(asked[i], found)))]
  BY DEF NextWave
<1>6. \A c \in 1 .. Len(sets) : c \in C <=> Unresolved(c, found) # {}
  OBVIOUS
<1>7. \A c \in C : c \in 1 .. Len(sets) /\ c \in Nat
  BY <1>1
<1> HIDE DEF C, asked
<1>8. Len(asked) \in Nat /\ DOMAIN asked = 1 .. Len(asked) /\ \A i \in 1 .. Len(asked) : asked[i] \in C
  BY <1>3, ListIsFunction
<1>9. \A c \in C : \E i \in 1 .. Len(asked) : asked[i] = c
  BY <1>3, <1>8 DEF ToSet
<1>10. \A i \in 1 .. Len(asked) : requests[i] = Request(asked[i], s, Ascending(Unresolved(asked[i], found)))
  BY <1>5
<1>11. ASSUME NEW i \in 1 .. Len(asked)
       PROVE  /\ requests[i] \in Requests
              /\ requests[i].candidate = asked[i] /\ requests[i].sample = s
              /\ ToSet(requests[i].targets) = Unresolved(asked[i], found)
  <2> DEFINE targets == Ascending(Unresolved(asked[i], found))
  <2>1. requests[i] = Request(asked[i], s, targets)
    BY <1>10
  <2>2. targets \in Seq(Nat) /\ asked[i] \in Nat /\ Unresolved(asked[i], found) = ToSet(targets)
    BY <1>4, <1>7, <1>8
  <2> HIDE DEF targets
  <2> QED
    BY <2>1, <2>2, RequestFacts
<1>12. requests \in Seq(Requests) /\ Len(requests) = Len(asked)
  <2>1. requests = [i \in 1 .. Len(asked) |-> requests[i]]
    BY <1>5
  <2> QED
    BY <1>8, <1>11, <2>1
<1>13. requests = <<>> <=> \A c \in 1 .. Len(sets) : Unresolved(c, found) = {}
  <2>1. requests = <<>> <=> Len(asked) = 0
    BY <1>12
  <2>2. Len(asked) = 0 <=> C = {}
    BY <1>8, <1>9
  <2> QED
    BY <1>6, <1>7, <2>1, <2>2
<1>14. \A i \in 1 .. Len(requests) :
         /\ requests[i].candidate \in 1 .. Len(sets) /\ requests[i].sample = s
         /\ ToSet(requests[i].targets) = Unresolved(requests[i].candidate, found)
  BY <1>7, <1>8, <1>11, <1>12
<1>15. \A c \in 1 .. Len(sets) : Unresolved(c, found) # {} =>
         \E i \in 1 .. Len(requests) : requests[i].candidate = c
  <2> TAKE c \in 1 .. Len(sets)
  <2> HAVE Unresolved(c, found) # {}
  <2>1. PICK i \in 1 .. Len(asked) : asked[i] = c
    BY <1>6, <1>9
  <2> QED
    BY <1>11, <1>12, <2>1
<1> QED
  BY <1>8, <1>12, <1>13, <1>14, <1>15 DEF AsksAgain
-----------------------------------------------------------------------------
(* What the judges are asked, wave by wave. *)

Sampled == [candidate : Nat, target : Nat, sample : Nat, judge : Judge, rejected : BOOLEAN]

Verdicts == [request : Nat, target : Nat, judge : Judge, rejected : BOOLEAN]

Truthful(found) ==
  \A v \in found : v.rejected = (<<v.candidate, v.target, v.sample, v.judge>> \in objections)

PanelOf(c, t, found) == {<<v.sample, v.judge>> : v \in Of(c, t, found)}

\* Every target has full panels of the first samples, of all n where its
\* judges are still divided.
SampledTo(n, found) ==
  \A c \in 1 .. Len(sets) : \A t \in 1 .. sets[c] :
    \E k \in Quorum .. n : /\ PanelOf(c, t, found) = (1 .. k) \X Judge
                           /\ t \in Unresolved(c, found) => k = n

VerdictsAreTrue ==
  \A v \in judged :
    /\ v \in Verdicts
    /\ v.rejected = (<<wave[v.request].candidate, wave[v.request].targets[v.target],
                       wave[v.request].sample, v.judge>> \in objections)

\* A wave is the first one, or it asks for what the earlier ones left open.
WaveIsNext ==
  \/ samples = {} /\ wave = FirstWave(sets)
  \/ \E s \in Quorum + 1 .. Samples : SampledTo(s - 1, samples) /\ wave = NextWave(s, samples)

WaveInv ==
  /\ samples \subseteq Sampled /\ Truthful(samples) /\ VerdictsAreTrue
  /\ InWave => wave # <<>> /\ WaveIsNext
  /\ batch = "idle" => samples = {} /\ judged = {}
  /\ batch = "returned" => SampledTo(Samples, samples)

\* A wave that ends well has asked every judge.
LEMMA WaveIsHeard ==
  ASSUME PipeInv, WaveIsOver, failure = NoFailure
  PROVE  /\ Handed = JudgmentTasks /\ \A x \in Role : running[x] = {}
<1> USE DEF PipeInv
<1>1. batch = "flowing" /\ \A x \in Role : bracket[x] \in {"closed", "broken"}
  BY DEF WaveIsOver
<1>2. \A x \in Role : limiter[x] = "resolved"
  <2>1. \A x \in Role : limiter[x] # "open"
    BY <1>1 DEF BracketsFollow, InWave
  <2>2. \A x \in Role : limiter[x] # "rejected"
    BY <1>1 DEF LimitersFollow
  <2> QED
    BY <2>1, <2>2 DEF ClaimTypes
<1>3. "judgment" \in Role /\ done["judgment"] = Cardinality(JudgmentTasks)
  BY <1>1, <1>2 DEF LimitersFollow, Expected, Role
<1>4. Handed \in SUBSET JudgmentTasks /\ Cardinality(Handed) = Cardinality(JudgmentTasks)
  BY <1>1, <1>3 DEF WorkIsCounted, JobsAreOfTheWave
<1>5. IsFiniteSet(JudgmentTasks)
  BY TasksFacts DEF ClaimTypes
<1>6. Handed = JudgmentTasks
  BY <1>4, <1>5, AllCounted
<1> QED
  BY <1>2, <1>6 DEF LimitersFollow

\* What a wave adds to the samples.
LEMMA RecordedFacts ==
  ASSUME PipeInv, WaveInv, WaveIsOver, failure = NoFailure
  PROVE  /\ Recorded \subseteq Sampled /\ Truthful(Recorded) /\ samples \subseteq Recorded
         /\ \A r \in 1 .. Len(wave) : \A t \in 1 .. Len(wave[r].targets), j \in Judge :
              \E u \in Recorded : /\ u.candidate = wave[r].candidate /\ u.target = wave[r].targets[t]
                                  /\ u.sample = wave[r].sample /\ u.judge = j
         /\ \A u \in Recorded : u \in samples \/
              \E r \in 1 .. Len(wave) : \E t \in 1 .. Len(wave[r].targets) :
                   /\ u.candidate = wave[r].candidate /\ u.target = wave[r].targets[t]
                   /\ u.sample = wave[r].sample
<1>1. Handed = JudgmentTasks
  BY WaveIsHeard
<1>2. wave \in Seq(Requests) /\ Len(wave) \in Nat
  BY DEF PipeInv, ClaimTypes
<1>3. ASSUME NEW v \in judged
      PROVE  /\ v \in Verdicts /\ v.request \in 1 .. Len(wave)
             /\ v.target \in 1 .. Len(wave[v.request].targets)
             /\ wave[v.request] \in Requests /\ wave[v.request].targets[v.target] \in Nat
  <2>1. v \in Verdicts /\ <<v.request, v.target, v.judge>> \in JudgmentTasks
    BY <1>1 DEF WaveInv, VerdictsAreTrue, Handed
  <2>2. PICK r \in 1 .. Len(wave) : \E t \in 1 .. Len(wave[r].targets), j \in Judge :
               <<v.request, v.target, v.judge>> = <<r, t, j>>
    BY <1>2, <2>1, TasksFacts
  <2>3. v.request \in 1 .. Len(wave) /\ v.target \in 1 .. Len(wave[v.request].targets)
    BY <2>2
  <2>4. wave[v.request] \in Requests
    BY <1>2, <2>3
  <2>5. wave[v.request].targets \in Seq(Nat)
    BY <2>4 DEF Requests
  <2> QED
    BY <2>1, <2>3, <2>4, <2>5
<1>4. ASSUME NEW v \in judged
      PROVE  /\ Panel(v.request, v) \in Sampled
             /\ Panel(v.request, v).candidate = wave[v.request].candidate
             /\ Panel(v.request, v).target = wave[v.request].targets[v.target]
             /\ Panel(v.request, v).sample = wave[v.request].sample
             /\ Panel(v.request, v).judge = v.judge /\ Panel(v.request, v).rejected = v.rejected
  BY <1>3 DEF Panel, Sampled, Verdicts, Requests
<1>5. Recorded = samples \cup {Panel(v.request, v) : v \in judged}
  BY DEF Recorded
<1>6. Recorded \subseteq Sampled /\ samples \subseteq Recorded
  BY <1>4, <1>5 DEF WaveInv
<1>7. Truthful(Recorded)
  <2> SUFFICES ASSUME NEW u \in Recorded
               PROVE  u.rejected = (<<u.candidate, u.target, u.sample, u.judge>> \in objections)
    BY DEF Truthful
  <2>1. CASE u \in samples
    BY <2>1 DEF WaveInv, Truthful
  <2>2. ASSUME NEW v \in judged, u = Panel(v.request, v) PROVE u.rejected = (<<u.candidate, u.target, u.sample, u.judge>> \in objections)
    <3>1. v.rejected = (<<wave[v.request].candidate, wave[v.request].targets[v.target],
                          wave[v.request].sample, v.judge>> \in objections)
      BY DEF WaveInv, VerdictsAreTrue
    <3> QED
      BY <1>4, <2>2, <3>1
  <2> QED
    BY <1>5, <2>1, <2>2
<1>8. ASSUME NEW r \in 1 .. Len(wave), NEW t \in 1 .. Len(wave[r].targets), NEW j \in Judge
      PROVE  \E u \in Recorded : /\ u.candidate = wave[r].candidate /\ u.target = wave[r].targets[t]
                                 /\ u.sample = wave[r].sample /\ u.judge = j
  <2>1. <<r, t, j>> \in ToSet(Judgments(r)) /\ ToSet(Judgments(r)) \subseteq JudgmentTasks
    BY <1>2, TasksFacts
  <2>2. PICK v \in judged : <<v.request, v.target, v.judge>> = <<r, t, j>>
    BY <1>1, <2>1 DEF Handed
  <2>3. v.request = r /\ v.target = t /\ v.judge = j
    BY <2>2
  <2>4. Panel(v.request, v) \in Recorded
    BY <1>5
  <2> QED
    BY <1>4, <2>3, <2>4
<1>9. ASSUME NEW u \in Recorded, u \notin samples
      PROVE  \E r \in 1 .. Len(wave) : \E t \in 1 .. Len(wave[r].targets) :
                   /\ u.candidate = wave[r].candidate /\ u.target = wave[r].targets[t]
                   /\ u.sample = wave[r].sample
  <2>1. PICK v \in judged : u = Panel(v.request, v)
    BY <1>5, <1>9
  <2> QED
    BY <1>3, <1>4, <2>1
<1> QED
  BY <1>6, <1>7, <1>8, <1>9

LEMMA WaveTargets ==
  ASSUME wave \in Seq(Requests)
  PROVE  \A i \in 1 .. Len(wave) : /\ wave[i].targets \in Seq(Nat)
                                   /\ DOMAIN wave[i].targets = 1 .. Len(wave[i].targets)
<1> TAKE i \in 1 .. Len(wave)
<1> DEFINE targets == wave[i].targets
<1>1. wave[i] \in Requests
  OBVIOUS
<1>2. targets \in Seq(Nat)
  BY <1>1 DEF Requests
<1> HIDE DEF targets
<1>3. DOMAIN targets = 1 .. Len(targets)
  BY <1>2
<1> QED
  BY <1>2, <1>3 DEF targets

LEMMA UnresolvedBySamples ==
  ASSUME NEW c, NEW t, NEW f, NEW g, Of(c, t, f) = Of(c, t, g)
  PROVE  t \in Unresolved(c, f) <=> t \in Unresolved(c, g)
<1>1. \A j : Rejections(c, t, j, f) = Rejections(c, t, j, g)
  BY DEF Rejections
<1>2. ClaimVetoed(c, t, f) <=> ClaimVetoed(c, t, g)
  BY <1>1 DEF ClaimVetoed
<1> QED
  BY <1>2 DEF Unresolved

LEMMA PanelMembers ==
  ASSUME NEW c, NEW t, NEW found
  PROVE  /\ \A u \in found : u.candidate = c /\ u.target = t => <<u.sample, u.judge>> \in PanelOf(c, t, found)
         /\ \A p \in PanelOf(c, t, found) : \E u \in found :
               u.candidate = c /\ u.target = t /\ p = <<u.sample, u.judge>>
BY DEF PanelOf, Of

\* After the first wave every target has the samples of a quorum.
LEMMA FirstWaveIsSampled ==
  ASSUME PipeInv, WaveInv, WaveIsOver, failure = NoFailure, samples = {}, wave = FirstWave(sets)
  PROVE  wave[Len(wave)].sample = Quorum /\ SampledTo(Quorum, Recorded)
<1>1. sets \in Seq(Nat) /\ batch = "flowing" /\ wave # <<>>
  BY DEF PipeInv, ClaimTypes, WaveInv, WaveIsOver, InWave
<1>2. AsksAll(wave, sets)
  BY <1>1, FirstWaveFacts
<1> USE DEF AsksAll
<1>3. wave[Len(wave)].sample = Quorum
  BY <1>1, <1>2 DEF PipeInv, ClaimTypes
<1>4. ASSUME NEW c \in 1 .. Len(sets), NEW t \in 1 .. sets[c]
      PROVE  PanelOf(c, t, Recorded) = (1 .. Quorum) \X Judge
  <2>1. ASSUME NEW p \in PanelOf(c, t, Recorded) PROVE p \in (1 .. Quorum) \X Judge
    <3>1. PICK u \in Recorded : u.candidate = c /\ u.target = t /\ p = <<u.sample, u.judge>>
      BY PanelMembers
    <3>2. u \in Sampled /\ u \notin samples
      BY RecordedFacts
    <3>3. PICK r \in 1 .. Len(wave) : u.sample = wave[r].sample
      BY <3>2, RecordedFacts
    <3> QED
      BY <1>2, <3>1, <3>2, <3>3 DEF Sampled
  <2>2. ASSUME NEW s \in 1 .. Quorum, NEW j \in Judge PROVE <<s, j>> \in PanelOf(c, t, Recorded)
    <3>1. PICK r \in 1 .. Len(wave) : wave[r].candidate = c /\ wave[r].sample = s
      BY <1>2
    <3>2. sets[c] \in Nat
      BY <1>1
    <3>3. wave[r].targets = [k \in 1 .. sets[c] |-> k]
      BY <1>2, <3>1
    <3>4. t \in 1 .. Len(wave[r].targets) /\ wave[r].targets[t] = t
      BY <3>2, <3>3
    <3>5. PICK u \in Recorded : /\ u.candidate = wave[r].candidate /\ u.target = wave[r].targets[t]
                                /\ u.sample = wave[r].sample /\ u.judge = j
      BY <3>4, RecordedFacts
    <3> QED
      BY <3>1, <3>4, <3>5, PanelMembers
  <2> QED
    BY <2>1, <2>2
<1>5. Quorum \in Quorum .. Quorum
  BY PolicyFacts
<1>6. SampledTo(Quorum, Recorded)
  BY <1>4, <1>5 DEF SampledTo
<1> QED
  BY <1>3, <1>6

\* After another wave those it asked about have one sample more.
LEMMA NextWaveIsSampled ==
  ASSUME PipeInv, WaveInv, WaveIsOver, failure = NoFailure, NEW s \in Quorum + 1 .. Samples,
         SampledTo(s - 1, samples), wave = NextWave(s, samples)
  PROVE  wave[Len(wave)].sample = s /\ SampledTo(s, Recorded)
<1>1. sets \in Seq(Nat) /\ batch = "flowing" /\ wave # <<>> /\ wave \in Seq(Requests)
  BY DEF PipeInv, ClaimTypes, WaveInv, WaveIsOver, InWave
<1>2. s \in Nat /\ s - 1 \in Nat /\ s \in Quorum .. s /\ Quorum .. s - 1 \subseteq Quorum .. s
  BY PolicyFacts
<1>3. AsksAgain(wave, s, samples)
  BY <1>1, <1>2, NextWaveFacts
<1> USE DEF AsksAgain
<1>4. wave[Len(wave)].sample = s
  BY <1>1, <1>3
<1>5. ASSUME NEW i \in 1 .. Len(wave), NEW k \in 1 .. Len(wave[i].targets)
      PROVE  wave[i].targets[k] \in Unresolved(wave[i].candidate, samples)
  <2>2. DOMAIN wave[i].targets = 1 .. Len(wave[i].targets)
    BY <1>1, WaveTargets
  <2>3. wave[i].targets[k] \in ToSet(wave[i].targets)
    BY <2>2 DEF ToSet
  <2> QED
    BY <1>3, <2>3
<1>6. ASSUME NEW c \in 1 .. Len(sets), NEW t \in 1 .. sets[c]
      PROVE  \E k \in Quorum .. s : /\ PanelOf(c, t, Recorded) = (1 .. k) \X Judge
                                    /\ t \in Unresolved(c, Recorded) => k = s
  <2>1. PICK n \in Quorum .. s - 1 : /\ PanelOf(c, t, samples) = (1 .. n) \X Judge
                                     /\ t \in Unresolved(c, samples) => n = s - 1
    BY DEF SampledTo
  <2>2. CASE t \in Unresolved(c, samples)
    <3>1. ASSUME NEW p \in PanelOf(c, t, Recorded) PROVE p \in (1 .. s) \X Judge
      <4>1. PICK u \in Recorded : u.candidate = c /\ u.target = t /\ p = <<u.sample, u.judge>>
        BY PanelMembers
      <4>2. CASE u \in samples
        <5>1. p \in (1 .. n) \X Judge
          BY <2>1, <4>1, <4>2, PanelMembers
        <5> QED
          BY <1>2, <5>1
      <4>3. CASE u \notin samples
        <5>1. PICK r \in 1 .. Len(wave) : u.sample = wave[r].sample
          BY <4>3, RecordedFacts
        <5>2. u \in Sampled /\ s \in 1 .. s
          BY <1>2, PolicyFacts, RecordedFacts
        <5> QED
          BY <1>3, <4>1, <5>1, <5>2 DEF Sampled
      <4> QED
        BY <4>2, <4>3
    <3>2. ASSUME NEW m \in 1 .. s, NEW j \in Judge PROVE <<m, j>> \in PanelOf(c, t, Recorded)
      <4>1. CASE m \in 1 .. s - 1
        <5>1. <<m, j>> \in PanelOf(c, t, samples)
          BY <2>1, <2>2, <4>1
        <5>2. PICK u \in samples : u.candidate = c /\ u.target = t /\ <<m, j>> = <<u.sample, u.judge>>
          BY <5>1, PanelMembers
        <5>3. u \in Recorded
          BY RecordedFacts
        <5> QED
          BY <5>2, <5>3, PanelMembers
      <4>2. CASE m = s
        <5>1. PICK i \in 1 .. Len(wave) : wave[i].candidate = c
          BY <1>3, <2>2
        <5>2. t \in ToSet(wave[i].targets) /\ DOMAIN wave[i].targets = 1 .. Len(wave[i].targets)
          BY <1>1, <1>3, <2>2, <5>1, WaveTargets
        <5>3. PICK k \in 1 .. Len(wave[i].targets) : wave[i].targets[k] = t
          BY <5>2 DEF ToSet
        <5>4. PICK u \in Recorded : /\ u.candidate = wave[i].candidate /\ u.target = wave[i].targets[k]
                                    /\ u.sample = wave[i].sample /\ u.judge = j
          BY RecordedFacts
        <5> QED
          BY <1>3, <4>2, <5>1, <5>3, <5>4, PanelMembers
      <4> QED
        BY <1>2, <4>1, <4>2
    <3>3. PanelOf(c, t, Recorded) = (1 .. s) \X Judge
      BY <3>1, <3>2
    <3> QED
      BY <1>2, <3>3
  <2>3. CASE t \notin Unresolved(c, samples)
    <3>1. Of(c, t, Recorded) = Of(c, t, samples)
      <4>1. ASSUME NEW u \in Recorded, u.candidate = c, u.target = t PROVE u \in samples
        <5> SUFFICES ASSUME u \notin samples PROVE FALSE
          OBVIOUS
        <5>1. PICK r \in 1 .. Len(wave) : \E k \in 1 .. Len(wave[r].targets) :
                   u.candidate = wave[r].candidate /\ u.target = wave[r].targets[k]
          BY RecordedFacts
        <5> QED
          BY <1>5, <2>3, <4>1, <5>1
      <4>2. samples \subseteq Recorded
        BY RecordedFacts
      <4> QED
        BY <4>1, <4>2 DEF Of
    <3>2. t \notin Unresolved(c, Recorded) /\ PanelOf(c, t, Recorded) = PanelOf(c, t, samples)
      BY <2>3, <3>1, UnresolvedBySamples DEF PanelOf
    <3> QED
      BY <1>2, <2>1, <3>2
  <2> QED
    BY <2>2, <2>3
<1> QED
  BY <1>4, <1>6 DEF SampledTo

\* What a wave that ends well leaves behind.
LEMMA WaveIsSampled ==
  ASSUME PipeInv, WaveInv, WaveIsOver, failure = NoFailure, NEW s, s = wave[Len(wave)].sample
  PROVE  s \in Quorum .. Samples /\ SampledTo(s, Recorded)
<1>1. WaveIsNext
  BY DEF WaveInv, WaveIsOver, InWave
<1>2. CASE samples = {} /\ wave = FirstWave(sets)
  BY <1>2, FirstWaveIsSampled, PolicyFacts
<1>3. ASSUME NEW n \in Quorum + 1 .. Samples, SampledTo(n - 1, samples), wave = NextWave(n, samples)
      PROVE  s \in Quorum .. Samples /\ SampledTo(s, Recorded)
  <2>1. s = n /\ SampledTo(n, Recorded)
    BY <1>3, NextWaveIsSampled
  <2> QED
    BY <2>1, PolicyFacts
<1> QED
  BY <1>1, <1>2, <1>3 DEF WaveIsNext

\* When there is no other wave, every panel is complete.
LEMMA LastWaveCompletes ==
  ASSUME sets \in Seq(Nat), NEW found, NEW s \in Quorum .. Samples, SampledTo(s, found),
         s + 1 > Samples \/ NextWave(s + 1, found) = <<>>
  PROVE  /\ SampledTo(Samples, found)
         /\ \A c \in 1 .. Len(sets) : \A t \in 1 .. sets[c] : PanelsAreComplete(c, t, found)
<1>1. s \in Nat /\ s + 1 \in Nat /\ s <= Samples
  BY PolicyFacts
<1>2. s = Samples \/ \A c \in 1 .. Len(sets) : Unresolved(c, found) = {}
  <2>1. CASE s + 1 > Samples
    BY <1>1, <2>1, PolicyFacts
  <2>2. CASE NextWave(s + 1, found) = <<>>
    <3> DEFINE n == s + 1
               requests == NextWave(n, found)
    <3>1. n \in Nat /\ requests = <<>> /\ requests = NextWave(n, found)
      BY <1>1, <2>2
    <3> HIDE DEF n, requests
    <3> QED
      BY <3>1, NextWaveFacts
  <2> QED
    BY <2>1, <2>2
<1>3. ASSUME NEW c \in 1 .. Len(sets), NEW t \in 1 .. sets[c]
      PROVE  \E k \in Quorum .. Samples : /\ PanelOf(c, t, found) = (1 .. k) \X Judge
                                          /\ t \in Unresolved(c, found) => k = Samples
  <2>1. PICK k \in Quorum .. s : /\ PanelOf(c, t, found) = (1 .. k) \X Judge
                                 /\ t \in Unresolved(c, found) => k = s
    BY DEF SampledTo
  <2>2. k \in Quorum .. Samples
    BY <1>1, PolicyFacts
  <2>3. t \in Unresolved(c, found) => k = Samples
    BY <1>2, <2>1
  <2> QED
    BY <2>1, <2>2, <2>3
<1>4. SampledTo(Samples, found)
  BY <1>3 DEF SampledTo
<1>5. \A c \in 1 .. Len(sets) : \A t \in 1 .. sets[c] : PanelsAreComplete(c, t, found)
  BY <1>3 DEF PanelsAreComplete, PanelOf
<1> QED
  BY <1>4, <1>5

\* A wave starts from nothing.
LEMMA OpenWaveKeeps ==
  ASSUME PipeInv, failure = NoFailure, \A x \in Role : running[x] = {},
         NEW requests \in Seq(Requests), OpenWave(requests), sets' \in Seq(Nat)
  PROVE  PipeInv'
<1> USE DEF PipeInv
<1>1. /\ wave' = requests /\ batch' = "opening" /\ queue' = All(<<>>) /\ done' = All(0) /\ judged' = {}
      /\ limiter' = All("open") /\ bracket' = All("entering") /\ running' = running /\ failure' = failure
  BY DEF OpenWave
<1>2. ClaimTypes'
  BY <1>1 DEF ClaimTypes, All, Requests
<1>3. LimitersAreSane' /\ \A x \in Role : queue'[x] = <<>> /\ running'[x] = {} /\ ToSet(queue'[x]) = {}
  BY <1>1 DEF LimitersAreSane, All, ToSet, IsInjective, Apart
<1>4. (\A x \in Role : Pending(x)' = {}) /\ Handed' = {}
  BY <1>1, <1>3 DEF Pending, Handed
<1>5. JobsAreOfTheWave' /\ EachJobOnce'
  BY <1>4 DEF JobsAreOfTheWave, EachJobOnce, Apart, Role
<1>6. WorkIsCounted' /\ LimitersFollow' /\ FailureStops'
  BY <1>1, <1>3 DEF WorkIsCounted, LimitersFollow, FailureStops
<1>7. OpeningIsAtRest'
  <2>1. running' = All({})
    BY <1>1 DEF LimitersAreSane, All
  <2> QED
    BY <1>1, <2>1 DEF OpeningIsAtRest, All
<1>8. BracketsFollow'
  BY <1>1 DEF BracketsFollow, InWave, All
<1> QED
  BY <1>2, <1>3, <1>5, <1>6, <1>7, <1>8

\* A batch that ends leaves its limiters as they are.
LEMMA EndKeepsPipe ==
  ASSUME PipeInv, UNCHANGED <<wave, queue, running, done, judged, failure, limiter, bracket>>, sets' \in Seq(Nat),
         \A x \in Role : running[x] = {} /\ bracket[x] \in {"closed", "broken"},
         \/ batch' = "returned" /\ failure = NoFailure
         \/ batch' = "thrown" /\ failure # NoFailure
  PROVE  PipeInv'
<1> USE DEF PipeInv
<1>1. ClaimTypes'
  BY DEF ClaimTypes, Requests
<1>2. (\A x \in Role : Pending(x)' = Pending(x)) /\ Handed' = Handed /\ JudgmentTasks' = JudgmentTasks
  BY TasksAreStable DEF Pending, Handed
<1>3. JobsAreOfTheWave' /\ EachJobOnce'
  BY <1>2 DEF JobsAreOfTheWave, EachJobOnce, Role
<1>4. LimitersAreSane' /\ WorkIsCounted' /\ LimitersFollow' /\ FailureStops' /\ OpeningIsAtRest'
  BY DEF LimitersAreSane, WorkIsCounted, LimitersFollow, FailureStops, OpeningIsAtRest
<1>5. BracketsFollow'
  BY DEF BracketsFollow, InWave
<1> QED
  BY <1>1, <1>3, <1>4, <1>5

LEMMA SameWave ==
  ASSUME WaveInv, UNCHANGED <<sets, objections, samples, wave, judged>>, batch' = batch \/ (InWave /\ batch' = "flowing")
  PROVE  WaveInv'
<1>1. Truthful(samples)' /\ VerdictsAreTrue' /\ samples' \subseteq Sampled
  BY DEF WaveInv, Truthful, VerdictsAreTrue, Verdicts
<1>2. \A n : SampledTo(n, samples)' <=> SampledTo(n, samples)
  BY DEF SampledTo, PanelOf, Of, Unresolved, ClaimVetoed, Rejections
<1>3. WaveIsNext' <=> WaveIsNext
  BY DEF WaveIsNext, SampledTo, PanelOf, Of, Unresolved, ClaimVetoed, Rejections, NextWave
<1>4. SampledTo(Samples, samples)' <=> SampledTo(Samples, samples)
  BY <1>2
<1> QED
  BY <1>1, <1>3, <1>4 DEF WaveInv, InWave

\* A verdict that is recorded is the judge's.
LEMMA JudgeKeepsWave ==
  ASSUME PipeInv, WaveInv, NEW r \in 1 .. Len(wave), NEW t \in 1 .. Len(wave[r].targets), NEW j \in Judge,
         JudgeTarget(r, t, j)
  PROVE  WaveInv'
<1> DEFINE b == <<wave[r].candidate, wave[r].targets[t], wave[r].sample, j>> \in objections
           v == [request |-> r, target |-> t, judge |-> j, rejected |-> b]
<1>1. /\ judged' = judged \cup {v} /\ batch = "flowing"
      /\ UNCHANGED <<sets, objections, samples, wave, batch>>
  BY DEF JudgeTarget, Passed
<1>2. wave \in Seq(Requests)
  BY DEF PipeInv, ClaimTypes
<1>3. r \in Nat /\ t \in Nat
  BY <1>2, WaveTargets
<1>4. v \in Verdicts /\ v.request = r /\ v.target = t /\ v.judge = j /\ v.rejected = b
  BY <1>3 DEF Verdicts
<1> HIDE DEF v
<1>5. VerdictsAreTrue'
  BY <1>1, <1>4 DEF WaveInv, VerdictsAreTrue, Verdicts
<1>6. Truthful(samples)' /\ samples' \subseteq Sampled
  BY <1>1 DEF WaveInv, Truthful
<1>7. WaveIsNext' <=> WaveIsNext
  BY <1>1 DEF WaveIsNext, SampledTo, PanelOf, Of, Unresolved, ClaimVetoed, Rejections, NextWave
<1> QED
  BY <1>1, <1>5, <1>6, <1>7 DEF WaveInv, InWave

\* The samples of the next state, seen from this one.
LEMMA SamplesLater ==
  ASSUME NEW found, samples' = found, sets' = sets, NEW n
  PROVE  /\ SampledTo(n, samples)' <=> SampledTo(n, found)
         /\ NextWave(n, samples)' = NextWave(n, found)
<1>1. \A c, t : Of(c, t, samples)' = Of(c, t, found) /\ PanelOf(c, t, samples)' = PanelOf(c, t, found)
  BY DEF Of, PanelOf
<1>2. \A c, t : ClaimVetoed(c, t, samples)' <=> ClaimVetoed(c, t, found)
  BY <1>1 DEF ClaimVetoed, Rejections
<1>3. \A c : Unresolved(c, samples)' = Unresolved(c, found)
  BY <1>1, <1>2 DEF Unresolved
<1>4. SampledTo(n, samples)' <=> SampledTo(n, found)
  BY <1>1, <1>3 DEF SampledTo
<1>5. NextWave(n, samples)' = NextWave(n, found)
  BY <1>3 DEF NextWave
<1> QED
  BY <1>4, <1>5

ClaimInv == PipeInv /\ WaveInv

\* Another wave samples what is left open.
LEMMA SampleAgainKeeps ==
  ASSUME ClaimInv, SampleAgain
  PROVE  ClaimInv'
<1> USE DEF ClaimInv
<1> DEFINE s == wave[Len(wave)].sample
<1>1. /\ WaveIsOver /\ failure = NoFailure /\ samples' = Recorded /\ s + 1 <= Samples
      /\ NextWave(s + 1, Recorded) # <<>> /\ OpenWave(NextWave(s + 1, Recorded))
      /\ UNCHANGED <<sets, objections>>
  BY DEF SampleAgain
<1>2. s \in Quorum .. Samples /\ SampledTo(s, Recorded)
  <2> HIDE DEF s
  <2>1. s = wave[Len(wave)].sample
    BY DEF s
  <2> QED
    BY <1>1, <2>1, WaveIsSampled
<1> HIDE DEF s
<1>3. PICK n \in Quorum + 1 .. Samples : n = s + 1
  BY <1>1, <1>2, PolicyFacts
<1>13. n \in Nat /\ n - 1 = s
  BY <1>2, <1>3, PolicyFacts
<1> DEFINE requests == NextWave(n, Recorded)
<1>14. requests # <<>> /\ OpenWave(requests)
  BY <1>1, <1>3
<1>4. sets \in Seq(Nat)
  BY DEF PipeInv, ClaimTypes
<1>5. wave' = requests /\ batch' = "opening" /\ judged' = {}
  BY <1>14 DEF OpenWave
<1>6. requests \in Seq(Requests)
  <2>1. requests = NextWave(n, Recorded)
    OBVIOUS
  <2> HIDE DEF requests
  <2> QED
    BY <1>4, <1>13, <2>1, NextWaveFacts
<1>7. PipeInv'
  <2>1. \A x \in Role : running[x] = {}
    BY <1>1, WaveIsHeard
  <2>2. sets' \in Seq(Nat)
    BY <1>1, <1>4
  <2> HIDE DEF requests
  <2> QED
    BY <1>1, <1>6, <1>14, <2>1, <2>2, OpenWaveKeeps
<1>8. /\ Recorded \subseteq Sampled /\ Truthful(Recorded)
  BY <1>1, RecordedFacts
<1> DEFINE found == Recorded
<1>9. samples' = found /\ sets' = sets /\ SampledTo(n - 1, found) /\ requests = NextWave(n, found)
  BY <1>1, <1>2, <1>13
<1> HIDE DEF found
<1>10. SampledTo(n - 1, samples)' /\ NextWave(n, samples)' = NextWave(n, found)
  BY <1>9, SamplesLater
<1>11. WaveIsNext'
  BY <1>5, <1>9, <1>10 DEF WaveIsNext
<1>12. samples' \subseteq Sampled /\ Truthful(samples)' /\ VerdictsAreTrue'
  BY <1>1, <1>5, <1>8 DEF Truthful, VerdictsAreTrue
<1>15. WaveInv'
  BY <1>5, <1>11, <1>12, <1>14 DEF WaveInv, InWave
<1> QED
  BY <1>7, <1>15

\* A batch returns with complete panels, and never throws for want of one.
LEMMA ReturnKeeps ==
  ASSUME ClaimInv, ReturnJudgments
  PROVE  ClaimInv' /\ batch' = "returned"
<1> USE DEF ClaimInv
<1> DEFINE s == wave[Len(wave)].sample
           complete == \A c \in 1 .. Len(sets) : \A t \in 1 .. sets[c] : PanelsAreComplete(c, t, Recorded)
<1>1. /\ WaveIsOver /\ failure = NoFailure /\ samples' = Recorded
      /\ s + 1 > Samples \/ NextWave(s + 1, Recorded) = <<>>
      /\ batch' = IF complete THEN "returned" ELSE "thrown"
      /\ failure' = IF complete THEN failure ELSE [role |-> "batch", kind |-> "internal"]
      /\ UNCHANGED <<sets, objections, wave, queue, running, done, judged, lost, limiter, bracket, faults>>
  BY DEF ReturnJudgments
<1>2. s \in Quorum .. Samples /\ SampledTo(s, Recorded)
  <2> HIDE DEF s
  <2>1. s = wave[Len(wave)].sample
    BY DEF s
  <2> QED
    BY <1>1, <2>1, WaveIsSampled
<1>3. sets \in Seq(Nat)
  BY DEF PipeInv, ClaimTypes
<1>4. SampledTo(Samples, Recorded) /\ complete
  <2> HIDE DEF s
  <2>1. \/ s + 1 > Samples
        \/ NextWave(s + 1, Recorded) = <<>>
    BY <1>1
  <2> QED
    BY <1>2, <1>3, <2>1, LastWaveCompletes
<1>5. batch' = "returned" /\ failure' = failure
  BY <1>1, <1>4
<1>6. PipeInv'
  <2>1. \A x \in Role : running[x] = {} /\ bracket[x] \in {"closed", "broken"}
    BY <1>1, WaveIsHeard DEF WaveIsOver
  <2> QED
    BY <1>1, <1>3, <1>5, <2>1, EndKeepsPipe
<1>7. Recorded \subseteq Sampled /\ Truthful(Recorded)
  BY <1>1, RecordedFacts
<1>8. SampledTo(Samples, samples)'
  <2> DEFINE found == Recorded
  <2>1. samples' = found /\ sets' = sets /\ SampledTo(Samples, found)
    BY <1>1, <1>4
  <2> HIDE DEF found
  <2> QED
    BY <2>1, SamplesLater
<1>9. samples' \subseteq Sampled /\ Truthful(samples)' /\ VerdictsAreTrue'
  BY <1>1, <1>7 DEF Truthful, VerdictsAreTrue, WaveInv, Verdicts
<1>10. WaveInv'
  BY <1>5, <1>8, <1>9 DEF WaveInv, InWave
<1> QED
  BY <1>5, <1>6, <1>10

\* Every step of a batch of claims.
LEMMA ClaimNextKeeps ==
  ASSUME ClaimInv, ClaimNext
  PROVE  ClaimInv'
<1> USE DEF ClaimInv
<1>1. ASSUME NEW r \in 1 .. Len(wave), Plan(r) PROVE ClaimInv'
  <2>1. WaveInv'
    BY <1>1, SameWave DEF Plan, Passed
  <2> QED
    BY <1>1, <2>1, PlanKeepsPipe
<1>2. ASSUME NEW r \in 1 .. Len(wave), Answer(r) PROVE ClaimInv'
  <2>1. WaveInv'
    BY <1>2, SameWave DEF Answer, Passed
  <2> QED
    BY <1>2, <2>1, AnswerKeepsPipe
<1>3. ASSUME NEW r \in 1 .. Len(wave), NEW t \in 1 .. Len(wave[r].targets), NEW j \in Judge,
             JudgeTarget(r, t, j)
      PROVE  ClaimInv'
  BY <1>3, JudgeKeepsPipe, JudgeKeepsWave
<1>4. ASSUME NEW x \in Role,
             CloseAborted(x) \/ StageFails(x) \/ \E job \in running[x] : CallFails(x, job)
      PROVE  ClaimInv'
  <2>1. UNCHANGED <<sets, objections, samples, wave, judged, batch>>
    BY <1>4 DEF CloseAborted, StageFails, CallFails
  <2>2. WaveInv'
    BY <2>1, SameWave
  <2> QED
    BY <1>4, <2>2, FailuresKeepPipe
<1>5. ASSUME NEW x \in Role, EnterStage(x) \/ CloseStage(x) PROVE ClaimInv'
  <2>1. UNCHANGED <<sets, objections, samples, wave, judged, batch>>
    BY <1>5 DEF EnterStage, CloseStage
  <2>2. WaveInv'
    BY <2>1, SameWave
  <2> QED
    BY <1>5, <2>2, StagesKeepPipe
<1>6. ASSUME Release PROVE ClaimInv'
  <2>1. UNCHANGED <<sets, objections, samples, wave, judged>> /\ InWave /\ batch' = "flowing"
    BY <1>6 DEF Release, InWave
  <2>2. WaveInv'
    BY <2>1, SameWave
  <2> QED
    BY <1>6, <2>2, ReleaseKeepsPipe
<1>7. ASSUME ThrowFailure PROVE ClaimInv'
  <2>1. /\ WaveIsOver /\ failure # NoFailure /\ batch' = "thrown"
        /\ UNCHANGED <<sets, objections, samples, wave, queue, running, done, judged, failure, limiter, bracket>>
    BY <1>7 DEF ThrowFailure, pipeVars
  <2>2. \A x \in Role : running[x] = {} /\ bracket[x] \in {"closed", "broken"}
    BY <2>1 DEF WaveIsOver, PipeInv, BracketsFollow, LimitersFollow, InWave
  <2>3. sets' \in Seq(Nat)
    BY <2>1 DEF PipeInv, ClaimTypes
  <2>4. PipeInv'
    BY <2>1, <2>2, <2>3, EndKeepsPipe
  <2>5. WaveInv'
    BY <2>1 DEF WaveInv, Truthful, VerdictsAreTrue, Verdicts, InWave
  <2> QED
    BY <2>4, <2>5
<1>8. ASSUME SampleAgain PROVE ClaimInv'
  BY <1>8, SampleAgainKeeps
<1>9. ASSUME ReturnJudgments PROVE ClaimInv'
  BY <1>9, ReturnKeeps
<1> QED
  BY <1>1, <1>2, <1>3, <1>4, <1>5, <1>6, <1>7, <1>8, <1>9 DEF ClaimNext

\* A batch that begins.
LEMMA AdmitKeeps ==
  ASSUME ClaimInv, NEW counts \in Seq(Nat), NEW doubts, AdmitBatch(counts, doubts)
  PROVE  ClaimInv'
<1> USE DEF ClaimInv
<1>1. /\ batch = "idle" /\ sets' = counts /\ objections' = doubts /\ samples' = samples
      /\ counts = <<>> => batch' = "returned" /\ UNCHANGED <<wave, queue, running, done, judged, failure, limiter, bracket>>
      /\ counts # <<>> => OpenWave(FirstWave(counts))
  BY DEF AdmitBatch, pipeVars
<1>2. samples = {} /\ judged = {} /\ failure = NoFailure
  BY <1>1 DEF WaveInv, PipeInv, BracketsFollow
<1>3. \A x \in Role : running[x] = {} /\ bracket[x] \in {"closed", "broken"}
  BY <1>1 DEF PipeInv, BracketsFollow, InWave
<1>4. samples' \subseteq Sampled /\ Truthful(samples)'
  BY <1>1, <1>2 DEF Truthful
<1>5. CASE counts = <<>>
  <2>1. PipeInv'
    BY <1>1, <1>2, <1>3, <1>5, EndKeepsPipe
  <2>2. Len(sets') = 0
    BY <1>1, <1>5
  <2>3. SampledTo(Samples, samples)'
    BY <2>2 DEF SampledTo
  <2>4. WaveInv'
    BY <1>1, <1>2, <1>4, <1>5, <2>3 DEF WaveInv, VerdictsAreTrue, InWave
  <2> QED
    BY <2>1, <2>4
<1>6. CASE counts # <<>>
  <2> DEFINE requests == FirstWave(counts)
  <2>1. requests = FirstWave(counts) /\ OpenWave(requests)
    BY <1>1, <1>6
  <2> HIDE DEF requests
  <2>2. requests \in Seq(Requests) /\ requests # <<>>
    BY <1>6, <2>1, FirstWaveFacts
  <2>3. PipeInv'
    BY <1>1, <1>2, <1>3, <2>1, <2>2, OpenWaveKeeps
  <2>4. wave' = requests /\ batch' = "opening" /\ judged' = {}
    BY <2>1 DEF OpenWave
  <2>5. WaveIsNext'
    BY <1>1, <1>2, <2>1, <2>4 DEF WaveIsNext, FirstWave
  <2>6. WaveInv'
    BY <1>4, <2>2, <2>4, <2>5 DEF WaveInv, VerdictsAreTrue, InWave
  <2> QED
    BY <2>3, <2>6
<1> QED
  BY <1>5, <1>6

LEMMA ClaimStutter ==
  ASSUME ClaimInv, UNCHANGED <<sets, objections, samples, wave, pipeVars, batch>>
  PROVE  ClaimInv'
<1> USE DEF ClaimInv, PipeInv
<1>1. UNCHANGED <<queue, running, done, judged, lost, failure, limiter, bracket>>
  BY DEF pipeVars
<1>2. WaveInv'
  BY <1>1, SameWave
<1>3. ClaimTypes'
  BY <1>1 DEF ClaimTypes, Requests
<1>4. (\A x \in Role : Pending(x)' = Pending(x)) /\ Handed' = Handed /\ JudgmentTasks' = JudgmentTasks
      /\ Planned' = Planned /\ Answered' = Answered
  BY <1>1, TasksAreStable DEF Pending, Handed, Planned, Answered
<1>5. JobsAreOfTheWave' /\ EachJobOnce' /\ WorkIsCounted'
  BY <1>1, <1>4 DEF JobsAreOfTheWave, EachJobOnce, WorkIsCounted, Role
<1>6. LimitersAreSane' /\ FailureStops' /\ OpeningIsAtRest' /\ BracketsFollow'
  BY <1>1 DEF LimitersAreSane, FailureStops, OpeningIsAtRest, BracketsFollow, InWave
<1>7. LimitersFollow'
  BY <1>1, TasksAreStable DEF LimitersFollow
<1> QED
  BY <1>2, <1>3, <1>5, <1>6, <1>7

LEMMA ClaimsBegin ==
  ASSUME NEW allowed, ClaimsIdle(allowed)
  PROVE  ClaimInv
<1> USE DEF ClaimInv, PipeInv
<1>1. /\ sets = <<>> /\ samples = {} /\ wave = <<>> /\ failure = NoFailure /\ bracket = All("closed")
      /\ batch = "idle" /\ queue = All(<<>>) /\ running = All({}) /\ done = All(0) /\ judged = {}
      /\ limiter = All("open")
  BY DEF ClaimsIdle, Rested
<1>2. ClaimTypes
  BY <1>1 DEF ClaimTypes, All
<1>3. LimitersAreSane
  <2>1. Cardinality({}) = 0 /\ IsFiniteSet({}) /\ \A x \in Role : Cap[x] \in Nat /\ 0 <= Cap[x]
    BY FS_EmptySet, AdmissionPolicy
  <2> QED
    BY <1>1, <2>1 DEF LimitersAreSane, All, IsInjective, Apart
<1>4. (\A x \in Role : Pending(x) = {}) /\ Handed = {}
  BY <1>1 DEF Pending, Handed, All, ToSet
<1>5. JobsAreOfTheWave /\ EachJobOnce
  BY <1>4 DEF JobsAreOfTheWave, EachJobOnce, Role, Apart
<1>6. WorkIsCounted /\ LimitersFollow /\ FailureStops /\ OpeningIsAtRest /\ BracketsFollow
  BY <1>1 DEF WorkIsCounted, LimitersFollow, FailureStops, OpeningIsAtRest, BracketsFollow, InWave, All
<1>7. WaveInv
  BY <1>1 DEF WaveInv, Truthful, VerdictsAreTrue, InWave
<1> QED
  BY <1>2, <1>3, <1>5, <1>6, <1>7
-----------------------------------------------------------------------------
(* The judgment of a batch. *)

\* With a full panel of n samples a judge's rejections are its objections to them.
LEMMA RejectionsCounted ==
  ASSUME samples \subseteq Sampled, Truthful(samples), NEW c, NEW t, NEW j \in Judge, NEW n \in Nat,
         PanelOf(c, t, samples) = (1 .. n) \X Judge
  PROVE  Rejections(c, t, j, samples) = Cardinality({s \in 1 .. n : <<c, t, s, j>> \in objections})
<1> DEFINE V == {v \in Of(c, t, samples) : v.judge = j /\ v.rejected}
           S == {s \in 1 .. n : <<c, t, s, j>> \in objections}
           f == [v \in V |-> v.sample]
<1>1. ASSUME NEW v \in V
      PROVE  /\ v \in samples /\ v.candidate = c /\ v.target = t /\ v.judge = j /\ v.rejected = TRUE
             /\ v = [candidate |-> c, target |-> t, sample |-> v.sample, judge |-> j, rejected |-> TRUE]
             /\ v.sample \in S
  <2>1. v \in samples /\ v.candidate = c /\ v.target = t /\ v.judge = j /\ v.rejected
    BY DEF Of
  <2>2. v \in Sampled
    BY <2>1
  <2>3. v.rejected = TRUE
    BY <2>1, <2>2 DEF Sampled
  <2>4. v = [candidate |-> c, target |-> t, sample |-> v.sample, judge |-> j, rejected |-> TRUE]
    BY <2>1, <2>2, <2>3 DEF Sampled
  <2>5. v.rejected = (<<v.candidate, v.target, v.sample, v.judge>> \in objections)
    BY <2>1 DEF Truthful
  <2>6. <<c, t, v.sample, j>> \in objections
    BY <2>1, <2>3, <2>5
  <2>7. <<v.sample, j>> \in (1 .. n) \X Judge
    BY <2>1, PanelMembers
  <2>8. v.sample \in S
    BY <2>6, <2>7
  <2> QED
    BY <2>1, <2>3, <2>4, <2>8
<1>2. ASSUME NEW s \in S PROVE \E v \in V : v.sample = s
  <2>1. <<s, j>> \in PanelOf(c, t, samples) /\ <<c, t, s, j>> \in objections
    OBVIOUS
  <2>2. PICK u \in samples : u.candidate = c /\ u.target = t /\ <<s, j>> = <<u.sample, u.judge>>
    BY <2>1, PanelMembers
  <2>3. u.sample = s /\ u.judge = j
    BY <2>2
  <2>4. u.rejected = (<<u.candidate, u.target, u.sample, u.judge>> \in objections)
    BY DEF Truthful
  <2>5. u.rejected
    BY <2>1, <2>2, <2>3, <2>4
  <2>6. u \in V
    BY <2>2, <2>3, <2>5 DEF Of
  <2> QED
    BY <2>3, <2>6
<1>3. IsFiniteSet(S)
  BY UpTo, FS_Subset
<1> HIDE DEF V, S
<1>4. f \in Injection(V, S)
  <2>1. f \in [V -> S]
    BY <1>1
  <2>2. ASSUME NEW v \in V, NEW u \in V, f[v] = f[u] PROVE v = u
    <3>1. v.sample = u.sample
      BY <2>2
    <3>2. v = [candidate |-> c, target |-> t, sample |-> v.sample, judge |-> j, rejected |-> TRUE]
      BY <1>1
    <3>3. u = [candidate |-> c, target |-> t, sample |-> u.sample, judge |-> j, rejected |-> TRUE]
      BY <1>1
    <3> QED
      BY <3>1, <3>2, <3>3
  <2> HIDE DEF f
  <2> QED
    BY <2>1, <2>2 DEF Injection, IsInjective
<1>5. f \in Surjection(V, S)
  <2>1. f \in [V -> S]
    BY <1>1
  <2>2. \A s \in S : \E v \in V : f[v] = s
    BY <1>2
  <2> QED
    BY <2>1, <2>2 DEF Surjection
<1> HIDE DEF f
<1>6. Cardinality(V) = Cardinality(S)
  BY <1>3, <1>4, <1>5, FS_Injection
<1> QED
  BY <1>6 DEF Rejections, V, S

\* What the judges would settle over every sample is settled: a target none of
\* them has objected to by the quorum has too few samples left to be vetoed.
LEMMA VetoIsFinal ==
  ASSUME ClaimInv, batch = "returned", Samples < 2 * Quorum,
         NEW c \in 1 .. Len(sets), NEW t \in 1 .. sets[c]
  PROVE  FullyVetoed(c, t) <=> ClaimVetoed(c, t, samples)
<1> DEFINE Against(j, n) == {s \in 1 .. n : <<c, t, s, j>> \in objections}
<1>1. /\ samples \subseteq Sampled /\ Truthful(samples) /\ SampledTo(Samples, samples)
      /\ sets \in Seq(Nat)
  BY DEF ClaimInv, PipeInv, ClaimTypes, WaveInv
<1>2. PICK k \in Quorum .. Samples : /\ PanelOf(c, t, samples) = (1 .. k) \X Judge
                                     /\ t \in Unresolved(c, samples) => k = Samples
  BY <1>1 DEF SampledTo
<1>3. k \in Nat /\ k <= Samples /\ Quorum <= k
  BY PolicyFacts
<1>4. \A j \in Judge : Rejections(c, t, j, samples) = Cardinality(Against(j, k))
  BY <1>1, <1>2, <1>3, RejectionsCounted
<1>5. \A j \in Judge : /\ IsFiniteSet(Against(j, Samples)) /\ IsFiniteSet(Against(j, k))
                       /\ Cardinality(Against(j, k)) <= Cardinality(Against(j, Samples))
                       /\ Cardinality(Against(j, k)) \in Nat /\ Cardinality(Against(j, Samples)) \in Nat
  <2> TAKE j \in Judge
  <2> DEFINE S == Against(j, Samples)
             T == Against(j, k)
  <2>1. S \in SUBSET (1 .. Samples) /\ T \in SUBSET S
    BY <1>3, PolicyFacts
  <2>2. IsFiniteSet(1 .. Samples)
    BY PolicyFacts, UpTo
  <2> HIDE DEF S, T
  <2>3. IsFiniteSet(S)
    BY <2>1, <2>2, FS_Subset
  <2>4. IsFiniteSet(T) /\ Cardinality(T) <= Cardinality(S)
    BY <2>1, <2>3, FS_Subset
  <2>5. Cardinality(S) \in Nat /\ Cardinality(T) \in Nat
    BY <2>3, <2>4, FS_CardinalityType
  <2> QED
    BY <2>3, <2>4, <2>5 DEF S, T
<1>6. FullyVetoed(c, t) <=> \E j \in Judge : Cardinality(Against(j, Samples)) >= Quorum
  BY DEF FullyVetoed
<1>7. ClaimVetoed(c, t, samples) <=> \E j \in Judge : Cardinality(Against(j, k)) >= Quorum
  BY <1>4 DEF ClaimVetoed
<1>8. ClaimVetoed(c, t, samples) => FullyVetoed(c, t)
  <2> HIDE DEF Against
  <2> SUFFICES ASSUME NEW j \in Judge, Cardinality(Against(j, k)) >= Quorum
               PROVE  Cardinality(Against(j, Samples)) >= Quorum
    BY <1>6, <1>7
  <2> QED
    BY <1>5, PolicyFacts
<1>9. ASSUME NEW j \in Judge, Cardinality(Against(j, Samples)) >= Quorum, ~ ClaimVetoed(c, t, samples)
      PROVE  FALSE
  <2>1. k # Samples
    <3> HIDE DEF Against
    <3> QED
      BY <1>7, <1>9
  <2>2. t \notin Unresolved(c, samples)
    BY <1>2, <2>1
  <2>3. \A v \in Of(c, t, samples) : ~ v.rejected
    BY <1>9, <2>2 DEF Unresolved
  <2>4. Against(j, k) = {}
    <3> SUFFICES ASSUME NEW s \in 1 .. k, <<c, t, s, j>> \in objections PROVE FALSE
      OBVIOUS
    <3>1. <<s, j>> \in PanelOf(c, t, samples)
      BY <1>2
    <3>2. PICK u \in samples : u.candidate = c /\ u.target = t /\ <<s, j>> = <<u.sample, u.judge>>
      BY <3>1, PanelMembers
    <3>3. u.sample = s /\ u.judge = j
      BY <3>2
    <3>4. u.rejected = (<<u.candidate, u.target, u.sample, u.judge>> \in objections)
      BY <1>1 DEF Truthful
    <3>5. u.rejected
      BY <3>2, <3>3, <3>4
    <3>6. u \in Of(c, t, samples)
      BY <3>2 DEF Of
    <3> QED
      BY <2>3, <3>5, <3>6
  <2> DEFINE S == Against(j, Samples)
  <2>5. S \in SUBSET (k + 1 .. Samples)
    BY <1>3, <2>4, PolicyFacts
  <2>6. IsFiniteSet(k + 1 .. Samples) /\ Cardinality(k + 1 .. Samples) = Samples - k
    <3>1. k + 1 \in Int /\ Samples \in Int /\ ~ (k + 1 > Samples)
      BY <1>3, <2>1, PolicyFacts
    <3>2. /\ IsFiniteSet(k + 1 .. Samples)
          /\ Cardinality(k + 1 .. Samples) = IF k + 1 > Samples THEN 0 ELSE Samples - (k + 1) + 1
      BY <3>1, FS_Interval
    <3> QED
      BY <1>3, <3>1, <3>2, PolicyFacts
  <2>7. Cardinality(S) >= Quorum /\ Cardinality(S) \in Nat
    BY <1>5, <1>9
  <2> HIDE DEF S
  <2>8. Cardinality(S) <= Samples - k
    BY <2>5, <2>6, FS_Subset
  <2> QED
    BY <1>3, <2>7, <2>8, PolicyFacts
<1> QED
  BY <1>6, <1>8, <1>9

-----------------------------------------------------------------------------
(* The claims of a draft, and the calls of a map. *)

Joins(q, n, f) == f = [i \in 1 .. n |-> IF i = 1 THEN q[i] ELSE f[i - 1] \o q[i]]

\* Lists that are joined one after the other make a list.
LEMMA FlattenFacts ==
  ASSUME NEW S, NEW q \in Seq(Seq(S))
  PROVE  FlattenSeq(q) \in Seq(S)
<1> DEFINE n == Len(q)
           Never == {m \in 1 .. n : ~ \E f : Joins(q, m, f)}
           g == CHOOSE f : Joins(q, n, f)
           Odd == {i \in 1 .. n : g[i] \notin Seq(S)}
<1>1. n \in Nat /\ \A i \in 1 .. n : q[i] \in Seq(S)
  OBVIOUS
<1>2. CASE n = 0
  <2>1. q = <<>>
    BY <1>2
  <2> QED
    BY <1>2, <2>1 DEF FlattenSeq
<1>3. CASE n # 0
  <2>1. ASSUME Never # {} PROVE FALSE
    <3>1. PICK m \in Never : \A k \in Never : m <= k
      <4>1. Never \in SUBSET Nat
        BY <1>1
      <4> HIDE DEF Never
      <4> QED
        BY <2>1, <4>1, LeastNatural
    <3>2. m \in 1 .. n /\ m \in Nat
      BY <1>1
    <3>3. CASE m = 1
      <4> DEFINE f == [i \in 1 .. 1 |-> q[i]]
      <4>1. f = [i \in 1 .. 1 |-> IF i = 1 THEN q[i] ELSE f[i - 1] \o q[i]]
        OBVIOUS
      <4> QED
        BY <3>1, <3>3, <4>1 DEF Joins
    <3>4. CASE m # 1
      <4>1. m - 1 \in 1 .. n /\ m - 1 \notin Never
        <5>1. m - 1 \in 1 .. n /\ ~ (m <= m - 1)
          BY <1>1, <3>2, <3>4
        <5> QED
          BY <3>1, <5>1
      <4>2. PICK f : Joins(q, m - 1, f)
        BY <4>1
      <4> DEFINE h == [i \in 1 .. m |-> IF i = m THEN f[m - 1] \o q[m] ELSE f[i]]
      <4>3. ASSUME NEW i \in 1 .. m PROVE h[i] = IF i = 1 THEN q[i] ELSE h[i - 1] \o q[i]
        <5>1. CASE i = m
          <6>1. h[i - 1] = f[i - 1] /\ i # 1
            BY <3>2, <3>4, <5>1
          <6> QED
            BY <5>1, <6>1
        <5>2. CASE i # m
          <6>1. i \in 1 .. m - 1 /\ i # m /\ (i # 1 => i - 1 \in 1 .. m /\ i - 1 # m)
            BY <3>2, <5>2
          <6>2. f[i] = IF i = 1 THEN q[i] ELSE f[i - 1] \o q[i]
            BY <4>2, <6>1 DEF Joins
          <6> QED
            BY <6>1, <6>2
        <5> QED
          BY <5>1, <5>2
      <4>4. h = [i \in 1 .. m |-> h[i]]
        OBVIOUS
      <4> HIDE DEF h
      <4>5. Joins(q, m, h)
        BY <4>3, <4>4 DEF Joins
      <4> QED
        BY <3>1, <4>5
    <3> QED
      BY <3>3, <3>4
  <2>2. n \in 1 .. n
    BY <1>1, <1>3
  <2>3. \E f : Joins(q, n, f)
    BY <2>1, <2>2
  <2>4. Joins(q, n, g)
    BY <2>3
  <2>5. \A i \in 1 .. n : g[i] = IF i = 1 THEN q[i] ELSE g[i - 1] \o q[i]
    BY <2>4 DEF Joins
  <2>6. FlattenSeq(q) = g[n]
    BY <1>3 DEF FlattenSeq, Joins
  <2> HIDE DEF g
  <2>7. ASSUME Odd # {} PROVE FALSE
    <3>1. PICK i \in Odd : \A k \in Odd : i <= k
      <4>1. Odd \in SUBSET Nat
        BY <1>1
      <4> HIDE DEF Odd
      <4> QED
        BY <2>7, <4>1, LeastNatural
    <3>2. i \in 1 .. n /\ i \in Nat /\ g[i] \notin Seq(S) /\ q[i] \in Seq(S)
      BY <1>1
    <3>3. i # 1
      BY <2>5, <3>2
    <3>4. i - 1 \in 1 .. n /\ ~ (i <= i - 1)
      BY <1>1, <3>2, <3>3
    <3>5. g[i - 1] \in Seq(S)
      BY <3>1, <3>4
    <3>6. g[i] = g[i - 1] \o q[i]
      BY <2>5, <3>2, <3>3
    <3> QED
      BY <3>2, <3>5, <3>6
  <2> QED
    BY <2>2, <2>6, <2>7
<1> QED
  BY <1>2, <1>3

LEMMA ClaimsAreAList ==
  ASSUME NEW bundle \in Bundles
  PROVE  Len(ClaimsOf(bundle)) \in Nat /\ ToSet(ClaimsOf(bundle)) = {ClaimsOf(bundle)[t] : t \in 1 .. Len(ClaimsOf(bundle))}
<1> DEFINE P == {"definitions", "mentions"} \X Nat
           passages(list, n) == [i \in 1 .. n |-> [claim \in 1 .. bundle[list][i] |-> <<list, i>>]]
<1>1. bundle["definitions"] \in Seq(Nat) /\ bundle["mentions"] \in Seq(Nat)
  BY DEF Bundles
<1>2. ASSUME NEW list \in {"definitions", "mentions"}, NEW n \in Nat, n = Len(bundle[list])
      PROVE  passages(list, n) \in Seq(Seq(P))
  <2>1. ASSUME NEW i \in 1 .. n PROVE [claim \in 1 .. bundle[list][i] |-> <<list, i>>] \in Seq(P)
    <3>1. bundle[list][i] \in Nat /\ <<list, i>> \in P
      BY <1>1, <1>2
    <3> HIDE DEF P
    <3> QED
      BY <3>1
  <2> QED
    BY <2>1
<1>3. /\ Len(bundle.definitions) = Len(bundle["definitions"]) /\ Len(bundle.mentions) = Len(bundle["mentions"])
      /\ Len(bundle["definitions"]) \in Nat /\ Len(bundle["mentions"]) \in Nat
  BY <1>1
<1>4. passages("definitions", Len(bundle.definitions)) \in Seq(Seq(P))
  BY <1>2, <1>3
<1>5. passages("mentions", Len(bundle.mentions)) \in Seq(Seq(P))
  BY <1>2, <1>3
<1> DEFINE q == passages("definitions", Len(bundle.definitions)) \o passages("mentions", Len(bundle.mentions))
<1>6. ClaimsOf(bundle) = FlattenSeq(q)
  BY DEF ClaimsOf
<1> HIDE DEF P, passages
<1>7. q \in Seq(Seq(P))
  BY <1>4, <1>5
<1> HIDE DEF q
<1>8. ClaimsOf(bundle) \in Seq(P)
  BY <1>6, <1>7, FlattenFacts
<1> QED
  BY <1>8 DEF ToSet

Maps == [size : Nat, cursor : Nat \ {0}, flying : SUBSET Nat, promise : {"none", "pending", "resolved", "rejected"}]

\* What the cursor of a map has passed is in flight or has been answered.
MapIsSound(m, heard) ==
  /\ m \in Maps
  /\ m.flying \subseteq 1 .. m.size /\ \A i \in m.flying : i < m.cursor
  /\ m.promise \in {"none", "resolved"} => m.flying = {}
  /\ m.promise = "resolved" => m.cursor > m.size
  /\ m.promise # "rejected" => \A i \in 1 .. m.size : i < m.cursor => i \in m.flying \cup heard

\* A map that has resolved has been answered for every item.
LEMMA ResolvedIsAnswered ==
  ASSUME NEW m, NEW heard, MapIsSound(m, heard), m.promise = "resolved"
  PROVE  m.flying = {} /\ \A i \in 1 .. m.size : i \in heard
BY DEF MapIsSound, Maps

LEMMA CallIsSound ==
  ASSUME NEW size \in Nat, NEW limit \in Nat \ {0}, NEW heard, NEW m, m = Called(size, limit)
  PROVE  MapIsSound(m, heard) /\ m.size = size
<1> DEFINE asked == IF limit < size THEN limit ELSE size
           workers == IF asked < 1 THEN 1 ELSE asked
           first == IF workers < size THEN workers ELSE size
<1>1. m = [size |-> size, cursor |-> workers + 1, flying |-> 1 .. first,
           promise |-> IF size = 0 THEN "resolved" ELSE "pending"]
  BY DEF Called
<1>2. /\ workers \in Nat \ {0} /\ first \in Nat /\ first <= size /\ first <= workers
      /\ workers <= size => first = workers
      /\ workers > size => size = 0 /\ first = 0
  OBVIOUS
<1> HIDE DEF workers, first
<1>3. m.size = size /\ m.cursor = workers + 1 /\ m.flying = 1 .. first
      /\ m.promise = IF size = 0 THEN "resolved" ELSE "pending"
  BY <1>1
<1>4. m \in Maps
  BY <1>1, <1>2 DEF Maps
<1> QED
  BY <1>2, <1>3, <1>4 DEF MapIsSound

LEMMA AnswerIsSound ==
  ASSUME NEW m, NEW heard, MapIsSound(m, heard), NEW i \in m.flying, NEW n, n = TaskDone(m, i)
  PROVE  MapIsSound(n, heard \cup {i}) /\ n.size = m.size /\ m.promise \notin {"none", "resolved"}
<1> DEFINE rest == (m.flying \ {i}) \cup ({m.cursor} \cap 1 .. m.size)
<1>1. m \in Maps /\ m.size \in Nat /\ m.cursor \in Nat \ {0} /\ i \in Nat /\ i < m.cursor
  BY DEF MapIsSound, Maps
<1>2. n = [size |-> m.size, cursor |-> m.cursor + 1, flying |-> rest,
           promise |-> IF rest = {} /\ m.promise = "pending" THEN "resolved" ELSE m.promise]
  BY <1>1 DEF TaskDone, Maps
<1>3. n.size = m.size /\ n.cursor = m.cursor + 1 /\ n.flying = rest
      /\ n.promise = IF rest = {} /\ m.promise = "pending" THEN "resolved" ELSE m.promise
  BY <1>2
<1>4. m.promise \in {"pending", "rejected"}
  BY <1>1 DEF MapIsSound, Maps
<1>5. rest \subseteq 1 .. m.size /\ \A k \in rest : k < m.cursor + 1
  BY <1>1 DEF MapIsSound
<1>6. rest = {} => m.cursor > m.size
  BY <1>1
<1>7. m.promise # "rejected" =>
        \A k \in 1 .. m.size : k < m.cursor + 1 => k \in rest \cup (heard \cup {i})
  BY <1>1 DEF MapIsSound
<1>8. n \in Maps
  BY <1>1, <1>2, <1>4, <1>5 DEF Maps
<1> HIDE DEF rest
<1>9. n.flying \subseteq 1 .. n.size /\ \A k \in n.flying : k < n.cursor
  BY <1>3, <1>5
<1>10. /\ n.promise \in {"none", "resolved"} => n.flying = {}
       /\ n.promise = "resolved" => n.cursor > n.size
  BY <1>1, <1>3, <1>4, <1>6
<1>11. n.promise # "rejected" => \A k \in 1 .. n.size : k < n.cursor => k \in n.flying \cup (heard \cup {i})
  BY <1>3, <1>4, <1>7
<1>12. MapIsSound(n, heard \cup {i})
  BY <1>8, <1>9, <1>10, <1>11 DEF MapIsSound
<1> QED
  BY <1>3, <1>4, <1>12

LEMMA FailureIsSound ==
  ASSUME NEW m, NEW heard, MapIsSound(m, heard), NEW i \in m.flying, NEW n, n = TaskFailed(m, i)
  PROVE  MapIsSound(n, heard) /\ n.size = m.size /\ m.promise \notin {"none", "resolved"}
<1>1. m \in Maps
  BY DEF MapIsSound
<1>2. n = [size |-> m.size, cursor |-> m.cursor, flying |-> m.flying \ {i}, promise |-> "rejected"]
  BY <1>1 DEF TaskFailed, Maps
<1>3. n \in Maps
  BY <1>1, <1>2 DEF Maps
<1> QED
  BY <1>2, <1>3 DEF MapIsSound

LEMMA MoreIsHeard ==
  ASSUME NEW m, NEW heard, NEW more, MapIsSound(m, heard), heard \subseteq more
  PROVE  MapIsSound(m, more)
BY DEF MapIsSound

-----------------------------------------------------------------------------
(* What holds at every step of an admission. *)

\* The claims of the drafts, in the order the batch is given them.
DraftedCounts == [k \in 1 .. Len(Core) |-> Len(ClaimsOf(drafts[Core[k]]))]

AdmissionTypes ==
  /\ admission \in AdmissionCases
  /\ progress \in {"probing", "drafting", "claiming", "returned", "thrown"}
  /\ maps \in [Mapped -> Maps]
  /\ probes \in [Candidate -> {Unknown, "core", "boundary"}]
  /\ drafts \in [Candidate -> Bundles]

\* The map of the probes answers for every candidate, and the two maps rest
\* when their stage has been left without a failure.
MapsFollow ==
  /\ MapIsSound(maps["probing"], {c \in Candidate : probes[c] # Unknown})
  /\ MapIsSound(maps["drafting"], Nat)
  /\ maps["probing"].promise = "none" \/ maps["probing"].size = admission.candidates
  /\ progress = "probing" => maps["drafting"].promise = "none"
  /\ progress \in {"drafting", "claiming", "returned"} => maps["probing"].promise = "resolved"
  /\ progress \in {"claiming", "returned"} => maps["drafting"].promise \in {"none", "resolved"}

\* Claims are judged after the maps, and they are those of the drafts.
ClaimsFollow ==
  /\ progress \in Mapped => batch = "idle"
  /\ progress \in {"claiming", "returned"} => batch = "idle" \/ sets = DraftedCounts
  /\ progress = "returned" => batch = "returned" /\ outcomes = [c \in Candidate |-> Outcome(c)]

GroundingInv == AdmissionTypes /\ MapsFollow /\ ClaimsFollow /\ ClaimInv

\* The core candidates, each once.
LEMMA CoreFacts ==
  ASSUME AdmissionTypes
  PROVE  /\ Len(Core) \in Nat /\ \A k \in 1 .. Len(Core) : Core[k] \in Candidate
         /\ \A c \in Candidate : probes[c] = "core" => \E k \in 1 .. Len(Core) : Core[k] = c
         /\ DraftedCounts \in Seq(Nat)
<1> DEFINE S == {c \in Candidate : probes[c] = "core"}
           core == Ascending(S)
<1>1. admission.candidates \in Nat
  BY GroundingPolicy DEF AdmissionTypes
<1>2. S \in SUBSET Candidate /\ S \in SUBSET Nat /\ IsFiniteSet(Candidate)
  BY <1>1, UpTo DEF Candidate
<1>3. IsFiniteSet(S)
  BY <1>2, FS_Subset
<1>4. Core = core
  BY DEF Core
<1> DEFINE T == S
<1>5. T = S /\ core = Ascending(T)
  OBVIOUS
<1> HIDE DEF T, core
<1>6. core \in Seq(T) /\ T = ToSet(core)
  BY <1>2, <1>3, <1>5, AscendingFacts
<1>7. Len(core) \in Nat /\ \A k \in 1 .. Len(core) : core[k] \in T
  BY <1>6
<1>8. \A c \in T : \E k \in 1 .. Len(core) : core[k] = c
  BY <1>6 DEF ToSet
<1>9. ASSUME NEW k \in 1 .. Len(Core) PROVE Len(ClaimsOf(drafts[Core[k]])) \in Nat
  <2>1. drafts[Core[k]] \in Bundles
    BY <1>2, <1>4, <1>5, <1>7 DEF AdmissionTypes
  <2> QED
    BY <2>1, ClaimsAreAList
<1>10. DraftedCounts \in Seq(Nat)
  BY <1>4, <1>7, <1>9 DEF DraftedCounts
<1> QED
  BY <1>2, <1>4, <1>5, <1>7, <1>8, <1>10

\* A map whose promise stands has nothing in flight, so its answers are final.
LEMMA RestedMap ==
  ASSUME GroundingInv, NEW stage \in Mapped, NEW i \in maps[stage].flying
  PROVE  /\ maps[stage].promise \notin {"none", "resolved"}
         /\ progress \notin {"claiming", "returned"}
         /\ stage = "probing" => progress # "drafting"
         /\ stage = "drafting" => progress # "probing"
BY DEF GroundingInv, MapsFollow, MapIsSound, Mapped

\* The claims go through their steps while the rest of the admission waits.
LEMMA ClaimsRun ==
  ASSUME ClaimNext
  PROVE  sets' = sets /\ batch # "idle"
<1>1. ASSUME NEW x \in Role, NEW job, NEW next, NEW jobs, Passed(x, job, next, jobs)
      PROVE  sets' = sets /\ batch # "idle"
  BY <1>1 DEF Passed
<1>2. ASSUME NEW r \in 1 .. Len(wave), Plan(r) \/ Answer(r) PROVE sets' = sets /\ batch # "idle"
  BY <1>1, <1>2 DEF Plan, Answer, Role
<1>3. ASSUME NEW r, NEW t, NEW j, JudgeTarget(r, t, j) PROVE sets' = sets /\ batch # "idle"
  BY <1>1, <1>3 DEF JudgeTarget, Role
<1>4. ASSUME NEW x \in Role,
             \/ \E job \in running[x] : CallFails(x, job)
             \/ EnterStage(x) \/ CloseStage(x) \/ CloseAborted(x) \/ StageFails(x)
      PROVE  sets' = sets /\ batch # "idle"
  BY <1>4 DEF CallFails, EnterStage, CloseStage, CloseAborted, StageFails, Bracket, InWave
<1>5. ASSUME Release \/ ThrowFailure \/ SampleAgain \/ ReturnJudgments
      PROVE  sets' = sets /\ batch # "idle"
  BY <1>5 DEF Release, ThrowFailure, SampleAgain, ReturnJudgments, WaveIsOver
<1> QED
  BY <1>2, <1>3, <1>4, <1>5 DEF ClaimNext

\* What is settled of a draft depends on nothing else.
LEMMA SameDrafts ==
  ASSUME UNCHANGED <<admission, probes, drafts>>
  PROVE  Core' = Core /\ DraftedCounts' = DraftedCounts /\ Candidate' = Candidate
<1>1. Candidate' = Candidate
  BY DEF Candidate
<1>2. Core' = Core
  BY <1>1 DEF Core
<1>3. DraftedCounts' = DraftedCounts
  BY <1>2 DEF DraftedCounts
<1> QED
  BY <1>1, <1>2, <1>3

LEMMA SameOutcomes ==
  ASSUME UNCHANGED <<admission, probes, drafts, samples>>, NEW c \in Candidate
  PROVE  Outcome(c)' = Outcome(c)
<1>1. Core' = Core
  BY SameDrafts
<1>2. ASSUME NEW k PROVE RejectedPassages(k)' = RejectedPassages(k)
  BY <1>1 DEF RejectedPassages
<1> QED
  BY <1>1, <1>2 DEF Outcome

LEMMA MapsKeep ==
  ASSUME GroundingInv,
         \/ CallMap \/ MapThrows
         \/ \E c \in Candidate : ProbeAnswers(c) \/ DraftAnswers(c)
         \/ \E stage \in Mapped, i \in Candidate : MapCallFails(stage, i)
  PROVE  GroundingInv'
<1> USE DEF GroundingInv
<1> DEFINE Probed == {c \in Candidate : probes[c] # Unknown}
<1>1. /\ UNCHANGED <<admission, outcomes, sets, objections, samples, wave, pipeVars, batch>>
      /\ progress' \in {progress, "thrown"}
  BY DEF CallMap, MapThrows, ProbeAnswers, DraftAnswers, MapCallFails, callVars, claimVars
<1>2. ClaimInv'
  BY <1>1, ClaimStutter
<1>3. progress \notin {"claiming", "returned"} /\ Candidate' = Candidate
  <2>1. Candidate' = Candidate
    BY <1>1 DEF Candidate
  <2> QED
    BY <2>1, RestedMap DEF CallMap, MapThrows, ProbeAnswers, DraftAnswers, MapCallFails, Mapped
<1>4. ClaimsFollow'
  BY <1>1, <1>3 DEF ClaimsFollow, Mapped, AdmissionTypes
<1>5. admission.candidates \in Nat /\ admission.bundles \subseteq Bundles /\ Candidate \subseteq Nat
  BY GroundingPolicy DEF AdmissionTypes, Candidate
<1>6. CASE CallMap
  <2>1. /\ progress \in Mapped /\ maps[progress] = NotCalled /\ progress' = progress
        /\ maps' = [maps EXCEPT ![progress] = Called(ItemsOf(progress), Concurrency)]
        /\ UNCHANGED <<probes, drafts>>
    BY <1>6 DEF CallMap
  <2> DEFINE m == Called(ItemsOf(progress), Concurrency)
  <2>2. m = Called(ItemsOf(progress), Concurrency) /\ maps' = [maps EXCEPT ![progress] = m]
    BY <2>1
  <2> HIDE DEF m
  <2>3. ItemsOf(progress) \in Nat
    BY <1>5, CoreFacts DEF ItemsOf
  <2>4. \A heard : MapIsSound(m, heard)
    BY <2>2, <2>3, CallIsSound, GroundingPolicy
  <2>5. m.size = ItemsOf(progress)
    BY <2>2, <2>3, CallIsSound, GroundingPolicy
  <2>6. m \in Maps
    BY <2>4 DEF MapIsSound
  <2>7. AdmissionTypes'
    BY <1>1, <1>3, <2>1, <2>2, <2>6 DEF AdmissionTypes
  <2>8. CASE progress = "probing"
    <3>1. maps'["probing"] = m /\ maps'["drafting"] = maps["drafting"]
      BY <2>2, <2>8 DEF AdmissionTypes, Mapped
    <3>2. m.size = admission.candidates
      BY <2>5, <2>8 DEF ItemsOf
    <3>3. MapsFollow'
      BY <1>1, <1>3, <2>1, <2>4, <2>8, <3>1, <3>2 DEF MapsFollow
    <3> QED
      BY <1>2, <1>4, <2>7, <3>3
  <2>9. CASE progress = "drafting"
    <3>1. maps'["drafting"] = m /\ maps'["probing"] = maps["probing"]
      BY <2>2, <2>9 DEF AdmissionTypes, Mapped
    <3>2. MapsFollow'
      BY <1>1, <1>3, <2>1, <2>4, <2>9, <3>1 DEF MapsFollow
    <3> QED
      BY <1>2, <1>4, <2>7, <3>2
  <2> QED
    BY <2>1, <2>8, <2>9 DEF Mapped
<1>7. CASE MapThrows
  <2>1. progress' = "thrown" /\ UNCHANGED <<maps, probes, drafts>>
    BY <1>7 DEF MapThrows
  <2>2. AdmissionTypes'
    BY <1>1, <1>3, <2>1 DEF AdmissionTypes
  <2>3. MapsFollow'
    BY <1>1, <1>3, <2>1 DEF MapsFollow
  <2> QED
    BY <1>2, <1>4, <2>2, <2>3
<1>8. ASSUME NEW c \in Candidate, ProbeAnswers(c) PROVE GroundingInv'
  <2>1. PICK verdict \in {"core", "boundary"} : probes' = [probes EXCEPT ![c] = verdict]
    BY <1>8 DEF ProbeAnswers
  <2> DEFINE n == TaskDone(maps["probing"], c)
  <2>2. /\ c \in maps["probing"].flying /\ progress' = progress /\ drafts' = drafts
        /\ maps' = [maps EXCEPT !["probing"] = n]
    BY <1>8 DEF ProbeAnswers
  <2>3. n = TaskDone(maps["probing"], c)
    OBVIOUS
  <2> HIDE DEF n
  <2>4. /\ MapIsSound(n, Probed \cup {c}) /\ n.size = maps["probing"].size
        /\ maps["probing"].promise \notin {"none", "resolved"}
    <3>1. MapIsSound(maps["probing"], Probed)
      BY DEF MapsFollow
    <3> HIDE DEF Probed
    <3> QED
      BY <2>2, <2>3, <3>1, AnswerIsSound
  <2>5. Probed \cup {c} \subseteq {d \in Candidate' : probes'[d] # Unknown}
    BY <1>3, <2>1 DEF AdmissionTypes, Unknown
  <2>6. MapIsSound(n, {d \in Candidate' : probes'[d] # Unknown})
    <3> DEFINE more == {d \in Candidate' : probes'[d] # Unknown}
    <3> HIDE DEF more, Probed
    <3>1. Probed \cup {c} \subseteq more
      BY <2>5 DEF more, Probed
    <3>2. MapIsSound(n, more)
      BY <2>4, <3>1, MoreIsHeard
    <3> QED
      BY <3>2 DEF more
  <2>7. n \in Maps
    BY <2>4 DEF MapIsSound
  <2>8. AdmissionTypes'
    BY <1>1, <1>3, <2>1, <2>2, <2>7 DEF AdmissionTypes
  <2>9. maps'["probing"] = n /\ maps'["drafting"] = maps["drafting"]
    BY <2>2 DEF AdmissionTypes, Mapped
  <2>10. MapsFollow'
    BY <1>1, <1>3, <2>2, <2>4, <2>6, <2>9 DEF MapsFollow
  <2> QED
    BY <1>2, <1>4, <2>8, <2>10
<1>9. ASSUME NEW i \in Candidate, DraftAnswers(i) PROVE GroundingInv'
  <2>1. PICK bundle \in admission.bundles : drafts' = [drafts EXCEPT ![Core[i]] = bundle]
    BY <1>9 DEF DraftAnswers
  <2> DEFINE n == TaskDone(maps["drafting"], i)
  <2>2. /\ i \in maps["drafting"].flying /\ progress' = progress /\ probes' = probes
        /\ maps' = [maps EXCEPT !["drafting"] = n]
    BY <1>9 DEF DraftAnswers
  <2>3. n = TaskDone(maps["drafting"], i)
    OBVIOUS
  <2> HIDE DEF n
  <2>4. MapIsSound(n, Nat)
    <3>1. MapIsSound(maps["drafting"], Nat) /\ Nat \cup {i} = Nat
      BY <1>5 DEF MapsFollow
    <3>2. MapIsSound(n, Nat \cup {i})
      BY <2>2, <2>3, <3>1, AnswerIsSound
    <3> QED
      BY <3>1, <3>2
  <2>5. n \in Maps
    BY <2>4 DEF MapIsSound
  <2>6. drafts' \in [Candidate -> Bundles]
    BY <1>5, <2>1 DEF AdmissionTypes
  <2>7. AdmissionTypes'
    BY <1>1, <1>3, <2>2, <2>5, <2>6 DEF AdmissionTypes
  <2>8. maps'["drafting"] = n /\ maps'["probing"] = maps["probing"] /\ progress # "probing"
    BY <2>2, RestedMap DEF AdmissionTypes, Mapped
  <2>9. MapsFollow'
    BY <1>1, <1>3, <2>2, <2>4, <2>8 DEF MapsFollow
  <2> QED
    BY <1>2, <1>4, <2>7, <2>9
<1>10. ASSUME NEW stage \in Mapped, NEW i \in Candidate, MapCallFails(stage, i) PROVE GroundingInv'
  <2> DEFINE n == TaskFailed(maps[stage], i)
  <2>1. /\ i \in maps[stage].flying /\ UNCHANGED <<progress, probes, drafts>>
        /\ maps' = [maps EXCEPT ![stage] = n]
    BY <1>10 DEF MapCallFails
  <2>2. n = TaskFailed(maps[stage], i)
    OBVIOUS
  <2> HIDE DEF n
  <2>3. \A heard : MapIsSound(maps[stage], heard) => MapIsSound(n, heard) /\ n.size = maps[stage].size
    BY <2>1, <2>2, FailureIsSound
  <2>4. MapIsSound(maps["probing"], Probed) /\ MapIsSound(maps["drafting"], Nat)
    BY DEF MapsFollow
  <2>5. CASE stage = "probing"
    <3>1. maps'["probing"] = n /\ maps'["drafting"] = maps["drafting"]
      BY <2>1, <2>5 DEF AdmissionTypes, Mapped
    <3>2. MapIsSound(n, Probed) /\ n.size = maps["probing"].size
      BY <2>3, <2>4, <2>5
    <3>3. n \in Maps
      BY <3>2 DEF MapIsSound
    <3>4. AdmissionTypes'
      BY <1>1, <1>3, <2>1, <3>3 DEF AdmissionTypes
    <3>5. maps["probing"].promise # "none" /\ progress # "drafting"
      BY <2>1, <2>5, RestedMap
    <3>6. MapsFollow'
      BY <1>1, <1>3, <2>1, <3>1, <3>2, <3>5 DEF MapsFollow
    <3> QED
      BY <1>2, <1>4, <3>4, <3>6
  <2>6. CASE stage = "drafting"
    <3>1. maps'["drafting"] = n /\ maps'["probing"] = maps["probing"]
      BY <2>1, <2>6 DEF AdmissionTypes, Mapped
    <3>2. MapIsSound(n, Nat)
      BY <2>3, <2>4, <2>6
    <3>3. n \in Maps
      BY <3>2 DEF MapIsSound
    <3>4. AdmissionTypes'
      BY <1>1, <1>3, <2>1, <3>3 DEF AdmissionTypes
    <3>5. progress # "probing"
      BY <2>1, <2>6, RestedMap
    <3>6. MapsFollow'
      BY <1>1, <1>3, <2>1, <3>1, <3>2, <3>5 DEF MapsFollow
    <3> QED
      BY <1>2, <1>4, <3>4, <3>6
  <2> QED
    BY <2>5, <2>6 DEF Mapped
<1> QED
  BY <1>6, <1>7, <1>8, <1>9, <1>10

LEMMA StagesKeep ==
  ASSUME GroundingInv, Drafted \/ Claimed \/ Claiming \/ AdmissionReturns \/ AdmissionThrows
  PROVE  GroundingInv'
<1> USE DEF GroundingInv
<1>1. UNCHANGED <<admission, maps, probes, drafts>>
  BY DEF Drafted, Claimed, Claiming, AdmissionReturns, AdmissionThrows, callVars
<1>2. Core' = Core /\ DraftedCounts' = DraftedCounts /\ Candidate' = Candidate
  BY <1>1, SameDrafts
<1>3. progress' \in {"probing", "drafting", "claiming", "returned", "thrown"} => AdmissionTypes'
  BY <1>1, <1>2 DEF AdmissionTypes
<1>4. CASE Drafted
  <2>1. /\ progress = "probing" /\ maps["probing"].promise = "resolved"
        /\ progress' = IF Core = <<>> THEN "claiming" ELSE "drafting"
        /\ UNCHANGED <<outcomes, sets, objections, samples, wave, pipeVars, batch>>
    BY <1>4 DEF Drafted, callVars, claimVars
  <2>2. ClaimInv'
    BY <2>1, ClaimStutter
  <2>3. MapsFollow'
    BY <1>1, <1>2, <2>1 DEF MapsFollow
  <2>4. ClaimsFollow'
    BY <2>1 DEF ClaimsFollow, Mapped
  <2> QED
    BY <1>3, <2>1, <2>2, <2>3, <2>4
<1>5. CASE Claimed
  <2>1. /\ \/ progress = "drafting" /\ maps["drafting"].promise = "resolved"
           \/ progress = "claiming"
        /\ progress' = "claiming"
    BY <1>5 DEF Claimed
  <2>2. PICK doubts \in admission.objections : AdmitBatch(DraftedCounts, doubts)
    BY <1>5 DEF Claimed, DraftedCounts
  <2>3. DraftedCounts \in Seq(Nat)
    BY CoreFacts
  <2>4. ClaimInv'
    BY <2>2, <2>3, AdmitKeeps
  <2>5. sets' = DraftedCounts
    BY <2>2 DEF AdmitBatch
  <2>6. MapsFollow'
    BY <1>1, <1>2, <2>1 DEF MapsFollow
  <2>7. ClaimsFollow'
    BY <1>2, <2>1, <2>5 DEF ClaimsFollow, Mapped
  <2> QED
    BY <1>3, <2>1, <2>4, <2>6, <2>7
<1>6. CASE Claiming
  <2>1. progress = "claiming" /\ ClaimNext /\ progress' = progress
    BY <1>6 DEF Claiming
  <2>2. ClaimInv' /\ sets' = sets /\ batch # "idle"
    BY <2>1, ClaimNextKeeps, ClaimsRun
  <2>3. MapsFollow'
    BY <1>1, <1>2, <2>1 DEF MapsFollow
  <2>4. ClaimsFollow'
    BY <1>2, <2>1, <2>2 DEF ClaimsFollow, Mapped
  <2> QED
    BY <1>3, <2>1, <2>2, <2>3, <2>4
<1>7. CASE AdmissionReturns
  <2>1. /\ progress = "claiming" /\ batch = "returned" /\ progress' = "returned"
        /\ outcomes' = [c \in Candidate |-> Outcome(c)]
        /\ UNCHANGED <<sets, objections, samples, wave, pipeVars, batch>>
    BY <1>7 DEF AdmissionReturns, claimVars
  <2>2. ClaimInv'
    BY <2>1, ClaimStutter
  <2>3. MapsFollow'
    BY <1>1, <1>2, <2>1 DEF MapsFollow
  <2>4. \A c \in Candidate : Outcome(c)' = Outcome(c)
    BY <1>1, <2>1, SameOutcomes
  <2>5. (outcomes = [c \in Candidate |-> Outcome(c)])'
    BY <1>2, <2>1, <2>4
  <2>6. ClaimsFollow'
    BY <1>2, <2>1, <2>5 DEF ClaimsFollow, Mapped
  <2> QED
    BY <1>3, <2>1, <2>2, <2>3, <2>6
<1>8. CASE AdmissionThrows
  <2>1. /\ progress' = "thrown"
        /\ UNCHANGED <<outcomes, sets, objections, samples, wave, pipeVars, batch>>
    BY <1>8 DEF AdmissionThrows, callVars, claimVars
  <2>2. ClaimInv'
    BY <2>1, ClaimStutter
  <2>3. MapsFollow'
    BY <1>1, <1>2, <2>1 DEF MapsFollow
  <2>4. ClaimsFollow'
    BY <2>1 DEF ClaimsFollow, Mapped
  <2> QED
    BY <1>3, <2>1, <2>2, <2>3, <2>4
<1> QED
  BY <1>4, <1>5, <1>6, <1>7, <1>8

LEMMA AdmissionBegins ==
  ASSUME GroundingInit
  PROVE  GroundingInv
<1> USE DEF GroundingInit
<1>1. ClaimInv
  BY ClaimsBegin
<1>2. batch = "idle"
  BY DEF ClaimsIdle
<1>3. NotCalled \in Maps /\ \A heard : MapIsSound(NotCalled, heard)
  BY DEF NotCalled, Maps, MapIsSound
<1>4. NoBundle \in Bundles
  BY DEF NoBundle, Bundles
<1>5. AdmissionTypes
  BY <1>3, <1>4 DEF AdmissionTypes
<1>6. maps["probing"] = NotCalled /\ maps["drafting"] = NotCalled /\ NotCalled.promise = "none"
  BY DEF Mapped, NotCalled
<1>7. MapsFollow
  BY <1>3, <1>6 DEF MapsFollow
<1>8. ClaimsFollow
  BY <1>2 DEF ClaimsFollow
<1> QED
  BY <1>1, <1>5, <1>7, <1>8 DEF GroundingInv

LEMMA GroundingInvHolds == GroundingSpec => []GroundingInv
<1>1. GroundingInit => GroundingInv
  BY AdmissionBegins
<1>2. GroundingInv /\ [GroundingNext]_groundingVars => GroundingInv'
  <2> SUFFICES ASSUME GroundingInv, [GroundingNext]_groundingVars PROVE GroundingInv'
    OBVIOUS
  <2>1. CASE GroundingNext
    BY <2>1, MapsKeep, StagesKeep DEF GroundingNext
  <2>2. CASE UNCHANGED groundingVars
    <3>1. /\ UNCHANGED <<admission, progress, maps, probes, drafts, outcomes>>
          /\ UNCHANGED <<sets, objections, samples, wave, pipeVars, batch>>
      BY <2>2 DEF groundingVars, claimVars
    <3>2. ClaimInv'
      BY <3>1, ClaimStutter DEF GroundingInv
    <3>3. DraftedCounts' = DraftedCounts /\ Candidate' = Candidate
      BY <3>1, SameDrafts
    <3>4. AdmissionTypes' /\ MapsFollow'
      BY <3>1, <3>3 DEF GroundingInv, AdmissionTypes, MapsFollow
    <3>5. \A c \in Candidate : Outcome(c)' = Outcome(c)
      BY <3>1, SameOutcomes
    <3>6. (outcomes = [c \in Candidate |-> Outcome(c)])' <=> outcomes = [c \in Candidate |-> Outcome(c)]
      BY <3>1, <3>3, <3>5
    <3>7. ClaimsFollow'
      BY <3>1, <3>3, <3>6 DEF GroundingInv, ClaimsFollow
    <3> QED
      BY <3>2, <3>4, <3>7 DEF GroundingInv
  <2> QED
    BY <2>1, <2>2
<1> QED
  BY <1>1, <1>2, PTL DEF GroundingSpec

-----------------------------------------------------------------------------
(* The theorems. *)

\* When a wave is over, or the batch has returned or thrown, no paid call of
\* runFactualityWave is in flight and no stage is open, however its answers,
\* failures and timeline writes interleave.
THEOREM NothingOutlives == GroundingSpec => []NothingOutlivesItsWave
<1>1. GroundingInv => NothingOutlivesItsWave
  <2> SUFFICES ASSUME GroundingInv, batch \in {"opening", "returned", "thrown"}
               PROVE  running = All({}) /\ (batch # "opening" => \A x \in Role : bracket[x] # "entered")
    BY DEF NothingOutlivesItsWave
  <2> USE DEF GroundingInv, ClaimInv, PipeInv
  <2>1. CASE batch = "opening"
    BY <2>1 DEF OpeningIsAtRest
  <2>2. CASE batch # "opening"
    <3>1. \A x \in Role : running[x] = {} /\ bracket[x] \in {"closed", "broken"}
      BY <2>2 DEF BracketsFollow, InWave
    <3>2. running \in [Role -> SUBSET Job]
      BY DEF LimitersAreSane
    <3>3. running = All({})
      BY <3>1, <3>2 DEF All
    <3> QED
      BY <3>1, <3>3
  <2> QED
    BY <2>1, <2>2
<1> QED
  BY <1>1, GroundingInvHolds, PTL

\* What a batch throws is the failure of a call or of a write, never the abort
\* that fail() spread to another role, and never the incomplete panel at which
\* aggregateVerificationSamples throws: the waves leave none.
THEOREM RootCause == GroundingSpec => []RootCauseIsThrown
<1>1. GroundingInv => RootCauseIsThrown
  BY DEF GroundingInv, ClaimInv, PipeInv, ClaimTypes, BracketsFollow, RootCauseIsThrown
<1> QED
  BY <1>1, GroundingInvHolds, PTL

\* No role of a wave has more calls in flight than verificationExecution allows it.
CallsAreCapped == \A x \in Role : IsFiniteSet(running[x]) /\ Cardinality(running[x]) <= Cap[x]

\* The limiters of factualityWavePipeline keep to their caps, through the jobs
\* one role hands to the next and through an abort.
THEOREM CallsStayCapped == GroundingSpec => []CallsAreCapped
<1>1. GroundingInv => CallsAreCapped
  BY DEF GroundingInv, ClaimInv, PipeInv, LimitersAreSane, CallsAreCapped
<1> QED
  BY <1>1, GroundingInvHolds, PTL

\* What sampling and early settlement leave of a batch is what judging every
\* sample would have left: as long as a target the first Quorum samples have not
\* objected to cannot be vetoed by the rest, a candidate is admitted with exactly
\* the passages that would have stood.
THEOREM AdmittedStands ==
  ASSUME Samples < 2 * Quorum
  PROVE  GroundingSpec => []AdmittedTextStands
<1>1. GroundingInv => AdmittedTextStands
  <2> SUFFICES ASSUME GroundingInv, progress = "returned" PROVE AdmittedTextStands
    BY DEF AdmittedTextStands
  <2> USE DEF GroundingInv
  <2> DEFINE Place(c) == CHOOSE k \in 1 .. Len(Core) : Core[k] = c
             Vetoed(c) == {t \in 1 .. Len(ClaimsOf(drafts[c])) : FullyVetoed(Place(c), t)}
             Standing(c) == {p \in ToSet(ClaimsOf(drafts[c])) : \A t \in Vetoed(c) : ClaimsOf(drafts[c])[t] # p}
  <2>1. batch = "returned" /\ sets = DraftedCounts /\ outcomes = [c \in Candidate |-> Outcome(c)]
    BY DEF ClaimsFollow
  <2>2. \A c \in Candidate : probes[c] \in {"core", "boundary"}
    BY ResolvedIsAnswered DEF MapsFollow, AdmissionTypes, Candidate
  <2>3. ASSUME NEW c \in Candidate, probes[c] = "boundary"
        PROVE  outcomes[c].disposition = "held_out"
    BY <2>1, <2>3 DEF Outcome
  <2>4. ASSUME NEW c \in Candidate, probes[c] # "boundary"
        PROVE  KeptPassages(drafts[c], RejectedPassages(Place(c))) = Standing(c)
    <3> DEFINE k == Place(c)
               claims == ClaimsOf(drafts[c])
    <3>1. k \in 1 .. Len(Core) /\ Core[k] = c
      BY <2>2, <2>4, CoreFacts
    <3> HIDE DEF k
    <3>2. /\ k \in 1 .. Len(sets) /\ sets[k] = Len(claims)
      BY <2>1, <3>1, CoreFacts DEF DraftedCounts
    <3>3. \A t \in 1 .. Len(claims) : FullyVetoed(k, t) <=> ClaimVetoed(k, t, samples)
      BY <2>1, <3>2, VetoIsFinal
    <3>4. RejectedPassages(k) = {claims[t] : t \in {t \in 1 .. Len(claims) : FullyVetoed(k, t)}}
      BY <3>1, <3>3 DEF RejectedPassages
    <3>5. KeptPassages(drafts[c], RejectedPassages(k))
            = {p \in ToSet(claims) : \A t \in {t \in 1 .. Len(claims) : FullyVetoed(k, t)} : claims[t] # p}
      BY <3>4 DEF KeptPassages
    <3> QED
      BY <3>5 DEF k
  <2>5. ASSUME NEW c \in Candidate, probes[c] # "boundary"
        PROVE  outcomes[c] = IF \E p \in Standing(c) : p[1] = "definitions"
                             THEN [disposition |-> "admitted", passages |-> Standing(c)]
                             ELSE [disposition |-> "rejected", passages |-> {}]
    <3> HIDE DEF Standing
    <3>1. outcomes[c] = Outcome(c)
      BY <2>1
    <3>2. KeptPassages(drafts[c], RejectedPassages(Place(c))) = Standing(c)
      BY <2>4, <2>5
    <3> QED
      BY <2>5, <3>1, <3>2 DEF Outcome
  <2> QED
    BY <2>3, <2>5 DEF AdmittedTextStands
<1> QED
  BY <1>1, GroundingInvHolds, PTL

==============================================================================
