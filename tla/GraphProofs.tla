----------------------------- MODULE GraphProofs -----------------------------
(* What is proved of the graph helpers and of the trail that is made of them, *)
(* for any layer.  The helpers are loops: a walk over ancestors, a part of a  *)
(* trail that shrinks, a list that grows.  A loop whose measure falls has a   *)
(* function that computes it (LoopExists), and what each turn keeps is true   *)
(* where it stops (LoopKeeps); the rest is what the loops of this code keep.  *)
(* The difficulty floor is a fold of contractions, one floored node at a time:*)
(* after each, the gates that are left are the ways that lead through what is *)
(* gone (Keeps).  The consensus ordering rests on the search for a cycle and  *)
(* on the transitive reduction, which loses no ancestor of an acyclic graph.  *)
(* The front half of an enrichment folds too, over labels that are claimed.   *)
(* Last, the Legs: Kahn's order lists a cone after all it depends on, and what*)
(* is cut at marks of that list (Cut) stays so when it is split and merged.   *)
EXTENDS StudySession, ConsensusOrdering, GraphEnrichment, FiniteSetTheorems, WellFoundedInduction, TLAPS

\* A set of numbers has a least one.
LEMMA LeastNatural ==
  ASSUME NEW S \in SUBSET Nat, S # {}
  PROVE  \E m \in S : \A k \in S : m <= k
<1>1. IsWellFoundedOn(OpToRel(<, Nat), Nat)
  BY NatLessThanWellFounded
<1>2. PICK m \in S : \A k \in S : ~ (<<k, m>> \in OpToRel(<, Nat))
  BY <1>1, WFMin
<1>3. \A k \in Nat : <<k, m>> \in OpToRel(<, Nat) <=> k < m
  BY DEF OpToRel
<1>4. \A k \in S : ~ (k < m)
  BY <1>2, <1>3, Zenon
<1>5. m \in Nat /\ \A k \in S : k \in Nat
  OBVIOUS
<1> QED
  BY <1>4, <1>5

-----------------------------------------------------------------------------
(* Loops.  A function that goes on with the next state until it may stop.     *)

Loops(D, stop, next, out, f) ==
  f = [x \in D |-> IF x \in stop THEN out[x] ELSE f[next[x]]]

\* What every turn keeps.
Carries(D, stop, next, P) == P \in SUBSET D /\ \A x \in P \ stop : next[x] \in P

\* Every turn brings the measure down.
Falls(P, stop, next, m) == \A x \in P : m[x] \in Nat /\ (x \notin stop => m[next[x]] < m[x])

\* The states a loop comes to from x.
Reached(D, stop, next, x) == {y \in D : \A P : Carries(D, stop, next, P) /\ x \in P => y \in P}

\* A loop has a function that computes it: what it says of a state it says of
\* the next, for they come to the same states to stop in.
LEMMA LoopExists ==
  ASSUME NEW D, NEW stop, NEW next \in [D -> D], NEW out
  PROVE  \E f : Loops(D, stop, next, out, f)
<1> DEFINE R(x) == Reached(D, stop, next, x)
           End(S) == CHOOSE y : y \in S
           f == [x \in D |-> out[End(R(x) \cap stop)]]
<1>1. ASSUME NEW x \in D, x \in stop PROVE R(x) \cap stop = {x}
  <2>1. Carries(D, stop, next, {x})
    BY <1>1 DEF Carries
  <2>2. x \in R(x)
    BY DEF Reached
  <2>3. R(x) \subseteq {x}
    BY <2>1 DEF Reached
  <2> HIDE DEF R
  <2> QED
    BY <1>1, <2>2, <2>3
<1>2. ASSUME NEW x \in D, x \notin stop PROVE R(x) \cap stop = R(next[x]) \cap stop
  <2>1. R(next[x]) \subseteq R(x)
    BY <1>2 DEF Reached, Carries
  <2>2. ASSUME NEW y \in R(x), y \in stop PROVE y \in R(next[x])
    <3>1. ASSUME NEW P, Carries(D, stop, next, P), next[x] \in P PROVE y \in P
      <4>1. Carries(D, stop, next, P \cup {x})
        BY <3>1 DEF Carries
      <4>2. y \in P \cup {x}
        BY <4>1 DEF Reached
      <4> QED
        BY <1>2, <2>2, <4>2
    <3> QED
      BY <3>1 DEF Reached
  <2> HIDE DEF R
  <2> QED
    BY <2>1, <2>2
<1>3. ASSUME NEW x \in D PROVE f[x] = IF x \in stop THEN out[x] ELSE f[next[x]]
  <2> HIDE DEF R
  <2>1. CASE x \in stop
    <3>1. End({x}) = x
      OBVIOUS
    <3> HIDE DEF End
    <3> QED
      BY <1>1, <2>1, <3>1
  <2>2. CASE x \notin stop
    <3>1. next[x] \in D
      OBVIOUS
    <3> HIDE DEF End
    <3> QED
      BY <1>2, <2>2, <3>1
  <2> QED
    BY <2>1, <2>2
<1>4. f = [x \in D |-> f[x]]
  OBVIOUS
<1> HIDE DEF f
<1>5. f = [x \in D |-> IF x \in stop THEN out[x] ELSE f[next[x]]]
  BY <1>3, <1>4
<1> QED
  BY <1>5 DEF Loops

\* A loop whose measure falls comes to a stop, and what every turn keeps is
\* true there.
LEMMA LoopKeeps ==
  ASSUME NEW D, NEW stop, NEW next, NEW out, NEW f, Loops(D, stop, next, out, f),
         NEW P, Carries(D, stop, next, P), NEW m, Falls(P, stop, next, m)
  PROVE  \A x \in P : \E y \in P \cap stop : f[x] = out[y]
<1> DEFINE Odd == {x \in P : ~ \E y \in P \cap stop : f[x] = out[y]}
           Sizes == {m[x] : x \in Odd}
<1>1. P \in SUBSET D /\ \A x \in P : m[x] \in Nat
  BY DEF Carries, Falls
<1>2. \A x \in D : f[x] = IF x \in stop THEN out[x] ELSE f[next[x]]
  BY DEF Loops
<1>3. ASSUME Odd # {} PROVE FALSE
  <2>1. Sizes \in SUBSET Nat /\ Sizes # {}
    BY <1>1, <1>3
  <2>2. PICK s \in Sizes : \A j \in Sizes : s <= j
    <3> HIDE DEF Sizes
    <3> QED
      BY <2>1, LeastNatural
  <2>3. PICK x \in Odd : s = m[x]
    BY <2>2
  <2>4. x \in P /\ x \in D /\ x \notin stop
    BY <1>1, <1>2, <2>3
  <2>5. next[x] \in P /\ f[x] = f[next[x]] /\ m[next[x]] < m[x]
    BY <1>2, <2>4 DEF Falls, Carries
  <2>6. next[x] \in Odd
    BY <2>3, <2>5
  <2>7. m[x] <= m[next[x]]
    BY <2>2, <2>3, <2>6
  <2> QED
    BY <1>1, <2>4, <2>5, <2>7
<1> QED
  BY <1>3

\* The same of a loop that answers with the state it stops in.
LEMMA WalkKeeps ==
  ASSUME NEW D, NEW stop, NEW next, NEW f, Loops(D, stop, next, [x \in D |-> x], f),
         NEW P, Carries(D, stop, next, P), NEW m, Falls(D, stop, next, m)
  PROVE  \A x \in P : f[x] \in P \cap stop
<1> DEFINE out == [x \in D |-> x]
<1>1. Falls(P, stop, next, m)
  BY DEF Falls, Carries
<1>2. \A x \in P : \E y \in P \cap stop : f[x] = out[y]
  <2>1. Loops(D, stop, next, out, f)
    OBVIOUS
  <2> HIDE DEF out
  <2> QED
    BY <1>1, <2>1, LoopKeeps
<1> QED
  BY <1>2 DEF Carries

-----------------------------------------------------------------------------
(* The ancestors of a node, and the greatest ready part of a trail. *)

\* With what must precede v and all of S, S is everything.
Closes(edges, v, S) == \A e \in edges : e[2] \in S \cup {v} => e[1] \in S

More(edges, v, seen) == (UNION {Prerequisites(edges, n) : n \in seen \cup {v}}) \ seen

\* A walk has no more to see when what it has seen closes.
LEMMA MoreFacts ==
  ASSUME NEW edges, NEW v, NEW seen
  PROVE  /\ \A x : x \in More(edges, v, seen) <=>
                     x \notin seen /\ \E e \in edges : e[1] = x /\ e[2] \in seen \cup {v}
         /\ More(edges, v, seen) = {} <=> Closes(edges, v, seen)
<1>1. \A x : x \in More(edges, v, seen) <=>
               x \notin seen /\ \E e \in edges : e[1] = x /\ e[2] \in seen \cup {v}
  BY DEF More, Prerequisites
<1> QED
  BY <1>1 DEF Closes

\* A graph has finitely many ends.
LEMMA EndsFacts ==
  ASSUME NEW edges
  PROVE  /\ \A e \in edges : e[1] \in Ends(edges) /\ e[2] \in Ends(edges)
         /\ IsFiniteSet(edges) => IsFiniteSet(Ends(edges))
<1>1. \A e \in edges : e[1] \in Ends(edges) /\ e[2] \in Ends(edges)
  BY DEF Ends
<1>2. ASSUME IsFiniteSet(edges) PROVE IsFiniteSet(Ends(edges))
  <2> DEFINE F == {e[1] : e \in edges}
             T == {e[2] : e \in edges}
             from == [e \in edges |-> e[1]]
             to == [e \in edges |-> e[2]]
  <2>1. from \in Surjection(edges, F) /\ to \in Surjection(edges, T)
    BY DEF Surjection
  <2>2. Ends(edges) = F \cup T
    BY DEF Ends
  <2> HIDE DEF F, T, from, to
  <2>3. IsFiniteSet(F) /\ IsFiniteSet(T)
    BY <1>2, <2>1, FS_Surjection
  <2> QED
    BY <2>2, <2>3, FS_Union
<1> QED
  BY <1>1, <1>2

\* The ancestors of v are the least set that closes.
LEMMA AncestorsFacts ==
  ASSUME NEW edges, IsFiniteSet(edges), NEW v
  PROVE  /\ Ancestors(edges, v) \subseteq Ends(edges)
         /\ Closes(edges, v, Ancestors(edges, v))
         /\ \A S : Closes(edges, v, S) => Ancestors(edges, v) \subseteq S
<1> DEFINE N == Ends(edges)
           D == SUBSET N
           more(seen) == More(edges, v, seen)
           stop == {seen \in D : more(seen) = {}}
           next == [seen \in D |-> seen \cup more(seen)]
           id == [seen \in D |-> seen]
           m == [seen \in D |-> Cardinality(N \ seen)]
           Walks(f) == f = [seen \in D |-> IF more(seen) = {} THEN seen ELSE f[seen \cup more(seen)]]
           W == CHOOSE f : Walks(f)
<1>1. IsFiniteSet(N) /\ \A e \in edges : e[1] \in N
  BY EndsFacts
<1>2. \A seen : more(seen) \subseteq N
  BY <1>1, MoreFacts
<1>3. next \in [D -> D]
  BY <1>2
<1>5. \A seen \in D : m[seen] \in Nat
  <2>1. ASSUME NEW seen \in D PROVE Cardinality(N \ seen) \in Nat
    <3>1. N \ seen \in SUBSET N
      OBVIOUS
    <3> QED
      BY <1>1, <3>1, FS_Subset, FS_CardinalityType
  <2> QED
    BY <2>1
<1>6. Falls(D, stop, next, m)
  <2>1. ASSUME NEW seen \in D, seen \notin stop PROVE m[next[seen]] < m[seen]
    <3> DEFINE big == N \ seen
               small == N \ next[seen]
    <3>1. PICK x : x \in more(seen)
      BY <2>1
    <3>2. x \in N /\ x \notin seen /\ x \in next[seen] /\ seen \subseteq next[seen] /\ next[seen] \in D
      BY <1>2, <1>3, <2>1, <3>1, MoreFacts
    <3>3. small \in SUBSET big /\ small # big /\ big \in SUBSET N
      BY <3>2
    <3>4. m[next[seen]] = Cardinality(small) /\ m[seen] = Cardinality(big)
      BY <3>2
    <3> HIDE DEF big, small
    <3>5. IsFiniteSet(big)
      BY <1>1, <3>3, FS_Subset
    <3>6. IsFiniteSet(small) /\ Cardinality(small) <= Cardinality(big) /\ Cardinality(small) # Cardinality(big)
      BY <3>3, <3>5, FS_Subset
    <3>7. Cardinality(small) \in Nat /\ Cardinality(big) \in Nat
      BY <3>5, <3>6, FS_CardinalityType
    <3> HIDE DEF m, next
    <3> QED
      BY <3>4, <3>6, <3>7
  <2> HIDE DEF D, stop, next, m, N
  <2> QED
    BY <1>5, <2>1 DEF Falls
<1>7. \A f : Loops(D, stop, next, id, f) <=> Walks(f)
  <2>1. \A f : [seen \in D |-> IF seen \in stop THEN id[seen] ELSE f[next[seen]]]
                = [seen \in D |-> IF more(seen) = {} THEN seen ELSE f[seen \cup more(seen)]]
    BY <1>3
  <2> QED
    BY <2>1 DEF Loops
<1>8. Walks(W)
  <2>1. \E f : Loops(D, stop, next, id, f)
    <3> HIDE DEF D, stop, next, id
    <3> QED
      BY <1>3, LoopExists
  <2> QED
    BY <1>7, <2>1
<1>9. Ancestors(edges, v) = W[{}]
  BY DEF Ancestors, More
<1>10. Loops(D, stop, next, id, W)
  BY <1>7, <1>8
<1>11. \A P : Carries(D, stop, next, P) => \A x \in P : W[x] \in P \cap stop
  <2> HIDE DEF N, D, stop, next, m, W, more
  <2> QED
    BY <1>6, <1>10, WalkKeeps DEF id
<1>12. W[{}] \in D \cap stop
  <2>1. Carries(D, stop, next, D)
    BY <1>3 DEF Carries
  <2>2. {} \in D
    OBVIOUS
  <2> HIDE DEF W, D, stop, next
  <2> QED
    BY <1>11, <2>1, <2>2
<1>13. ASSUME NEW S, Closes(edges, v, S) PROVE W[{}] \subseteq S
  <2> DEFINE P == {x \in D : x \subseteq S}
  <2>1. \A x \in P : more(x) \subseteq S
    BY <1>13, MoreFacts DEF Closes
  <2>2. \A x \in P : next[x] \in P
    BY <1>3, <2>1
  <2>3. Carries(D, stop, next, P) /\ {} \in P
    BY <2>2 DEF Carries
  <2> HIDE DEF W, next, stop
  <2>4. W[{}] \in P
    BY <1>11, <2>3
  <2> QED
    BY <2>4
<1>14. Closes(edges, v, W[{}])
  <2> HIDE DEF W
  <2> QED
    BY <1>12, MoreFacts
<1> QED
  BY <1>9, <1>12, <1>13, <1>14

\* The part of a trail that stands on its own in the graph.
Stands(edges, s) == \A e \in edges : e[2] \in s => e[1] \in s

\* To stand on its own is to hold the ancestors of every member.
LEMMA StandsFacts ==
  ASSUME NEW edges, IsFiniteSet(edges), NEW s
  PROVE  Stands(edges, s) <=> \A n \in s : Ancestors(edges, n) \subseteq s
<1>1. ASSUME Stands(edges, s), NEW n \in s PROVE Ancestors(edges, n) \subseteq s
  <2>1. Closes(edges, n, s)
    BY <1>1 DEF Closes, Stands
  <2> QED
    BY <2>1, AncestorsFacts
<1>2. ASSUME \A n \in s : Ancestors(edges, n) \subseteq s PROVE Stands(edges, s)
  <2>1. ASSUME NEW e \in edges, e[2] \in s PROVE e[1] \in s
    <3>1. e[1] \in Ancestors(edges, e[2])
      BY AncestorsFacts DEF Closes
    <3> QED
      BY <1>2, <2>1, <3>1
  <2> QED
    BY <2>1 DEF Stands
<1> QED
  BY <1>1, <1>2

\* Shrinking leaves the union of all parts that stand on their own.
LEMMA GreatestReadyFacts ==
  ASSUME NEW floored, IsFiniteSet(floored.nodes), NEW ready
  PROVE  LET part == floored.nodes \cap ready
             edges == Trusted(floored.gates)
         IN  GreatestReady(floored, ready) = UNION {s \in SUBSET part : Stands(edges, s)}
<1> DEFINE N == floored.nodes
           edges == Trusted(floored.gates)
           part == N \cap ready
           D == SUBSET N
           stranded(t) == {e \in edges : e[2] \in t /\ e[1] \notin t}
           gone(t) == {e[2] : e \in stranded(t)}
           stop == {t \in D : stranded(t) = {}}
           next == [t \in D |-> t \ gone(t)]
           id == [t \in D |-> t]
           m == [t \in D |-> Cardinality(t)]
           Shrinks(f) == f = [t \in D |-> IF stranded(t) = {} THEN t ELSE f[t \ gone(t)]]
           W == CHOOSE f : Shrinks(f)
<1>1. next \in [D -> D]
  OBVIOUS
<1>3. \A t \in D : IsFiniteSet(t) /\ Cardinality(t) \in Nat
  <2> SUFFICES ASSUME NEW t \in D PROVE IsFiniteSet(t) /\ Cardinality(t) \in Nat
    OBVIOUS
  <2>1. IsFiniteSet(t)
    BY FS_Subset
  <2> QED
    BY <2>1, FS_CardinalityType
<1>4. \A t \in D : m[t] \in Nat
  BY <1>3
<1>5. Falls(D, stop, next, m)
  <2>1. ASSUME NEW t \in D, t \notin stop PROVE m[next[t]] < m[t]
    <3> DEFINE small == next[t]
    <3>1. PICK e \in edges : e[2] \in t /\ e[1] \notin t
      BY <2>1
    <3>2. e[2] \in t /\ e[2] \notin small /\ small \in SUBSET t /\ small \in D
      BY <3>1
    <3>3. m[small] = Cardinality(small) /\ m[t] = Cardinality(t) /\ small # t
      BY <3>2
    <3> HIDE DEF small, m
    <3>4. Cardinality(small) <= Cardinality(t) /\ Cardinality(small) # Cardinality(t)
      BY <1>3, <3>2, <3>3, FS_Subset
    <3>5. Cardinality(small) \in Nat /\ Cardinality(t) \in Nat
      BY <1>3, <3>2
    <3> QED
      BY <3>3, <3>4, <3>5 DEF small
  <2> HIDE DEF D, stop, next, m, N
  <2> QED
    BY <1>4, <2>1 DEF Falls
<1>6. \A f : Loops(D, stop, next, id, f) <=> Shrinks(f)
  <2>1. \A f : [t \in D |-> IF t \in stop THEN id[t] ELSE f[next[t]]]
                = [t \in D |-> IF stranded(t) = {} THEN t ELSE f[t \ gone(t)]]
    BY <1>1
  <2> QED
    BY <2>1 DEF Loops
<1>7. Shrinks(W)
  <2>1. \E f : Loops(D, stop, next, id, f)
    <3> HIDE DEF D, stop, next, id
    <3> QED
      BY <1>1, LoopExists
  <2> QED
    BY <1>6, <2>1
<1>8. GreatestReady(floored, ready) = W[part]
  BY DEF GreatestReady
<1>9. Loops(D, stop, next, id, W)
  BY <1>6, <1>7
<1>10. \A P : Carries(D, stop, next, P) => \A x \in P : W[x] \in P \cap stop
  <2> HIDE DEF D, stop, next, m, W
  <2> QED
    BY <1>5, <1>9, WalkKeeps DEF id
\* What stands on its own stays, and what is left stands and is part of it.
<1>11. W[part] \in SUBSET part /\ Stands(edges, W[part])
  <2> DEFINE P == {t \in D : t \subseteq part}
  <2>1. \A x \in P : next[x] \in P
    OBVIOUS
  <2>2. part \in P /\ Carries(D, stop, next, P)
    BY <2>1 DEF Carries
  <2> HIDE DEF W, next
  <2>3. W[part] \in P \cap stop
    BY <1>10, <2>2
  <2> QED
    BY <2>3 DEF Stands
<1>12. ASSUME NEW s \in SUBSET part, Stands(edges, s) PROVE s \subseteq W[part]
  <2> DEFINE P == {t \in D : s \subseteq t}
  <2>1. ASSUME NEW x \in P PROVE next[x] \in P
    <3>1. \A e \in stranded(x) : e[2] \notin s
      BY <1>12 DEF Stands
    <3>2. s \cap gone(x) = {}
      BY <3>1
    <3> QED
      BY <3>2
  <2>2. part \in P /\ Carries(D, stop, next, P)
    BY <2>1 DEF Carries
  <2> HIDE DEF W, next
  <2>3. W[part] \in P
    BY <1>10, <2>2
  <2> QED
    BY <2>3
<1>13. W[part] = UNION {s \in SUBSET part : Stands(edges, s)}
  <2> HIDE DEF W, part
  <2> QED
    BY <1>11, <1>12
<1> QED
  BY <1>8, <1>13

-----------------------------------------------------------------------------
(* Sorting, and folding along a list. *)

\* A proper part of a finite set is smaller.
LEMMA CardinalityShrinks ==
  ASSUME NEW big, IsFiniteSet(big), NEW small \in SUBSET big, small # big
  PROVE  Cardinality(small) \in Nat /\ Cardinality(big) \in Nat /\ Cardinality(small) < Cardinality(big)
<1>1. IsFiniteSet(small) /\ Cardinality(small) <= Cardinality(big) /\ Cardinality(small) # Cardinality(big)
  BY FS_Subset
<1>2. Cardinality(small) \in Nat /\ Cardinality(big) \in Nat
  BY <1>1, FS_CardinalityType
<1> QED
  BY <1>1, <1>2

\* A list one longer.
LEMMA AppendedRange ==
  ASSUME NEW s \in Seq(Nat), NEW x \in Nat
  PROVE  /\ Append(s, x) \in Seq(Nat)
         /\ Range(Append(s, x)) = Range(s) \cup {x}
         /\ IsInjective(s) /\ x \notin Range(s) => IsInjective(Append(s, x))
<1> DEFINE t == Append(s, x)
           n == Len(s)
<1>1. /\ n \in Nat /\ DOMAIN s = 1 .. n /\ DOMAIN t = 1 .. n + 1 /\ t \in Seq(Nat)
      /\ \A i \in 1 .. n : t[i] = s[i]
      /\ t[n + 1] = x
  OBVIOUS
<1> HIDE DEF t, n
<1>2. \A i \in 1 .. n + 1 : i = n + 1 \/ i \in 1 .. n
  BY <1>1
<1>3. n + 1 \in 1 .. n + 1 /\ \A i \in 1 .. n : i \in 1 .. n + 1
  BY <1>1
<1>4. Range(t) = Range(s) \cup {x}
  BY <1>1, <1>2, <1>3 DEF Range
<1>5. ASSUME IsInjective(s), x \notin Range(s) PROVE IsInjective(t)
  <2>1. \A i \in 1 .. n : s[i] # x
    BY <1>1, <1>5 DEF Range
  <2>2. \A i, j \in 1 .. n : s[i] = s[j] => i = j
    BY <1>1, <1>5 DEF IsInjective
  <2>3. \A i, j \in 1 .. n + 1 : t[i] = t[j] => i = j
    BY <1>1, <1>2, <2>1, <2>2
  <2> QED
    BY <1>1, <2>3 DEF IsInjective
<1> QED
  BY <1>1, <1>4, <1>5 DEF t

\* Sorting lists each member once.
LEMMA SortedFacts ==
  ASSUME NEW nodes \in SUBSET Nat, IsFiniteSet(nodes)
  PROVE  /\ Sorted(nodes, <) \in Seq(Nat)
         /\ Range(Sorted(nodes, <)) = nodes
         /\ IsInjective(Sorted(nodes, <))
<1> DEFINE D == Seq(Nat)
           left(placed) == {n \in (nodes \cup Ends({})) \ Range(placed) : Prerequisites({}, n) \subseteq Range(placed)}
           first(placed) == CHOOSE n \in left(placed) : \A k \in left(placed) \ {n} : n < k
           stop == {placed \in D : left(placed) = {}}
           next == [placed \in D |-> IF left(placed) = {} THEN placed ELSE Append(placed, first(placed))]
           id == [placed \in D |-> placed]
           m == [placed \in D |-> Cardinality(left(placed))]
           Places(f) == f = [placed \in D |-> IF left(placed) = {} THEN placed
                                              ELSE f[Append(placed, first(placed))]]
           W == CHOOSE f : Places(f)
<1>0. \A placed : left(placed) = nodes \ Range(placed)
  BY DEF Ends, Prerequisites
<1>1. ASSUME NEW placed \in D, left(placed) # {} PROVE first(placed) \in left(placed)
  <2> DEFINE l == left(placed)
  <2>1. l \in SUBSET Nat
    BY <1>0
  <2> HIDE DEF l
  <2>2. PICK n \in l : \A k \in l : n <= k
    BY <1>1, <2>1, LeastNatural DEF l
  <2>3. \A k \in l \ {n} : n < k
    BY <2>1, <2>2
  <2> QED
    BY <2>2, <2>3 DEF l
<1>2. ASSUME NEW placed \in D, left(placed) # {}
      PROVE  /\ next[placed] = Append(placed, first(placed)) /\ next[placed] \in D
             /\ Range(next[placed]) = Range(placed) \cup {first(placed)}
             /\ first(placed) \in left(placed)
             /\ IsInjective(placed) => IsInjective(next[placed])
  <2>1. first(placed) \in left(placed) /\ left(placed) \subseteq Nat
    BY <1>0, <1>1, <1>2
  <2>2. next[placed] = Append(placed, first(placed))
    BY <1>2
  <2>3. first(placed) \in Nat /\ first(placed) \notin Range(placed)
    BY <1>0, <2>1
  <2> HIDE DEF first, next, left
  <2> QED
    BY <2>1, <2>2, <2>3, AppendedRange
<1>3. next \in [D -> D]
  <2>1. \A placed \in D : next[placed] \in D
    <3> HIDE DEF first
    <3> QED
      BY <1>2
  <2> QED
    BY <2>1
<1>5. \A placed \in D : m[placed] \in Nat
  <2>1. ASSUME NEW placed \in D PROVE Cardinality(left(placed)) \in Nat
    <3> DEFINE l == left(placed)
    <3>1. l \in SUBSET nodes
      BY <1>0
    <3> HIDE DEF l
    <3>2. Cardinality(l) \in Nat
      BY <3>1, FS_Subset, FS_CardinalityType
    <3> QED
      BY <3>2 DEF l
  <2> QED
    BY <2>1
<1>6. Falls(D, stop, next, m)
  <2>1. ASSUME NEW placed \in D, placed \notin stop PROVE m[next[placed]] < m[placed]
    <3> DEFINE big == left(placed)
               small == left(next[placed])
    <3>1. big # {}
      BY <2>1
    <3>2. next[placed] \in D /\ Range(next[placed]) = Range(placed) \cup {first(placed)} /\ first(placed) \in big
      BY <1>2, <3>1
    <3>3. m[next[placed]] = Cardinality(small) /\ m[placed] = Cardinality(big)
      BY <3>2
    <3> HIDE DEF next, first, m, left
    <3>4. small \in SUBSET big /\ small # big /\ big \in SUBSET nodes
      BY <1>0, <3>2
    <3> HIDE DEF big, small
    <3>5. IsFiniteSet(big)
      BY <3>4, FS_Subset
    <3> QED
      BY <3>3, <3>4, <3>5, CardinalityShrinks
  <2> HIDE DEF D, stop, next, m
  <2> QED
    BY <1>5, <2>1 DEF Falls
<1>7. \A f : Loops(D, stop, next, id, f) <=> Places(f)
  <2>1. \A f : [p \in D |-> IF p \in stop THEN id[p] ELSE f[next[p]]]
                = [p \in D |-> IF left(p) = {} THEN p ELSE f[Append(p, first(p))]]
    <3> HIDE DEF first, left
    <3> QED
      OBVIOUS
  <2> QED
    BY <2>1 DEF Loops
<1>8. Loops(D, stop, next, id, W)
  <2>1. \E f : Loops(D, stop, next, id, f)
    <3> HIDE DEF D, stop, next, id
    <3> QED
      BY <1>3, LoopExists
  <2>2. Places(W)
    BY <1>7, <2>1
  <2> QED
    BY <1>7, <2>2
<1>9. Sorted(nodes, <) = W[<<>>]
  BY DEF Sorted, TopologicalOrder
<1> DEFINE P == {p \in D : Range(p) \subseteq nodes /\ IsInjective(p)}
<1>10. Carries(D, stop, next, P)
  <2>1. ASSUME NEW p \in P, p \notin stop PROVE next[p] \in P
    <3>1. p \in D /\ left(p) # {}
      BY <2>1
    <3>2. first(p) \in nodes
      BY <1>0, <1>1, <3>1
    <3> HIDE DEF next, first, left
    <3> QED
      BY <1>2, <3>1, <3>2
  <2> HIDE DEF D, stop, next
  <2> QED
    BY <2>1 DEF Carries
<1>11. <<>> \in P
  BY DEF Range, IsInjective
<1>12. W[<<>>] \in P \cap stop
  <2> HIDE DEF D, stop, next, m, W, P
  <2> QED
    BY <1>6, <1>8, <1>10, <1>11, WalkKeeps DEF id
<1> HIDE DEF W
<1>13. W[<<>>] \in P /\ nodes \ Range(W[<<>>]) = {}
  BY <1>0, <1>12
<1> QED
  BY <1>9, <1>13

\* A set of places has a last one.
LEMMA MaxFacts ==
  ASSUME NEW n \in Nat, NEW s \in SUBSET (1 .. n), s # {}
  PROVE  Max(s) \in s /\ \A x \in s : x <= Max(s)
<1> DEFINE below == {n - x : x \in s}
<1>1. below \in SUBSET Nat /\ below # {}
  <2>1. \A x \in s : n - x \in Nat
    OBVIOUS
  <2> QED
    BY <2>1
<1>2. PICK b \in below : \A c \in below : b <= c
  <2> HIDE DEF below
  <2> QED
    BY <1>1, LeastNatural
<1>3. PICK x \in s : b = n - x
  BY <1>2
<1>4. \A y \in s : x >= y
  <2> SUFFICES ASSUME NEW y \in s PROVE x >= y
    OBVIOUS
  <2>1. b <= n - y
    BY <1>2
  <2> QED
    BY <1>3, <2>1
<1>5. Max(s) \in s /\ \A y \in s : Max(s) >= y
  BY <1>3, <1>4 DEF Max
<1> QED
  BY <1>5

\* A fold along seq, by the function o.
FoldsBy(o, base, seq, n, f) ==
  f = [s \in SUBSET (1 .. n) |-> IF s = {} THEN base ELSE o[f[s \ {Max(s)}], seq[Max(s)]]]

\* A fold along a list has a function that computes it.
LEMMA FoldExists ==
  ASSUME NEW X, NEW E, NEW o \in [X \X E -> X], NEW base \in X, NEW n \in Nat, NEW seq \in [1 .. n -> E]
  PROVE  \E f \in [SUBSET (1 .. n) -> X] : FoldsBy(o, base, seq, n, f)
<1> DEFINE D == SUBSET (1 .. n)
           Value(f, s) == IF s = {} THEN base ELSE o[f[s \ {Max(s)}], seq[Max(s)]]
           Fits(f, k) == \A s \in SUBSET (1 .. k) : f[s] = Value(f, s)
           Never == {k \in 0 .. n : ~ \E f \in [D -> X] : Fits(f, k)}
<1>1. \A s \in D : s # {} => Max(s) \in s /\ Max(s) \in 1 .. n /\ s \ {Max(s)} \in D /\ \A x \in s : x <= Max(s)
  BY MaxFacts
<1>2. \A f \in [D -> X] : \A s \in D : Value(f, s) \in X
  <2> SUFFICES ASSUME NEW f \in [D -> X], NEW s \in D, s # {} PROVE o[f[s \ {Max(s)}], seq[Max(s)]] \in X
    OBVIOUS
  <2>1. f[s \ {Max(s)}] \in X /\ seq[Max(s)] \in E
    BY <1>1
  <2> QED
    BY <2>1
<1>3. ASSUME Never # {} PROVE FALSE
  <2>1. PICK k \in Never : \A j \in Never : k <= j
    <3>0. Never \subseteq 0 .. n
      OBVIOUS
    <3> HIDE DEF Never
    <3>1. Never \in SUBSET Nat
      BY <3>0
    <3> QED
      BY <1>3, <3>1, LeastNatural
  <2>2. k \in Nat /\ k <= n /\ n \in Nat
    <3>1. k \in 0 .. n
      BY <2>1
    <3> HIDE DEF Never, Fits
    <3> QED
      BY <3>1
  <2>5. \A s \in SUBSET (1 .. k) : s \in D
    <3>1. 1 .. k \subseteq 1 .. n
      <4> HIDE DEF Never, Fits, D, Value
      <4> QED
        BY <2>2
    <3> QED
      BY <3>1
  <2>3. CASE k = 0
    <3> DEFINE f == [s \in D |-> base]
    <3>1. f \in [D -> X]
      OBVIOUS
    <3>0. 1 .. 0 = {}
      <4> HIDE DEF Never, Fits, D, Value, f
      <4> QED
        OBVIOUS
    <3>2. Fits(f, 0)
      BY <3>0
    <3> HIDE DEF f, Fits
    <3> QED
      BY <2>1, <2>3, <3>1, <3>2
  <2>4. CASE k # 0
    <3>1. k - 1 \in 0 .. n /\ ~ (k <= k - 1)
      <4> HIDE DEF Never, Fits, D
      <4> QED
        BY <2>2, <2>4
    <3>2. PICK f \in [D -> X] : Fits(f, k - 1)
      BY <2>1, <3>1
    <3> DEFINE h == [s \in D |-> IF s \in SUBSET (1 .. k - 1) THEN f[s] ELSE Value(f, s)]
    <3>3. h \in [D -> X]
      <4> HIDE DEF Value
      <4> QED
        BY <1>2
    <3>4. ASSUME NEW s \in SUBSET (1 .. k) PROVE h[s] = Value(h, s)
      <4>1. s \in D
        BY <2>5
      <4>2. CASE s = {}
        BY <3>2, <4>1, <4>2
      <4>3. CASE s # {}
        <5> DEFINE t == s \ {Max(s)}
        <5>1. t \in D /\ Max(s) \in s /\ \A x \in s : x <= Max(s)
          BY <1>1, <4>1, <4>3
        <5>2. t \in SUBSET (1 .. k - 1)
          <6> SUFFICES ASSUME NEW x \in t PROVE x \in 1 .. k - 1
            OBVIOUS
          <6>1. x \in 1 .. k /\ x <= Max(s) /\ x # Max(s) /\ Max(s) \in 1 .. k
            BY <5>1
          <6> HIDE DEF Never, Fits, D, t, h, Value
          <6>2. \A y \in 1 .. k : x <= y /\ x # y => x \in 1 .. k - 1
            BY <2>2, <6>1
          <6> QED
            BY <6>1, <6>2
        <5>3. h[t] = f[t]
          BY <5>1, <5>2
        <5>4. h[s] = Value(f, s)
          <6>1. s \in SUBSET (1 .. k - 1) => f[s] = Value(f, s)
            BY <3>2
          <6> HIDE DEF Value
          <6> QED
            BY <4>1, <6>1
        <5> QED
          BY <5>3, <5>4
      <4> QED
        BY <4>2, <4>3
    <3> HIDE DEF h
    <3>5. Fits(h, k)
      BY <3>4
    <3> HIDE DEF Fits
    <3> QED
      BY <2>1, <3>3, <3>5
  <2> QED
    BY <2>3, <2>4
<1>4. n \in 0 .. n
  OBVIOUS
<1>5. PICK f \in [D -> X] : Fits(f, n)
  BY <1>3, <1>4
<1>6. f = [s \in D |-> f[s]]
  OBVIOUS
<1>7. f = [s \in D |-> Value(f, s)]
  BY <1>5, <1>6
<1> QED
  BY <1>5, <1>7 DEF FoldsBy

-----------------------------------------------------------------------------
(* The contraction of gates. *)

\* Gates between nodes of V.
Gates(V) == UNION {[E -> BOOLEAN] : E \in SUBSET (V \X V)}

\* What gates are.
LEMMA GatesFacts ==
  ASSUME NEW V, NEW g
  PROVE  g \in Gates(V) <=> DOMAIN g \in SUBSET (V \X V) /\ g \in [DOMAIN g -> BOOLEAN]
BY DEF Gates

\* The gates when f is taken out: those past it, and those through it.
LEMMA ContractFacts ==
  ASSUME NEW V, NEW g \in Gates(V), NEW f
  PROVE  LET c == Contract(g, f) IN
         /\ c \in Gates(V)
         /\ \A u, v : <<u, v>> \in DOMAIN c <=>
              \/ <<u, v>> \in DOMAIN g /\ u # f /\ v # f
              \/ u # v /\ <<u, f>> \in DOMAIN g /\ <<f, v>> \in DOMAIN g
         /\ \A u, v : <<u, v>> \in DOMAIN c =>
              c[<<u, v>>] = IF <<u, v>> \in DOMAIN g /\ u # f /\ v # f THEN g[<<u, v>>]
                            ELSE g[<<u, f>>] /\ g[<<f, v>>]
<1> DEFINE into == {e \in DOMAIN g : e[2] = f}
           outOf == {e \in DOMAIN g : e[1] = f}
           rest == DOMAIN g \ (into \cup outOf)
           through == {<<i[1], o[2]>> : i \in into, o \in outOf}
           wired == {t \in through : t[1] # t[2]}
           c == Contract(g, f)
<1>1. DOMAIN g \in SUBSET (V \X V) /\ g \in [DOMAIN g -> BOOLEAN]
  BY GatesFacts
<1>2. c = [e \in rest \cup wired |-> IF e \in rest THEN g[e] ELSE g[<<e[1], f>>] /\ g[<<f, e[2]>>]]
  BY DEF Contract
<1>3. \A u, v : <<u, v>> \in rest <=> <<u, v>> \in DOMAIN g /\ u # f /\ v # f
  OBVIOUS
<1>4. \A u, v : <<u, v>> \in wired <=> u # v /\ <<u, f>> \in DOMAIN g /\ <<f, v>> \in DOMAIN g
  <2>1. ASSUME NEW u, NEW v, <<u, v>> \in wired PROVE u # v /\ <<u, f>> \in DOMAIN g /\ <<f, v>> \in DOMAIN g
    <3>1. PICK i \in into : \E o \in outOf : <<u, v>> = <<i[1], o[2]>>
      BY <2>1
    <3>2. PICK o \in outOf : <<u, v>> = <<i[1], o[2]>>
      BY <3>1
    <3>3. u = i[1] /\ v = o[2] /\ i \in V \X V /\ o \in V \X V
      BY <1>1, <3>2
    <3>4. i = <<u, f>> /\ o = <<f, v>>
      BY <3>3
    <3>5. u # v
      BY <2>1
    <3> QED
      BY <3>4, <3>5
  <2>2. ASSUME NEW u, NEW v, u # v, <<u, f>> \in DOMAIN g, <<f, v>> \in DOMAIN g PROVE <<u, v>> \in wired
    <3>1. <<u, f>> \in into /\ <<f, v>> \in outOf /\ <<u, f>>[1] = u /\ <<f, v>>[2] = v
      BY <2>2
    <3>2. <<u, v>> \in through
      BY <3>1
    <3> QED
      BY <2>2, <3>2
  <2> HIDE DEF wired
  <2> QED
    BY <2>1, <2>2
<1>5. rest \in SUBSET (V \X V)
  BY <1>1
<1>6. wired \in SUBSET (V \X V)
  <2> SUFFICES ASSUME NEW t \in wired PROVE t \in V \X V
    OBVIOUS
  <2>1. PICK i \in into : \E o \in outOf : t = <<i[1], o[2]>>
    OBVIOUS
  <2>2. PICK o \in outOf : t = <<i[1], o[2]>>
    BY <2>1
  <2>3. i \in V \X V /\ o \in V \X V
    BY <1>1
  <2> QED
    BY <2>2, <2>3
<1>7. \A e \in wired : <<e[1], f>> \in DOMAIN g /\ <<f, e[2]>> \in DOMAIN g
  <2> SUFFICES ASSUME NEW e \in wired PROVE <<e[1], f>> \in DOMAIN g /\ <<f, e[2]>> \in DOMAIN g
    OBVIOUS
  <2>1. e = <<e[1], e[2]>>
    BY <1>6
  <2> HIDE DEF wired
  <2> QED
    BY <1>4, <2>1
<1> HIDE DEF rest, wired
<1>8. DOMAIN c = rest \cup wired /\ \A e \in rest \cup wired : c[e] \in BOOLEAN
  <2>1. rest \subseteq DOMAIN g
    BY DEF rest
  <2> QED
    BY <1>1, <1>2, <1>7, <2>1
<1>9. c \in Gates(V)
  <2>1. c \in [DOMAIN c -> BOOLEAN] /\ DOMAIN c \in SUBSET (V \X V)
    BY <1>2, <1>5, <1>6, <1>8
  <2> HIDE DEF c
  <2> QED
    BY <2>1, GatesFacts
<1>10. \A u, v : <<u, v>> \in DOMAIN c =>
         c[<<u, v>>] = IF <<u, v>> \in rest THEN g[<<u, v>>] ELSE g[<<u, f>>] /\ g[<<f, v>>]
  BY <1>2, <1>8
<1> HIDE DEF c
<1> QED
  BY <1>3, <1>4, <1>8, <1>9, <1>10 DEF c

\* The gates after each of the floored nodes has been taken out.
GateChain(gates, order, c) ==
  /\ c = [k \in 0 .. Len(order) |-> c[k]]
  /\ c[0] = gates
  /\ \A k \in 1 .. Len(order) : c[k] = Contract(c[k - 1], order[k])

\* To fold the contraction is to go along the chain.
LEMMA FoldIsChain ==
  ASSUME NEW V, NEW gates \in Gates(V), NEW order \in Seq(Nat)
  PROVE  \E c : GateChain(gates, order, c) /\ FoldLeft(Contract, gates, order) = c[Len(order)]
<1> DEFINE n == Len(order)
           D == SUBSET (1 .. n)
           X == Gates(V)
           o == [p \in X \X Nat |-> Contract(p[1], p[2])]
           Folds(f) == f = [s \in D |-> IF s = {} THEN gates ELSE Contract(f[s \ {Max(s)}], order[Max(s)])]
           F == CHOOSE f : Folds(f)
<1>1. n \in Nat /\ order \in [1 .. n -> Nat] /\ DOMAIN order = 1 .. n
  OBVIOUS
<1>2. o \in [X \X Nat -> X]
  BY ContractFacts
<1>3. PICK f \in [D -> X] : FoldsBy(o, gates, order, n, f)
  <2>1. gates \in X
    OBVIOUS
  <2> HIDE DEF o, X, n
  <2> QED
    BY <1>1, <1>2, <2>1, FoldExists
<1>4. Folds(f)
  <2>1. ASSUME NEW s \in D, s # {}
        PROVE  o[f[s \ {Max(s)}], order[Max(s)]] = Contract(f[s \ {Max(s)}], order[Max(s)])
    <3>1. Max(s) \in s
      BY <1>1, <2>1, MaxFacts
    <3>2. f[s \ {Max(s)}] \in X /\ order[Max(s)] \in Nat
      BY <1>1, <1>3, <3>1
    <3> HIDE DEF X
    <3> QED
      BY <3>2
  <2>2. f = [s \in D |-> IF s = {} THEN gates ELSE o[f[s \ {Max(s)}], order[Max(s)]]]
    BY <1>3 DEF FoldsBy
  <2> HIDE DEF o, D
  <2> QED
    BY <2>1, <2>2
<1>5. Folds(F)
  BY <1>4
<1>6. FoldLeft(Contract, gates, order) = F[1 .. n]
  BY <1>1 DEF FoldLeft, MapThenFoldSet
<1> DEFINE c == [k \in 0 .. n |-> F[1 .. k]]
<1>7. \A s \in D : F[s] = IF s = {} THEN gates ELSE Contract(F[s \ {Max(s)}], order[Max(s)])
  BY <1>5
<1> HIDE DEF F
<1>8. c[0] = gates /\ c[n] = F[1 .. n] /\ c = [k \in 0 .. n |-> c[k]]
  <2>1. 1 .. 0 = {} /\ 1 .. 0 \in D
    OBVIOUS
  <2>2. 0 \in 0 .. n /\ n \in 0 .. n
    BY <1>1
  <2> QED
    BY <1>7, <2>1, <2>2
<1>9. ASSUME NEW k \in 1 .. n PROVE c[k] = Contract(c[k - 1], order[k])
  <2> DEFINE s == 1 .. k
  <2>1. s \in D /\ s # {} /\ k \in s /\ \A x \in s : x <= k
    BY <1>1
  <2>2. Max(s) \in s /\ k <= Max(s)
    BY <1>1, <2>1, MaxFacts
  <2>3. Max(s) = k
    BY <1>1, <2>1, <2>2
  <2>4. s \ {k} = 1 .. k - 1
    BY <1>1
  <2>5. F[s] = Contract(F[1 .. k - 1], order[k])
    BY <1>7, <2>1, <2>3, <2>4
  <2>6. k - 1 \in 0 .. n /\ k \in 0 .. n
    BY <1>1
  <2> QED
    BY <2>5, <2>6
<1> HIDE DEF c
<1>10. GateChain(gates, order, c)
  BY <1>8, <1>9 DEF GateChain
<1> QED
  BY <1>6, <1>8, <1>10
-----------------------------------------------------------------------------
(* Ways through floored nodes. *)

\* The nodes from which some way through the nodes F leads to v.
Leads(E, F, v) == Ancestors({e \in E : e[2] = v \/ e[2] \in F}, v)

\* With what leads to v straight or through its own members, S is everything.
Sources(E, F, v, S) == \A e \in E : e[2] = v \/ (e[2] \in F /\ e[2] \in S) => e[1] \in S

\* What leads to v is the least set that holds its own sources.
LEMMA LeadsIsLeast ==
  ASSUME NEW E, IsFiniteSet(E), NEW F, NEW v
  PROVE  /\ Sources(E, F, v, Leads(E, F, v))
         /\ \A S : Sources(E, F, v, S) => Leads(E, F, v) \subseteq S
<1> DEFINE into == {e \in E : e[2] = v \/ e[2] \in F}
           L == Ancestors(into, v)
<1>1. IsFiniteSet(into)
  BY FS_Subset
<1>2. Closes(into, v, L) /\ \A S : Closes(into, v, S) => L \subseteq S
  <2> HIDE DEF into
  <2> QED
    BY <1>1, AncestorsFacts
<1>3. \A S : Closes(into, v, S) <=> Sources(E, F, v, S)
  BY DEF Closes, Sources
<1> HIDE DEF L, into
<1> QED
  BY <1>2, <1>3 DEF Leads, L, into

\* The ways of the property are these.
LEMMA LeadsIsThroughFloored ==
  ASSUME NEW E, IsFiniteSet(E), NEW F, NEW u, NEW v
  PROVE  ThroughFloored(E, F, u, v) <=> u \in Leads(E, F, v)
<1> DEFINE inner == {e \in E : (e[1] = u \/ e[1] \in F) /\ (e[2] = v \/ e[2] \in F)}
           A == Ancestors(inner, v)
           L == Leads(E, F, v)
           S == {x \in L : x \in A \/ (x # u /\ x \notin F)}
<1>1. IsFiniteSet(inner)
  BY FS_Subset
<1>2. Closes(inner, v, A) /\ \A T : Closes(inner, v, T) => A \subseteq T
  <2> HIDE DEF inner
  <2> QED
    BY <1>1, AncestorsFacts
<1>3. Sources(E, F, v, L) /\ \A T : Sources(E, F, v, T) => L \subseteq T
  BY LeadsIsLeast
<1> HIDE DEF A, L
<1>4. A \subseteq L
  <2>1. Closes(inner, v, L)
    BY <1>3 DEF Closes, Sources
  <2> QED
    BY <1>2, <2>1
<1>5. Sources(E, F, v, S)
  <2>1. ASSUME NEW e \in E, e[2] = v \/ (e[2] \in F /\ e[2] \in S) PROVE e[1] \in S
    <3>1. e[1] \in L
      BY <1>3, <2>1 DEF Sources
    <3>2. CASE e[1] # u /\ e[1] \notin F
      BY <3>1, <3>2
    <3>3. CASE e[1] = u \/ e[1] \in F
      <4>1. e \in inner
        BY <2>1, <3>3
      <4>2. e[2] \in A \cup {v}
        BY <2>1
      <4>3. e[1] \in A
        BY <1>2, <4>1, <4>2 DEF Closes
      <4> QED
        BY <3>1, <4>3
    <3> QED
      BY <3>2, <3>3
  <2> HIDE DEF S
  <2> QED
    BY <2>1 DEF Sources
<1>6. L \subseteq S
  BY <1>3, <1>5
<1>7. u \in A <=> u \in L
  BY <1>4, <1>6
<1> QED
  BY <1>7 DEF ThroughFloored, A, L

\* Ways start with an edge, are joined in F, and stay when edges or F grow.
LEMMA LeadsFacts ==
  ASSUME NEW E, IsFiniteSet(E), NEW F, NEW v
  PROVE  /\ \A e \in E : e[2] = v => e[1] \in Leads(E, F, v)
         /\ \A e \in E : e[2] \in F /\ e[2] \in Leads(E, F, v) => e[1] \in Leads(E, F, v)
         /\ \A z \in F : z \in Leads(E, F, v) => Leads(E, F, z) \subseteq Leads(E, F, v)
         /\ \A D \in SUBSET E, G \in SUBSET F : Leads(D, G, v) \subseteq Leads(E, F, v)
<1> DEFINE L == Leads(E, F, v)
<1>1. Sources(E, F, v, L)
  BY LeadsIsLeast
<1> HIDE DEF L
<1>2. ASSUME NEW z \in F, z \in L PROVE Leads(E, F, z) \subseteq L
  <2>1. Sources(E, F, z, L)
    BY <1>1, <1>2 DEF Sources
  <2> QED
    BY <2>1, LeadsIsLeast
<1>3. ASSUME NEW D \in SUBSET E, NEW G \in SUBSET F PROVE Leads(D, G, v) \subseteq L
  <2>1. Sources(D, G, v, L)
    BY <1>1 DEF Sources
  <2>2. IsFiniteSet(D)
    BY FS_Subset
  <2> QED
    BY <2>1, <2>2, LeadsIsLeast
<1>4. /\ \A e \in E : e[2] = v => e[1] \in L
      /\ \A e \in E : e[2] \in F /\ e[2] \in L => e[1] \in L
  BY <1>1 DEF Sources
<1> QED
  BY <1>2, <1>3, <1>4 DEF L

\* One node more to lead through: a way through it is a way to it and one from it.
LEMMA LeadsThroughOneMore ==
  ASSUME NEW E, IsFiniteSet(E), NEW F, NEW f, NEW v, NEW u
  PROVE  u \in Leads(E, F \cup {f}, v) <=>
           u \in Leads(E, F, v) \/ (u \in Leads(E, F, f) /\ f \in Leads(E, F, v))
<1> DEFINE G == F \cup {f}
           S == {x \in Leads(E, F, v) \cup Leads(E, F, f) :
                   x \in Leads(E, F, v) \/ f \in Leads(E, F, v)}
<1>1. Sources(E, F, v, Leads(E, F, v)) /\ Sources(E, F, f, Leads(E, F, f))
  BY LeadsIsLeast
<1>2. Sources(E, G, v, S)
  <2>1. ASSUME NEW e \in E, e[2] = v \/ (e[2] \in G /\ e[2] \in S) PROVE e[1] \in S
    BY <1>1, <2>1 DEF Sources
  <2> HIDE DEF S, G
  <2> QED
    BY <2>1 DEF Sources
<1>3. Leads(E, G, v) \subseteq S
  <2> HIDE DEF S, G
  <2> QED
    BY <1>2, LeadsIsLeast
<1>4. Leads(E, F, v) \subseteq Leads(E, G, v) /\ Leads(E, F, f) \subseteq Leads(E, G, f)
  <2>1. E \in SUBSET E /\ F \in SUBSET G
    OBVIOUS
  <2> HIDE DEF G
  <2> QED
    BY <2>1, LeadsFacts
<1>5. f \in Leads(E, G, v) => Leads(E, G, f) \subseteq Leads(E, G, v)
  <2>1. f \in G
    OBVIOUS
  <2> HIDE DEF G
  <2> QED
    BY <2>1, LeadsFacts
<1> QED
  BY <1>3, <1>4, <1>5

\* Through no node, a way is an edge.
LEMMA LeadsThroughNone ==
  ASSUME NEW E, IsFiniteSet(E), NEW V, E \in SUBSET (V \X V), NEW u, NEW v
  PROVE  u \in Leads(E, {}, v) <=> <<u, v>> \in E
<1> DEFINE S == {e[1] : e \in {d \in E : d[2] = v}}
<1>1. Sources(E, {}, v, S)
  BY DEF Sources
<1>2. Leads(E, {}, v) \subseteq S /\ \A e \in E : e[2] = v => e[1] \in Leads(E, {}, v)
  BY <1>1, LeadsIsLeast, LeadsFacts
<1>3. u \in S => <<u, v>> \in E
  <2> SUFFICES ASSUME u \in S PROVE <<u, v>> \in E
    OBVIOUS
  <2>1. PICK e \in E : e[2] = v /\ e[1] = u
    OBVIOUS
  <2>2. e = <<e[1], e[2]>>
    OBVIOUS
  <2> QED
    BY <2>1, <2>2
<1>4. <<u, v>> \in E => <<u, v>>[2] = v /\ <<u, v>>[1] = u
  OBVIOUS
<1> HIDE DEF S
<1> QED
  BY <1>2, <1>3, <1>4
-----------------------------------------------------------------------------
(* What a chain of contractions keeps. *)

\* A gate past f is as trusted as it was, one through f as both its halves.
LEMMA ContractTrusts ==
  ASSUME NEW V, NEW g \in Gates(V), NEW f, NEW u, NEW v, <<u, v>> \in DOMAIN Contract(g, f)
  PROVE  <<u, v>> \in Trusted(Contract(g, f)) <=>
           IF <<u, v>> \in DOMAIN g /\ u # f /\ v # f THEN <<u, v>> \in Trusted(g)
           ELSE <<u, f>> \in Trusted(g) /\ <<f, v>> \in Trusted(g)
<1> DEFINE c == Contract(g, f)
           stays == <<u, v>> \in DOMAIN g /\ u # f /\ v # f
<1>1. \/ stays
      \/ <<u, f>> \in DOMAIN g /\ <<f, v>> \in DOMAIN g
  BY ContractFacts
<1>2. c[<<u, v>>] = IF stays THEN g[<<u, v>>] ELSE g[<<u, f>>] /\ g[<<f, v>>]
  BY ContractFacts
<1>3. <<u, v>> \in Trusted(c) <=> c[<<u, v>>]
  BY DEF Trusted
<1>4. \A e : e \in Trusted(g) <=> e \in DOMAIN g /\ g[e]
  BY DEF Trusted
<1> HIDE DEF c
<1>5. CASE stays
  <2>1. c[<<u, v>>] = g[<<u, v>>]
    BY <1>2, <1>5
  <2> QED
    BY <1>3, <1>4, <1>5, <2>1 DEF c
<1>6. CASE ~ stays
  <2>1. c[<<u, v>>] = (g[<<u, f>>] /\ g[<<f, v>>])
    BY <1>2, <1>6
  <2>2. <<u, v>> \in Trusted(c) <=> <<u, f>> \in Trusted(g) /\ <<f, v>> \in Trusted(g)
    BY <1>1, <1>3, <1>4, <1>6, <2>1
  <2> QED
    BY <1>6, <2>2 DEF c
<1> QED
  BY <1>5, <1>6

\* An uncertain edge on some way from u to v.
Doubted(E, T, F, u, v) ==
  \E e \in E \ T : /\ e[1] = u \/ (e[1] \in F /\ u \in Leads(E, F, e[1]))
                   /\ e[2] = v \/ (e[2] \in F /\ e[2] \in Leads(E, F, v))

(* The gates that are left without F: none is at F or joins a node to itself,*)
(* they are the ways through F, a trusted one is a trusted way, and one that  *)
(* is not has an uncertain edge on a way.                                     *)
Keeps(V, E, T, F, c) ==
  /\ c \in Gates(V)
  /\ \A u, v : <<u, v>> \in DOMAIN c => u \notin F /\ v \notin F /\ u # v
  /\ \A u, v : u \notin F /\ v \notin F /\ u # v => (<<u, v>> \in DOMAIN c <=> u \in Leads(E, F, v))
  /\ \A u, v : u # v /\ <<u, v>> \in Trusted(c) => u \in Leads(T, F, v)
  /\ \A u, v : u # v /\ <<u, v>> \in DOMAIN c /\ <<u, v>> \notin Trusted(c) => Doubted(E, T, F, u, v)

\* What was doubted stays so, and so does what it leads on to.
LEMMA DoubtGrows ==
  ASSUME NEW E, IsFiniteSet(E), NEW T, NEW F, NEW f, NEW u, NEW v
  PROVE  /\ Doubted(E, T, F, u, v) => Doubted(E, T, F \cup {f}, u, v)
         /\ Doubted(E, T, F, u, f) /\ f \in Leads(E, F, v) => Doubted(E, T, F \cup {f}, u, v)
         /\ u \in Leads(E, F, f) /\ Doubted(E, T, F, f, v) => Doubted(E, T, F \cup {f}, u, v)
<1> DEFINE G == F \cup {f}
<1>1. F \in SUBSET G /\ f \in G /\ E \in SUBSET E
  OBVIOUS
<1> HIDE DEF G
<1>2. \A x : Leads(E, F, x) \subseteq Leads(E, G, x)
  BY <1>1, LeadsFacts
<1>3. \A x : \A z \in G : z \in Leads(E, G, x) => Leads(E, G, z) \subseteq Leads(E, G, x)
  BY LeadsFacts
<1>4. ASSUME Doubted(E, T, F, u, v) PROVE Doubted(E, T, G, u, v)
  BY <1>1, <1>2, <1>4 DEF Doubted
<1>5. ASSUME Doubted(E, T, F, u, f), f \in Leads(E, F, v) PROVE Doubted(E, T, G, u, v)
  <2>1. PICK e \in E \ T : /\ e[1] = u \/ (e[1] \in F /\ u \in Leads(E, F, e[1]))
                           /\ e[2] = f \/ (e[2] \in F /\ e[2] \in Leads(E, F, f))
    BY <1>5 DEF Doubted
  <2>2. e[2] \in G /\ e[2] \in Leads(E, G, v)
    BY <1>1, <1>2, <1>3, <1>5, <2>1
  <2>3. e[1] = u \/ (e[1] \in G /\ u \in Leads(E, G, e[1]))
    BY <1>1, <1>2, <2>1
  <2> QED
    BY <2>2, <2>3 DEF Doubted
<1>6. ASSUME u \in Leads(E, F, f), Doubted(E, T, F, f, v) PROVE Doubted(E, T, G, u, v)
  <2>1. PICK e \in E \ T : /\ e[1] = f \/ (e[1] \in F /\ f \in Leads(E, F, e[1]))
                           /\ e[2] = v \/ (e[2] \in F /\ e[2] \in Leads(E, F, v))
    BY <1>6 DEF Doubted
  <2>2. e[1] \in G /\ u \in Leads(E, G, e[1])
    BY <1>1, <1>2, <1>3, <1>6, <2>1
  <2>3. e[2] = v \/ (e[2] \in G /\ e[2] \in Leads(E, G, v))
    BY <1>1, <1>2, <2>1
  <2> QED
    BY <2>2, <2>3 DEF Doubted
<1> QED
  BY <1>4, <1>5, <1>6 DEF G

\* One node is taken out.
LEMMA ContractKeeps ==
  ASSUME NEW V, NEW E, IsFiniteSet(E), NEW T \in SUBSET E, NEW F, NEW c, Keeps(V, E, T, F, c),
         NEW f, f \notin F
  PROVE  Keeps(V, E, T, F \cup {f}, Contract(c, f))
<1> DEFINE G == F \cup {f}
           d == Contract(c, f)
<1>1. /\ c \in Gates(V)
      /\ \A u, v : <<u, v>> \in DOMAIN c => u \notin F /\ v \notin F /\ u # v
      /\ \A u, v : u \notin F /\ v \notin F /\ u # v => (<<u, v>> \in DOMAIN c <=> u \in Leads(E, F, v))
      /\ \A u, v : u # v /\ <<u, v>> \in Trusted(c) => u \in Leads(T, F, v)
      /\ \A u, v : u # v /\ <<u, v>> \in DOMAIN c /\ <<u, v>> \notin Trusted(c) => Doubted(E, T, F, u, v)
  BY DEF Keeps
<1>2. /\ d \in Gates(V)
      /\ \A u, v : <<u, v>> \in DOMAIN d <=>
           \/ <<u, v>> \in DOMAIN c /\ u # f /\ v # f
           \/ u # v /\ <<u, f>> \in DOMAIN c /\ <<f, v>> \in DOMAIN c
  BY <1>1, ContractFacts
<1>3. \A u, v : <<u, v>> \in DOMAIN d =>
        (<<u, v>> \in Trusted(d) <=>
           IF <<u, v>> \in DOMAIN c /\ u # f /\ v # f THEN <<u, v>> \in Trusted(c)
           ELSE <<u, f>> \in Trusted(c) /\ <<f, v>> \in Trusted(c))
  BY <1>1, ContractTrusts
<1>4. IsFiniteSet(T)
  BY FS_Subset
<1>5. \A u, v : /\ u \in Leads(E, G, v) <=> u \in Leads(E, F, v) \/ (u \in Leads(E, F, f) /\ f \in Leads(E, F, v))
                /\ u \in Leads(T, G, v) <=> u \in Leads(T, F, v) \/ (u \in Leads(T, F, f) /\ f \in Leads(T, F, v))
  BY <1>4, LeadsThroughOneMore
<1>6. \A x : x \notin G <=> x \notin F /\ x # f
  OBVIOUS
<1>0. \A g : Trusted(g) \subseteq DOMAIN g
  BY DEF Trusted
<1> HIDE DEF G, d
<1>7. ASSUME NEW u, NEW v, <<u, v>> \in DOMAIN d PROVE u \notin G /\ v \notin G /\ u # v
  <2>1. CASE <<u, v>> \in DOMAIN c /\ u # f /\ v # f
    BY <1>1, <1>6, <2>1
  <2>2. CASE <<u, f>> \in DOMAIN c /\ <<f, v>> \in DOMAIN c /\ ~ (<<u, v>> \in DOMAIN c /\ u # f /\ v # f)
    <3>1. u \notin F /\ v \notin F
      BY <1>1, <2>2
    <3>2. u # f /\ v # f
      BY <1>1, <2>2
    <3>3. u # v
      BY <1>2, <1>7, <2>2
    <3> QED
      BY <1>6, <3>1, <3>2, <3>3
  <2> QED
    BY <1>2, <1>7, <2>1, <2>2
<1>8. ASSUME NEW u, NEW v, u \notin G, v \notin G, u # v
      PROVE  <<u, v>> \in DOMAIN d <=> u \in Leads(E, G, v)
  <2>1. u \notin F /\ v \notin F /\ u # f /\ v # f
    BY <1>6, <1>8
  <2>2. /\ <<u, v>> \in DOMAIN c <=> u \in Leads(E, F, v)
        /\ <<u, f>> \in DOMAIN c <=> u \in Leads(E, F, f)
        /\ <<f, v>> \in DOMAIN c <=> f \in Leads(E, F, v)
    <3>1. <<u, v>> \in DOMAIN c <=> u \in Leads(E, F, v)
      BY <1>1, <1>8, <2>1
    <3>2. <<u, f>> \in DOMAIN c <=> u \in Leads(E, F, f)
      BY <1>1, <2>1
    <3>3. <<f, v>> \in DOMAIN c <=> f \in Leads(E, F, v)
      BY <1>1, <2>1
    <3> QED
      BY <3>1, <3>2, <3>3
  <2> QED
    BY <1>2, <1>5, <1>8, <2>1, <2>2
<1>9. ASSUME NEW u, NEW v, u # v, <<u, v>> \in Trusted(d) PROVE u \in Leads(T, G, v)
  <2>1. <<u, v>> \in DOMAIN d /\ u # f /\ v # f
    BY <1>0, <1>6, <1>7, <1>9
  <2>2. <<u, v>> \in Trusted(c) \/ (<<u, f>> \in Trusted(c) /\ <<f, v>> \in Trusted(c))
    BY <1>3, <1>9, <2>1
  <2> QED
    BY <1>1, <1>5, <1>9, <2>1, <2>2
<1>10. ASSUME NEW u, NEW v, u # v, <<u, v>> \in DOMAIN d, <<u, v>> \notin Trusted(d)
       PROVE  Doubted(E, T, G, u, v)
  <2>1. u # f /\ v # f
    BY <1>6, <1>7, <1>10
  <2>2. CASE <<u, v>> \in DOMAIN c
    <3>1. <<u, v>> \notin Trusted(c)
      BY <1>3, <1>10, <2>1, <2>2
    <3>2. Doubted(E, T, F, u, v)
      BY <1>1, <1>10, <2>2, <3>1
    <3> QED
      BY <3>2, DoubtGrows DEF G
  <2>3. CASE <<u, v>> \notin DOMAIN c
    <3>1. <<u, f>> \in DOMAIN c /\ <<f, v>> \in DOMAIN c
      BY <1>2, <1>10, <2>3
    <3>2. <<u, f>> \notin Trusted(c) \/ <<f, v>> \notin Trusted(c)
      BY <1>3, <1>10, <2>3
    <3>3. u \in Leads(E, F, f) /\ f \in Leads(E, F, v)
      BY <1>1, <2>1, <3>1
    <3>4. Doubted(E, T, F, u, f) \/ Doubted(E, T, F, f, v)
      BY <1>1, <2>1, <3>1, <3>2
    <3> QED
      BY <3>3, <3>4, DoubtGrows DEF G
  <2> QED
    BY <2>2, <2>3
<1>11. Keeps(V, E, T, G, d)
  BY <1>2, <1>7, <1>8, <1>9, <1>10 DEF Keeps
<1> QED
  BY <1>11 DEF G, d

\* The gates a chain of contractions starts from.
LEMMA GatesKeep ==
  ASSUME NEW V, IsFiniteSet(V), NEW g \in Gates(V), \A u : <<u, u>> \notin DOMAIN g
  PROVE  /\ IsFiniteSet(DOMAIN g) /\ Trusted(g) \in SUBSET (DOMAIN g)
         /\ Keeps(V, DOMAIN g, Trusted(g), {}, g)
<1>1. DOMAIN g \in SUBSET (V \X V)
  BY GatesFacts
<1>2. IsFiniteSet(DOMAIN g) /\ Trusted(g) \in SUBSET (DOMAIN g)
  <2>1. IsFiniteSet(V \X V)
    BY FS_Product
  <2> QED
    BY <1>1, <2>1, FS_Subset DEF Trusted
<1>3. IsFiniteSet(Trusted(g)) /\ Trusted(g) \in SUBSET (V \X V)
  BY <1>1, <1>2, FS_Subset
<1>4. \A u, v : /\ u \in Leads(DOMAIN g, {}, v) <=> <<u, v>> \in DOMAIN g
                /\ u \in Leads(Trusted(g), {}, v) <=> <<u, v>> \in Trusted(g)
  BY <1>1, <1>2, <1>3, LeadsThroughNone
<1>5. ASSUME NEW u, NEW v, <<u, v>> \in DOMAIN g, <<u, v>> \notin Trusted(g)
      PROVE  Doubted(DOMAIN g, Trusted(g), {}, u, v)
  <2>1. <<u, v>>[1] = u /\ <<u, v>>[2] = v /\ <<u, v>> \in DOMAIN g \ Trusted(g)
    BY <1>5
  <2> QED
    BY <2>1 DEF Doubted
<1> QED
  BY <1>2, <1>4, <1>5 DEF Keeps
\* The gates that are left once all of the list is taken out.
LEMMA GateChainKeeps ==
  ASSUME NEW V, IsFiniteSet(V), NEW g \in Gates(V), \A u : <<u, u>> \notin DOMAIN g,
         NEW order \in Seq(Nat), IsInjective(order)
  PROVE  Keeps(V, DOMAIN g, Trusted(g), Range(order), FoldLeft(Contract, g, order))
<1> DEFINE E == DOMAIN g
           T == Trusted(g)
           n == Len(order)
           Taken(k) == {order[i] : i \in 1 .. k}
<1>1. n \in Nat /\ DOMAIN order = 1 .. n
  OBVIOUS
<1>2. PICK c : GateChain(g, order, c) /\ FoldLeft(Contract, g, order) = c[n]
  BY FoldIsChain
<1>3. IsFiniteSet(E) /\ T \in SUBSET E /\ Keeps(V, E, T, {}, g)
  BY GatesKeep
<1> HIDE DEF E, T
<1> DEFINE Lost == {k \in 0 .. n : ~ Keeps(V, E, T, Taken(k), c[k])}
<1>4. ASSUME Lost # {} PROVE FALSE
  <2>1. PICK k \in Lost : \A j \in Lost : k <= j
    <3>1. Lost \in SUBSET Nat
      OBVIOUS
    <3> HIDE DEF Lost
    <3> QED
      BY <1>4, <3>1, LeastNatural
  <2>2. k \in Nat /\ k <= n
    BY <1>1, <2>1
  <2>3. k # 0
    <3>1. Taken(0) = {}
      OBVIOUS
    <3>2. c[0] = g
      BY <1>2 DEF GateChain
    <3> QED
      BY <1>3, <2>1, <3>1, <3>2
  <2>4. k \in 1 .. n /\ k - 1 \in 0 .. n /\ k - 1 < k /\ 1 .. k = 1 .. k - 1 \cup {k}
    BY <1>1, <2>2, <2>3
  <2>5. Keeps(V, E, T, Taken(k - 1), c[k - 1])
    <3>1. k - 1 \notin Lost
      <4> HIDE DEF Lost
      <4> QED
        BY <2>1, <2>2, <2>4
    <3> HIDE DEF Taken
    <3> QED
      BY <2>4, <3>1
  <2>6. Taken(k) = Taken(k - 1) \cup {order[k]}
    BY <2>4
  <2>7. order[k] \notin Taken(k - 1)
    <3>1. \A i \in 1 .. k - 1 : i \in DOMAIN order /\ i # k
      BY <1>1, <2>2, <2>4
    <3>2. \A i \in 1 .. k - 1 : order[i] # order[k]
      BY <1>1, <2>4, <3>1 DEF IsInjective
    <3> QED
      BY <3>2
  <2>8. c[k] = Contract(c[k - 1], order[k])
    BY <1>2, <2>4 DEF GateChain
  <2> DEFINE F == Taken(k - 1)
  <2> HIDE DEF F, Taken
  <2>9. Keeps(V, E, T, F \cup {order[k]}, Contract(c[k - 1], order[k]))
    BY <1>3, <2>5, <2>7, ContractKeeps DEF F
  <2>10. Keeps(V, E, T, Taken(k), c[k])
    BY <2>6, <2>8, <2>9 DEF F
  <2> QED
    BY <2>1, <2>10
<1>5. Keeps(V, E, T, Taken(n), c[n])
  <2>1. n \in 0 .. n
    BY <1>1
  <2> HIDE DEF Taken
  <2> QED
    BY <1>4, <2>1
<1>6. Taken(n) = Range(order)
  BY <1>1 DEF Range
<1> QED
  BY <1>2, <1>5, <1>6 DEF E, T
-----------------------------------------------------------------------------
(* A layer and its floor. *)

\* What the tables of a layer hold.
IsLayer(g) ==
  /\ DOMAIN g = {"nodes", "gates", "band", "contested", "itemful"}
  /\ g.nodes \subseteq Nat /\ IsFiniteSet(g.nodes)
  /\ g.gates \in Gates(g.nodes)
  /\ \A n : <<n, n>> \notin DOMAIN g.gates

\* What a case holds is a layer.
LEMMA CasesFacts ==
  ASSUME NEW c \in Cases
  PROVE  IsLayer(c.graph)
<1> DEFINE g == c.graph
<1>1. /\ DOMAIN g = {"nodes", "gates", "band", "contested", "itemful"}
      /\ g.nodes \subseteq Nat /\ IsFiniteSet(g.nodes)
      /\ g.gates \in [DOMAIN g.gates -> BOOLEAN] /\ DOMAIN g.gates \subseteq g.nodes \X g.nodes
      /\ \A n \in g.nodes : <<n, n>> \notin DOMAIN g.gates
  BY CasesAreLayers
<1> HIDE DEF g
<1>2. g.gates \in Gates(g.nodes)
  BY <1>1, GatesFacts
<1>3. \A n : <<n, n>> \notin DOMAIN g.gates
  BY <1>1
<1> QED
  BY <1>1, <1>2, <1>3 DEF IsLayer, g

\* The gates after the floor.
LEMMA FloorFacts ==
  ASSUME NEW g, IsLayer(g)
  PROVE  /\ Keeps(g.nodes, DOMAIN g.gates, Trusted(g.gates), Floored(g), ContractedGates(g))
         /\ IsFiniteSet(DOMAIN g.gates) /\ Trusted(g.gates) \in SUBSET (DOMAIN g.gates)
<1> DEFINE F == Floored(g)
<1>1. F \in SUBSET Nat /\ IsFiniteSet(F)
  <2>1. F \subseteq g.nodes
    BY DEF Floored
  <2> HIDE DEF F
  <2> QED
    BY <2>1, FS_Subset DEF IsLayer
<1> HIDE DEF F
<1>2. Sorted(F, <) \in Seq(Nat) /\ Range(Sorted(F, <)) = F /\ IsInjective(Sorted(F, <))
  BY <1>1, SortedFacts
<1>3. /\ g.gates \in Gates(g.nodes) /\ IsFiniteSet(g.nodes)
      /\ \A n : <<n, n>> \notin DOMAIN g.gates
  BY DEF IsLayer
<1>4. Keeps(g.nodes, DOMAIN g.gates, Trusted(g.gates), F, FoldLeft(Contract, g.gates, Sorted(F, <)))
  BY <1>2, <1>3, GateChainKeeps
<1>5. IsFiniteSet(DOMAIN g.gates) /\ Trusted(g.gates) \in SUBSET (DOMAIN g.gates)
  BY <1>3, GatesKeep
<1> QED
  BY <1>4, <1>5 DEF ContractedGates, F

\* What FloorKeepsGates says of a layer.
FlooredLayerKeepsGates(g) ==
  LET f == Floored(g)
      after == ContractedGates(g)
      every == DOMAIN g.gates
      Way(gates, u, v) == ThroughFloored(gates, f, u, v)
  IN  \A u, v \in g.nodes \ f : u # v =>
        /\ <<u, v>> \in DOMAIN after <=> Way(every, u, v)
        /\ <<u, v>> \in Trusted(after) => Way(Trusted(g.gates), u, v)
        /\ Way(Trusted(g.gates), u, v) /\ <<u, v>> \notin Trusted(after) =>
             \E e \in every \ Trusted(g.gates) :
               /\ e[1] = u \/ (e[1] \in f /\ Way(every, u, e[1]))
               /\ e[2] = v \/ (e[2] \in f /\ Way(every, e[2], v))

\* The floor keeps the gates of every layer.
LEMMA FloorIsFaithful ==
  ASSUME NEW g, IsLayer(g)
  PROVE  FlooredLayerKeepsGates(g)
<1> DEFINE f == Floored(g)
           after == ContractedGates(g)
           every == DOMAIN g.gates
           T == Trusted(g.gates)
           Way(gates, u, v) == ThroughFloored(gates, f, u, v)
<1>1. Keeps(g.nodes, every, T, f, after) /\ IsFiniteSet(every) /\ T \in SUBSET every
  BY FloorFacts
<1>2. IsFiniteSet(T)
  BY <1>1, FS_Subset
<1> HIDE DEF f, after, every, T
<1>3. \A u, v : /\ Way(every, u, v) <=> u \in Leads(every, f, v)
                /\ Way(T, u, v) <=> u \in Leads(T, f, v)
  BY <1>1, <1>2, LeadsIsThroughFloored
<1> HIDE DEF Way
<1>4. ASSUME NEW u \in g.nodes \ f, NEW v \in g.nodes \ f, u # v
      PROVE  /\ <<u, v>> \in DOMAIN after <=> Way(every, u, v)
             /\ <<u, v>> \in Trusted(after) => Way(T, u, v)
             /\ Way(T, u, v) /\ <<u, v>> \notin Trusted(after) =>
                  \E e \in every \ T : /\ e[1] = u \/ (e[1] \in f /\ Way(every, u, e[1]))
                                       /\ e[2] = v \/ (e[2] \in f /\ Way(every, e[2], v))
  <2>1. <<u, v>> \in DOMAIN after <=> u \in Leads(every, f, v)
    BY <1>1, <1>4 DEF Keeps
  <2>2. <<u, v>> \in Trusted(after) => u \in Leads(T, f, v)
    BY <1>1, <1>4 DEF Keeps
  <2>3. ASSUME u \in Leads(T, f, v), <<u, v>> \notin Trusted(after) PROVE Doubted(every, T, f, u, v)
    <3>1. u \in Leads(every, f, v)
      BY <1>1, <2>3, LeadsFacts
    <3> QED
      BY <1>1, <1>4, <2>1, <2>3, <3>1 DEF Keeps
  <2>4. Doubted(every, T, f, u, v) =>
          \E e \in every \ T : /\ e[1] = u \/ (e[1] \in f /\ Way(every, u, e[1]))
                               /\ e[2] = v \/ (e[2] \in f /\ Way(every, e[2], v))
    BY <1>3 DEF Doubted
  <2> QED
    BY <1>3, <2>1, <2>2, <2>3, <2>4
<1> QED
  BY <1>4 DEF FlooredLayerKeepsGates, f, after, every, T, Way

\* What is left is a layer of the nodes above the floor.
LEMMA FloorIsALayer ==
  ASSUME NEW g, IsLayer(g)
  PROVE  LET l == ApplyDifficultyFloor(g)
         IN  IsLayer(l) /\ IsFiniteSet(DOMAIN l.gates) /\ l.nodes = g.nodes \ Floored(g)
<1> DEFINE l == ApplyDifficultyFloor(g)
           N == g.nodes \ Floored(g)
           after == ContractedGates(g)
<1>1. DOMAIN l = DOMAIN g /\ l.nodes = N /\ l.gates = after
  <2>1. "nodes" \in DOMAIN g /\ "gates" \in DOMAIN g
    BY DEF IsLayer
  <2>2. l = [g EXCEPT !.nodes = N, !.gates = after]
    BY DEF ApplyDifficultyFloor
  <2> HIDE DEF l, N, after
  <2> QED
    BY <2>1, <2>2
<1>2. Keeps(g.nodes, DOMAIN g.gates, Trusted(g.gates), Floored(g), after)
  BY FloorFacts
<1>3. g.nodes \subseteq Nat /\ IsFiniteSet(g.nodes)
  BY DEF IsLayer
<1> HIDE DEF l, after
<1>4. after \in Gates(g.nodes) /\ \A u, v : <<u, v>> \in DOMAIN after => u \notin Floored(g) /\ v \notin Floored(g) /\ u # v
  BY <1>2 DEF Keeps
<1>5. DOMAIN after \in SUBSET (g.nodes \X g.nodes) /\ after \in [DOMAIN after -> BOOLEAN]
  BY <1>4, GatesFacts
<1>6. DOMAIN after \in SUBSET (N \X N)
  BY <1>4, <1>5
<1>7. after \in Gates(N)
  <2> HIDE DEF N
  <2> QED
    BY <1>5, <1>6, GatesFacts
<1>8. N \subseteq Nat /\ IsFiniteSet(N)
  BY <1>3, FS_Subset
<1> HIDE DEF N
<1>9. IsFiniteSet(DOMAIN after)
  BY <1>6, <1>8, FS_Product, FS_Subset
<1>10. IsLayer(l)
  BY <1>1, <1>4, <1>7, <1>8 DEF IsLayer
<1> QED
  BY <1>1, <1>9, <1>10 DEF l, N

-----------------------------------------------------------------------------
(* The session. *)

\* The stops whose assets meet the contract.
Ready == {n \in ApplyDifficultyFloor(graph).nodes : DirectlyReady(assets[n])}

\* The offer is what qualification makes of the layer and its assets, which stay.
SessionInv ==
  /\ IsLayer(graph)
  /\ Open => LET floored == ApplyDifficultyFloor(graph)
             IN  offer = Narrowed(floored, GreatestReady(floored, Ready))

\* Every step of a session keeps it.
LEMMA SessionStep == SessionInv /\ [SessionNext]_sessionVars => SessionInv'
<1> SUFFICES ASSUME SessionInv, [SessionNext]_sessionVars PROVE SessionInv'
  OBVIOUS
<1>1. CASE Qualify
  <2>1. graph' = graph /\ assets' = assets
    BY <1>1 DEF Qualify
  <2>2. Ready' = Ready
    BY <2>1 DEF Ready
  <2>3. answer' = "available" =>
          offer' = Narrowed(ApplyDifficultyFloor(graph), GreatestReady(ApplyDifficultyFloor(graph), Ready))
    BY <1>1 DEF Qualify, Ready
  <2> QED
    BY <2>1, <2>2, <2>3 DEF SessionInv, Open
<1>2. CASE UNCHANGED <<graph, assets, answer, offer>>
  <2>1. Ready' = Ready
    BY <1>2 DEF Ready
  <2> QED
    BY <1>2, <2>1 DEF SessionInv, Open
<1>3. CASE \E n \in DOMAIN verdict, v \in {"known", "learn"} : RecordVerdict(n, v)
  BY <1>2, <1>3 DEF RecordVerdict
<1>4. CASE \E n \in DOMAIN verdict : RecordLessonRead(n)
  BY <1>2, <1>4 DEF RecordLessonRead
<1>5. CASE \E item \in DOMAIN latest, outcome \in {"correct", "incorrect"} : GradeResponse(item, outcome)
  BY <1>2, <1>5 DEF GradeResponse
<1>6. CASE UNCHANGED sessionVars
  BY <1>2, <1>6 DEF sessionVars
<1> QED
  BY <1>1, <1>3, <1>4, <1>5, <1>6 DEF SessionNext

\* In every reachable state the offer is what qualification computes.
THEOREM SessionInvariant == SessionSpec => []SessionInv
<1>1. SessionInit => SessionInv
  BY CasesFacts DEF SessionInit, SessionInv, Open
<1> QED
  BY <1>1, SessionStep, PTL DEF SessionSpec

(* For any layer, two stops are wired after the floor exactly if the graph    *)
(* led from one to the other directly or through floored nodes, and a wire is *)
(* trusted no further than the ways it stands for (applyDifficultyFloor).     *)
THEOREM TheFloorKeepsGates == SessionSpec => []FloorKeepsGates
<1>1. SessionInv => FloorKeepsGates
  <2> SUFFICES ASSUME SessionInv PROVE FloorKeepsGates
    OBVIOUS
  <2>1. FlooredLayerKeepsGates(graph)
    BY FloorIsFaithful DEF SessionInv
  <2> QED
    BY <2>1 DEF FloorKeepsGates, FlooredLayerKeepsGates
<1> QED
  BY <1>1, SessionInvariant, PTL

(* For any layer and assets, the offered trail holds all its trusted          *)
(* prerequisites, and every ready part of the layer that does so is in it     *)
(* (qualify, sourceExpedition.ts).                                            *)
THEOREM TheOfferIsGreatest == SessionSpec => []ReadyTrailIsGreatest
<1>1. SessionInv => ReadyTrailIsGreatest
  <2> SUFFICES ASSUME SessionInv, Open PROVE ReadyTrailIsGreatest
    BY DEF ReadyTrailIsGreatest
  <2> DEFINE l == ApplyDifficultyFloor(graph)
             edges == Trusted(l.gates)
             stops == GreatestReady(l, Ready)
  <2>1. offer = Narrowed(l, stops) /\ IsLayer(graph)
    BY DEF SessionInv
  <2>2. IsLayer(l) /\ IsFiniteSet(DOMAIN l.gates)
    BY <2>1, FloorIsALayer
  <2>3. IsFiniteSet(edges)
    BY <2>2, FS_Subset DEF Trusted
  <2>4. l.nodes \cap Ready = Ready
    BY DEF Ready
  <2>5. IsFiniteSet(l.nodes)
    BY <2>2 DEF IsLayer
  <2>6. stops = UNION {s \in SUBSET Ready : Stands(edges, s)}
    <3> HIDE DEF l
    <3> QED
      BY <2>4, <2>5, GreatestReadyFacts
  <2>7. \A s : Stands(edges, s) <=> \A n \in s : Ancestors(edges, n) \subseteq s
    <3> HIDE DEF edges
    <3> QED
      BY <2>3, StandsFacts
  <2>8. offer.nodes = stops
    <3>1. DOMAIN l = {"nodes", "gates", "band", "contested", "itemful"}
      BY <2>2 DEF IsLayer
    <3> HIDE DEF l, stops
    <3> QED
      BY <2>1, <3>1 DEF Narrowed
  <2>9. stops = UNION {s \in SUBSET Ready : \A n \in s : Ancestors(edges, n) \subseteq s}
    <3> HIDE DEF edges, stops
    <3> QED
      BY <2>6, <2>7
  <2> HIDE DEF stops
  <2> QED
    BY <2>8, <2>9 DEF ReadyTrailIsGreatest, Ready
<1> QED
  BY <1>1, SessionInvariant, PTL

-----------------------------------------------------------------------------
(* Ancestors, cycles and the transitive reduction. *)

\* What precedes v, seen from an edge, from a node between, and from more edges.
LEMMA AncestorsSteps ==
  ASSUME NEW E, IsFiniteSet(E), NEW v
  PROVE  /\ \A e \in E : e[2] = v \/ e[2] \in Ancestors(E, v) => e[1] \in Ancestors(E, v)
         /\ \A x \in Ancestors(E, v) : \E e \in E : e[1] = x /\ (e[2] = v \/ e[2] \in Ancestors(E, v))
         /\ \A z \in Ancestors(E, v) : Ancestors(E, z) \subseteq Ancestors(E, v)
         /\ \A D \in SUBSET E : Ancestors(D, v) \subseteq Ancestors(E, v)
<1> DEFINE A == Ancestors(E, v)
           S == {x \in A : \E e \in E : e[1] = x /\ (e[2] = v \/ e[2] \in A)}
<1>1. Closes(E, v, A) /\ \A T : Closes(E, v, T) => A \subseteq T
  BY AncestorsFacts
<1> HIDE DEF A
<1>2. Closes(E, v, S)
  BY <1>1 DEF Closes
<1>3. A \subseteq S
  BY <1>1, <1>2
<1>4. ASSUME NEW z \in A PROVE Ancestors(E, z) \subseteq A
  <2>1. Closes(E, z, A)
    BY <1>1, <1>4 DEF Closes
  <2> QED
    BY <2>1, AncestorsFacts
<1>5. ASSUME NEW D \in SUBSET E PROVE Ancestors(D, v) \subseteq A
  <2>1. Closes(D, v, A)
    BY <1>1 DEF Closes
  <2>2. IsFiniteSet(D)
    BY FS_Subset
  <2> QED
    BY <2>1, <2>2, AncestorsFacts
<1>6. \A e \in E : e[2] = v \/ e[2] \in A => e[1] \in A
  BY <1>1 DEF Closes
<1> QED
  BY <1>3, <1>4, <1>5, <1>6 DEF A

\* Nodes each of which has a successor among them.
Turns(E, S) == \A x \in S : \E e \in E : e[1] = x /\ e[2] \in S

Cycleless(E) == \A S : Turns(E, S) => S = {}

\* Without such nodes no node precedes itself.
LEMMA CyclelessIsAcyclic ==
  ASSUME NEW E, IsFiniteSet(E), Cycleless(E)
  PROVE  Acyclic(E)
<1> SUFFICES ASSUME NEW n \in Ends(E), n \in Ancestors(E, n) PROVE FALSE
  BY DEF Acyclic
<1>1. Turns(E, Ancestors(E, n))
  BY AncestorsSteps DEF Turns
<1> QED
  BY <1>1 DEF Cycleless

\* The nodes on the ways from a to b.
Between(E, a, b) == {x \in Ancestors(E, b) : a \in Ancestors(E, x)}

LEMMA BetweenShrinks ==
  ASSUME NEW E, IsFiniteSet(E), \A n : n \notin Ancestors(E, n), NEW a, NEW b,
         NEW w \in Between(E, a, b)
  PROVE  /\ Between(E, a, w) \in SUBSET Between(E, a, b) /\ Between(E, a, w) # Between(E, a, b)
         /\ Between(E, w, b) \in SUBSET Between(E, a, b) /\ Between(E, w, b) # Between(E, a, b)
<1>1. w \in Ancestors(E, b) /\ a \in Ancestors(E, w)
  BY DEF Between
<1>2. Ancestors(E, w) \subseteq Ancestors(E, b)
  BY <1>1, AncestorsSteps
<1>3. \A x : w \in Ancestors(E, x) => a \in Ancestors(E, x)
  BY <1>1, AncestorsSteps
<1>4. w \notin Between(E, a, w) /\ w \notin Between(E, w, b)
  BY DEF Between
<1> QED
  BY <1>2, <1>3, <1>4 DEF Between

\* The reduction of an acyclic graph loses no ancestor: of the ways a redundant
\* edge stands for, each edge stands for fewer.
LEMMA ReductionKeepsAncestors ==
  ASSUME NEW E, IsFiniteSet(E), Acyclic(E)
  PROVE  \A n : Ancestors(TransitiveReduction(E), n) = Ancestors(E, n)
<1> DEFINE R == TransitiveReduction(E)
           Odd == {p \in Ends(E) \X Ends(E) :
                     p[1] \in Ancestors(E, p[2]) /\ p[1] \notin Ancestors(R, p[2])}
           size(p) == Cardinality(Between(E, p[1], p[2]))
           Sizes == {size(p) : p \in Odd}
<1>1. R \in SUBSET E /\ IsFiniteSet(R)
  BY FS_Subset DEF TransitiveReduction
<1>2. \A v : Ancestors(E, v) \subseteq Ends(E)
  BY AncestorsFacts
<1>3. \A n : n \notin Ancestors(E, n)
  BY <1>2 DEF Acyclic
<1>4. \A a, b : a \in Ancestors(E, b) => b \in Ends(E) /\ a \in Ends(E)
  <2> SUFFICES ASSUME NEW a, NEW b, a \in Ancestors(E, b) PROVE b \in Ends(E) /\ a \in Ends(E)
    OBVIOUS
  <2>1. a \in Ends(E)
    BY <1>2
  <2>2. ASSUME b \notin Ends(E) PROVE FALSE
    <3>1. Closes(E, b, {})
      BY <2>2, EndsFacts DEF Closes
    <3> QED
      BY <3>1, AncestorsFacts
  <2> QED
    BY <2>1, <2>2
<1>5. \A a, b : IsFiniteSet(Between(E, a, b)) /\ Cardinality(Between(E, a, b)) \in Nat
  <2> SUFFICES ASSUME NEW a, NEW b
               PROVE  IsFiniteSet(Between(E, a, b)) /\ Cardinality(Between(E, a, b)) \in Nat
    OBVIOUS
  <2>1. Between(E, a, b) \in SUBSET Ends(E)
    BY <1>2 DEF Between
  <2>2. IsFiniteSet(Between(E, a, b))
    BY <2>1, EndsFacts, FS_Subset
  <2> QED
    BY <2>2, FS_CardinalityType
<1> HIDE DEF R
<1>6. ASSUME Odd # {} PROVE FALSE
  <2>1. Sizes \in SUBSET Nat /\ Sizes # {}
    BY <1>5, <1>6
  <2>2. PICK s \in Sizes : \A j \in Sizes : s <= j
    <3> HIDE DEF Sizes
    <3> QED
      BY <2>1, LeastNatural
  <2>3. PICK p \in Odd : s = size(p)
    BY <2>2
  <2> DEFINE a == p[1]
             b == p[2]
  <2>4. a \in Ancestors(E, b) /\ a \notin Ancestors(R, b)
    BY <2>3
  <2>5. ASSUME NEW c, NEW d, c \in Ancestors(E, d),
               Between(E, c, d) \in SUBSET Between(E, a, b), Between(E, c, d) # Between(E, a, b)
        PROVE  c \in Ancestors(R, d)
    <3>1. Cardinality(Between(E, c, d)) < Cardinality(Between(E, a, b))
      BY <1>5, <2>5, CardinalityShrinks
    <3>2. ASSUME c \notin Ancestors(R, d) PROVE FALSE
      <4>1. <<c, d>> \in Odd
        BY <1>4, <2>5, <3>2
      <4>2. size(<<c, d>>) = Cardinality(Between(E, c, d)) /\ size(p) = Cardinality(Between(E, a, b))
        OBVIOUS
      <4>3. size(p) <= size(<<c, d>>)
        BY <2>2, <2>3, <4>1
      <4> QED
        BY <1>5, <3>1, <4>2, <4>3
    <3> QED
      BY <3>2
  <2> HIDE DEF Odd, Sizes, a, b
  <2>6. \A w \in Between(E, a, b) : FALSE
    <3> SUFFICES ASSUME NEW w \in Between(E, a, b) PROVE FALSE
      OBVIOUS
    <3>1. w \in Ancestors(E, b) /\ a \in Ancestors(E, w)
      BY DEF Between
    <3>2. w \in Ancestors(R, b) /\ a \in Ancestors(R, w)
      BY <1>3, <2>5, <3>1, BetweenShrinks
    <3>3. a \in Ancestors(R, b)
      BY <1>1, <3>2, AncestorsSteps
    <3> QED
      BY <2>4, <3>3
  <2>7. PICK e \in E : e[1] = a /\ (e[2] = b \/ e[2] \in Ancestors(E, b))
    BY <2>4, AncestorsSteps
  <2>8. e[1] \in Ancestors(E, e[2])
    BY AncestorsSteps
  <2>9. e[2] = b
    BY <2>6, <2>7, <2>8 DEF Between
  <2>10. ~ Redundant(E, e)
    <3> SUFFICES ASSUME NEW w \in Successors(E, a) \ {b}, w \in Ancestors(E, b) PROVE FALSE
      BY <2>7, <2>9 DEF Redundant
    <3>1. PICK d \in E : d[1] = a /\ d[2] = w
      BY DEF Successors
    <3>2. a \in Ancestors(E, w)
      BY <3>1, AncestorsSteps
    <3> QED
      BY <2>6, <3>2 DEF Between
  <2>11. e \in R
    BY <2>10 DEF TransitiveReduction, R
  <2>12. a \in Ancestors(R, b)
    BY <1>1, <2>7, <2>9, <2>11, AncestorsSteps
  <2> QED
    BY <2>4, <2>12
<1>7. ASSUME NEW a, NEW b, a \in Ancestors(E, b) PROVE a \in Ancestors(R, b)
  <2>1. <<a, b>> \in Ends(E) \X Ends(E) /\ <<a, b>>[1] = a /\ <<a, b>>[2] = b
    BY <1>4, <1>7
  <2> QED
    BY <1>6, <1>7, <2>1
<1>8. \A n : Ancestors(R, n) \subseteq Ancestors(E, n)
  BY <1>1, AncestorsSteps
<1> QED
  BY <1>7, <1>8 DEF R

-----------------------------------------------------------------------------
(* The search for a cycle. *)

\* The list without its last member.
LEMMA FrontFacts ==
  ASSUME NEW s \in Seq(Nat), s # <<>>
  PROVE  /\ Len(s) \in Nat \ {0} /\ DOMAIN s = 1 .. Len(s)
         /\ Last(s) = s[Len(s)] /\ Last(s) \in Nat /\ Last(s) \in Range(s)
         /\ Front(s) \in Seq(Nat) /\ Len(Front(s)) = Len(s) - 1
         /\ \A i \in 1 .. Len(s) - 1 : Front(s)[i] = s[i]
         /\ Range(s) = Range(Front(s)) \cup {Last(s)}
<1> DEFINE n == Len(s)
           t == Front(s)
<1>1. n \in Nat \ {0} /\ DOMAIN s = 1 .. n /\ s[n] \in Nat
  OBVIOUS
<1>2. t \in Seq(Nat) /\ Len(t) = n - 1 /\ \A i \in 1 .. n - 1 : t[i] = s[i]
  BY <1>1 DEF Front
<1>3. DOMAIN t = 1 .. n - 1
  BY <1>2
<1> HIDE DEF n, t
<1>4. \A i \in 1 .. n : i = n \/ i \in 1 .. n - 1
  BY <1>1
<1>5. n \in 1 .. n /\ \A i \in 1 .. n - 1 : i \in 1 .. n
  BY <1>1
<1>6. Range(s) = Range(t) \cup {s[n]}
  BY <1>1, <1>2, <1>3, <1>4, <1>5 DEF Range
<1>7. s[n] \in Range(s)
  BY <1>6
<1> QED
  BY <1>1, <1>2, <1>6, <1>7 DEF n, t, Last

\* The least member.
LEMMA MinFacts ==
  ASSUME NEW s \in SUBSET Nat, s # {}
  PROVE  Min(s) \in s /\ Min(s) \in Nat
<1>1. \E x \in s : \A y \in s : x =< y
  BY LeastNatural
<1> QED
  BY <1>1 DEF Min

\* What each place passes to the one before it.
LEMMA Downwards ==
  ASSUME NEW a \in Nat, NEW b \in Nat, NEW S, b \in S,
         \A j \in a + 1 .. b : j \in S => j - 1 \in S
  PROVE  \A j \in a .. b : j \in S
<1> DEFINE Odd == {k \in Nat : k <= b - a /\ b - k \notin S}
<1>1. ASSUME Odd # {} PROVE FALSE
  <2>1. PICK k \in Odd : \A l \in Odd : k <= l
    <3>1. Odd \in SUBSET Nat
      OBVIOUS
    <3> HIDE DEF Odd
    <3> QED
      BY <1>1, <3>1, LeastNatural
  <2>2. k \in Nat /\ k <= b - a /\ b - k \notin S
    BY <2>1
  <2>3. k # 0
    BY <2>2
  <2>4. k - 1 \in Nat /\ k - 1 <= b - a /\ ~ (k <= k - 1)
    BY <2>2, <2>3
  <2>5. b - (k - 1) \in S
    BY <2>1, <2>4
  <2>6. b - (k - 1) \in a + 1 .. b /\ b - (k - 1) - 1 = b - k
    BY <2>2, <2>3
  <2> QED
    BY <2>2, <2>5, <2>6
<1> SUFFICES ASSUME NEW j \in a .. b, j \notin S PROVE FALSE
  OBVIOUS
<1>2. b - j \in Nat /\ b - j <= b - a /\ b - (b - j) = j
  OBVIOUS
<1> QED
  BY <1>1, <1>2

Ways == Seq(Nat) \X SUBSET Nat

\* Where the search can go on from the last node of its path.
Unsearched(E, at) == Successors(E, Last(at[1])) \ at[2]

Closing(E, at) == at[1] # <<>> /\ Unsearched(E, at) # {} /\ Min(Unsearched(E, at)) \in Range(at[1])

Ended(E) == {at \in Ways : Closing(E, at) \/ (at[1] = <<>> /\ Ends(E) \ at[2] = {})}

Onward(E, at) ==
  IF at[1] = <<>> THEN <<<<Min(Ends(E) \ at[2])>>, at[2]>>
  ELSE IF Unsearched(E, at) = {} THEN <<Front(at[1]), at[2] \cup {Last(at[1])}>>
  ELSE <<Append(at[1], Min(Unsearched(E, at))), at[2]>>

Closed(E, at) ==
  LET path == at[1]
      v == Min(Unsearched(E, at))
      back == CHOOSE i \in DOMAIN path : path[i] = v
  IN  {<<path[i], path[i + 1]>> : i \in back .. Len(path) - 1} \cup {<<Last(path), v>>}

Found(E, at) == IF at[1] = <<>> THEN {} ELSE Closed(E, at)

\* A turn of the search leads to such a state.
LEMMA OnwardStays ==
  ASSUME NEW E \in SUBSET (Nat \X Nat), NEW at \in Ways, at \notin Ended(E)
  PROVE  Onward(E, at) \in Ways
<1>0. Ends(E) \in SUBSET Nat /\ \A u : Successors(E, u) \in SUBSET Nat
  BY DEF Ends, Successors
<1>1. at[1] \in Seq(Nat) /\ at[2] \in SUBSET Nat
  BY DEF Ways
<1>2. CASE at[1] = <<>>
  <2>1. Ends(E) \ at[2] # {}
    BY <1>2 DEF Ended
  <2>2. Min(Ends(E) \ at[2]) \in Nat
    BY <1>0, <2>1, MinFacts
  <2>3. \A m \in Nat : <<m>> \in Seq(Nat)
    OBVIOUS
  <2>4. <<Min(Ends(E) \ at[2])>> \in Seq(Nat)
    BY <2>2, <2>3
  <2>5. Onward(E, at) = <<<<Min(Ends(E) \ at[2])>>, at[2]>>
    BY <1>2 DEF Onward
  <2>6. \A p \in Seq(Nat), b \in SUBSET Nat : <<p, b>> \in Ways
    BY DEF Ways
  <2>7. <<<<Min(Ends(E) \ at[2])>>, at[2]>> \in Ways
    BY <1>1, <2>4, <2>6
  <2> QED
    BY <2>5, <2>7, Zenon
<1>3. CASE at[1] # <<>> /\ Unsearched(E, at) = {}
  BY <1>1, <1>3, FrontFacts DEF Ways, Onward
<1>4. CASE at[1] # <<>> /\ Unsearched(E, at) # {}
  <2>1. Min(Unsearched(E, at)) \in Nat
    BY <1>0, <1>4, MinFacts DEF Unsearched
  <2>2. Append(at[1], Min(Unsearched(E, at))) \in Seq(Nat)
    BY <1>1, <2>1
  <2> QED
    BY <1>1, <1>4, <2>2 DEF Ways, Onward
<1> QED
  BY <1>2, <1>3, <1>4

\* The search is a loop.
LEMMA FindCycleLoops ==
  ASSUME NEW E \in SUBSET (Nat \X Nat)
  PROVE  \E f : /\ Loops(Ways, Ended(E), [at \in Ways |-> IF at \in Ended(E) THEN at ELSE Onward(E, at)],
                         [at \in Ways |-> Found(E, at)], f)
                /\ FindCycle(E) = f[<<<<>>, {}>>]
<1> DEFINE stop == Ended(E)
           next == [at \in Ways |-> IF at \in stop THEN at ELSE Onward(E, at)]
           out == [at \in Ways |-> Found(E, at)]
           Visits(f) ==
             f = [at \in Ways |->
                    LET path == at[1]
                        black == at[2]
                        white == Ends(E) \ black
                        u == Last(path)
                        open == Successors(E, u) \ black
                        v == Min(open)
                    IN  IF path = <<>>
                        THEN IF white = {} THEN {} ELSE f[<<<<Min(white)>>, black>>]
                        ELSE IF open = {} THEN f[<<Front(path), black \cup {u}>>]
                        ELSE IF v \notin Range(path) THEN f[<<Append(path, v), black>>]
                        ELSE LET back == CHOOSE i \in DOMAIN path : path[i] = v
                             IN  {<<path[i], path[i + 1]>> : i \in back .. Len(path) - 1}
                                   \cup {<<u, v>>}]
           W == CHOOSE f : Visits(f)
<1>1. \A at \in Ways : at \notin stop => Onward(E, at) \in Ways
  BY OnwardStays
<1>2. next \in [Ways -> Ways]
  BY <1>1
<1>3. PICK f : Loops(Ways, stop, next, out, f)
  <2> HIDE DEF stop, next, out
  <2> QED
    BY <1>2, LoopExists
<1>4. \A g : Loops(Ways, stop, next, out, g) <=> Visits(g)
  <2> SUFFICES ASSUME NEW g PROVE Loops(Ways, stop, next, out, g) <=> Visits(g)
    OBVIOUS
  <2> DEFINE turn(at) ==
                LET path == at[1]
                    black == at[2]
                    white == Ends(E) \ black
                    u == Last(path)
                    open == Successors(E, u) \ black
                    v == Min(open)
                IN  IF path = <<>>
                    THEN IF white = {} THEN {} ELSE g[<<<<Min(white)>>, black>>]
                    ELSE IF open = {} THEN g[<<Front(path), black \cup {u}>>]
                    ELSE IF v \notin Range(path) THEN g[<<Append(path, v), black>>]
                    ELSE LET back == CHOOSE i \in DOMAIN path : path[i] = v
                         IN  {<<path[i], path[i + 1]>> : i \in back .. Len(path) - 1}
                               \cup {<<u, v>>}
             step(at) == IF at \in stop THEN out[at] ELSE g[next[at]]
  <2>1. ASSUME NEW at \in Ways PROVE step(at) = turn(at)
    <3>1. CASE at[1] = <<>> /\ Ends(E) \ at[2] = {}
      BY <3>1 DEF Ended, Found, Closing
    <3>2. CASE at[1] = <<>> /\ Ends(E) \ at[2] # {}
      <4>1. at \notin stop
        BY <3>2 DEF Ended, Closing
      <4> QED
        BY <3>2, <4>1 DEF Onward
    <3>3. CASE at[1] # <<>> /\ Unsearched(E, at) = {}
      <4>1. at \notin stop
        BY <3>3 DEF Ended, Closing
      <4> QED
        BY <3>3, <4>1 DEF Onward, Unsearched
    <3>4. CASE at[1] # <<>> /\ Unsearched(E, at) # {} /\ Min(Unsearched(E, at)) \notin Range(at[1])
      <4>1. at \notin stop
        BY <3>4 DEF Ended, Closing
      <4> QED
        BY <3>4, <4>1 DEF Onward, Unsearched
    <3>5. CASE at[1] # <<>> /\ Unsearched(E, at) # {} /\ Min(Unsearched(E, at)) \in Range(at[1])
      <4>1. at \in stop
        BY <3>5 DEF Ended, Closing
      <4>2. turn(at) = Closed(E, at)
        BY <3>5 DEF Closed, Unsearched
      <4> QED
        BY <3>5, <4>1, <4>2 DEF Found
    <3> QED
      BY <3>1, <3>2, <3>3, <3>4, <3>5
  <2>2. [at \in Ways |-> step(at)] = [at \in Ways |-> turn(at)]
    <3> HIDE DEF step, turn
    <3> QED
      BY <2>1
  <2>3. Loops(Ways, stop, next, out, g) <=> g = [at \in Ways |-> step(at)]
    <3> HIDE DEF stop, next, out
    <3> QED
      BY DEF Loops
  <2>4. Visits(g) <=> g = [at \in Ways |-> turn(at)]
    OBVIOUS
  <2> HIDE DEF step, turn, stop, next, out, Visits
  <2> QED
    BY <2>2, <2>3, <2>4
<1>5. Visits(W)
  <2> HIDE DEF Visits
  <2> QED
    BY <1>3, <1>4
<1>6. FindCycle(E) = W[<<<<>>, {}>>]
  BY DEF FindCycle, Ways
<1> HIDE DEF W, Visits, stop, next, out
<1>7. Loops(Ways, stop, next, out, W)
  BY <1>4, <1>5
<1>8. \E g : Loops(Ways, stop, next, out, g) /\ FindCycle(E) = g[<<<<>>, {}>>]
  BY <1>6, <1>7
<1> QED
  BY <1>8 DEF stop, next, out

\* The path goes along edges, and what is searched is closed and holds no cycle.
Searching(E, at) ==
  /\ \A i \in 1 .. Len(at[1]) - 1 : <<at[1][i], at[1][i + 1]>> \in E
  /\ \A e \in E : e[1] \in at[2] => e[2] \in at[2]
  /\ \A S : Turns(E, S) /\ S \subseteq at[2] => S = {}

\* What the search has not come to.
Untried(E, at) == Ends(E) \ (at[2] \cup Range(at[1]))

\* A graph of numbers has pairs for edges and numbers for ends.
LEMMA PairFacts ==
  ASSUME NEW E \in SUBSET (Nat \X Nat)
  PROVE  /\ Ends(E) \in SUBSET Nat
         /\ \A u : Successors(E, u) \in SUBSET Nat /\ Successors(E, u) \subseteq Ends(E)
         /\ \A u, v : v \in Successors(E, u) <=> <<u, v>> \in E
         /\ \A e \in E : e = <<e[1], e[2]>>
<1>1. \A e \in E : e = <<e[1], e[2]>> /\ e[1] \in Nat /\ e[2] \in Nat
  OBVIOUS
<1>2. Ends(E) \in SUBSET Nat
  BY <1>1 DEF Ends
<1>3. ASSUME NEW u, NEW v PROVE v \in Successors(E, u) <=> <<u, v>> \in E
  <2>1. v \in Successors(E, u) <=> \E e \in E : e[1] = u /\ e[2] = v
    BY DEF Successors
  <2>2. <<u, v>>[1] = u /\ <<u, v>>[2] = v
    OBVIOUS
  <2> QED
    BY <1>1, <2>1, <2>2
<1>4. ASSUME NEW u, NEW v \in Successors(E, u) PROVE v \in Nat /\ v \in Ends(E)
  <2>1. <<u, v>> \in E /\ <<u, v>>[2] = v
    BY <1>3
  <2> QED
    BY <1>1, <2>1, EndsFacts
<1> QED
  BY <1>1, <1>2, <1>3, <1>4

\* A turn of the search keeps that, and comes to a new node or leaves one.
LEMMA SearchTurns ==
  ASSUME NEW E \in SUBSET (Nat \X Nat), NEW at \in Ways, at \notin Ended(E), Searching(E, at)
  PROVE  LET to == Onward(E, at)
         IN  /\ Searching(E, to)
             /\ \/ /\ Untried(E, to) \subseteq Untried(E, at) /\ Untried(E, to) # Untried(E, at)
                   /\ Len(to[1]) = Len(at[1]) + 1
                \/ Untried(E, to) = Untried(E, at) /\ Len(to[1]) = Len(at[1]) - 1
<1> DEFINE path == at[1]
           black == at[2]
           to == Onward(E, at)
<1>1. path \in Seq(Nat) /\ black \in SUBSET Nat
  BY DEF Ways
<1>2. CASE path = <<>>
  <2> DEFINE m == Min(Ends(E) \ black)
  <2>1. m \in Ends(E) \ black /\ m \in Nat
    <3>1. Ends(E) \ black # {}
      BY <1>2 DEF Ended
    <3> QED
      BY <1>1, <3>1, PairFacts, MinFacts
  <2>2. to[1] = <<m>> /\ to[2] = black
    BY <1>2 DEF Onward
  <2> HIDE DEF m
  <2>3. Len(<<m>>) = 1 /\ Range(<<m>>) = {m} /\ Len(path) = 0 /\ Range(path) = {}
    BY <1>2 DEF Range
  <2>4. Searching(E, to)
    BY <2>2, <2>3 DEF Searching
  <2> HIDE DEF to
  <2>5. Untried(E, to) = Untried(E, at) \ {m} /\ m \in Untried(E, at)
    BY <2>1, <2>2, <2>3 DEF Untried
  <2> QED
    BY <2>2, <2>3, <2>4, <2>5 DEF to
<1>3. CASE path # <<>> /\ Unsearched(E, at) = {}
  <2> DEFINE u == Last(path)
  <2>1. to[1] = Front(path) /\ to[2] = black \cup {u}
    BY <1>3 DEF Onward
  <2>2. \A e \in E : e[1] = u => e[2] \in black
    BY <1>3, PairFacts DEF Unsearched
  <2>3. Len(to[1]) = Len(path) - 1 /\ Range(path) = Range(to[1]) \cup {u} /\ Len(path) \in Nat \ {0}
        /\ \A i \in 1 .. Len(path) - 1 : to[1][i] = path[i]
    BY <1>1, <1>3, <2>1, FrontFacts
  <2> HIDE DEF to, u
  <2>4. Untried(E, to) = Untried(E, at)
    BY <2>1, <2>3 DEF Untried
  <2>5. \A i \in 1 .. Len(to[1]) - 1 : <<to[1][i], to[1][i + 1]>> \in E
    <3> SUFFICES ASSUME NEW i \in 1 .. Len(to[1]) - 1 PROVE <<to[1][i], to[1][i + 1]>> \in E
      OBVIOUS
    <3>1. i \in 1 .. Len(path) - 1 /\ i + 1 \in 1 .. Len(path) - 1
      BY <2>3
    <3>2. <<path[i], path[i + 1]>> \in E
      BY <3>1 DEF Searching
    <3> QED
      BY <2>3, <3>1, <3>2
  <2>6. \A e \in E : e[1] \in to[2] => e[2] \in to[2]
    BY <2>1, <2>2 DEF Searching
  <2>7. ASSUME NEW S, Turns(E, S), S \subseteq to[2] PROVE S = {}
    <3>1. \A e \in E : e[1] \in S => e[2] \in black
      BY <2>1, <2>2, <2>7 DEF Searching
    <3>2. Turns(E, S \cap black)
      BY <2>7, <3>1 DEF Turns
    <3>3. S \cap black = {}
      BY <3>2 DEF Searching
    <3> QED
      BY <2>7, <3>1, <3>3 DEF Turns
  <2>8. Searching(E, to)
    BY <2>5, <2>6, <2>7 DEF Searching
  <2> QED
    BY <2>3, <2>4, <2>8 DEF to
<1>4. CASE path # <<>> /\ Unsearched(E, at) # {}
  <2> DEFINE v == Min(Unsearched(E, at))
             u == Last(path)
  <2>1. v \in Nat /\ v \notin black /\ v \notin Range(path) /\ <<u, v>> \in E /\ v \in Ends(E)
    <3>1. Unsearched(E, at) \in SUBSET Nat
      BY PairFacts DEF Unsearched
    <3>2. v \in Unsearched(E, at) /\ v \in Nat
      BY <1>4, <3>1, MinFacts
    <3>3. v \notin Range(path)
      BY <1>1, <1>4 DEF Ended, Closing
    <3>4. v \in Successors(E, u) /\ v \notin black
      BY <3>2 DEF Unsearched
    <3> HIDE DEF v, u
    <3> QED
      BY <3>2, <3>3, <3>4, PairFacts
  <2>2. to[1] = Append(path, v) /\ to[2] = black
    BY <1>4 DEF Onward
  <2>3. u = path[Len(path)] /\ Len(path) \in Nat \ {0}
    BY <1>1, <1>4, FrontFacts
  <2> HIDE DEF to, u, v
  <2>4. Range(to[1]) = Range(path) \cup {v} /\ Len(to[1]) = Len(path) + 1
        /\ to[1][Len(path) + 1] = v /\ \A i \in 1 .. Len(path) : to[1][i] = path[i]
    BY <1>1, <2>1, <2>2, AppendedRange
  <2>5. Untried(E, to) = Untried(E, at) \ {v} /\ v \in Untried(E, at)
    BY <2>1, <2>2, <2>4 DEF Untried
  <2>6. \A i \in 1 .. Len(to[1]) - 1 : <<to[1][i], to[1][i + 1]>> \in E
    <3> SUFFICES ASSUME NEW i \in 1 .. Len(to[1]) - 1 PROVE <<to[1][i], to[1][i + 1]>> \in E
      OBVIOUS
    <3>1. i \in 1 .. Len(path) /\ (i = Len(path) \/ i \in 1 .. Len(path) - 1)
      BY <2>3, <2>4
    <3>2. CASE i = Len(path)
      <4>1. to[1][i] = u /\ to[1][i + 1] = v
        BY <2>3, <2>4, <3>1, <3>2
      <4> QED
        BY <2>1, <4>1
    <3>3. CASE i \in 1 .. Len(path) - 1
      <4>1. i + 1 \in 1 .. Len(path)
        BY <2>3, <3>3
      <4>2. <<path[i], path[i + 1]>> \in E
        BY <3>3 DEF Searching
      <4>3. to[1][i] = path[i] /\ to[1][i + 1] = path[i + 1]
        BY <2>4, <3>1, <4>1
      <4> QED
        BY <4>2, <4>3
    <3> QED
      BY <3>1, <3>2, <3>3
  <2>7. Searching(E, to)
    BY <2>2, <2>6 DEF Searching
  <2> QED
    BY <2>4, <2>5, <2>7 DEF to
<1> QED
  BY <1>2, <1>3, <1>4

\* The edges of the cycle the search has closed.
LEMMA ClosedFacts ==
  ASSUME NEW E \in SUBSET (Nat \X Nat), IsFiniteSet(E), NEW at \in Ways, Closing(E, at), Searching(E, at)
  PROVE  /\ Closed(E, at) \in SUBSET E /\ Closed(E, at) # {}
         /\ \A e \in Closed(E, at) : e[2] \in Ancestors(E, e[1])
<1> DEFINE path == at[1]
           v == Min(Unsearched(E, at))
           u == Last(path)
           n == Len(path)
           back == CHOOSE i \in DOMAIN path : path[i] = v
<1>1. path \in Seq(Nat) /\ path # <<>> /\ n \in Nat \ {0} /\ DOMAIN path = 1 .. n /\ u = path[n]
  BY FrontFacts DEF Ways, Closing
<1>2. back \in 1 .. n /\ path[back] = v
  BY <1>1 DEF Closing, Range
<1>3. <<u, v>> \in E
  <2>1. Unsearched(E, at) \in SUBSET Nat
    BY PairFacts DEF Unsearched
  <2>2. v \in Unsearched(E, at)
    BY <2>1, MinFacts DEF Closing
  <2> QED
    BY <2>2, PairFacts DEF Unsearched
<1>4. \A i \in 1 .. n - 1 : <<path[i], path[i + 1]>> \in E
  BY DEF Searching
<1>5. \A e : e \in Closed(E, at) <=>
        e = <<u, v>> \/ \E i \in back .. n - 1 : e = <<path[i], path[i + 1]>>
  BY DEF Closed
<1> HIDE DEF path, v, u, n, back
<1>6. ASSUME NEW i \in back .. n PROVE \A j \in back .. n : path[j] \in Ancestors(E, path[i])
  <2> DEFINE A == Ancestors(E, path[i])
             S == {j \in 1 .. n : path[j] = path[i] \/ path[j] \in A}
             T == {j \in 1 .. n : path[j] \in A}
  <2>1. \A e \in E : e[2] = path[i] \/ e[2] \in A => e[1] \in A
    BY AncestorsSteps
  <2>2. \A x, y : <<x, y>> \in E /\ (y = path[i] \/ y \in A) => x \in A
    <3> SUFFICES ASSUME NEW x, NEW y, <<x, y>> \in E, y = path[i] \/ y \in A PROVE x \in A
      OBVIOUS
    <3>1. <<x, y>>[1] = x /\ <<x, y>>[2] = y
      OBVIOUS
    <3> HIDE DEF A
    <3> QED
      BY <2>1, <3>1
  <2> HIDE DEF A
  <2>3. ASSUME NEW j \in back + 1 .. n, j \in S PROVE j - 1 \in S /\ j - 1 \in T
    <3>1. j - 1 \in 1 .. n - 1 /\ j - 1 \in 1 .. n /\ j - 1 + 1 = j
      BY <1>1, <1>2, <2>3
    <3>2. <<path[j - 1], path[j]>> \in E
      BY <1>4, <3>1
    <3>3. path[j - 1] \in A
      BY <2>2, <2>3, <3>2
    <3> QED
      BY <3>1, <3>3
  <2>4. i \in S /\ i \in Nat /\ back \in Nat /\ n \in Nat /\ i \in 1 .. n /\ i <= n /\ back <= i
    BY <1>1, <1>2
  <2>5. back \in S
    <3>1. \A j \in back + 1 .. i : j \in S => j - 1 \in S
      <4> SUFFICES ASSUME NEW j \in back + 1 .. i, j \in S PROVE j - 1 \in S
        OBVIOUS
      <4>1. j \in back + 1 .. n
        BY <2>4
      <4> QED
        BY <2>3, <4>1
    <3> HIDE DEF S
    <3>2. \A j \in back .. i : j \in S
      BY <2>4, <3>1, Downwards
    <3> QED
      BY <2>4, <3>2
  <2>6. n \in T
    BY <1>1, <1>2, <1>3, <2>2, <2>5
  <2>7. \A j \in back + 1 .. n : j \in T => j - 1 \in T
    BY <2>3
  <2>8. \A j \in back .. n : j \in T
    <3> HIDE DEF T
    <3> QED
      BY <2>4, <2>6, <2>7, Downwards
  <2> QED
    BY <2>8 DEF A
<1>7. ASSUME NEW e \in Closed(E, at) PROVE e \in E /\ e[2] \in Ancestors(E, e[1])
  <2>1. CASE e = <<u, v>>
    <3>1. e[1] = path[n] /\ e[2] = path[back] /\ n \in back .. n /\ back \in back .. n
      BY <1>1, <1>2, <2>1
    <3> QED
      BY <1>3, <1>6, <2>1, <3>1
  <2>2. ASSUME NEW i \in back .. n - 1, e = <<path[i], path[i + 1]>>
        PROVE  e \in E /\ e[2] \in Ancestors(E, e[1])
    <3>1. e[1] = path[i] /\ e[2] = path[i + 1]
      BY <2>2
    <3>2. i \in 1 .. n - 1 /\ i \in back .. n /\ i + 1 \in back .. n
      BY <1>1, <1>2
    <3> QED
      BY <1>4, <1>6, <2>2, <3>1, <3>2
  <2> QED
    BY <1>5, <2>1, <2>2
<1> QED
  BY <1>5, <1>7

\* The search of a finite graph finds edges of a cycle, or there is none.
LEMMA FindCycleFacts ==
  ASSUME NEW E \in SUBSET (Nat \X Nat), IsFiniteSet(E)
  PROVE  /\ FindCycle(E) \in SUBSET E
         /\ FindCycle(E) = {} => Cycleless(E)
         /\ \A e \in FindCycle(E) : e[2] \in Ancestors(E, e[1])
<1> DEFINE stop == Ended(E)
           next == [at \in Ways |-> IF at \in stop THEN at ELSE Onward(E, at)]
           out == [at \in Ways |-> Found(E, at)]
           P == {at \in Ways : Searching(E, at)}
           left(at) == Cardinality(Untried(E, at))
           m == [at \in Ways |-> 2 * left(at) + Len(at[1])]
           start == <<<<>>, {}>>
<1>1. PICK f : Loops(Ways, stop, next, out, f) /\ FindCycle(E) = f[start]
  BY FindCycleLoops
<1>2. \A at \in Ways : IsFiniteSet(Untried(E, at)) /\ left(at) \in Nat /\ Len(at[1]) \in Nat
  <2> SUFFICES ASSUME NEW at \in Ways
               PROVE  IsFiniteSet(Untried(E, at)) /\ left(at) \in Nat /\ Len(at[1]) \in Nat
    OBVIOUS
  <2>1. Untried(E, at) \in SUBSET Ends(E)
    BY DEF Untried
  <2>2. IsFiniteSet(Untried(E, at))
    BY <2>1, EndsFacts, FS_Subset
  <2>3. at[1] \in Seq(Nat)
    BY DEF Ways
  <2> QED
    BY <2>2, <2>3, FS_CardinalityType
<1>3. ASSUME NEW at \in P, at \notin stop
      PROVE  Onward(E, at) \in P /\ 2 * left(Onward(E, at)) + Len(Onward(E, at)[1]) < 2 * left(at) + Len(at[1])
  <2> DEFINE to == Onward(E, at)
  <2>0. at \in Ways /\ at \notin Ended(E) /\ Searching(E, at)
    BY <1>3
  <2>1. to \in Ways
    BY <2>0, OnwardStays
  <2>2. /\ Searching(E, to)
        /\ \/ /\ Untried(E, to) \subseteq Untried(E, at) /\ Untried(E, to) # Untried(E, at)
              /\ Len(to[1]) = Len(at[1]) + 1
           \/ Untried(E, to) = Untried(E, at) /\ Len(to[1]) = Len(at[1]) - 1
    BY <2>0, SearchTurns
  <2> HIDE DEF to
  <2>3. left(at) \in Nat /\ left(to) \in Nat /\ Len(at[1]) \in Nat /\ Len(to[1]) \in Nat
    BY <1>2, <2>0, <2>1
  <2>4. CASE /\ Untried(E, to) \subseteq Untried(E, at) /\ Untried(E, to) # Untried(E, at)
             /\ Len(to[1]) = Len(at[1]) + 1
    <3>1. left(to) < left(at)
      BY <1>2, <2>0, <2>4, CardinalityShrinks
    <3> HIDE DEF left
    <3> QED
      BY <2>1, <2>2, <2>3, <2>4, <3>1 DEF to
  <2>5. CASE Untried(E, to) = Untried(E, at) /\ Len(to[1]) = Len(at[1]) - 1
    <3>1. left(to) = left(at)
      BY <2>5
    <3> HIDE DEF left
    <3> QED
      BY <2>1, <2>2, <2>3, <2>5, <3>1 DEF to
  <2> QED
    BY <2>2, <2>4, <2>5
<1>4. Carries(Ways, stop, next, P)
  <2>1. \A at \in P \ stop : next[at] \in P
    BY <1>3
  <2> HIDE DEF stop, next
  <2> QED
    BY <2>1 DEF Carries
<1>5. Falls(P, stop, next, m)
  <2> SUFFICES ASSUME NEW at \in P
               PROVE  m[at] \in Nat /\ (at \notin stop => m[next[at]] < m[at])
    BY DEF Falls
  <2>0. at \in Ways
    OBVIOUS
  <2>1. m[at] = 2 * left(at) + Len(at[1])
    BY <2>0
  <2>2. ASSUME at \notin stop PROVE m[next[at]] < m[at]
    <3>1. Onward(E, at) \in Ways /\ next[at] = Onward(E, at)
      BY <1>3, <2>0, <2>2
    <3>2. m[next[at]] = 2 * left(Onward(E, at)) + Len(Onward(E, at)[1])
      BY <3>1
    <3> HIDE DEF m, next, left
    <3> QED
      BY <1>3, <2>1, <2>2, <3>2
  <2> HIDE DEF m, next, left, stop
  <2>3. m[at] \in Nat
    BY <1>2, <2>0, <2>1
  <2> QED
    BY <2>2, <2>3
<1>6. start \in P
  <2>1. <<>> \in Seq(Nat) /\ start[1] = <<>> /\ start[2] = {} /\ Len(<<>>) = 0
    OBVIOUS
  <2>2. start \in Ways
    <3>1. \A p \in Seq(Nat), b \in SUBSET Nat : <<p, b>> \in Ways
      BY DEF Ways
    <3>2. {} \in SUBSET Nat
      OBVIOUS
    <3> QED
      BY <2>1, <3>1, <3>2
  <2>3. Searching(E, start)
    BY <2>1 DEF Searching
  <2> QED
    BY <2>2, <2>3
<1>7. PICK at \in P \cap stop : f[start] = out[at]
  <2> HIDE DEF stop, next, out, P, m, start
  <2> QED
    BY <1>1, <1>4, <1>5, <1>6, LoopKeeps
<1>8. at \in Ways /\ Searching(E, at) /\ FindCycle(E) = Found(E, at) /\ at \in Ended(E)
  BY <1>1, <1>7
<1>9. CASE at[1] = <<>>
  <2>1. Ends(E) \ at[2] = {}
    BY <1>8, <1>9 DEF Ended, Closing
  <2>2. \A S : Turns(E, S) => S \subseteq at[2]
    <3>1. \A e \in E : e[1] \in Ends(E)
      BY EndsFacts
    <3> QED
      BY <2>1, <3>1 DEF Turns
  <2>3. Cycleless(E)
    BY <1>8, <2>2 DEF Searching, Cycleless
  <2> QED
    BY <1>8, <1>9, <2>3 DEF Found
<1>10. CASE at[1] # <<>>
  <2>1. Closing(E, at) /\ FindCycle(E) = Closed(E, at)
    BY <1>8, <1>10 DEF Ended, Found
  <2> QED
    BY <1>8, <2>1, ClosedFacts
<1> QED
  BY <1>9, <1>10

\* What is left when no cycle is found has none, and what went lay on one.
LEMMA UncycledFacts ==
  ASSUME NEW E \in SUBSET (Nat \X Nat), IsFiniteSet(E)
  PROVE  /\ Uncycled(E) \in SUBSET E
         /\ Cycleless(Uncycled(E))
         /\ \A e \in E \ Uncycled(E) : e[2] \in Ancestors(E, e[1])
<1> DEFINE D == SUBSET E
           stop == {rest \in D : FindCycle(rest) = {}}
           next == [rest \in D |-> rest \ FindCycle(rest)]
           id == [rest \in D |-> rest]
           m == [rest \in D |-> Cardinality(rest)]
           P == {rest \in D : \A e \in E \ rest : e[2] \in Ancestors(E, e[1])}
           Routes(f) == f = [rest \in D |-> IF FindCycle(rest) = {} THEN rest
                                            ELSE f[rest \ FindCycle(rest)]]
           W == CHOOSE f : Routes(f)
<1>1. next \in [D -> D]
  OBVIOUS
<1>2. \A f : Loops(D, stop, next, id, f) <=> Routes(f)
  <2>1. \A f : [rest \in D |-> IF rest \in stop THEN id[rest] ELSE f[next[rest]]]
                = [rest \in D |-> IF FindCycle(rest) = {} THEN rest ELSE f[rest \ FindCycle(rest)]]
    OBVIOUS
  <2> QED
    BY <2>1 DEF Loops
<1>3. Loops(D, stop, next, id, W)
  <2>1. \E f : Loops(D, stop, next, id, f)
    <3> HIDE DEF D, stop, next, id
    <3> QED
      BY <1>1, LoopExists
  <2> HIDE DEF Routes, D, stop, next, id
  <2> QED
    BY <1>2, <2>1
<1>4. Uncycled(E) = W[E]
  BY DEF Uncycled
<1>5. \A rest \in D : rest \in SUBSET (Nat \X Nat) /\ IsFiniteSet(rest)
  BY FS_Subset
<1>6. ASSUME NEW rest \in D
      PROVE  /\ m[rest] \in Nat /\ next[rest] \in D
             /\ rest \notin stop => m[next[rest]] < m[rest]
             /\ rest \in P => next[rest] \in P
  <2>1. FindCycle(rest) \in SUBSET rest /\ \A e \in FindCycle(rest) : e[2] \in Ancestors(rest, e[1])
    BY <1>5, FindCycleFacts
  <2>2. ASSUME rest \notin stop PROVE Cardinality(rest \ FindCycle(rest)) < Cardinality(rest)
    <3>1. FindCycle(rest) # {}
      BY <2>2
    <3>2. (rest \ FindCycle(rest)) \in SUBSET rest /\ (rest \ FindCycle(rest)) # rest
      BY <2>1, <3>1
    <3> QED
      BY <1>5, <3>2, CardinalityShrinks
  <2>3. \A x : Ancestors(rest, x) \subseteq Ancestors(E, x)
    BY AncestorsSteps
  <2>4. rest \in P => (rest \ FindCycle(rest)) \in P
    BY <2>1, <2>3
  <2>5. Cardinality(rest) \in Nat
    BY <1>5, FS_CardinalityType
  <2> QED
    BY <2>2, <2>4, <2>5
<1>7. Falls(D, stop, next, m)
  <2> HIDE DEF D, stop, next, m
  <2> QED
    BY <1>6 DEF Falls
<1>8. Carries(D, stop, next, P)
  <2>1. P \in SUBSET D
    OBVIOUS
  <2> HIDE DEF D, stop, next, m, P
  <2> QED
    BY <1>6, <2>1 DEF Carries
<1>9. W[E] \in P \cap stop
  <2>1. E \in P
    OBVIOUS
  <2> HIDE DEF D, stop, next, m, P, W
  <2> QED
    BY <1>3, <1>7, <1>8, <2>1, WalkKeeps DEF id
<1> HIDE DEF W
<1>10. FindCycle(W[E]) = {} /\ W[E] \in SUBSET E /\ \A e \in E \ W[E] : e[2] \in Ancestors(E, e[1])
  BY <1>9
<1>11. Cycleless(W[E])
  BY <1>5, <1>10, FindCycleFacts
<1> QED
  BY <1>4, <1>10, <1>11

-----------------------------------------------------------------------------
(* The consensus ordering, whatever the judges answer. *)

ConsensusLast == Len(Domains)

\* The concepts i of which the judge may order.
JudgedOf(i) == Domains[i] \cap judges.evidenced

\* e relates two concepts the judge may order in domain i.
Relates(e, i) ==
  /\ i \in 1 .. ConsensusLast
  /\ e \in Node \X Node /\ e[1] \in JudgedOf(i) /\ e[2] \in JudgedOf(i) /\ e[1] # e[2]

\* A pair is kept exactly once, in a direction the draws did not outvote.
SettledBy(given, found, e) ==
  \E kept \in Beside(e), d \in {"certain", "uncertain", "weak"} :
    /\ given[kept] >= given[Reversed(kept)]
    /\ kept \in found[d]
    /\ Reversed(kept) \notin found[d]
    /\ \A c \in {"certain", "uncertain", "weak"} \ {d} : Beside(e) \cap found[c] = {}

OrderingInv ==
  /\ domain \in Nat \ {0}
  /\ votes \in [Node \X Node -> Nat]
  /\ ordering \in [Dispositions -> SUBSET (Node \X Node)]
  /\ \A e \in Node \X Node : votes[e] > 0 => \E i \in 1 .. domain : Relates(e, i)
  /\ \A d \in Dispositions : \A e \in ordering[d] : \E i \in 1 .. domain - 1 : Relates(e, i)
  /\ \A e \in Node \X Node : votes[e] > 0 =>
       \A i \in 1 .. domain - 1 : Relates(e, i) => SettledBy(votes, ordering, e)
  /\ Cycleless(ordering["certain"])
  /\ \A e \in ordering["routed"] :
       e[2] \in Ancestors(ordering["certain"] \cup ordering["routed"], e[1])

\* The domains are finite, and a concept is in one.
LEMMA DomainsFacts ==
         /\ ConsensusLast \in Nat
         /\ \A i \in 1 .. ConsensusLast : Domains[i] \in SUBSET Node
         /\ \A i, j \in 1 .. ConsensusLast : \A n \in Domains[i] : n \in Domains[j] => i = j
         /\ \A n \in Node : \E i \in 1 .. ConsensusLast : n \in Domains[i]
         /\ Node \in SUBSET Nat /\ IsFiniteSet(Node) /\ IsFiniteSet(Node \X Node)
<1>1. ConsensusLast \in Nat /\ DOMAIN Domains = 1 .. ConsensusLast
      /\ \A i \in 1 .. ConsensusLast : Domains[i] \in SUBSET Nat
  BY ConsensusAssumption DEF ConsensusLast
<1>2. \A i \in 1 .. ConsensusLast : Domains[i] \in SUBSET Node
  BY <1>1 DEF Node, Range
<1>3. \A i, j \in 1 .. ConsensusLast : \A n \in Domains[i] : n \in Domains[j] => i = j
  <2> SUFFICES ASSUME NEW i \in 1 .. ConsensusLast, NEW j \in 1 .. ConsensusLast,
                      NEW n \in Domains[i], n \in Domains[j], i # j
               PROVE  FALSE
    OBVIOUS
  <2>1. Domains[i] \cap Domains[j] = {}
    BY <1>1, ConsensusAssumption
  <2> QED
    BY <2>1
<1>4. \A n \in Node : \E i \in 1 .. ConsensusLast : n \in Domains[i]
  BY <1>1 DEF Node, Range
<1>5. Node \in SUBSET Nat
  BY <1>1, <1>4
<1>6. IsFiniteSet(Range(Domains)) /\ \A T \in Range(Domains) : IsFiniteSet(T)
  <2>1. Domains \in Surjection(1 .. ConsensusLast, Range(Domains))
    <3>1. Domains \in [1 .. ConsensusLast -> Range(Domains)]
      BY <1>1, ConsensusAssumption DEF Range
    <3> QED
      BY <1>1, <3>1 DEF Surjection, Range
  <2>2. IsFiniteSet(1 .. ConsensusLast)
    BY <1>1, FS_Interval
  <2>3. \A T \in Range(Domains) : IsFiniteSet(T)
    BY <1>1, ConsensusAssumption DEF Range
  <2> QED
    BY <2>1, <2>2, <2>3, FS_Surjection
<1>7. IsFiniteSet(Node)
  BY <1>6, FS_UNION DEF Node
<1>8. IsFiniteSet(Node \X Node)
  BY <1>7, FS_Product
<1> QED
  BY <1>1, <1>2, <1>3, <1>4, <1>5, <1>7, <1>8

\* A pair is related in one domain, and its reverse in the same.
LEMMA RelatesFacts ==
  ASSUME NEW e, NEW i, Relates(e, i)
  PROVE  /\ Relates(Reversed(e), i) /\ Reversed(Reversed(e)) = e /\ Reversed(e) # e
         /\ e = <<e[1], e[2]>> /\ Reversed(e)[1] = e[2] /\ Reversed(e)[2] = e[1]
         /\ \A j : Relates(e, j) => i = j
<1>1. e = <<e[1], e[2]>> /\ e[1] \in Node /\ e[2] \in Node
  BY DEF Relates
<1>2. Reversed(e) = <<e[2], e[1]>> /\ Reversed(e)[1] = e[2] /\ Reversed(e)[2] = e[1]
      /\ Reversed(e) \in Node \X Node
  BY <1>1 DEF Reversed
<1>3. Reversed(Reversed(e)) = e
  BY <1>1, <1>2 DEF Reversed
<1>4. \A j : Relates(e, j) => i = j
  BY DomainsFacts DEF Relates, JudgedOf
<1> QED
  BY <1>1, <1>2, <1>3, <1>4 DEF Relates

\* Two graphs that share no node have no cycle between them.
LEMMA CyclelessApart ==
  ASSUME NEW A, NEW B, Cycleless(A), Cycleless(B),
         \A a \in A, b \in B : a[1] # b[1] /\ a[1] # b[2] /\ a[2] # b[1] /\ a[2] # b[2]
  PROVE  Cycleless(A \cup B)
<1> SUFFICES ASSUME NEW S, Turns(A \cup B, S) PROVE S = {}
  BY DEF Cycleless
<1> DEFINE SA == {x \in S : \E a \in A : a[1] = x}
           SB == {x \in S : \E b \in B : b[1] = x}
<1>1. S = SA \cup SB
  BY DEF Turns
<1>2. Turns(A, SA)
  BY DEF Turns
<1>3. Turns(B, SB)
  BY DEF Turns
<1> QED
  BY <1>1, <1>2, <1>3 DEF Cycleless

LEMMA ConsensusStarts == ConsensusInit => OrderingInv
<1> SUFFICES ASSUME ConsensusInit PROVE OrderingInv
  OBVIOUS
<1>1. domain = 1 /\ votes = [e \in Node \X Node |-> 0] /\ ordering = [d \in Dispositions |-> {}]
  BY DEF ConsensusInit, NoVotes
<1>2. Cycleless({})
  BY DEF Cycleless, Turns
<1>3. ordering["certain"] = {} /\ ordering["routed"] = {}
  BY <1>1 DEF Dispositions
<1>4. votes \in [Node \X Node -> Nat] /\ \A e \in Node \X Node : ~ (votes[e] > 0)
  BY <1>1
<1>5. ordering \in [Dispositions -> SUBSET (Node \X Node)] /\ \A d \in Dispositions : ordering[d] = {}
  BY <1>1
<1>6. domain \in Nat \ {0}
  BY <1>1
<1> QED
  BY <1>2, <1>3, <1>4, <1>5, <1>6 DEF OrderingInv

\* What the rest of the run leaves alone.
LEMMA OrderingRests == OrderingInv /\ UNCHANGED <<judges, orderingVars>> => OrderingInv'
<1> SUFFICES ASSUME OrderingInv, UNCHANGED <<judges, orderingVars>> PROVE OrderingInv'
  OBVIOUS
<1>1. judges' = judges /\ domain' = domain /\ votes' = votes /\ ordering' = ordering
  BY DEF orderingVars
<1> QED
  BY <1>1 DEF OrderingInv, Relates, JudgedOf

\* A draw answers for the domain that is being ordered.
LEMMA DrawOrderingKeeps ==
  ASSUME OrderingInv, NEW said, DrawOrdering(said)
  PROVE  OrderingInv'
<1>1. judges' = judges /\ domain' = domain /\ ordering' = ordering
  BY DEF DrawOrdering, orderingVars
<1>0. domain \in 1 .. ConsensusLast
  BY DomainsFacts DEF DrawOrdering, ToOrder, OrderingInv, ConsensusLast
<1>2. CASE \E e \in said : BadEdge(e)
  <2>1. UNCHANGED <<judges, orderingVars>>
    BY <1>1, <1>2 DEF DrawOrdering
  <2> QED
    BY <2>1, OrderingRests
<1>3. CASE ~ \E e \in said : BadEdge(e)
  <2>1. votes' = [e \in Node \X Node |-> IF e \in said THEN votes[e] + 1 ELSE votes[e]]
    BY <1>3 DEF DrawOrdering, OrderingInv
  <2>2. \A e \in said : Relates(e, domain)
    <3> SUFFICES ASSUME NEW e \in said PROVE Relates(e, domain)
      OBVIOUS
    <3>1. e \in JudgedOf(domain) \X JudgedOf(domain) /\ e[1] # e[2]
      BY <1>3 DEF BadEdge, Judged, JudgedOf
    <3>2. JudgedOf(domain) \in SUBSET Node
      BY <1>0, <1>1, DomainsFacts DEF JudgedOf
    <3> QED
      BY <1>0, <1>1, <3>1, <3>2 DEF Relates
  <2>3. votes' \in [Node \X Node -> Nat]
    BY <2>1 DEF OrderingInv
  <2>4. \A e \in Node \X Node : votes'[e] > 0 => \E i \in 1 .. domain : Relates(e, i)
    <3> SUFFICES ASSUME NEW e \in Node \X Node, votes'[e] > 0 PROVE \E i \in 1 .. domain : Relates(e, i)
      OBVIOUS
    <3>1. CASE e \in said
      BY <1>0, <1>1, <2>2, <3>1
    <3>2. CASE e \notin said
      BY <2>1, <3>2 DEF OrderingInv
    <3> QED
      BY <3>1, <3>2
  <2>5. ASSUME NEW e \in Node \X Node, votes'[e] > 0, NEW i \in 1 .. domain - 1, Relates(e, i)
        PROVE  SettledBy(votes', ordering, e)
    <3>1. domain \notin 1 .. domain - 1
      BY <1>0, <1>1, DomainsFacts
    <3>2. Relates(Reversed(e), i) /\ e \notin said /\ Reversed(e) \notin said
      BY <2>2, <2>5, <3>1, RelatesFacts
    <3>3. Reversed(e) \in Node \X Node /\ Reversed(Reversed(e)) = e
      BY <2>5, <3>2, RelatesFacts DEF Relates
    <3>4. votes'[e] = votes[e] /\ votes'[Reversed(e)] = votes[Reversed(e)]
      BY <2>1, <3>2, <3>3
    <3>5. SettledBy(votes, ordering, e)
      BY <2>5, <3>4 DEF OrderingInv
    <3> QED
      BY <3>3, <3>4, <3>5 DEF SettledBy, Beside
  <2> QED
    BY <1>1, <2>3, <2>4, <2>5 DEF OrderingInv, Relates, JudgedOf
<1> QED
  BY <1>2, <1>3

\* What the tally of a domain adds to the edges.
Tallied ==
  LET certain == Uncycled(Strong)
  IN  [certain |-> certain,
       uncertain |-> (Majorities \ Uncontested) \cup (Strong \ certain),
       weak |-> Uncontested \ Strong,
       routed |-> Strong \ certain]

\* One direction of a pair that some draw related has the majority.
LEMMA MajoritiesFacts ==
  ASSUME OrderingInv, domain \in 1 .. ConsensusLast
  PROVE  /\ \A e \in Majorities : /\ Relates(e, domain) /\ votes[e] >= votes[Reversed(e)]
                                  /\ Reversed(e) \notin Majorities
         /\ \A e : Relates(e, domain) /\ votes[e] > 0 => e \in Majorities \/ Reversed(e) \in Majorities
<1>1. Judged = JudgedOf(domain) /\ JudgedOf(domain) \in SUBSET Node /\ Node \in SUBSET Nat
  BY DomainsFacts DEF Judged, JudgedOf
<1>2. \A e \in Node \X Node : Reversed(e) \in Node \X Node /\ Reversed(Reversed(e)) = e
      /\ votes[e] \in Nat /\ votes[Reversed(e)] \in Nat
      /\ Reversed(e)[1] = e[2] /\ Reversed(e)[2] = e[1] /\ e[1] \in Nat /\ e[2] \in Nat
  <2> SUFFICES ASSUME NEW a \in Node, NEW b \in Node
               PROVE  LET e == <<a, b>>
                      IN  /\ Reversed(e) \in Node \X Node /\ Reversed(Reversed(e)) = e
                          /\ votes[e] \in Nat /\ votes[Reversed(e)] \in Nat
                          /\ Reversed(e)[1] = e[2] /\ Reversed(e)[2] = e[1] /\ e[1] \in Nat /\ e[2] \in Nat
    OBVIOUS
  <2>1. Reversed(<<a, b>>) = <<b, a>> /\ Reversed(<<b, a>>) = <<a, b>>
    BY DEF Reversed
  <2>2. votes[<<a, b>>] \in Nat /\ votes[<<b, a>>] \in Nat
    BY DEF OrderingInv
  <2> QED
    BY <1>1, <2>1, <2>2
<1>3. ASSUME NEW e \in Majorities
      PROVE  /\ Relates(e, domain) /\ votes[e] >= votes[Reversed(e)]
             /\ Reversed(e) \notin Majorities
  <2>1. e \in JudgedOf(domain) \X JudgedOf(domain) /\ e \in Node \X Node /\ Majority(e)
    BY <1>1 DEF Majorities
  <2>2. votes[e] > 0 /\ votes[e] >= votes[Reversed(e)]
    BY <1>2, <2>1 DEF Majority
  <2>3. PICK i \in 1 .. domain : Relates(e, i)
    BY <2>1, <2>2 DEF OrderingInv
  <2>4. i = domain
    BY <2>1, <2>3, DomainsFacts DEF Relates, JudgedOf
  <2>5. e[1] # e[2]
    BY <2>3 DEF Relates
  <2>6. ~ Majority(Reversed(e))
    BY <1>2, <2>1, <2>5 DEF Majority
  <2> QED
    BY <2>2, <2>3, <2>4, <2>6 DEF Majorities
<1>4. ASSUME NEW e, Relates(e, domain), votes[e] > 0
      PROVE  e \in Majorities \/ Reversed(e) \in Majorities
  <2>1. e \in Node \X Node /\ e[1] # e[2] /\ e = <<e[1], e[2]>>
    BY <1>4 DEF Relates
  <2>2. Majority(e) \/ Majority(Reversed(e))
    BY <1>2, <1>4, <2>1 DEF Majority
  <2>3. e \in Judged \X Judged
    BY <1>1, <1>4, <2>1 DEF Relates
  <2>4. Reversed(e) \in Judged \X Judged
    BY <2>3 DEF Reversed
  <2> QED
    BY <2>2, <2>3, <2>4 DEF Majorities
<1> QED
  BY <1>3, <1>4

\* The tally sorts each majority under one heading.
LEMMA TalliedFacts ==
  ASSUME OrderingInv, domain \in 1 .. ConsensusLast
  PROVE  /\ Tallied \in [Dispositions -> SUBSET Majorities]
         /\ \A e \in Majorities : \E d \in {"certain", "uncertain", "weak"} :
              e \in Tallied[d] /\ \A c \in {"certain", "uncertain", "weak"} \ {d} : e \notin Tallied[c]
         /\ Cycleless(Tallied["certain"])
         /\ \A e \in Tallied["routed"] :
              e[2] \in Ancestors(Tallied["certain"] \cup Tallied["routed"], e[1])
<1> DEFINE certain == Uncycled(Strong)
<1>1. Uncontested \in SUBSET Majorities /\ Strong \in SUBSET Uncontested
  BY DEF Uncontested, Strong
<1>2. Strong \in SUBSET (Nat \X Nat) /\ IsFiniteSet(Strong)
  <2>1. Strong \in SUBSET (Node \X Node)
    BY <1>1, MajoritiesFacts DEF Relates
  <2>2. IsFiniteSet(Strong)
    BY <2>1, DomainsFacts, FS_Subset
  <2>3. (Node \X Node) \subseteq (Nat \X Nat)
    BY DomainsFacts
  <2> QED
    BY <2>1, <2>2, <2>3
<1>3. /\ certain \in SUBSET Strong /\ Cycleless(certain)
      /\ \A e \in Strong \ certain : e[2] \in Ancestors(Strong, e[1])
  BY <1>2, UncycledFacts
<1>4. /\ Tallied["certain"] = certain
      /\ Tallied["uncertain"] = (Majorities \ Uncontested) \cup (Strong \ certain)
      /\ Tallied["weak"] = Uncontested \ Strong
      /\ Tallied["routed"] = Strong \ certain
      /\ DOMAIN Tallied = {"certain", "uncertain", "weak", "routed"}
  BY DEF Tallied
<1>5. Tallied = [d \in {"certain", "uncertain", "weak", "routed"} |-> Tallied[d]]
  BY DEF Tallied
<1> HIDE DEF certain
<1>6. Tallied \in [Dispositions -> SUBSET Majorities]
  BY <1>1, <1>3, <1>4, <1>5 DEF Dispositions
<1>7. \A e \in Majorities : \E d \in {"certain", "uncertain", "weak"} :
        e \in Tallied[d] /\ \A c \in {"certain", "uncertain", "weak"} \ {d} : e \notin Tallied[c]
  BY <1>1, <1>3, <1>4
<1>8. Tallied["certain"] \cup Tallied["routed"] = Strong
  BY <1>3, <1>4
<1> QED
  BY <1>3, <1>4, <1>6, <1>7, <1>8

\* The tally of a domain settles its pairs and touches no other.
LEMMA ConcludeDomainKeeps ==
  ASSUME OrderingInv, ConcludeDomain
  PROVE  OrderingInv'
<1> DEFINE final == {"certain", "uncertain", "weak"}
<1>1. domain \in 1 .. ConsensusLast
  BY DomainsFacts DEF ConcludeDomain, ToOrder, OrderingInv, ConsensusLast
<1>2. /\ judges' = judges /\ votes' = votes /\ domain' = domain + 1
      /\ ordering' = [d \in Dispositions |-> ordering[d] \cup Tallied[d]]
  BY DEF ConcludeDomain, Tallied
<1>3. /\ domain \in Nat \ {0} /\ domain' \in Nat \ {0} /\ domain' - 1 = domain
      /\ 1 .. domain - 1 \in SUBSET (1 .. domain) /\ domain \in 1 .. domain
      /\ 1 .. domain \in SUBSET (1 .. domain') /\ domain \notin 1 .. domain - 1
      /\ \A i \in 1 .. domain : i = domain \/ i \in 1 .. domain - 1
  BY <1>2 DEF OrderingInv
<1>4. \A d \in Dispositions : Tallied[d] \in SUBSET Majorities /\ \A e \in Tallied[d] : Relates(e, domain)
  BY <1>1, TalliedFacts, MajoritiesFacts
<1>5. \A d \in Dispositions : ordering'[d] = ordering[d] \cup Tallied[d]
  BY <1>2
<1>6. "certain" \in Dispositions /\ "routed" \in Dispositions /\ final \in SUBSET Dispositions
  BY DEF Dispositions
<1>7. ordering' \in [Dispositions -> SUBSET (Node \X Node)]
  <2>1. \A d \in Dispositions : ordering[d] \cup Tallied[d] \in SUBSET (Node \X Node)
    BY <1>4 DEF Relates, OrderingInv
  <2> QED
    BY <1>2, <2>1
<1>8. \A d \in Dispositions : \A e \in ordering'[d] : \E i \in 1 .. domain : Relates(e, i)
  BY <1>3, <1>4, <1>5 DEF OrderingInv
<1>9. ASSUME NEW e, NEW i \in 1 .. domain - 1, Relates(e, i)
      PROVE  \A d \in Dispositions : Beside(e) \cap Tallied[d] = {}
  <2>1. \A x \in Beside(e) : Relates(x, i) /\ ~ Relates(x, domain)
    BY <1>3, <1>9, RelatesFacts DEF Beside
  <2> QED
    BY <1>4, <2>1
<1>10. ASSUME NEW e \in Node \X Node, votes[e] > 0, NEW i \in 1 .. domain, Relates(e, i)
       PROVE  SettledBy(votes, ordering', e)
  <2>1. CASE i \in 1 .. domain - 1
    <3>1. SettledBy(votes, ordering, e)
      BY <1>10, <2>1 DEF OrderingInv
    <3>2. \A d \in Dispositions : Beside(e) \cap Tallied[d] = {} /\ Beside(e) \cap ordering'[d] = Beside(e) \cap ordering[d]
      BY <1>5, <1>9, <1>10, <2>1
    <3>3. PICK kept \in Beside(e), d \in final :
            /\ votes[kept] >= votes[Reversed(kept)]
            /\ kept \in ordering[d]
            /\ Reversed(kept) \notin ordering[d]
            /\ \A c \in final \ {d} : Beside(e) \cap ordering[c] = {}
      BY <3>1 DEF SettledBy
    <3>4. Reversed(kept) \in Beside(e)
      BY <1>10, RelatesFacts DEF Beside
    <3>5. kept \in ordering'[d] /\ Reversed(kept) \notin ordering'[d]
      BY <1>6, <3>2, <3>3, <3>4
    <3>6. \A c \in final \ {d} : Beside(e) \cap ordering'[c] = {}
      BY <1>6, <3>2, <3>3
    <3> QED
      BY <3>3, <3>5, <3>6 DEF SettledBy
  <2>2. CASE i = domain
    <3>1. PICK kept \in Beside(e) : kept \in Majorities
      BY <1>1, <1>10, <2>2, MajoritiesFacts DEF Beside
    <3>2. Beside(e) = {kept, Reversed(kept)}
      BY <1>10, RelatesFacts DEF Beside
    <3>3. Relates(kept, domain) /\ votes[kept] >= votes[Reversed(kept)] /\ Reversed(kept) \notin Majorities
      BY <1>1, <3>1, MajoritiesFacts
    <3>4. Relates(Reversed(kept), domain)
      BY <3>3, RelatesFacts
    <3>5. \A d \in Dispositions : Beside(e) \cap ordering[d] = {}
      <4> SUFFICES ASSUME NEW d \in Dispositions, NEW x \in ordering[d], x \in Beside(e) PROVE FALSE
        OBVIOUS
      <4>1. Relates(x, domain)
        BY <3>2, <3>3, <3>4
      <4>2. PICK j \in 1 .. domain - 1 : Relates(x, j)
        BY DEF OrderingInv
      <4>3. \A k : Relates(x, k) => domain = k
        BY <4>1, RelatesFacts
      <4> QED
        BY <1>3, <4>2, <4>3
    <3>6. PICK d \in final : kept \in Tallied[d] /\ \A c \in final \ {d} : kept \notin Tallied[c]
      BY <1>1, <3>1, TalliedFacts
    <3>7. \A c \in Dispositions : Reversed(kept) \notin ordering'[c]
      BY <1>4, <1>5, <3>2, <3>3, <3>5
    <3>8. kept \in ordering'[d] /\ \A c \in final \ {d} : kept \notin ordering'[c]
      BY <1>5, <1>6, <3>1, <3>5, <3>6
    <3>9. \A c \in final \ {d} : Beside(e) \cap ordering'[c] = {}
      BY <1>6, <3>2, <3>7, <3>8
    <3> QED
      BY <1>6, <3>3, <3>7, <3>8, <3>9 DEF SettledBy
  <2> QED
    BY <1>3, <2>1, <2>2
<1>11. Cycleless(ordering'["certain"])
  <2>1. ASSUME NEW a \in ordering["certain"], NEW b \in Tallied["certain"]
        PROVE  a[1] # b[1] /\ a[1] # b[2] /\ a[2] # b[1] /\ a[2] # b[2]
    <3>1. PICK i \in 1 .. domain - 1 : Relates(a, i)
      BY <1>6 DEF OrderingInv
    <3>2. Relates(b, domain) /\ i # domain
      BY <1>3, <1>4, <1>6
    <3> QED
      BY <3>1, <3>2, DomainsFacts DEF Relates, JudgedOf
  <2>2. Cycleless(ordering["certain"]) /\ Cycleless(Tallied["certain"])
    BY <1>1, TalliedFacts DEF OrderingInv
  <2>3. Cycleless(ordering["certain"] \cup Tallied["certain"])
    BY <2>1, <2>2, CyclelessApart
  <2> QED
    BY <1>5, <1>6, <2>3
<1>12. \A e \in ordering'["routed"] :
         e[2] \in Ancestors(ordering'["certain"] \cup ordering'["routed"], e[1])
  <2> DEFINE all == ordering'["certain"] \cup ordering'["routed"]
             old == ordering["certain"] \cup ordering["routed"]
             new == Tallied["certain"] \cup Tallied["routed"]
  <2>1. all \in SUBSET (Node \X Node) /\ old \in SUBSET all /\ new \in SUBSET all
    BY <1>5, <1>6, <1>7
  <2>2. IsFiniteSet(all)
    BY <2>1, DomainsFacts, FS_Subset
  <2>3. \A e \in ordering["routed"] : e[2] \in Ancestors(old, e[1])
    BY DEF OrderingInv
  <2>4. \A e \in Tallied["routed"] : e[2] \in Ancestors(new, e[1])
    BY <1>1, TalliedFacts
  <2> HIDE DEF all, old, new
  <2>5. \A x : Ancestors(old, x) \subseteq Ancestors(all, x) /\ Ancestors(new, x) \subseteq Ancestors(all, x)
    BY <2>1, <2>2, AncestorsSteps
  <2>6. \A e \in ordering'["routed"] : e[2] \in Ancestors(all, e[1])
    BY <1>5, <1>6, <2>3, <2>4, <2>5
  <2> QED
    BY <2>6 DEF all
<1>13. \A e \in Node \X Node : votes[e] > 0 => \E i \in 1 .. domain' : Relates(e, i)
  BY <1>3 DEF OrderingInv
<1>14. \A e, i : Relates(e, i)' <=> Relates(e, i)
  BY <1>2 DEF Relates, JudgedOf
<1> QED
  BY <1>2, <1>3, <1>7, <1>8, <1>10, <1>11, <1>12, <1>13, <1>14 DEF OrderingInv

BandingInv ==
  /\ bandDraws \in Nat
  /\ bandVotes \in [Node -> [Band -> Nat]]
  /\ bandDraws > 0 /\ banding \in 1 .. ConsensusLast => \A n \in Domains[banding] : Voted(n) # {}
  /\ banding \in Nat \ {0}
  /\ DOMAIN difficulty \subseteq Node
  /\ \A n \in DOMAIN difficulty : difficulty[n].band \in Voted(n)

LayerInv ==
  completion = "persisted" =>
    /\ domain > ConsensusLast
    /\ layer.certain = TransitiveReduction(ordering["certain"])
    /\ layer.difficulty = difficulty /\ DOMAIN difficulty = Node

ConsensusInv == OrderingInv /\ BandingInv /\ LayerInv

\* A band some draw gave the concept: the one most draws gave, the least or
\* the greatest.
LEMMA BandsFacts ==
  ASSUME bandVotes \in [Node -> [Band -> Nat]], NEW n \in Node, Voted(n) # {}
  PROVE  Modal(n) \in Voted(n) /\ Min(Voted(n)) \in Voted(n) /\ Max(Voted(n)) \in Voted(n)
<1> DEFINE v == bandVotes[n]
           T == {b \in Band : \A c \in Band : v[b] >= v[c]}
<1>1. v[1] \in Nat /\ v[2] \in Nat /\ v[3] \in Nat /\ v[4] \in Nat /\ v[5] \in Nat
      /\ \A c \in Band : v[c] \in Nat
  BY DEF Band
<1> HIDE DEF v
<1>2. \A c \in Band : c = 1 \/ c = 2 \/ c = 3 \/ c = 4 \/ c = 5
  BY DEF Band
<1>3. \E b \in {1, 2, 3, 4, 5} : v[b] >= v[1] /\ v[b] >= v[2] /\ v[b] >= v[3] /\ v[b] >= v[4] /\ v[b] >= v[5]
  BY <1>1
<1>4. T # {} /\ T \in SUBSET Nat
  <2>1. {1, 2, 3, 4, 5} \subseteq Band /\ Band \in SUBSET Nat
    BY DEF Band
  <2> QED
    BY <1>2, <1>3, <2>1
<1>5. PICK m \in T : \A k \in T : m <= k
  <2> HIDE DEF T
  <2> QED
    BY <1>4, LeastNatural
<1>6. m \in Band /\ m \in Nat /\ \A c \in Band \ {m} : v[m] > v[c] \/ (v[m] = v[c] /\ m < c)
  <2>1. m \in Band /\ m \in Nat /\ \A c \in Band : v[m] >= v[c]
    BY <1>4, <1>5
  <2> SUFFICES ASSUME NEW c \in Band \ {m}, ~ (v[m] > v[c]) PROVE v[m] = v[c] /\ m < c
    BY <2>1
  <2>2. v[m] = v[c]
    BY <1>1, <2>1
  <2>3. c \in T /\ c \in Nat
    BY <1>4, <2>1, <2>2
  <2>4. m <= c
    BY <1>5, <2>3
  <2> QED
    BY <2>1, <2>2, <2>3, <2>4
<1>7. Modal(n) \in Band /\ \A c \in Band \ {Modal(n)} : v[Modal(n)] > v[c] \/ v[Modal(n)] = v[c]
  <2>1. \E b \in Band : \A c \in Band \ {b} : v[b] > v[c] \/ (v[b] = v[c] /\ b < c)
    BY <1>6
  <2> QED
    BY <2>1 DEF Modal, v
<1>8. PICK c \in Band : v[c] > 0
  BY DEF Voted, v
<1>9. v[Modal(n)] > 0
  BY <1>1, <1>7, <1>8
<1>10. Modal(n) \in Voted(n)
  BY <1>7, <1>9 DEF Voted, v
<1>11. Voted(n) \in SUBSET (1 .. 5) /\ Voted(n) \in SUBSET Nat
  BY DEF Voted, Band
<1> QED
  BY <1>10, <1>11, MinFacts, MaxFacts

\* A banding draw gives every concept of the domain a band, and takes none back.
LEMMA DrawBandingKeeps ==
  ASSUME BandingInv, NEW said, DrawBanding(said)
  PROVE  BandingInv'
<1>1. difficulty' = difficulty /\ banding' = banding
  BY DEF DrawBanding, bandingVars
<1>2. CASE ~ (DOMAIN said = Domains[banding] /\ Range(said) \subseteq Band)
  BY <1>2 DEF DrawBanding, bandingVars, BandingInv, Voted
<1>3. CASE DOMAIN said = Domains[banding] /\ Range(said) \subseteq Band
  <2>1. /\ bandDraws' = bandDraws + 1
        /\ bandVotes' = [n \in Node |-> IF n \in DOMAIN said
                                        THEN [bandVotes[n] EXCEPT ![said[n]] = @ + 1]
                                        ELSE bandVotes[n]]
    BY <1>3 DEF DrawBanding
  <2>2. \A n \in DOMAIN said : said[n] \in Band
    BY <1>3 DEF Range
  <2>3. ASSUME NEW n \in Node
        PROVE  /\ bandVotes'[n] \in [Band -> Nat]
               /\ \A b \in Band : bandVotes[n][b] > 0 => bandVotes'[n][b] > 0
               /\ n \in DOMAIN said => bandVotes'[n][said[n]] > 0
    <3>1. bandVotes[n] \in [Band -> Nat]
      BY DEF BandingInv
    <3>2. CASE n \notin DOMAIN said
      BY <2>1, <3>1, <3>2
    <3>3. CASE n \in DOMAIN said
      <4>1. bandVotes'[n] = [bandVotes[n] EXCEPT ![said[n]] = @ + 1] /\ said[n] \in Band
        BY <2>1, <2>2, <3>3
      <4> QED
        BY <3>1, <3>3, <4>1
    <3> QED
      BY <3>2, <3>3
  <2>4. bandVotes' \in [Node -> [Band -> Nat]]
    <3>1. bandVotes' = [n \in Node |-> bandVotes'[n]]
      BY <2>1
    <3> QED
      BY <2>3, <3>1
  <2>5. \A n \in Node : Voted(n) \subseteq Voted(n)'
    BY <2>3 DEF Voted
  <2>6. banding \in 1 .. ConsensusLast => \A n \in Domains[banding] : Voted(n)' # {}
    <3> SUFFICES ASSUME banding \in 1 .. ConsensusLast, NEW n \in Domains[banding] PROVE Voted(n)' # {}
      OBVIOUS
    <3>1. n \in Node
      BY DomainsFacts
    <3>2. said[n] \in Voted(n)'
      BY <1>3, <2>2, <2>3, <3>1 DEF Voted
    <3> QED
      BY <3>2
  <2>7. \A n \in DOMAIN difficulty : difficulty[n].band \in Voted(n)'
    BY <2>5 DEF BandingInv
  <2>8. bandDraws' \in Nat
    BY <2>1 DEF BandingInv
  <2> QED
    BY <1>1, <2>4, <2>6, <2>7, <2>8 DEF BandingInv
<1> QED
  BY <1>2, <1>3

\* A concluded banding gives each concept of the domain a band some draw gave it.
LEMMA ConcludeBandingKeeps ==
  ASSUME BandingInv, ConcludeBanding
  PROVE  BandingInv'
<1>1. banding \in 1 .. ConsensusLast /\ bandDraws > 0
  <2>1. BandK \in Nat \ {0}
    BY ConsensusAssumption
  <2> QED
    BY <2>1, DomainsFacts DEF ConcludeBanding, ToBand, BandingInv, ConsensusLast
<1>2. bandVotes' = bandVotes /\ bandDraws' = 0 /\ banding' = banding + 1
  BY DEF ConcludeBanding
<1> DEFINE contested == {n \in Domains[banding] : BandContested(n)}
<1>3. PICK harder \in SUBSET contested, easier \in SUBSET contested :
        difficulty' =
          [n \in DOMAIN difficulty \cup Domains[banding] |->
             IF n \in DOMAIN difficulty THEN difficulty[n]
             ELSE [band |-> Bracketed(n, n \in harder, n \in easier),
                   contested |-> n \in contested]]
  BY Zenon DEF ConcludeBanding
<1> HIDE DEF contested
<1>4. DOMAIN difficulty' = DOMAIN difficulty \cup Domains[banding]
  BY <1>3
<1>5. Domains[banding] \in SUBSET Node
  BY <1>1, DomainsFacts
<1>6. ASSUME NEW n \in DOMAIN difficulty' PROVE difficulty'[n].band \in Voted(n)
  <2>1. CASE n \in DOMAIN difficulty
    <3>1. difficulty'[n] = difficulty[n]
      BY <1>3, <2>1
    <3> QED
      BY <2>1, <3>1 DEF BandingInv
  <2>2. CASE n \notin DOMAIN difficulty
    <3>1. n \in Domains[banding] /\ n \in Node
      BY <1>4, <1>5, <1>6, <2>2
    <3>2. difficulty'[n].band = Bracketed(n, n \in harder, n \in easier)
      BY <1>3, <2>2, <3>1
    <3>3. bandVotes \in [Node -> [Band -> Nat]] /\ Voted(n) # {}
      BY <1>1, <3>1 DEF BandingInv
    <3>4. Modal(n) \in Voted(n) /\ Min(Voted(n)) \in Voted(n) /\ Max(Voted(n)) \in Voted(n)
      BY <3>1, <3>3, BandsFacts
    <3> QED
      BY <3>2, <3>4 DEF Bracketed
  <2> QED
    BY <2>1, <2>2
<1>7. \A n : Voted(n)' = Voted(n)
  BY <1>2 DEF Voted
<1>8. DOMAIN difficulty' \subseteq Node
  BY <1>4, <1>5 DEF BandingInv
<1> QED
  BY <1>1, <1>2, <1>6, <1>7, <1>8 DEF BandingInv

LEMMA BandingRests == BandingInv /\ UNCHANGED bandingVars => BandingInv'
BY DEF BandingInv, bandingVars, Voted

LEMMA ConsensusStep == ConsensusInv /\ [ConsensusNext]_consensusVars => ConsensusInv'
<1> SUFFICES ASSUME ConsensusInv, [ConsensusNext]_consensusVars PROVE ConsensusInv'
  OBVIOUS
<1>0. OrderingInv /\ BandingInv /\ LayerInv
  BY DEF ConsensusInv
<1>1. ASSUME NEW said, DrawOrdering(said) PROVE ConsensusInv'
  <2>1. OrderingInv' /\ BandingInv'
    BY <1>0, <1>1, DrawOrderingKeeps, BandingRests DEF DrawOrdering
  <2>2. completion' # "persisted"
    BY <1>1 DEF DrawOrdering, ToOrder
  <2> QED
    BY <2>1, <2>2 DEF ConsensusInv, LayerInv
<1>2. CASE ConcludeDomain
  <2>1. OrderingInv' /\ BandingInv'
    BY <1>0, <1>2, ConcludeDomainKeeps, BandingRests DEF ConcludeDomain
  <2>2. completion' # "persisted"
    BY <1>2 DEF ConcludeDomain, ToOrder
  <2> QED
    BY <2>1, <2>2 DEF ConsensusInv, LayerInv
<1>3. ASSUME NEW said, DrawBanding(said) PROVE ConsensusInv'
  <2>1. OrderingInv' /\ BandingInv'
    BY <1>0, <1>3, OrderingRests, DrawBandingKeeps DEF DrawBanding
  <2>2. completion' # "persisted"
    BY <1>3 DEF DrawBanding, ToBand
  <2> QED
    BY <2>1, <2>2 DEF ConsensusInv, LayerInv
<1>4. CASE ConcludeBanding
  <2>1. OrderingInv' /\ BandingInv'
    BY <1>0, <1>4, OrderingRests, ConcludeBandingKeeps DEF ConcludeBanding
  <2>2. completion' # "persisted"
    BY <1>4 DEF ConcludeBanding, ToBand
  <2> QED
    BY <2>1, <2>2 DEF ConsensusInv, LayerInv
<1>5. CASE Persist
  <2>1. UNCHANGED <<judges, orderingVars>> /\ UNCHANGED bandingVars
    BY <1>5 DEF Persist
  <2>2. OrderingInv' /\ BandingInv'
    BY <1>0, <2>1, OrderingRests, BandingRests
  <2>3. LayerInv'
    <3> SUFFICES ASSUME completion' = "persisted" PROVE LayerInv'
      BY DEF LayerInv
    <3>1. domain > ConsensusLast /\ DOMAIN difficulty = Node
          /\ layer' = [certain |-> Kept, uncertain |-> ordering["uncertain"], difficulty |-> difficulty]
      BY <1>5 DEF Persist, ConsensusLast
    <3>2. domain' = domain /\ ordering' = ordering /\ difficulty' = difficulty
      BY <2>1 DEF orderingVars, bandingVars
    <3> QED
      BY <3>1, <3>2 DEF LayerInv, Kept, ConsensusLast
  <2> QED
    BY <2>2, <2>3 DEF ConsensusInv
<1>6. CASE UNCHANGED consensusVars
  <2>1. /\ UNCHANGED <<judges, orderingVars>> /\ UNCHANGED bandingVars
        /\ completion' = completion /\ layer' = layer
        /\ domain' = domain /\ ordering' = ordering /\ difficulty' = difficulty
    BY <1>6 DEF consensusVars, orderingVars, bandingVars
  <2>2. OrderingInv' /\ BandingInv'
    BY <1>0, <2>1, OrderingRests, BandingRests
  <2>3. LayerInv'
    BY <1>0, <2>1 DEF LayerInv
  <2> QED
    BY <2>2, <2>3 DEF ConsensusInv
<1> QED
  BY <1>1, <1>2, <1>3, <1>4, <1>5, <1>6 DEF ConsensusNext

LEMMA ConsensusInitial == ConsensusInit => ConsensusInv
<1> SUFFICES ASSUME ConsensusInit PROVE ConsensusInv
  OBVIOUS
<1>1. OrderingInv
  BY ConsensusStarts
<1>2. BandingInv
  <2>1. banding = 1 /\ bandDraws = 0 /\ bandVotes = [n \in Node |-> [b \in Band |-> 0]] /\ difficulty = <<>>
    BY DEF ConsensusInit, NoBandVotes
  <2>2. DOMAIN difficulty = {}
    BY <2>1
  <2> QED
    BY <2>1, <2>2 DEF BandingInv
<1>3. LayerInv
  BY DEF ConsensusInit, LayerInv
<1> QED
  BY <1>1, <1>2, <1>3 DEF ConsensusInv

\* In a persisted layer everything is concluded.
LEMMA ConsensusFollows == ConsensusInv => ConsensusIsSound
<1> SUFFICES ASSUME ConsensusInv, completion = "persisted" PROVE ConsensusIsSound
  BY DEF ConsensusIsSound
<1> DEFINE certain == ordering["certain"]
<1>1. OrderingInv /\ BandingInv /\ LayerInv /\ domain > ConsensusLast
  BY DEF ConsensusInv, LayerInv
<1>2. certain \in SUBSET (Node \X Node) /\ Cycleless(certain)
  BY <1>1 DEF OrderingInv, Dispositions
<1>3. IsFiniteSet(certain)
  BY <1>2, DomainsFacts, FS_Subset
<1> HIDE DEF certain
<1>4. Acyclic(certain)
  BY <1>2, <1>3, CyclelessIsAcyclic
<1>5. LayerIsWhole
  <2>1. layer.certain = TransitiveReduction(certain) /\ layer.difficulty = difficulty /\ DOMAIN difficulty = Node
    BY <1>1 DEF LayerInv, certain
  <2>2. \A n : Ancestors(layer.certain, n) = Ancestors(certain, n)
    BY <1>3, <1>4, <2>1, ReductionKeepsAncestors
  <2>3. \A n \in Node : layer.difficulty[n].band \in Voted(n)
    BY <1>1, <2>1 DEF BandingInv
  <2> QED
    BY <2>2, <2>3 DEF LayerIsWhole, certain
<1>6. ASSUME NEW e \in DOMAIN votes, votes[e] > 0 PROVE SettledBy(votes, ordering, e)
  <2>1. e \in Node \X Node
    BY <1>1 DEF OrderingInv
  <2>2. PICK i \in 1 .. domain : Relates(e, i)
    BY <1>1, <1>6, <2>1 DEF OrderingInv
  <2>3. i \in 1 .. domain - 1
    BY <1>1, <2>2, DomainsFacts DEF Relates, OrderingInv
  <2> QED
    BY <1>1, <1>6, <2>1, <2>2, <2>3 DEF OrderingInv
<1>7. \A e \in ordering["routed"] : e[2] \in Ancestors(certain \cup ordering["routed"], e[1])
  BY <1>1 DEF OrderingInv, certain
<1> QED
  BY <1>4, <1>5, <1>6, <1>7 DEF ConsensusIsSound, SettledBy, certain

\* Whatever the judges answer and however many the draws, a persisted layer is
\* whole, its certain edges have no cycle, an agreed edge is routed only off a
\* cycle, and every pair some draw related is kept exactly once, in a direction
\* the draws did not outvote (deriveConsensusOrdering).
THEOREM TheConsensusIsSound == ConsensusSpec => []ConsensusIsSound
<1>1. ConsensusInit => ConsensusInv
  BY ConsensusInitial
<1>2. ConsensusInv /\ [ConsensusNext]_consensusVars => ConsensusInv'
  BY ConsensusStep
<1>3. ConsensusInv => ConsensusIsSound
  BY ConsensusFollows
<1> QED
  BY <1>1, <1>2, <1>3, PTL DEF ConsensusSpec

-----------------------------------------------------------------------------
(* The front half of an enrichment, whatever is proposed and judged. *)

\* What is passed on from each place to the next.
LEMMA Upwards ==
  ASSUME NEW n \in Nat, NEW S, 0 \in S, \A k \in 1 .. n : k - 1 \in S => k \in S
  PROVE  n \in S
<1> DEFINE Odd == {k \in Nat : k <= n /\ k \notin S}
<1>1. ASSUME Odd # {} PROVE FALSE
  <2>1. PICK k \in Odd : \A l \in Odd : k <= l
    <3>1. Odd \in SUBSET Nat
      OBVIOUS
    <3> HIDE DEF Odd
    <3> QED
      BY <1>1, <3>1, LeastNatural
  <2>2. k \in Nat /\ k <= n /\ k \notin S /\ k # 0
    BY <2>1
  <2>3. k - 1 \in Nat /\ k - 1 <= n /\ ~ (k <= k - 1) /\ k \in 1 .. n
    BY <2>2
  <2>4. k - 1 \in S
    BY <2>1, <2>3
  <2> QED
    BY <2>2, <2>3, <2>4
<1> QED
  BY <1>1

\* The places up to k, the last of which is k.
LEMMA UpTo ==
  ASSUME NEW n \in Nat, NEW k \in 1 .. n
  PROVE  /\ 1 .. k \in SUBSET (1 .. n) /\ 1 .. k # {} /\ Max(1 .. k) = k
         /\ (1 .. k) \ {k} = 1 .. k - 1 /\ 1 .. k - 1 \in SUBSET (1 .. n)
<1>1. 1 .. k \in SUBSET (1 .. n) /\ k \in 1 .. k /\ \A x \in 1 .. k : x <= k
  OBVIOUS
<1>2. Max(1 .. k) \in 1 .. k /\ k <= Max(1 .. k)
  BY <1>1, MaxFacts
<1>3. Max(1 .. k) = k
  BY <1>1, <1>2
<1> QED
  BY <1>1, <1>3

\* Every slot there may be.
GivenSlots == Range(AnchorSlots) \cup {x.slot : x \in UNION {Range(c) : c \in Candidates}}

SlotDomains == {s[1] : s \in GivenSlots}

Slot == GivenSlots \cup (SlotDomains \X (Labels \cup UNION {Range(labels) : labels \in Proposals}))

\* Each of these nodes has a slot of its own, and it is taken.
Own(nodes, s, t) ==
  /\ \A m, n \in nodes : s[m] = s[n] => m = n
  /\ \A n \in nodes : s[n] \in t

\* A slot names its domain.
LEMMA SlotFacts ==
         /\ AnchorSlots \in Seq(Slot) /\ Len(AnchorSlots) \in Nat /\ DOMAIN AnchorSlots = AnchorNodes
         /\ \A s \in Slot : s[1] \in SlotDomains
         /\ \A d \in SlotDomains, label \in Labels \cup UNION {Range(labels) : labels \in Proposals} :
              <<d, label>> \in Slot /\ <<d, label>>[1] = d
<1>1. Range(AnchorSlots) \subseteq Slot
  BY DEF Slot, GivenSlots
<1>2. AnchorSlots \in Seq(Range(AnchorSlots))
  BY EnrichmentAssumption
<1>3. AnchorSlots \in Seq(Slot)
  BY <1>1, <1>2
<1>4. Len(AnchorSlots) \in Nat /\ DOMAIN AnchorSlots = AnchorNodes
  BY <1>3 DEF AnchorNodes
<1>5. \A s \in Slot : s[1] \in SlotDomains
  BY DEF Slot, SlotDomains
<1> QED
  BY <1>3, <1>4, <1>5 DEF Slot

\* u lists the nodes of s and then those of t, which nobody owned.
Continues(u, s, t) ==
  LET made == {Len(s) + i : i \in DOMAIN t}
  IN  /\ DOMAIN u = DOMAIN s \cup made /\ DOMAIN s \cap made = {}
      /\ \A n \in DOMAIN s : u[n] = s[n]
      /\ made \in SUBSET Nat /\ IsFiniteSet(made) /\ Cardinality(made) = Len(t)
      /\ \A O \in SUBSET DOMAIN s : \A tk :
           Own(O, s, tk) /\ Range(t) \cap tk = {} => Own(O \cup made, u, tk \cup Range(t))

\* New nodes with slots of their own.
LEMMA JoinedLists ==
  ASSUME NEW S, NEW s \in Seq(S), NEW t \in Seq(S), IsInjective(t)
  PROVE  \E u \in Seq(S) : u = s \o t /\ Continues(u, s, t)
<1> DEFINE a == Len(s)
           b == Len(t)
           u == s \o t
           made == {a + i : i \in DOMAIN t}
<1>1. a \in Nat /\ b \in Nat /\ DOMAIN s = 1 .. a /\ DOMAIN t = 1 .. b
      /\ u \in Seq(S) /\ Len(u) = a + b /\ DOMAIN u = 1 .. a + b
      /\ (\A n \in 1 .. a : u[n] = s[n]) /\ \A i \in 1 .. b : u[a + i] = t[i]
  OBVIOUS
<1>0. u = s \o t
  OBVIOUS
<1> HIDE DEF a, b, u
<1>2. made = a + 1 .. a + b
  <2>1. \A n \in a + 1 .. a + b : n - a \in DOMAIN t /\ a + (n - a) = n
    BY <1>1
  <2>2. \A i \in DOMAIN t : a + i \in a + 1 .. a + b
    BY <1>1
  <2>3. a + 1 .. a + b \subseteq made
    BY <2>1
  <2>4. made \subseteq a + 1 .. a + b
    BY <2>2
  <2> QED
    BY <2>3, <2>4
<1>3. \A n \in made : n - a \in DOMAIN t /\ u[n] = t[n - a]
  BY <1>1, <1>2
<1> HIDE DEF made
<1>4. DOMAIN u = DOMAIN s \cup made /\ DOMAIN s \cap made = {} /\ made \in SUBSET Nat
  BY <1>1, <1>2
<1>5. IsFiniteSet(made) /\ Cardinality(made) = b
  BY <1>1, <1>2, FS_Interval
<1>6. ASSUME NEW O \in SUBSET DOMAIN s, NEW tk, Own(O, s, tk), Range(t) \cap tk = {}
      PROVE  Own(O \cup made, u, tk \cup Range(t))
  <2>1. \A n \in O : u[n] = s[n] /\ u[n] \in tk
    BY <1>1, <1>6 DEF Own
  <2>2. \A n \in made : u[n] \in Range(t) /\ u[n] \notin tk
    BY <1>3, <1>6 DEF Range
  <2>3. ASSUME NEW m \in made, NEW n \in made, u[m] = u[n] PROVE m = n
    <3>1. m - a = n - a
      BY <1>3, <2>3 DEF IsInjective
    <3> QED
      BY <1>1, <1>4, <3>1
  <2>4. \A m, n \in O : u[m] = u[n] => m = n
    BY <1>6, <2>1 DEF Own
  <2> QED
    BY <2>1, <2>2, <2>3, <2>4 DEF Own
<1>7. Continues(u, s, t)
  BY <1>1, <1>4, <1>5, <1>6 DEF Continues, a, b, made
<1> QED
  BY <1>0, <1>1, <1>7

Banished == {n \in DOMAIN rescue : rescue[n] = "dropped"} \cup {n \in DOMAIN admit : admit[n] = "held_out"}

AdmittedNow == {n \in DOMAIN admit : admit[n] = "admitted"}

\* The nodes whose slots nobody else may have.
Owners == alive \cup Banished \cup DOMAIN pending

EnrichmentTyped ==
  /\ slots \in Seq(Slot) /\ AnchorNodes \subseteq DOMAIN slots
  /\ anchor \in Nat \ {0}
  /\ alive \cup DOMAIN rescue \cup DOMAIN admit \cup DOMAIN pending \subseteq DOMAIN slots
  /\ DOMAIN kind = DOMAIN slots
  /\ \A n \in AnchorNodes : kind[n] = "anchor"
  /\ \A n \in DOMAIN rescue : kind[n] = "source_mentioned"
  /\ \A n \in DOMAIN admit \cup DOMAIN pending : kind[n] = "llm_grounded"
  /\ Banished \cap alive = {} /\ DOMAIN pending \cap (alive \cup DOMAIN admit) = {}

SlotsAreOwned == Own(Owners, slots, taken)

\* What has not happened yet.
PhasesFollow ==
  /\ phase = "rescue" => DOMAIN rescue = {}
  /\ phase \in {"rescue", "durability", "label"} => DOMAIN admit = {} /\ DOMAIN pending = {} /\ Minted = {}
  /\ phase \in {"rescue", "durability", "label", "mint"} => Minted = AdmittedNow
  /\ phase \in {"rescue", "durability", "label", "mint", "dedup"} => DOMAIN merges = {}

MintingIsCapped == Cardinality(AdmittedNow) + Cardinality(DOMAIN pending) <= MaxPerRun

EnrichmentInv ==
  EnrichmentTyped /\ SlotsAreOwned /\ PhasesFollow /\ MintingIsCapped /\ PublishedIdentityStands

\* That is what the run promises.
LEMMA EnrichmentFollows == EnrichmentInv => LabelsAreOwnedOnce
<1> SUFFICES ASSUME EnrichmentInv PROVE LabelsAreOwnedOnce
  OBVIOUS
<1>1. EnrichmentTyped /\ SlotsAreOwned /\ MintingIsCapped /\ PublishedIdentityStands
  BY DEF EnrichmentInv
<1>2. Minted \subseteq Owners /\ Banished \subseteq Owners /\ Minted \cap Banished = {}
  BY <1>1 DEF Owners, Minted, EnrichmentTyped
<1>3. SlotsOf(Banished) \cap SlotsOf(Minted) = {}
  BY <1>1, <1>2 DEF SlotsAreOwned, Own, SlotsOf
<1>4. Cardinality(AdmittedNow) <= MaxPerRun
  <2>1. AdmittedNow \in SUBSET DOMAIN slots /\ DOMAIN pending \in SUBSET DOMAIN slots
    BY <1>1 DEF AdmittedNow, EnrichmentTyped
  <2>2. Len(slots) \in Nat /\ DOMAIN slots = 1 .. Len(slots)
    BY <1>1 DEF EnrichmentTyped
  <2>5. IsFiniteSet(DOMAIN slots)
    BY <2>2, FS_Interval
  <2>3. IsFiniteSet(AdmittedNow) /\ IsFiniteSet(DOMAIN pending)
    BY <2>1, <2>5, FS_Subset
  <2>4. Cardinality(AdmittedNow) \in Nat /\ Cardinality(DOMAIN pending) \in Nat /\ MaxPerRun \in Nat
    BY <2>3, FS_CardinalityType, EnrichmentAssumption
  <2> QED
    BY <1>1, <2>4 DEF MintingIsCapped
<1>5. /\ \A m, n \in alive : slots[m] = slots[n] => m = n
      /\ SlotsOf(alive) \subseteq taken
  BY <1>1 DEF SlotsAreOwned, Own, Owners, SlotsOf
<1> QED
  BY <1>1, <1>3, <1>4, <1>5 DEF LabelsAreOwnedOnce, Banished, AdmittedNow

\* At first the anchors own their slots.
LEMMA EnrichmentStarts == EnrichmentInit => EnrichmentInv
<1> SUFFICES ASSUME EnrichmentInit PROVE EnrichmentInv
  OBVIOUS
<1>1. /\ phase = "rescue" /\ slots = AnchorSlots /\ kind = [n \in AnchorNodes |-> "anchor"]
      /\ taken = Range(AnchorSlots) /\ alive = AnchorNodes /\ anchor = 1
      /\ DOMAIN rescue = {} /\ DOMAIN pending = {} /\ DOMAIN admit = {} /\ DOMAIN merges = {}
  BY DEF EnrichmentInit
<1>2. DOMAIN AnchorSlots = AnchorNodes /\ AnchorSlots \in Seq(Slot)
  BY SlotFacts
<1>3. Banished = {} /\ AdmittedNow = {} /\ Minted = {} /\ Owners = AnchorNodes
  BY <1>1 DEF Banished, AdmittedNow, Minted, Owners
<1>4. EnrichmentTyped
  BY <1>1, <1>2, <1>3 DEF EnrichmentTyped
<1>5. SlotsAreOwned
  <2>1. IsInjective(AnchorSlots)
    BY EnrichmentAssumption
  <2> QED
    BY <1>1, <1>2, <1>3, <2>1 DEF SlotsAreOwned, Own, IsInjective, Range
<1>6. PhasesFollow
  BY <1>1, <1>3 DEF PhasesFollow
<1>7. MintingIsCapped
  BY <1>1, <1>3, FS_EmptySet, EnrichmentAssumption DEF MintingIsCapped
<1>8. PublishedIdentityStands
  BY <1>1 DEF PublishedIdentityStands
<1> QED
  BY <1>4, <1>5, <1>6, <1>7, <1>8 DEF EnrichmentInv
\* The rescue judge takes nodes out, and no label becomes free.
LEMMA JudgeRescueKeeps == ASSUME EnrichmentInv, JudgeRescue PROVE EnrichmentInv'
<1>1. EnrichmentTyped /\ SlotsAreOwned /\ PhasesFollow /\ MintingIsCapped /\ PublishedIdentityStands
  BY DEF EnrichmentInv
<1>2. PICK dropped \in SUBSET Rescued :
        /\ rescue' = [n \in DOMAIN rescue |-> IF n \in dropped THEN "dropped" ELSE rescue[n]]
        /\ alive' = alive \ dropped
  BY DEF JudgeRescue
<1>3. /\ phase = "durability" /\ phase' = "label"
      /\ UNCHANGED <<slots, kind, taken, pending, anchor, minting, admit, floor, merges>>
  BY DEF JudgeRescue
<1>4. Banished' \subseteq Banished \cup dropped /\ AdmittedNow' = AdmittedNow
      /\ Minted' = {} /\ DOMAIN admit = {} /\ DOMAIN pending = {} /\ DOMAIN merges = {}
  BY <1>1, <1>2, <1>3 DEF Banished, AdmittedNow, Minted, PhasesFollow
<1>5. Owners' \subseteq Owners /\ dropped \subseteq alive
  BY <1>2, <1>3, <1>4 DEF Owners, Rescued
<1>6. EnrichmentTyped'
  <2>1. Banished' \cap alive' = {}
    BY <1>1, <1>2, <1>4 DEF EnrichmentTyped
  <2> QED
    BY <1>1, <1>2, <1>3, <1>4, <2>1 DEF EnrichmentTyped
<1>7. SlotsAreOwned'
  BY <1>1, <1>3, <1>5 DEF SlotsAreOwned, Own
<1>8. PhasesFollow' /\ MintingIsCapped'
  BY <1>1, <1>3, <1>4 DEF PhasesFollow, MintingIsCapped
<1>9. PublishedIdentityStands'
  <2>1. AnchorNodes \cap dropped = {}
    BY <1>1 DEF EnrichmentTyped, Rescued
  <2> QED
    BY <1>1, <1>2, <1>3, <1>4, <2>1 DEF PublishedIdentityStands
<1> QED
  BY <1>6, <1>7, <1>8, <1>9 DEF EnrichmentInv

\* A dropped proposal gives back a slot that was its own.
LEMMA JudgeMintingKeeps == ASSUME EnrichmentInv, JudgeMinting PROVE EnrichmentInv'
<1>1. EnrichmentTyped /\ SlotsAreOwned /\ PhasesFollow /\ MintingIsCapped /\ PublishedIdentityStands
  BY DEF EnrichmentInv
<1>2. PICK dropped \in SUBSET DOMAIN pending :
        /\ taken' = taken \ SlotsOf(dropped)
        /\ pending' = [n \in DOMAIN pending \ dropped |-> "kept"]
        /\ anchor' = IF dropped = DOMAIN pending THEN anchor + 1 ELSE anchor
  BY DEF JudgeMinting
<1>3. /\ phase = "mint" /\ phase' = phase
      /\ UNCHANGED <<slots, kind, alive, rescue, admit, floor, merges>>
  BY DEF JudgeMinting
<1>4. Banished' = Banished /\ AdmittedNow' = AdmittedNow /\ Minted' = Minted
      /\ DOMAIN pending' = DOMAIN pending \ dropped
  BY <1>2, <1>3 DEF Banished, AdmittedNow, Minted
<1>5. Owners' = Owners \ dropped
  <2>1. dropped \cap Banished = {}
    BY <1>1 DEF EnrichmentTyped, Banished
  <2>2. dropped \cap alive = {}
    BY <1>1 DEF EnrichmentTyped
  <2> QED
    BY <1>3, <1>4, <2>1, <2>2 DEF Owners
<1>6. EnrichmentTyped'
  <2>1. anchor' \in Nat \ {0}
    BY <1>1, <1>2 DEF EnrichmentTyped
  <2> QED
    BY <1>1, <1>3, <1>4, <2>1 DEF EnrichmentTyped
<1>7. SlotsAreOwned'
  <2>1. ASSUME NEW n \in Owners \ dropped PROVE slots[n] \in taken \ SlotsOf(dropped)
    <3>1. slots[n] \in taken /\ \A m \in dropped : slots[m] # slots[n]
      BY <1>1 DEF SlotsAreOwned, Own, Owners
    <3> QED
      BY <3>1 DEF SlotsOf
  <2> QED
    BY <1>1, <1>2, <1>3, <1>5, <2>1 DEF SlotsAreOwned, Own
<1>8. PhasesFollow'
  BY <1>1, <1>3, <1>4 DEF PhasesFollow
<1>9. MintingIsCapped'
  <2>1. DOMAIN slots = 1 .. Len(slots) /\ Len(slots) \in Nat
    BY <1>1 DEF EnrichmentTyped
  <2>2. IsFiniteSet(DOMAIN slots)
    BY <2>1, FS_Interval
  <2>3. AdmittedNow \subseteq DOMAIN slots /\ DOMAIN pending \subseteq DOMAIN slots
    BY <1>1 DEF EnrichmentTyped, AdmittedNow
  <2>4. IsFiniteSet(AdmittedNow) /\ IsFiniteSet(DOMAIN pending)
    BY <2>2, <2>3, FS_Subset
  <2>5. IsFiniteSet(DOMAIN pending') /\ Cardinality(DOMAIN pending') <= Cardinality(DOMAIN pending)
    BY <1>4, <2>4, FS_Subset
  <2>6. Cardinality(AdmittedNow) \in Nat /\ Cardinality(DOMAIN pending) \in Nat
        /\ Cardinality(DOMAIN pending') \in Nat /\ MaxPerRun \in Nat
    BY <2>4, <2>5, FS_CardinalityType, EnrichmentAssumption
  <2> QED
    BY <1>1, <1>4, <2>5, <2>6 DEF MintingIsCapped
<1>10. PublishedIdentityStands'
  BY <1>1, <1>3 DEF PublishedIdentityStands
<1> QED
  BY <1>6, <1>7, <1>8, <1>9, <1>10 DEF EnrichmentInv

\* The floor takes rescued nodes out.
LEMMA ApplyVerbatimFloorKeeps == ASSUME EnrichmentInv, ApplyVerbatimFloor PROVE EnrichmentInv'
<1>1. EnrichmentTyped /\ SlotsAreOwned /\ PhasesFollow /\ MintingIsCapped /\ PublishedIdentityStands
  BY DEF EnrichmentInv
<1>2. PICK failed \in SUBSET Rescued : alive' = alive \ failed
  BY DEF ApplyVerbatimFloor
<1>3. /\ phase = "mint" /\ phase' = "dedup"
      /\ UNCHANGED <<slots, kind, taken, rescue, pending, anchor, minting, admit, merges>>
  BY DEF ApplyVerbatimFloor
<1>4. Banished' = Banished /\ AdmittedNow' = AdmittedNow /\ DOMAIN merges = {}
  BY <1>1, <1>3 DEF Banished, AdmittedNow, PhasesFollow
<1>5. Owners' \subseteq Owners
  BY <1>2, <1>3, <1>4 DEF Owners
<1>6. EnrichmentTyped'
  BY <1>1, <1>2, <1>3, <1>4 DEF EnrichmentTyped
<1>7. SlotsAreOwned'
  BY <1>1, <1>3, <1>5 DEF SlotsAreOwned, Own
<1>8. PhasesFollow' /\ MintingIsCapped'
  BY <1>1, <1>3, <1>4 DEF PhasesFollow, MintingIsCapped
<1>9. PublishedIdentityStands'
  <2>1. AnchorNodes \cap failed = {}
    BY <1>1 DEF EnrichmentTyped, Rescued
  <2> QED
    BY <1>1, <1>2, <1>3, <1>4, <2>1 DEF PublishedIdentityStands
<1> QED
  BY <1>6, <1>7, <1>8, <1>9 DEF EnrichmentInv

\* A step that touches nothing but the phase.
LEMMA EnrichmentRests ==
  ASSUME EnrichmentInv,
         UNCHANGED <<slots, kind, taken, alive, rescue, pending, anchor, admit, merges>>,
         phase' \in {phase, "accepted", "refused", "failed"}
  PROVE  EnrichmentInv'
<1>1. EnrichmentTyped /\ SlotsAreOwned /\ PhasesFollow /\ MintingIsCapped /\ PublishedIdentityStands
  BY DEF EnrichmentInv
<1>2. Banished' = Banished /\ AdmittedNow' = AdmittedNow /\ Minted' = Minted /\ Owners' = Owners
  BY DEF Banished, AdmittedNow, Minted, Owners
<1>3. EnrichmentTyped' /\ SlotsAreOwned' /\ MintingIsCapped'
  BY <1>1, <1>2 DEF EnrichmentTyped, SlotsAreOwned, MintingIsCapped
<1>4. PhasesFollow'
  BY <1>1, <1>2 DEF PhasesFollow
<1>5. PublishedIdentityStands'
  BY <1>1 DEF PublishedIdentityStands
<1> QED
  BY <1>3, <1>4, <1>5 DEF EnrichmentInv
\* The admission settles every proposal, and only a rejected one gives back its slot.
LEMMA AdmitGroundingKeeps == ASSUME EnrichmentInv, AdmitGrounding PROVE EnrichmentInv'
<1>1. EnrichmentTyped /\ SlotsAreOwned /\ PhasesFollow /\ MintingIsCapped /\ PublishedIdentityStands
  BY DEF EnrichmentInv
<1>2. PICK outcome \in [DOMAIN pending -> {"admitted", "held_out", "rejected"}] :
        /\ admit' = Joined(admit, outcome)
        /\ alive' = alive \cup {n \in DOMAIN pending : outcome[n] = "admitted"}
        /\ taken' = taken \ SlotsOf({n \in DOMAIN pending : outcome[n] = "rejected"})
  BY DEF AdmitGrounding
<1>3. /\ phase = "mint" /\ phase' = phase /\ pending' = <<>> /\ anchor' = anchor + 1
      /\ UNCHANGED <<slots, kind, rescue, floor, merges>>
  BY DEF AdmitGrounding
<1> DEFINE admitted == {n \in DOMAIN pending : outcome[n] = "admitted"}
           heldOut == {n \in DOMAIN pending : outcome[n] = "held_out"}
           rejected == {n \in DOMAIN pending : outcome[n] = "rejected"}
<1>4. /\ DOMAIN admit' = DOMAIN admit \cup DOMAIN pending
      /\ \A n \in DOMAIN pending : admit'[n] = outcome[n]
      /\ \A n \in DOMAIN admit : admit'[n] = admit[n]
  BY <1>1, <1>2 DEF Joined, EnrichmentTyped
<1>5. DOMAIN pending' = {} /\ DOMAIN merges = {}
  BY <1>1, <1>3 DEF PhasesFollow
<1>6. AdmittedNow' = AdmittedNow \cup admitted
  BY <1>4 DEF AdmittedNow
<1>7. Banished' = Banished \cup heldOut
  BY <1>3, <1>4 DEF Banished
<1>8. Minted' = AdmittedNow'
  <2>1. Minted' = Minted \cup admitted
    BY <1>1, <1>2, <1>3 DEF Minted, EnrichmentTyped
  <2> QED
    BY <1>1, <1>3, <1>6, <2>1 DEF PhasesFollow
<1>9. Owners' = (alive \cup Banished) \cup (admitted \cup heldOut)
  BY <1>2, <1>5, <1>7 DEF Owners
<1>10. EnrichmentTyped'
  <2>1. Banished' \cap alive' = {}
    <3>1. Banished \cap DOMAIN pending = {}
      BY <1>1 DEF EnrichmentTyped, Banished
    <3>2. heldOut \cap alive = {} /\ heldOut \cap admitted = {}
      BY <1>1 DEF EnrichmentTyped
    <3> QED
      BY <1>1, <1>2, <1>7, <3>1, <3>2 DEF EnrichmentTyped
  <2>2. anchor' \in Nat \ {0}
    BY <1>1, <1>3 DEF EnrichmentTyped
  <2>3. alive' \cup DOMAIN admit' \subseteq DOMAIN slots /\ \A n \in DOMAIN admit' : kind[n] = "llm_grounded"
    BY <1>1, <1>2, <1>4 DEF EnrichmentTyped
  <2> HIDE DEF admitted, heldOut, rejected
  <2> QED
    BY <1>1, <1>3, <1>5, <2>1, <2>2, <2>3 DEF EnrichmentTyped
<1>11. SlotsAreOwned'
  <2>1. Owners' \subseteq Owners /\ Owners' \cap rejected = {}
    <3>1. (alive \cup Banished) \cap rejected = {}
      BY <1>1 DEF EnrichmentTyped, Banished
    <3> QED
      BY <1>9, <3>1 DEF Owners
  <2>2. ASSUME NEW n \in Owners' PROVE slots[n] \in taken \ SlotsOf(rejected)
    <3>1. slots[n] \in taken /\ \A m \in rejected : slots[m] # slots[n]
      BY <1>1, <2>1 DEF SlotsAreOwned, Own, Owners
    <3> QED
      BY <3>1 DEF SlotsOf
  <2>3. taken' = taken \ SlotsOf(rejected)
    BY <1>2
  <2> HIDE DEF rejected
  <2> QED
    BY <1>1, <1>3, <2>1, <2>2, <2>3 DEF SlotsAreOwned, Own
<1>12. PhasesFollow'
  BY <1>3, <1>5, <1>8 DEF PhasesFollow
<1>13. MintingIsCapped'
  <2>1. DOMAIN slots = 1 .. Len(slots) /\ Len(slots) \in Nat
    BY <1>1 DEF EnrichmentTyped
  <2>2. IsFiniteSet(DOMAIN slots)
    BY <2>1, FS_Interval
  <2>3. AdmittedNow \subseteq DOMAIN slots /\ DOMAIN pending \subseteq DOMAIN slots
    BY <1>1 DEF EnrichmentTyped, AdmittedNow
  <2>4. IsFiniteSet(AdmittedNow) /\ IsFiniteSet(DOMAIN pending)
    BY <2>2, <2>3, FS_Subset
  <2>5. AdmittedNow' \subseteq AdmittedNow \cup DOMAIN pending
    BY <1>6
  <2>6. /\ IsFiniteSet(AdmittedNow \cup DOMAIN pending)
        /\ Cardinality(AdmittedNow \cup DOMAIN pending)
             = Cardinality(AdmittedNow) + Cardinality(DOMAIN pending) - Cardinality(AdmittedNow \cap DOMAIN pending)
    BY <2>4, FS_Union
  <2>7. /\ IsFiniteSet(AdmittedNow')
        /\ Cardinality(AdmittedNow') <= Cardinality(AdmittedNow \cup DOMAIN pending)
    BY <2>5, <2>6, FS_Subset
  <2>8. IsFiniteSet(AdmittedNow \cap DOMAIN pending)
    BY <2>4, FS_Subset
  <2>9. Cardinality(AdmittedNow) \in Nat /\ Cardinality(DOMAIN pending) \in Nat /\ Cardinality(AdmittedNow') \in Nat
        /\ Cardinality(AdmittedNow \cap DOMAIN pending) \in Nat /\ MaxPerRun \in Nat
    BY <2>4, <2>7, <2>8, FS_CardinalityType, EnrichmentAssumption
  <2>10. Cardinality(DOMAIN pending') = 0
    BY <1>5, FS_EmptySet
  <2> QED
    BY <1>1, <2>6, <2>7, <2>9, <2>10 DEF MintingIsCapped
<1>14. PublishedIdentityStands'
  BY <1>1, <1>2, <1>3, <1>5 DEF PublishedIdentityStands
<1> QED
  BY <1>10, <1>11, <1>12, <1>13, <1>14 DEF EnrichmentInv

\* A cluster stays among the nodes of one domain.
LEMMA ClustersFacts ==
  ASSUME EnrichmentTyped, NEW merged \in SUBSET Proposable, NEW c \in Clusters(merged)
  PROVE  c \subseteq alive /\ \A m, n \in c : slots[m][1] = slots[n][1]
<1> DEFINE linked == merged \cup {<<p[2], p[1]>> : p \in merged}
<1>1. PICK k \in Ends(merged) : c = Ancestors(linked, k)
  BY DEF Clusters
<1>2. \A p \in merged : p[1] \in alive /\ p[2] \in alive /\ slots[p[1]][1] = slots[p[2]][1] /\ p = <<p[1], p[2]>>
  BY DEF Proposable
<1>3. \A e \in linked : e[1] \in alive /\ e[2] \in alive /\ slots[e[1]][1] = slots[e[2]][1]
  BY <1>2
<1>4. linked \subseteq alive \X alive
  BY <1>2
<1>5. IsFiniteSet(linked)
  <2>1. DOMAIN slots = 1 .. Len(slots) /\ Len(slots) \in Nat
    BY DEF EnrichmentTyped
  <2>2. IsFiniteSet(DOMAIN slots)
    BY <2>1, FS_Interval
  <2>3. IsFiniteSet(alive)
    BY <2>2, FS_Subset DEF EnrichmentTyped
  <2>4. IsFiniteSet(alive \X alive)
    BY <2>3, FS_Product
  <2> QED
    BY <1>4, <2>4, FS_Subset
<1> HIDE DEF linked
<1> DEFINE S == {n \in alive : slots[n][1] = slots[k][1]}
<1>6. Closes(linked, k, S)
  BY <1>3 DEF Closes
<1>7. Ancestors(linked, k) \subseteq S
  BY <1>5, <1>6, AncestorsFacts
<1> QED
  BY <1>1, <1>7

\* A cluster is absorbed by one of its own, which is its concept when it has one.
LEMMA DeduplicateKeeps == ASSUME EnrichmentInv, Deduplicate PROVE EnrichmentInv'
<1>1. EnrichmentTyped /\ SlotsAreOwned /\ PhasesFollow /\ MintingIsCapped /\ PublishedIdentityStands
  BY DEF EnrichmentInv
<1>2. /\ phase = "dedup" /\ phase' = "validate"
      /\ UNCHANGED <<slots, kind, taken, rescue, pending, anchor, admit>>
  BY DEF Deduplicate
<1>3. PICK merged \in SUBSET Proposable :
        LET resolved == {c \in Clusters(merged) : Resolvable(c)}
        IN  \E canonical \in SUBSET UNION resolved :
              /\ \A c \in resolved :
                   \E n \in c : c \cap canonical = {n} /\ MayBeCanonical(n, c)
              /\ merges' = [n \in (UNION resolved) \ canonical |->
                              CHOOSE m \in canonical : \E c \in resolved : {m, n} \subseteq c]
              /\ alive' = (alive \ UNION resolved) \cup canonical
  BY DEF Deduplicate
<1> DEFINE resolved == {c \in Clusters(merged) : Resolvable(c)}
<1>4. PICK canonical \in SUBSET UNION resolved :
              /\ \A c \in resolved :
                   \E n \in c : c \cap canonical = {n} /\ MayBeCanonical(n, c)
              /\ merges' = [n \in (UNION resolved) \ canonical |->
                              CHOOSE m \in canonical : \E c \in resolved : {m, n} \subseteq c]
              /\ alive' = (alive \ UNION resolved) \cup canonical
  BY <1>3
<1>5. \A c \in resolved : c \subseteq alive /\ Resolvable(c) /\ \A m, n \in c : slots[m][1] = slots[n][1]
  BY <1>1, ClustersFacts
<1> HIDE DEF resolved
<1>6. alive' \subseteq alive
  BY <1>4, <1>5
<1>7. Banished' = Banished /\ AdmittedNow' = AdmittedNow
  BY <1>2 DEF Banished, AdmittedNow
<1>8. Owners' \subseteq Owners
  BY <1>2, <1>6, <1>7 DEF Owners
<1>9. EnrichmentTyped'
  BY <1>1, <1>2, <1>6, <1>7 DEF EnrichmentTyped
<1>10. SlotsAreOwned'
  BY <1>1, <1>2, <1>8 DEF SlotsAreOwned, Own
<1>11. PhasesFollow' /\ MintingIsCapped'
  BY <1>1, <1>2, <1>7 DEF PhasesFollow, MintingIsCapped
<1>12. AnchorNodes \subseteq alive'
  <2> SUFFICES ASSUME NEW n \in AnchorNodes PROVE n \in alive'
    OBVIOUS
  <2>1. n \in alive
    BY <1>1 DEF PublishedIdentityStands
  <2>2. CASE n \notin UNION resolved
    BY <1>4, <2>1, <2>2
  <2>3. ASSUME NEW c \in resolved, n \in c PROVE n \in canonical
    <3>1. PICK m \in c : c \cap canonical = {m} /\ MayBeCanonical(m, c)
      BY <1>4
    <3>2. m \in AnchorNodes
      BY <2>3, <3>1 DEF MayBeCanonical
    <3>3. m = n
      <4>1. SUFFICES ASSUME m # n PROVE FALSE
        OBVIOUS
      <4>2. IsFiniteSet({m, n}) /\ Cardinality({m, n}) = 2
        <5>1. IsFiniteSet({m}) /\ Cardinality({m}) = 1
          BY FS_Singleton
        <5>2. {m} \cup {n} = {m, n} /\ n \notin {m}
          BY <4>1
        <5> QED
          BY <5>1, <5>2, FS_AddElement
      <4>3. IsFiniteSet(c \cap AnchorNodes)
        <5>1. Len(AnchorSlots) \in Nat
          BY SlotFacts
        <5>2. IsFiniteSet(AnchorNodes)
          BY <5>1, FS_Interval DEF AnchorNodes
        <5> QED
          BY <5>2, FS_Subset
      <4>4. {m, n} \subseteq c \cap AnchorNodes
        BY <2>3, <3>2
      <4>5. 2 <= Cardinality(c \cap AnchorNodes) /\ Cardinality(c \cap AnchorNodes) \in Nat
        BY <4>2, <4>3, <4>4, FS_Subset, FS_CardinalityType
      <4>6. Cardinality(c \cap AnchorNodes) < 2
        BY <1>5 DEF Resolvable
      <4> QED
        BY <4>5, <4>6
    <3> QED
      BY <3>1, <3>3
  <2> QED
    BY <1>4, <2>2, <2>3
<1>13. ASSUME NEW n \in DOMAIN merges' PROVE merges'[n] \in alive' /\ slots[merges'[n]][1] = slots[n][1]
  <2>1. n \in UNION resolved
    BY <1>4, <1>13
  <2>2. \E m \in canonical : \E c \in resolved : {m, n} \subseteq c
    <3>1. PICK c \in resolved : n \in c
      BY <2>1
    <3>2. PICK m \in c : c \cap canonical = {m}
      BY <1>4
    <3> QED
      BY <3>1, <3>2
  <2>3. merges'[n] \in canonical /\ \E c \in resolved : {merges'[n], n} \subseteq c
    <3>1. merges'[n] = CHOOSE m \in canonical : \E c \in resolved : {m, n} \subseteq c
      BY <1>4, <1>13
    <3> QED
      BY <2>2, <3>1
  <2> QED
    BY <1>4, <1>5, <2>3
<1>14. PublishedIdentityStands'
  BY <1>1, <1>2, <1>12, <1>13 DEF PublishedIdentityStands
<1> QED
  BY <1>9, <1>10, <1>11, <1>14 DEF EnrichmentInv
\* The states the relabelling goes through: what is claimed stays claimed.
Namings ==
  {st \in [taken : SUBSET (taken \cup Slot), slots : [DOMAIN slots -> Slot]] :
     /\ Own(Owners, st.slots, st.taken)
     /\ \A n \in DOMAIN slots \ Rescued : st.slots[n] = slots[n]}

\* A node adopts no label that somebody has.
LEMMA AdoptingFacts ==
  ASSUME EnrichmentTyped, SlotsAreOwned, NEW proposal \in [Rescued -> Labels]
  PROVE  LET Adopt(state, n) ==
               LET slot == <<slots[n][1], proposal[n]>>
               IN  IF slot \in state.taken THEN state
                   ELSE [taken |-> state.taken \cup {slot},
                         slots |-> [state.slots EXCEPT ![n] = slot]]
         IN  FoldLeft(Adopt, [taken |-> taken, slots |-> slots], Sorted(Rescued, <)) \in Namings
<1> DEFINE Adopt(state, n) ==
             LET slot == <<slots[n][1], proposal[n]>>
             IN  IF slot \in state.taken THEN state
                 ELSE [taken |-> state.taken \cup {slot},
                       slots |-> [state.slots EXCEPT ![n] = slot]]
           order == Sorted(Rescued, <)
           base == [taken |-> taken, slots |-> slots]
           n == Len(order)
           D == SUBSET (1 .. n)
           X == Namings
           o == [p \in X \X Rescued |-> Adopt(p[1], p[2])]
           Folds(f) == f = [s \in D |-> IF s = {} THEN base ELSE Adopt(f[s \ {Max(s)}], order[Max(s)])]
           F == CHOOSE f : Folds(f)
<1>1. Rescued \in SUBSET Nat /\ IsFiniteSet(Rescued) /\ Rescued \subseteq DOMAIN slots /\ slots \in [DOMAIN slots -> Slot]
  <2>1. DOMAIN slots = 1 .. Len(slots) /\ Len(slots) \in Nat
    BY DEF EnrichmentTyped
  <2>2. IsFiniteSet(DOMAIN slots) /\ DOMAIN slots \in SUBSET Nat
    BY <2>1, FS_Interval
  <2>3. Rescued \subseteq DOMAIN slots
    BY DEF EnrichmentTyped, Rescued
  <2>4. slots \in [DOMAIN slots -> Slot]
    BY DEF EnrichmentTyped
  <2> QED
    BY <2>2, <2>3, <2>4, FS_Subset
<1>2. n \in Nat /\ order \in [1 .. n -> Rescued] /\ DOMAIN order = 1 .. n
  <2>1. order \in Seq(Nat) /\ Range(order) = Rescued
    BY <1>1, SortedFacts
  <2> HIDE DEF order
  <2> QED
    BY <2>1 DEF Range
<1> HIDE DEF order, n
<1>3. base \in X
  BY <1>1 DEF Namings, SlotsAreOwned
<1>4. ASSUME NEW st \in X, NEW m \in Rescued PROVE Adopt(st, m) \in X
  <2> DEFINE slot == <<slots[m][1], proposal[m]>>
  <2>1. slot \in Slot
    <3>1. slots[m][1] \in SlotDomains
      BY <1>1, SlotFacts
    <3>2. proposal[m] \in Labels
      OBVIOUS
    <3> QED
      BY <3>1, <3>2, SlotFacts
  <2> HIDE DEF slot
  <2>2. CASE slot \in st.taken
    BY <2>2 DEF slot
  <2>3. CASE slot \notin st.taken
    <3> DEFINE t == st.taken \cup {slot}
               s == [st.slots EXCEPT ![m] = slot]
    <3>1. st.slots \in [DOMAIN slots -> Slot] /\ m \in DOMAIN slots /\ Owners \subseteq DOMAIN slots
      BY <1>1 DEF Namings, Owners, EnrichmentTyped, Banished
    <3>2. s \in [DOMAIN slots -> Slot] /\ s[m] = slot /\ \A k \in DOMAIN slots \ {m} : s[k] = st.slots[k]
      BY <2>1, <3>1
    <3>3. t \in SUBSET (taken \cup Slot)
      BY <2>1 DEF Namings
    <3> HIDE DEF t, s
    <3>4. Own(Owners, s, t)
      <4>1. /\ \A k, l \in Owners : st.slots[k] = st.slots[l] => k = l
            /\ \A k \in Owners : st.slots[k] \in st.taken
        BY DEF Namings, Own
      <4>2. \A k \in Owners \ {m} : s[k] = st.slots[k] /\ s[k] \in st.taken /\ s[k] # slot
        BY <2>3, <3>1, <3>2, <4>1
      <4> QED
        BY <3>2, <4>1, <4>2 DEF Own, t
    <3>5. \A k \in DOMAIN slots \ Rescued : s[k] = slots[k]
      BY <3>2 DEF Namings
    <3>6. [taken |-> t, slots |-> s] \in X
      BY <3>2, <3>3, <3>4, <3>5 DEF Namings
    <3> QED
      BY <2>3, <3>6 DEF t, s, slot
  <2> QED
    BY <2>2, <2>3
<1> HIDE DEF X, base
<1>5. o \in [X \X Rescued -> X]
  <2> HIDE DEF Adopt
  <2> QED
    BY <1>4
<1>6. PICK f \in [D -> X] : FoldsBy(o, base, order, n, f)
  <2> HIDE DEF o
  <2> QED
    BY <1>2, <1>3, <1>5, FoldExists
<1>7. Folds(f)
  <2>1. ASSUME NEW s \in D, s # {}
        PROVE  o[f[s \ {Max(s)}], order[Max(s)]] = Adopt(f[s \ {Max(s)}], order[Max(s)])
    <3>1. Max(s) \in s
      BY <1>2, <2>1, MaxFacts
    <3>2. f[s \ {Max(s)}] \in X /\ order[Max(s)] \in Rescued
      BY <1>2, <1>6, <3>1
    <3> HIDE DEF Adopt
    <3> QED
      BY <3>2
  <2>2. f = [s \in D |-> IF s = {} THEN base ELSE o[f[s \ {Max(s)}], order[Max(s)]]]
    BY <1>6 DEF FoldsBy
  <2> HIDE DEF o, D, Adopt
  <2> QED
    BY <2>1, <2>2
<1>8. Folds(F)
  <2> HIDE DEF Folds
  <2> QED
    BY <1>7
<1>9. FoldLeft(Adopt, base, order) = F[1 .. n]
  BY <1>2 DEF FoldLeft, MapThenFoldSet
<1>10. \A s \in D : F[s] = IF s = {} THEN base ELSE Adopt(F[s \ {Max(s)}], order[Max(s)])
  <2> HIDE DEF F, Adopt
  <2> QED
    BY <1>8
<1> HIDE DEF F, Adopt
<1> DEFINE S == {k \in 0 .. n : F[1 .. k] \in X}
<1>11. 0 \in S
  <2>1. 1 .. 0 = {} /\ 1 .. 0 \in D /\ 0 \in 0 .. n
    BY <1>2
  <2> QED
    BY <1>3, <1>10, <2>1
<1>12. ASSUME NEW k \in 1 .. n, k - 1 \in S PROVE k \in S
  <2>1. 1 .. k \in D /\ 1 .. k # {} /\ Max(1 .. k) = k /\ (1 .. k) \ {k} = 1 .. k - 1
    BY <1>2, UpTo
  <2>2. F[1 .. k] = Adopt(F[1 .. k - 1], order[k])
    BY <1>10, <2>1
  <2>3. F[1 .. k - 1] \in X /\ order[k] \in Rescued /\ k \in 0 .. n
    BY <1>2, <1>12
  <2> QED
    BY <1>4, <2>2, <2>3
<1>13. n \in S
  <2> HIDE DEF S
  <2> QED
    BY <1>2, <1>11, <1>12, Upwards
<1> QED
  BY <1>9, <1>13 DEF X, base, Adopt, order

\* The labelling judge's names are adopted one node after the other.
LEMMA RelabelKeeps == ASSUME EnrichmentInv, Relabel PROVE EnrichmentInv'
<1>1. EnrichmentTyped /\ SlotsAreOwned /\ PhasesFollow /\ MintingIsCapped /\ PublishedIdentityStands
  BY DEF EnrichmentInv
<1>2. [taken |-> taken', slots |-> slots'] \in Namings
  <2>1. PICK proposal \in [Rescued -> Labels] :
          LET Adopt(state, n) ==
                LET slot == <<slots[n][1], proposal[n]>>
                IN  IF slot \in state.taken THEN state
                    ELSE [taken |-> state.taken \cup {slot},
                          slots |-> [state.slots EXCEPT ![n] = slot]]
              named == FoldLeft(Adopt, [taken |-> taken, slots |-> slots],
                                Sorted(Rescued, <))
          IN  taken' = named.taken /\ slots' = named.slots
    BY DEF Relabel
  <2> DEFINE Adopt(state, n) ==
               LET slot == <<slots[n][1], proposal[n]>>
               IN  IF slot \in state.taken THEN state
                   ELSE [taken |-> state.taken \cup {slot},
                         slots |-> [state.slots EXCEPT ![n] = slot]]
             named == FoldLeft(Adopt, [taken |-> taken, slots |-> slots], Sorted(Rescued, <))
  <2>2. named \in Namings
    BY <1>1, AdoptingFacts
  <2>3. taken' = named.taken /\ slots' = named.slots
    BY <2>1
  <2> HIDE DEF named
  <2> QED
    BY <2>2, <2>3 DEF Namings
<1>3. /\ phase = "label" /\ phase' = "mint"
      /\ UNCHANGED <<kind, alive, rescue, pending, anchor, minting, admit, floor, merges>>
  BY DEF Relabel
<1>4. /\ slots' \in [DOMAIN slots -> Slot] /\ Own(Owners, slots', taken')
      /\ \A n \in DOMAIN slots \ Rescued : slots'[n] = slots[n]
  BY <1>2 DEF Namings
<1>5. Banished' = Banished /\ AdmittedNow' = AdmittedNow /\ Minted' = Minted /\ Owners' = Owners
  BY <1>3 DEF Banished, AdmittedNow, Minted, Owners
<1>6. EnrichmentTyped'
  <2>1. DOMAIN slots' = DOMAIN slots
    BY <1>4
  <2>2. slots' \in Seq(Slot)
    <3>1. Len(slots) \in Nat /\ DOMAIN slots = 1 .. Len(slots)
      BY <1>1 DEF EnrichmentTyped
    <3> QED
      BY <1>4, <3>1
  <2> QED
    BY <1>1, <1>3, <1>5, <2>1, <2>2 DEF EnrichmentTyped
<1>7. SlotsAreOwned'
  BY <1>4, <1>5 DEF SlotsAreOwned
<1>8. PhasesFollow'
  <2>1. Minted = {} /\ DOMAIN admit = {} /\ DOMAIN merges = {}
    BY <1>1, <1>3 DEF PhasesFollow
  <2>2. AdmittedNow = {}
    BY <2>1 DEF AdmittedNow
  <2> QED
    BY <1>1, <1>3, <1>5, <2>1, <2>2 DEF PhasesFollow
<1>9. MintingIsCapped'
  BY <1>1, <1>3, <1>5 DEF MintingIsCapped
<1>10. PublishedIdentityStands'
  <2>1. AnchorNodes \subseteq DOMAIN slots \ Rescued /\ DOMAIN merges = {}
    BY <1>1, <1>3 DEF EnrichmentTyped, Rescued, PhasesFollow
  <2> QED
    BY <1>1, <1>3, <1>4, <2>1 DEF PublishedIdentityStands
<1> QED
  BY <1>6, <1>7, <1>8, <1>9, <1>10 DEF EnrichmentInv
\* The rescued slots, each once, and none that is taken.
LEMMA FreshFacts ==
  ASSUME NEW candidates \in Candidates
  PROVE  LET fresh == {candidates[i].slot : i \in DOMAIN candidates} \ taken
             first(s) == Min({i \in DOMAIN candidates : candidates[i].slot = s})
             places == Sorted({first(s) : s \in fresh}, <)
             order == [i \in DOMAIN places |-> candidates[places[i]].slot]
         IN  order \in Seq(Slot) /\ IsInjective(order) /\ Range(order) \subseteq fresh
<1> DEFINE fresh == {candidates[i].slot : i \in DOMAIN candidates} \ taken
           first(s) == Min({i \in DOMAIN candidates : candidates[i].slot = s})
           firsts == {first(s) : s \in fresh}
           places == Sorted(firsts, <)
           order == [i \in DOMAIN places |-> candidates[places[i]].slot]
<1>1. candidates \in Seq(Range(candidates)) /\ DOMAIN candidates = 1 .. Len(candidates) /\ Len(candidates) \in Nat
  BY EnrichmentAssumption
<1>2. \A i \in DOMAIN candidates : candidates[i].slot \in Slot
  <2>1. \A i \in DOMAIN candidates : candidates[i] \in UNION {Range(c) : c \in Candidates}
    BY DEF Range
  <2> QED
    BY <2>1 DEF Slot, GivenSlots
<1>3. ASSUME NEW s \in fresh PROVE first(s) \in DOMAIN candidates /\ candidates[first(s)].slot = s
  <2> DEFINE those == {i \in DOMAIN candidates : candidates[i].slot = s}
  <2>1. those # {} /\ those \in SUBSET Nat
    BY <1>1
  <2>2. Min(those) \in those
    <3> HIDE DEF those
    <3> QED
      BY <2>1, MinFacts
  <2> QED
    BY <2>2
<1> HIDE DEF first
<1>4. firsts \subseteq DOMAIN candidates
  BY <1>3
<1>5. firsts \in SUBSET Nat /\ IsFiniteSet(firsts)
  <2>1. IsFiniteSet(DOMAIN candidates) /\ DOMAIN candidates \in SUBSET Nat
    BY <1>1, FS_Interval
  <2> HIDE DEF firsts
  <2> QED
    BY <1>4, <2>1, FS_Subset
<1>6. places \in Seq(Nat) /\ Range(places) = firsts /\ IsInjective(places)
  <2> HIDE DEF firsts
  <2> QED
    BY <1>5, SortedFacts
<1> HIDE DEF places, fresh
<1>7. ASSUME NEW i \in DOMAIN places PROVE \E s \in fresh : places[i] = first(s) /\ order[i] = s
  <2>1. places[i] \in firsts
    BY <1>6 DEF Range
  <2>2. PICK s \in fresh : places[i] = first(s)
    BY <2>1
  <2> QED
    BY <1>3, <2>2
<1>8. order \in Seq(Slot)
  <2>1. DOMAIN places = 1 .. Len(places) /\ Len(places) \in Nat
    BY <1>6
  <2>2. \A i \in DOMAIN places : places[i] \in DOMAIN candidates
    BY <1>4, <1>6 DEF Range
  <2> QED
    BY <1>2, <2>1, <2>2
<1>9. IsInjective(order)
  <2> SUFFICES ASSUME NEW i \in DOMAIN places, NEW j \in DOMAIN places, order[i] = order[j] PROVE i = j
    BY DEF IsInjective
  <2>1. places[i] = places[j]
    BY <1>7
  <2> QED
    BY <1>6, <2>1 DEF IsInjective
<1>10. Range(order) \subseteq fresh
  <2> SUFFICES ASSUME NEW i \in DOMAIN order PROVE order[i] \in fresh
    BY DEF Range
  <2> QED
    BY <1>7
<1> QED
  BY <1>8, <1>9, <1>10 DEF order, places, firsts, fresh, first

\* The rescue makes nodes of what nobody had.
LEMMA RescueKeeps ==
  ASSUME EnrichmentInv, NEW candidates \in Candidates, Rescue(candidates)
  PROVE  EnrichmentInv'
<1>1. EnrichmentTyped /\ SlotsAreOwned /\ PhasesFollow /\ MintingIsCapped /\ PublishedIdentityStands
  BY DEF EnrichmentInv
<1> DEFINE fresh == {candidates[i].slot : i \in DOMAIN candidates} \ taken
           first(s) == Min({i \in DOMAIN candidates : candidates[i].slot = s})
           places == Sorted({first(s) : s \in fresh}, <)
           order == [i \in DOMAIN places |-> candidates[places[i]].slot]
           made == {Len(slots) + i : i \in DOMAIN order}
<1>2. order \in Seq(Slot) /\ IsInjective(order) /\ Range(order) \subseteq fresh
  BY FreshFacts
<1>3. /\ phase = "rescue" /\ phase' = "durability"
      /\ UNCHANGED <<pending, anchor, minting, admit, floor, merges>>
      /\ slots' = slots \o order
      /\ kind' = Joined(kind, [n \in made |-> "source_mentioned"])
      /\ taken' = taken \cup fresh
      /\ \E gone \in SUBSET made :
           /\ rescue' = [n \in made |-> IF n \in gone THEN "dropped" ELSE "kept"]
           /\ alive' = alive \cup (made \ gone)
  <2> DEFINE carriers == {n \in made : \E i \in DOMAIN candidates :
                            candidates[i].slot = order[n - Len(slots)] /\ candidates[i].carrier}
  <2>1. PICK judged \in SUBSET (made \ carriers) :
           /\ slots' = slots \o order
           /\ kind' = Joined(kind, [n \in made |-> "source_mentioned"])
           /\ taken' = taken \cup fresh
           /\ rescue' = [n \in made |-> IF n \in carriers \cup judged THEN "dropped" ELSE "kept"]
           /\ alive' = alive \cup (made \ (carriers \cup judged))
    BY DEF Rescue
  <2>2. carriers \cup judged \in SUBSET made
    OBVIOUS
  <2>3. /\ phase = "rescue" /\ phase' = "durability"
        /\ UNCHANGED <<pending, anchor, minting, admit, floor, merges>>
    BY DEF Rescue
  <2> HIDE DEF carriers, made, order, fresh
  <2> QED
    BY <2>1, <2>2, <2>3
<1>4. fresh \cap taken = {}
  OBVIOUS
<1> HIDE DEF order, fresh
<1>5. PICK gone \in SUBSET made :
        /\ rescue' = [n \in made |-> IF n \in gone THEN "dropped" ELSE "kept"]
        /\ alive' = alive \cup (made \ gone)
  BY <1>3
<1>6. /\ slots' \in Seq(Slot)
      /\ DOMAIN slots' = DOMAIN slots \cup made /\ DOMAIN slots \cap made = {}
      /\ \A n \in DOMAIN slots : slots'[n] = slots[n]
      /\ \A O \in SUBSET DOMAIN slots : \A tk :
           Own(O, slots, tk) /\ Range(order) \cap tk = {} => Own(O \cup made, slots', tk \cup Range(order))
  <2>1. slots \in Seq(Slot)
    BY <1>1 DEF EnrichmentTyped
  <2>2. PICK u \in Seq(Slot) : u = slots \o order /\ Continues(u, slots, order)
    BY <1>2, <2>1, JoinedLists
  <2>3. slots' = u
    BY <1>3, <2>2
  <2> QED
    BY <2>2, <2>3 DEF Continues
<1> HIDE DEF made
<1>7. /\ DOMAIN kind' = DOMAIN slots'
      /\ \A n \in DOMAIN slots : kind'[n] = kind[n]
      /\ \A n \in made : kind'[n] = "source_mentioned"
  BY <1>1, <1>3, <1>6 DEF Joined, EnrichmentTyped
<1>8. DOMAIN admit = {} /\ DOMAIN pending = {} /\ DOMAIN merges = {} /\ Minted = {} /\ DOMAIN rescue = {}
  BY <1>1, <1>3 DEF PhasesFollow, Minted
<1>9. Banished' = gone /\ AdmittedNow' = {} /\ Minted' = {}
  <2>1. Banished' = gone /\ AdmittedNow' = {}
    BY <1>3, <1>5, <1>8 DEF Banished, AdmittedNow
  <2>2. alive \subseteq DOMAIN slots /\ \A n \in alive : kind[n] # "llm_grounded"
    BY <1>1, <1>8 DEF EnrichmentTyped, Minted
  <2> QED
    BY <1>5, <1>7, <2>1, <2>2 DEF Minted
<1>10. Owners \subseteq DOMAIN slots /\ Owners' \subseteq Owners \cup made
  <2>1. Owners \subseteq DOMAIN slots
    BY <1>1 DEF EnrichmentTyped, Owners, Banished
  <2>2. Owners' = alive \cup made
    BY <1>3, <1>5, <1>8, <1>9 DEF Owners
  <2> QED
    BY <2>1, <2>2 DEF Owners
<1>11. EnrichmentTyped'
  <2>1. AnchorNodes \subseteq DOMAIN slots /\ alive \subseteq DOMAIN slots
    BY <1>1 DEF EnrichmentTyped
  <2>2. Banished' \cap alive' = {}
    BY <1>5, <1>6, <1>9, <2>1
  <2>3. DOMAIN rescue' = made /\ alive' \subseteq DOMAIN slots'
    BY <1>5, <1>6, <2>1
  <2>4. \A n \in AnchorNodes : kind'[n] = "anchor"
    BY <1>1, <1>7, <2>1 DEF EnrichmentTyped
  <2>5. /\ \A n \in DOMAIN rescue' : kind'[n] = "source_mentioned"
        /\ DOMAIN admit' = {} /\ DOMAIN pending' = {}
    BY <1>3, <1>7, <1>8, <2>3
  <2>6. anchor' \in Nat \ {0} /\ AnchorNodes \subseteq DOMAIN slots'
        /\ alive' \cup DOMAIN rescue' \subseteq DOMAIN slots'
    BY <1>1, <1>3, <1>6, <2>1, <2>3 DEF EnrichmentTyped
  <2> QED
    BY <1>6, <1>7, <2>2, <2>4, <2>5, <2>6 DEF EnrichmentTyped
<1>12. SlotsAreOwned'
  <2>1. Own(Owners \cup made, slots', taken \cup Range(order))
    BY <1>1, <1>2, <1>4, <1>6, <1>10 DEF SlotsAreOwned
  <2>2. taken \cup Range(order) \subseteq taken'
    BY <1>2, <1>3
  <2> QED
    BY <1>10, <2>1, <2>2 DEF SlotsAreOwned, Own
<1>13. PhasesFollow'
  BY <1>3, <1>8, <1>9 DEF PhasesFollow
<1>14. MintingIsCapped'
  <2>1. AdmittedNow = {}
    BY <1>8 DEF AdmittedNow
  <2> QED
    BY <1>1, <1>3, <1>9, <2>1 DEF MintingIsCapped
<1>15. PublishedIdentityStands'
  <2>1. AnchorNodes \subseteq DOMAIN slots
    BY <1>1 DEF EnrichmentTyped
  <2> QED
    BY <1>1, <1>3, <1>5, <1>6, <1>8, <2>1 DEF PublishedIdentityStands
<1> QED
  BY <1>11, <1>12, <1>13, <1>14, <1>15 DEF EnrichmentInv
\* What may be reserved: slots nobody has, each once, and no more than the limit.
Reservable(limit) ==
  {r \in Seq(Slot) : IsInjective(r) /\ Range(r) \cap taken = {} /\ Len(r) <= limit}

\* The reserved slots are such a list.
LEMMA ReservingFacts ==
  ASSUME NEW home \in SlotDomains, NEW labels \in Proposals, NEW limit \in Nat
  PROVE  LET Reserve(reserved, label) ==
               IF \/ Len(reserved) >= limit
                  \/ <<home, label>> \in taken \cup Range(reserved)
               THEN reserved ELSE Append(reserved, <<home, label>>)
         IN  FoldLeft(Reserve, <<>>, labels) \in Reservable(limit)
<1> DEFINE Reserve(reserved, label) ==
             IF \/ Len(reserved) >= limit
                \/ <<home, label>> \in taken \cup Range(reserved)
             THEN reserved ELSE Append(reserved, <<home, label>>)
           n == Len(labels)
           E == Range(labels)
           D == SUBSET (1 .. n)
           X == Reservable(limit)
           o == [p \in X \X E |-> Reserve(p[1], p[2])]
           Folds(f) == f = [s \in D |-> IF s = {} THEN <<>> ELSE Reserve(f[s \ {Max(s)}], labels[Max(s)])]
           F == CHOOSE f : Folds(f)
<1>1. n \in Nat /\ labels \in [1 .. n -> E] /\ DOMAIN labels = 1 .. n
  <2>1. labels \in Seq(Range(labels))
    BY EnrichmentAssumption
  <2> QED
    BY <2>1
<1>2. \A label \in E : <<home, label>> \in Slot
  BY SlotFacts
<1> HIDE DEF n
<1>3. <<>> \in X
  BY DEF Reservable, IsInjective, Range
<1>4. ASSUME NEW r \in X, NEW label \in E PROVE Reserve(r, label) \in X
  <2> DEFINE slot == <<home, label>>
  <2>1. slot \in Slot
    BY <1>2
  <2> HIDE DEF slot
  <2>2. CASE Len(r) >= limit \/ slot \in taken \cup Range(r)
    BY <2>2 DEF slot
  <2>3. CASE ~ (Len(r) >= limit \/ slot \in taken \cup Range(r))
    <3>1. r \in Seq(Slot) /\ IsInjective(r) /\ Range(r) \cap taken = {} /\ Len(r) \in Nat /\ Len(r) + 1 <= limit
      <4>1. r \in Seq(Slot) /\ IsInjective(r) /\ Range(r) \cap taken = {} /\ Len(r) \in Nat
        BY DEF Reservable
      <4>2. ~ (Len(r) >= limit)
        BY <2>3
      <4> QED
        BY <4>1, <4>2
    <3> DEFINE s == Append(r, slot)
    <3>2. s \in Seq(Slot) /\ Len(s) = Len(r) + 1 /\ DOMAIN s = 1 .. Len(r) + 1
      BY <2>1, <3>1
    <3>3. DOMAIN r = 1 .. Len(r) /\ (\A i \in 1 .. Len(r) : s[i] = r[i]) /\ s[Len(r) + 1] = slot
      BY <2>1, <3>1
    <3> HIDE DEF s
    <3>4. Range(s) = Range(r) \cup {slot}
      BY <3>1, <3>2, <3>3 DEF Range
    <3>5. IsInjective(s)
      <4>1. \A i \in 1 .. Len(r) : s[i] # slot
        BY <2>3, <3>3 DEF Range
      <4>2. \A i, j \in 1 .. Len(r) : s[i] = s[j] => i = j
        BY <3>1, <3>3 DEF IsInjective
      <4>3. \A i \in DOMAIN s : i \in 1 .. Len(r) \/ i = Len(r) + 1
        BY <3>1, <3>2
      <4> QED
        BY <3>3, <4>1, <4>2, <4>3 DEF IsInjective
    <3>6. s \in X
      BY <2>3, <3>1, <3>2, <3>4, <3>5 DEF Reservable
    <3> QED
      BY <2>3, <3>6 DEF s, slot
  <2> QED
    BY <2>2, <2>3
<1> HIDE DEF X, E
<1>5. o \in [X \X E -> X]
  <2> HIDE DEF Reserve
  <2> QED
    BY <1>4
<1>6. PICK f \in [D -> X] : FoldsBy(o, <<>>, labels, n, f)
  <2> HIDE DEF o
  <2> QED
    BY <1>1, <1>3, <1>5, FoldExists
<1>7. Folds(f)
  <2>1. ASSUME NEW s \in D, s # {}
        PROVE  o[f[s \ {Max(s)}], labels[Max(s)]] = Reserve(f[s \ {Max(s)}], labels[Max(s)])
    <3>1. Max(s) \in s
      BY <1>1, <2>1, MaxFacts
    <3>2. f[s \ {Max(s)}] \in X /\ labels[Max(s)] \in E
      BY <1>1, <1>6, <3>1
    <3> HIDE DEF Reserve
    <3> QED
      BY <3>2
  <2>2. f = [s \in D |-> IF s = {} THEN <<>> ELSE o[f[s \ {Max(s)}], labels[Max(s)]]]
    BY <1>6 DEF FoldsBy
  <2> HIDE DEF o, D, Reserve
  <2> QED
    BY <2>1, <2>2
<1>8. Folds(F)
  <2> HIDE DEF Folds
  <2> QED
    BY <1>7
<1>9. FoldLeft(Reserve, <<>>, labels) = F[1 .. n]
  BY <1>1 DEF FoldLeft, MapThenFoldSet
<1>10. \A s \in D : F[s] = IF s = {} THEN <<>> ELSE Reserve(F[s \ {Max(s)}], labels[Max(s)])
  <2> HIDE DEF F, Reserve
  <2> QED
    BY <1>8
<1> HIDE DEF F, Reserve
<1> DEFINE S == {k \in 0 .. n : F[1 .. k] \in X}
<1>11. 0 \in S
  <2>1. 1 .. 0 = {} /\ 1 .. 0 \in D /\ 0 \in 0 .. n
    BY <1>1
  <2> QED
    BY <1>3, <1>10, <2>1
<1>12. ASSUME NEW k \in 1 .. n, k - 1 \in S PROVE k \in S
  <2>1. 1 .. k \in D /\ 1 .. k # {} /\ Max(1 .. k) = k /\ (1 .. k) \ {k} = 1 .. k - 1
    BY <1>1, UpTo
  <2>2. F[1 .. k] = Reserve(F[1 .. k - 1], labels[k])
    BY <1>10, <2>1
  <2>3. F[1 .. k - 1] \in X /\ labels[k] \in E /\ k \in 0 .. n
    BY <1>1, <1>12
  <2> QED
    BY <1>4, <2>2, <2>3
<1>13. n \in S
  <2> HIDE DEF S
  <2> QED
    BY <1>1, <1>11, <1>12, Upwards
<1> QED
  BY <1>9, <1>13 DEF X, Reserve

\* A proposal reserves what nobody had, and no more than the run may still mint.
LEMMA ProposeKeeps ==
  ASSUME EnrichmentInv, NEW labels \in Proposals, Propose(labels)
  PROVE  EnrichmentInv'
<1>1. EnrichmentTyped /\ SlotsAreOwned /\ PhasesFollow /\ MintingIsCapped /\ PublishedIdentityStands
  BY DEF EnrichmentInv
<1> DEFINE home == AnchorSlots[anchor][1]
           limit == IF MaxPerAnchor < Budget THEN MaxPerAnchor ELSE Budget
           Reserve(reserved, label) ==
             IF \/ Len(reserved) >= limit
                \/ <<home, label>> \in taken \cup Range(reserved)
             THEN reserved ELSE Append(reserved, <<home, label>>)
           reserved == FoldLeft(Reserve, <<>>, labels)
           made == {Len(slots) + i : i \in DOMAIN reserved}
<1>2. /\ phase = "mint" /\ anchor <= Len(AnchorSlots) /\ Budget > 0 /\ pending = <<>>
      /\ slots' = slots \o reserved
      /\ kind' = Joined(kind, [n \in made |-> "llm_grounded"])
      /\ taken' = taken \cup Range(reserved)
      /\ pending' = [n \in made |-> "reserved"]
      /\ anchor' = IF reserved = <<>> THEN anchor + 1 ELSE anchor
      /\ UNCHANGED <<phase, alive, rescue, minting, admit, floor, merges>>
  BY DEF Propose, MoreToMint
<1> HIDE DEF limit, reserved, home
<1>3. Minted = AdmittedNow /\ DOMAIN merges = {} /\ DOMAIN pending = {}
  BY <1>1, <1>2 DEF PhasesFollow
<1>4. Cardinality(AdmittedNow) \in Nat /\ MaxPerRun \in Nat /\ MaxPerAnchor \in Nat
  <2>1. DOMAIN slots = 1 .. Len(slots) /\ Len(slots) \in Nat
    BY <1>1 DEF EnrichmentTyped
  <2>2. IsFiniteSet(DOMAIN slots)
    BY <2>1, FS_Interval
  <2>3. IsFiniteSet(AdmittedNow)
    BY <1>1, <2>2, FS_Subset DEF EnrichmentTyped, AdmittedNow
  <2> QED
    BY <2>3, FS_CardinalityType, EnrichmentAssumption
<1>5. limit \in Nat /\ limit <= MaxPerRun - Cardinality(AdmittedNow)
  <2>1. Budget = MaxPerRun - Cardinality(AdmittedNow)
    BY <1>3 DEF Budget
  <2>2. Budget > 0
    BY <1>2
  <2> QED
    BY <1>4, <2>1, <2>2 DEF limit
<1>6. home \in SlotDomains
  <2>1. anchor \in DOMAIN AnchorSlots
    <3>1. anchor \in Nat \ {0} /\ anchor <= Len(AnchorSlots)
      BY <1>1, <1>2 DEF EnrichmentTyped
    <3>2. Len(AnchorSlots) \in Nat /\ DOMAIN AnchorSlots = 1 .. Len(AnchorSlots)
      BY SlotFacts DEF AnchorNodes
    <3> QED
      BY <3>1, <3>2
  <2>2. AnchorSlots[anchor] \in Slot
    BY <2>1, SlotFacts
  <2> QED
    BY <2>2, SlotFacts DEF home
<1>7. reserved \in Reservable(limit)
  BY <1>5, <1>6, ReservingFacts DEF reserved
<1>8. reserved \in Seq(Slot) /\ IsInjective(reserved) /\ Range(reserved) \cap taken = {}
      /\ Len(reserved) \in Nat /\ Len(reserved) <= limit
  BY <1>7 DEF Reservable
<1>9. PICK u \in Seq(Slot) : u = slots \o reserved /\ Continues(u, slots, reserved)
  <2>1. slots \in Seq(Slot)
    BY <1>1 DEF EnrichmentTyped
  <2> QED
    BY <1>8, <2>1, JoinedLists
<1>10. /\ slots' \in Seq(Slot)
       /\ DOMAIN slots' = DOMAIN slots \cup made /\ DOMAIN slots \cap made = {}
       /\ \A n \in DOMAIN slots : slots'[n] = slots[n]
       /\ IsFiniteSet(made) /\ Cardinality(made) = Len(reserved)
       /\ \A O \in SUBSET DOMAIN slots : \A tk :
            Own(O, slots, tk) /\ Range(reserved) \cap tk = {}
              => Own(O \cup made, slots', tk \cup Range(reserved))
  <2>1. slots' = u
    BY <1>2, <1>9
  <2> QED
    BY <1>9, <2>1 DEF Continues
<1> HIDE DEF made
<1>11. /\ DOMAIN kind' = DOMAIN slots'
       /\ \A n \in DOMAIN slots : kind'[n] = kind[n]
       /\ \A n \in made : kind'[n] = "llm_grounded"
  BY <1>1, <1>2, <1>10 DEF Joined, EnrichmentTyped
<1>12. Banished' = Banished /\ AdmittedNow' = AdmittedNow /\ DOMAIN pending' = made
  BY <1>2 DEF Banished, AdmittedNow
<1>13. Minted' = Minted
  <2>1. alive \subseteq DOMAIN slots
    BY <1>1 DEF EnrichmentTyped
  <2> QED
    BY <1>2, <1>11, <2>1 DEF Minted
<1>14. Owners \subseteq DOMAIN slots /\ Owners' = Owners \cup made
  <2>1. Owners \subseteq DOMAIN slots
    BY <1>1 DEF EnrichmentTyped, Owners, Banished
  <2> QED
    BY <1>2, <1>3, <1>12, <2>1 DEF Owners
<1>15. EnrichmentTyped'
  <2>1. AnchorNodes \cup alive \cup DOMAIN rescue \cup DOMAIN admit \subseteq DOMAIN slots
    BY <1>1 DEF EnrichmentTyped
  <2>2. anchor' \in Nat \ {0}
    BY <1>1, <1>2 DEF EnrichmentTyped
  <2>3. /\ \A n \in AnchorNodes : kind'[n] = "anchor"
        /\ \A n \in DOMAIN rescue' : kind'[n] = "source_mentioned"
        /\ \A n \in DOMAIN admit' \cup DOMAIN pending' : kind'[n] = "llm_grounded"
    BY <1>1, <1>2, <1>11, <1>12, <2>1 DEF EnrichmentTyped
  <2>4. AnchorNodes \subseteq DOMAIN slots' /\ alive' \cup DOMAIN rescue' \cup DOMAIN admit' \cup DOMAIN pending' \subseteq DOMAIN slots'
    BY <1>2, <1>10, <1>12, <2>1
  <2>5. Banished' \cap alive' = {} /\ DOMAIN pending' \cap (alive' \cup DOMAIN admit') = {}
    BY <1>1, <1>2, <1>10, <1>12, <2>1 DEF EnrichmentTyped
  <2> QED
    BY <1>10, <1>11, <2>2, <2>3, <2>4, <2>5 DEF EnrichmentTyped
<1>16. SlotsAreOwned'
  BY <1>1, <1>2, <1>8, <1>10, <1>14 DEF SlotsAreOwned
<1>17. PhasesFollow'
  BY <1>2, <1>3, <1>12, <1>13 DEF PhasesFollow
<1>18. MintingIsCapped'
  BY <1>4, <1>5, <1>8, <1>10, <1>12 DEF MintingIsCapped
<1>19. PublishedIdentityStands'
  <2>1. AnchorNodes \subseteq DOMAIN slots
    BY <1>1 DEF EnrichmentTyped
  <2> QED
    BY <1>1, <1>2, <1>3, <1>10, <2>1 DEF PublishedIdentityStands
<1> QED
  BY <1>15, <1>16, <1>17, <1>18, <1>19 DEF EnrichmentInv

\* Every step keeps the invariant.
LEMMA EnrichmentStep == EnrichmentInv /\ [EnrichmentNext]_enrichmentVars => EnrichmentInv'
<1> SUFFICES ASSUME EnrichmentInv, [EnrichmentNext]_enrichmentVars PROVE EnrichmentInv'
  OBVIOUS
<1>1. CASE \E candidates \in Candidates : Rescue(candidates)
  BY <1>1, RescueKeeps
<1>2. CASE JudgeRescue
  BY <1>2, JudgeRescueKeeps
<1>3. CASE Relabel
  BY <1>3, RelabelKeeps
<1>4. CASE \E labels \in Proposals : Propose(labels)
  BY <1>4, ProposeKeeps
<1>5. CASE JudgeMinting
  BY <1>5, JudgeMintingKeeps
<1>6. CASE AdmitGrounding
  BY <1>6, AdmitGroundingKeeps
<1>7. CASE ApplyVerbatimFloor
  BY <1>7, ApplyVerbatimFloorKeeps
<1>8. CASE Deduplicate
  BY <1>8, DeduplicateKeeps
<1>9. CASE Submit
  BY <1>9, EnrichmentRests DEF Submit
<1>10. CASE Fail
  BY <1>10, EnrichmentRests DEF Fail
<1>11. CASE UNCHANGED enrichmentVars
  BY <1>11, EnrichmentRests DEF enrichmentVars
<1> QED
  BY <1>1, <1>2, <1>3, <1>4, <1>5, <1>6, <1>7, <1>8, <1>9, <1>10, <1>11 DEF EnrichmentNext

(* However the rescue, labelling, proposing, minting and merging are judged   *)
(* and in whatever order the labels repeat, no two nodes in the node set have *)
(* one label of one domain, every label in use is claimed, a dropped or       *)
(* held-out label does not come back as a minted node, the run's minting      *)
(* budget holds, and the published concepts stand, for every set of concepts, *)
(* candidates, labels and caps.                                               *)
THEOREM LabelsHaveOneOwner == EnrichmentSpec => []LabelsAreOwnedOnce
<1>1. EnrichmentSpec => []EnrichmentInv
  BY EnrichmentStarts, EnrichmentStep, PTL DEF EnrichmentSpec
<1> QED
  BY <1>1, EnrichmentFollows, PTL

-----------------------------------------------------------------------------
(* Orders.  What a loop picks first, and Kahn's order of what is left. *)

\* R is a strict order of all of S.
Orders(R, S) ==
  /\ \A a \in S : <<a, a>> \notin R
  /\ \A a, b \in S : a # b => <<a, b>> \in R \/ <<b, a>> \in R
  /\ \A a, b, c \in S : <<a, b>> \in R /\ <<b, c>> \in R => <<a, c>> \in R

\* What is ordered has a first member: the one with the fewest before it.
LEMMA FirstOf ==
  ASSUME NEW R, NEW S, IsFiniteSet(S), S # {}, Orders(R, S)
  PROVE  \E a \in S : \A b \in S \ {a} : <<a, b>> \in R
<1> DEFINE Below(a) == {b \in S : <<b, a>> \in R}
           Sizes == {Cardinality(Below(a)) : a \in S}
<1>1. \A a \in S : Below(a) \in SUBSET S /\ IsFiniteSet(Below(a)) /\ Cardinality(Below(a)) \in Nat
  <2> SUFFICES ASSUME NEW a \in S
               PROVE  Below(a) \in SUBSET S /\ IsFiniteSet(Below(a)) /\ Cardinality(Below(a)) \in Nat
    OBVIOUS
  <2>1. Below(a) \in SUBSET S
    OBVIOUS
  <2> HIDE DEF Below
  <2> QED
    BY <2>1, FS_Subset, FS_CardinalityType
<1>2. Sizes \in SUBSET Nat /\ Sizes # {}
  BY <1>1
<1>3. PICK s \in Sizes : \A k \in Sizes : s <= k
  <2> HIDE DEF Sizes
  <2> QED
    BY <1>2, LeastNatural
<1>4. PICK a \in S : s = Cardinality(Below(a))
  BY <1>3
<1>5. ASSUME NEW b \in Below(a) PROVE FALSE
  <2>1. b \in S /\ <<b, a>> \in R /\ <<b, b>> \notin R
    BY <1>5 DEF Orders
  <2>2. Below(b) \in SUBSET Below(a) /\ b \notin Below(b)
    BY <1>4, <2>1 DEF Orders
  <2>3. Below(b) # Below(a)
    BY <1>5, <2>2
  <2>4. s <= Cardinality(Below(b))
    BY <1>3, <2>1
  <2> HIDE DEF Below
  <2>5. Cardinality(Below(b)) < Cardinality(Below(a))
    BY <1>1, <1>4, <2>2, <2>3, CardinalityShrinks
  <2> QED
    BY <1>1, <1>4, <2>1, <2>4, <2>5
<1>6. \A b \in S \ {a} : <<a, b>> \in R
  BY <1>4, <1>5 DEF Orders
<1> QED
  BY <1>4, <1>6

\* No node precedes itself.
NoneTurns(edges) == \A n : n \notin Ancestors(edges, n)

\* Some member of a finite set has none of its prerequisites in it.
LEMMA SomethingFirst ==
  ASSUME NEW edges, IsFiniteSet(edges), NoneTurns(edges), NEW S, S # {}
  PROVE  \E n \in S : Prerequisites(edges, n) \cap S = {}
<1> DEFINE Sizes == {Cardinality(Ancestors(edges, n)) : n \in S}
<1>1. \A n : IsFiniteSet(Ancestors(edges, n)) /\ Cardinality(Ancestors(edges, n)) \in Nat
  BY AncestorsFacts, EndsFacts, FS_Subset, FS_CardinalityType
<1>2. Sizes \in SUBSET Nat /\ Sizes # {}
  BY <1>1
<1>3. PICK s \in Sizes : \A k \in Sizes : s <= k
  <2> HIDE DEF Sizes
  <2> QED
    BY <1>2, LeastNatural
<1>4. PICK n \in S : s = Cardinality(Ancestors(edges, n))
  BY <1>3
<1>5. ASSUME NEW p \in Prerequisites(edges, n), p \in S PROVE FALSE
  <2>1. PICK e \in edges : e[2] = n /\ e[1] = p
    BY <1>5 DEF Prerequisites
  <2>2. p \in Ancestors(edges, n)
    BY <2>1, AncestorsSteps
  <2>3. Ancestors(edges, p) \in SUBSET Ancestors(edges, n)
    BY <2>2, AncestorsSteps
  <2>4. Ancestors(edges, p) # Ancestors(edges, n)
    BY <2>2 DEF NoneTurns
  <2>5. Cardinality(Ancestors(edges, p)) < Cardinality(Ancestors(edges, n))
    BY <1>1, <2>3, <2>4, CardinalityShrinks
  <2>6. s <= Cardinality(Ancestors(edges, p))
    BY <1>3, <1>5
  <2> QED
    BY <1>1, <1>4, <2>5, <2>6
<1> QED
  BY <1>4, <1>5

\* Everything with a successor in the set precedes something of it that has none.
LEMMA SomethingLast ==
  ASSUME NEW edges, IsFiniteSet(edges), NoneTurns(edges), NEW n
  PROVE  \E m : /\ m = n \/ n \in Ancestors(edges, m)
                /\ Successors(edges, m) = {}
<1> DEFINE N == Ends(edges)
           After(m) == {k \in N : m \in Ancestors(edges, k)}
           Up == {m \in N \cup {n} : m = n \/ n \in Ancestors(edges, m)}
           Sizes == {Cardinality(After(m)) : m \in Up}
<1>1. \A m : After(m) \in SUBSET N /\ IsFiniteSet(After(m)) /\ Cardinality(After(m)) \in Nat
  <2> SUFFICES ASSUME NEW m
               PROVE  After(m) \in SUBSET N /\ IsFiniteSet(After(m)) /\ Cardinality(After(m)) \in Nat
    OBVIOUS
  <2>1. After(m) \in SUBSET N /\ IsFiniteSet(N)
    BY EndsFacts
  <2> HIDE DEF After, N
  <2> QED
    BY <2>1, FS_Subset, FS_CardinalityType
<1>2. Sizes \in SUBSET Nat /\ Sizes # {}
  BY <1>1
<1>3. PICK s \in Sizes : \A k \in Sizes : s <= k
  <2> HIDE DEF Sizes
  <2> QED
    BY <1>2, LeastNatural
<1>4. PICK m \in Up : s = Cardinality(After(m))
  BY <1>3
<1>5. ASSUME NEW k \in Successors(edges, m) PROVE FALSE
  <2>1. PICK e \in edges : e[1] = m /\ e[2] = k
    BY <1>5 DEF Successors
  <2>2. m \in Ancestors(edges, k) /\ k \in N
    BY <2>1, AncestorsSteps, EndsFacts
  <2>3. k \in Up
    BY <1>4, <2>2, AncestorsSteps
  <2>4. \A j \in After(k) : j \in After(m)
    BY <2>2, AncestorsSteps
  <2>5. k \in After(m) /\ k \notin After(k)
    BY <2>2 DEF NoneTurns
  <2>6. s <= Cardinality(After(k))
    BY <1>3, <2>3
  <2>7. After(k) \in SUBSET After(m) /\ After(k) # After(m)
    BY <2>4, <2>5
  <2> HIDE DEF After
  <2>8. Cardinality(After(k)) < Cardinality(After(m))
    BY <1>1, <2>7, CardinalityShrinks
  <2> QED
    BY <1>1, <1>4, <2>6, <2>8
<1> QED
  BY <1>4, <1>5

\* What may be placed next.
Placeable(nodes, edges, placed) ==
  {n \in (nodes \cup Ends(edges)) \ Range(placed) : Prerequisites(edges, n) \subseteq Range(placed)}

\* f places, one after the other, what is picked of what may be placed.
Kahn(nodes, edges, pick, f) ==
  f = [placed \in Seq(Nat) |->
         IF Placeable(nodes, edges, placed) = {} THEN placed
         ELSE f[Append(placed, pick[Placeable(nodes, edges, placed)])]]

\* Everything comes after its prerequisites.
Preceded(edges, q) ==
  \A i \in 1 .. Len(q) : Prerequisites(edges, q[i]) \subseteq {q[j] : j \in 1 .. i - 1}

\* Each member comes before those that R puts after it.
InOrder(R, q) == \A i, j \in 1 .. Len(q) : i < j => <<q[i], q[j]>> \in R

\* q lists the nodes.
Lists(q, nodes) == q \in Seq(Nat) /\ Range(q) = nodes /\ IsInjective(q)

\* Kahn's order lists every node of an acyclic graph, after its prerequisites;
\* without edges it follows the order of the picks.
LEMMA KahnFacts ==
  ASSUME NEW nodes \in SUBSET Nat, IsFiniteSet(nodes),
         NEW edges, IsFiniteSet(edges), Ends(edges) \subseteq nodes, NoneTurns(edges),
         NEW R, NEW pick,
         \A r \in SUBSET nodes : r # {} => pick[r] \in r /\ \A b \in r \ {pick[r]} : <<pick[r], b>> \in R
  PROVE  LET q == (CHOOSE f : Kahn(nodes, edges, pick, f))[<<>>]
         IN  Lists(q, nodes) /\ Preceded(edges, q) /\ (edges = {} => InOrder(R, q))
<1> DEFINE D == Seq(Nat)
           left(placed) == Placeable(nodes, edges, placed)
           stop == {placed \in D : left(placed) = {}}
           next == [placed \in D |-> IF left(placed) = {} THEN placed
                                     ELSE Append(placed, pick[left(placed)])]
           id == [placed \in D |-> placed]
           rest(s) == nodes \ Range(s)
           Ahead(s) == \A i \in 1 .. Len(s) : \A b \in nodes :
                         b \in {s[j] : j \in 1 .. i} \/ <<s[i], b>> \in R
           P == {s \in D : /\ IsInjective(s) /\ Range(s) \subseteq nodes /\ Preceded(edges, s)
                           /\ edges = {} => Ahead(s)}
           m == [s \in D |-> Cardinality(rest(s))]
           W == CHOOSE f : Kahn(nodes, edges, pick, f)
<1>1. \A s : left(s) \in SUBSET rest(s) /\ rest(s) \in SUBSET nodes
  BY DEF Placeable
<1>2. ASSUME NEW s \in D, left(s) # {}
      PROVE  /\ pick[left(s)] \in left(s) /\ pick[left(s)] \in Nat
             /\ \A b \in left(s) \ {pick[left(s)]} : <<pick[left(s)], b>> \in R
  BY <1>1, <1>2
<1>3. next \in [D -> D]
  <2>1. ASSUME NEW s \in D, left(s) # {} PROVE Append(s, pick[left(s)]) \in D
    <3>1. pick[left(s)] \in Nat
      BY <1>2, <2>1
    <3> HIDE DEF left
    <3> QED
      BY <3>1
  <2> HIDE DEF left
  <2> QED
    BY <2>1
<1>4. \E f : Loops(D, stop, next, id, f)
  <2> HIDE DEF D, stop, next, id
  <2> QED
    BY <1>3, LoopExists
<1>5. \A f : Loops(D, stop, next, id, f) <=> Kahn(nodes, edges, pick, f)
  <2>1. \A f : [s \in D |-> IF s \in stop THEN id[s] ELSE f[next[s]]]
                = [s \in D |-> IF left(s) = {} THEN s ELSE f[Append(s, pick[left(s)])]]
    <3> HIDE DEF left
    <3> QED
      OBVIOUS
  <2> QED
    BY <2>1 DEF Loops, Kahn
<1>6. Loops(D, stop, next, id, W)
  BY <1>4, <1>5
<1>7. \A s : IsFiniteSet(rest(s)) /\ Cardinality(rest(s)) \in Nat
  <2> HIDE DEF rest
  <2> QED
    BY <1>1, FS_Subset, FS_CardinalityType
<1>8. ASSUME NEW s \in P, s \notin stop
      PROVE  next[s] \in P /\ m[next[s]] < m[s]
  <2> DEFINE x == pick[left(s)]
             t == Append(s, x)
             n == Len(s)
  <2>1. s \in D /\ left(s) # {} /\ x \in left(s) /\ x \in Nat
    BY <1>2, <1>8
  <2>2. next[s] = t
    BY <2>1
  <2>3. /\ x \in nodes /\ x \notin Range(s) /\ Prerequisites(edges, x) \subseteq Range(s)
    BY <1>1, <2>1 DEF Placeable
  <2>4. edges = {} => left(s) = rest(s)
    BY DEF Placeable, Ends, Prerequisites
  <2>5. edges = {} => \A b \in rest(s) \ {x} : <<x, b>> \in R
    BY <1>2, <2>1, <2>4
  <2> HIDE DEF x, left
  <2>6. /\ t \in D /\ Range(t) = Range(s) \cup {x} /\ IsInjective(t)
    BY <1>8, <2>1, <2>3, AppendedRange
  <2>7. /\ n \in Nat /\ Len(t) = n + 1 /\ t[n + 1] = x /\ (\A i \in 1 .. n : t[i] = s[i])
        /\ Range(s) = {s[j] : j \in 1 .. n} /\ DOMAIN t = 1 .. n + 1
    BY <2>1 DEF Range
  <2> HIDE DEF t, n
  <2>8. \A i \in 1 .. n + 1 : i = n + 1 \/ i \in 1 .. n
    BY <2>7
  <2>9. /\ \A i \in 1 .. n : {t[j] : j \in 1 .. i - 1} = {s[j] : j \in 1 .. i - 1}
        /\ \A i \in 1 .. n : {t[j] : j \in 1 .. i} = {s[j] : j \in 1 .. i}
        /\ {t[j] : j \in 1 .. n + 1 - 1} = Range(s)
    <3>1. \A i \in 1 .. n : \A j \in 1 .. i : j \in 1 .. n /\ t[j] = s[j]
      BY <2>7
    <3>2. \A i \in 1 .. n : \A j \in 1 .. i - 1 : j \in 1 .. n /\ t[j] = s[j]
      BY <2>7
    <3>3. n + 1 - 1 = n
      BY <2>7
    <3> QED
      BY <2>7, <3>1, <3>2, <3>3
  <2>10. Preceded(edges, t)
    <3> SUFFICES ASSUME NEW i \in 1 .. n + 1
                 PROVE  Prerequisites(edges, t[i]) \subseteq {t[j] : j \in 1 .. i - 1}
      BY <2>7 DEF Preceded
    <3>1. CASE i = n + 1
      BY <2>3, <2>7, <2>9, <3>1
    <3>2. CASE i \in 1 .. n
      <4>1. Prerequisites(edges, s[i]) \subseteq {s[j] : j \in 1 .. i - 1}
        BY <1>8, <2>7, <3>2 DEF Preceded, n
      <4> QED
        BY <2>7, <2>9, <3>2, <4>1
    <3> QED
      BY <2>8, <3>1, <3>2
  <2>11. ASSUME edges = {} PROVE Ahead(t)
    <3> SUFFICES ASSUME NEW i \in 1 .. n + 1, NEW b \in nodes
                 PROVE  b \in {t[j] : j \in 1 .. i} \/ <<t[i], b>> \in R
      BY <2>7
    <3>1. CASE i = n + 1
      <4>1. b \in Range(t) \/ (b \in rest(s) \ {x})
        BY <2>6
      <4>2. Range(t) = {t[j] : j \in 1 .. n + 1}
        BY <2>6, <2>7 DEF Range
      <4> HIDE DEF rest
      <4> QED
        BY <2>5, <2>7, <2>11, <3>1, <4>1, <4>2
    <3>2. CASE i \in 1 .. n
      <4>1. b \in {s[j] : j \in 1 .. i} \/ <<s[i], b>> \in R
        BY <1>8, <2>7, <2>11, <3>2 DEF n
      <4> QED
        BY <2>7, <2>9, <3>2, <4>1
    <3> QED
      BY <2>8, <3>1, <3>2
  <2>12. t \in P
    <3> HIDE DEF Ahead
    <3> QED
      BY <1>8, <2>3, <2>6, <2>10, <2>11
  <2>13. Cardinality(rest(t)) < Cardinality(rest(s))
    <3>1. rest(t) \in SUBSET rest(s) /\ rest(t) # rest(s)
      BY <2>3, <2>6
    <3> HIDE DEF rest
    <3> QED
      BY <1>7, <3>1, CardinalityShrinks
  <2>14. m[t] = Cardinality(rest(t)) /\ m[s] = Cardinality(rest(s))
    BY <2>1, <2>6
  <2> HIDE DEF P, m, next, rest
  <2> QED
    BY <2>2, <2>12, <2>13, <2>14
<1>9. Carries(D, stop, next, P) /\ Falls(P, stop, next, m)
  <2>1. P \in SUBSET D /\ \A s \in P : m[s] \in Nat
    BY <1>7
  <2> HIDE DEF P, m, next, stop, D
  <2> QED
    BY <1>8, <2>1 DEF Carries, Falls
<1>10. <<>> \in P
  BY DEF IsInjective, Range, Preceded
<1>11. \E y \in P \cap stop : W[<<>>] = id[y]
  <2> HIDE DEF P, m, next, stop, D, W, id
  <2> QED
    BY <1>6, <1>9, <1>10, LoopKeeps
<1>12. PICK q \in P \cap stop : W[<<>>] = q
  BY <1>11
<1>13. Range(q) = nodes
  <2> SUFFICES ASSUME rest(q) # {} PROVE FALSE
    BY <1>12
  <2>1. PICK n \in rest(q) : Prerequisites(edges, n) \cap rest(q) = {}
    <3> HIDE DEF rest
    <3> QED
      BY SomethingFirst
  <2>2. Prerequisites(edges, n) \subseteq nodes
    BY EndsFacts DEF Prerequisites
  <2>3. n \in left(q)
    BY <2>1, <2>2 DEF Placeable
  <2> QED
    BY <1>12, <2>3
<1>14. InOrder(R, q) \/ edges # {}
  <2> SUFFICES ASSUME edges = {}, NEW i \in 1 .. Len(q), NEW j \in 1 .. Len(q), i < j
               PROVE  <<q[i], q[j]>> \in R
    BY DEF InOrder
  <2>1. q \in D /\ IsInjective(q) /\ q[j] \in nodes
    BY <1>12, <1>13 DEF Range
  <2>2. q[j] \in {q[k] : k \in 1 .. i} \/ <<q[i], q[j]>> \in R
    BY <1>12, <2>1
  <2>3. ASSUME NEW k \in 1 .. i, q[k] = q[j] PROVE FALSE
    BY <2>1, <2>3 DEF IsInjective
  <2> QED
    BY <2>2, <2>3
<1> HIDE DEF W
<1> QED
  BY <1>12, <1>13, <1>14 DEF Lists, W

\* A part of what is ordered is ordered.
LEMMA OrdersPart ==
  ASSUME NEW R, NEW S, Orders(R, S), NEW r \in SUBSET S
  PROVE  Orders(R, r)
BY DEF Orders

\* So every part of it has a first member.
LEMMA FirstOfEach ==
  ASSUME NEW R, NEW S, IsFiniteSet(S), Orders(R, S)
  PROVE  \A r \in SUBSET S : r # {} => \E a \in r : \A b \in r \ {a} : <<a, b>> \in R
<1> SUFFICES ASSUME NEW r \in SUBSET S, r # {}
             PROVE  \E a \in r : \A b \in r \ {a} : <<a, b>> \in R
  OBVIOUS
<1>1. IsFiniteSet(r) /\ Orders(R, r)
  BY FS_Subset, OrdersPart
<1> QED
  BY <1>1, FirstOf

\* Without edges nothing turns.
LEMMA NothingTurns == IsFiniteSet({}) /\ Ends({}) = {} /\ NoneTurns({})
<1>1. IsFiniteSet({}) /\ Ends({}) = {}
  BY FS_EmptySet DEF Ends
<1>2. \A n : Ancestors({}, n) \subseteq {}
  BY <1>1, AncestorsFacts
<1> QED
  BY <1>1, <1>2 DEF NoneTurns

\* A set of numbers is sorted from the least to the greatest.
LEMMA SortedRises ==
  ASSUME NEW nodes \in SUBSET Nat, IsFiniteSet(nodes)
  PROVE  /\ Lists(Sorted(nodes, <), nodes)
         /\ \A i, j \in 1 .. Len(Sorted(nodes, <)) : i < j => Sorted(nodes, <)[i] < Sorted(nodes, <)[j]
<1> DEFINE R == {p \in Nat \X Nat : p[1] < p[2]}
           pick == [r \in SUBSET nodes |-> CHOOSE n \in r : \A k \in r \ {n} : n < k]
           left(placed) == Placeable(nodes, {}, placed)
           W == CHOOSE f : f = [placed \in Seq(Nat) |->
                                  IF left(placed) = {} THEN placed
                                  ELSE f[Append(placed, CHOOSE n \in left(placed) :
                                                          \A k \in left(placed) \ {n} : n < k)]]
           q == (CHOOSE f : Kahn(nodes, {}, pick, f))[<<>>]
<1>1. \A a, b \in Nat : <<a, b>> \in R <=> a < b
  OBVIOUS
<1> HIDE DEF R
<1>2. Orders(R, nodes)
  <2>1. \A a, b, c \in Nat : /\ ~ (a < a) /\ (a # b => a < b \/ b < a)
                             /\ (a < b /\ b < c => a < c)
    OBVIOUS
  <2> QED
    BY <1>1, <2>1 DEF Orders
<1>3. ASSUME NEW r \in SUBSET nodes, r # {}
      PROVE  pick[r] \in r /\ \A b \in r \ {pick[r]} : <<pick[r], b>> \in R
  <2>1. \A k \in SUBSET nodes : k # {} => \E a \in k : \A b \in k \ {a} : <<a, b>> \in R
    <3> HIDE DEF pick
    <3> QED
      BY <1>2, FirstOfEach
  <2>2. \E a \in r : \A b \in r \ {a} : <<a, b>> \in R
    BY <1>3, <2>1
  <2>3. \E a \in r : \A b \in r \ {a} : a < b
    BY <1>1, <2>2
  <2>4. pick[r] \in r /\ \A b \in r \ {pick[r]} : pick[r] < b
    BY <2>3
  <2> HIDE DEF pick
  <2> QED
    BY <1>1, <2>4
<1>4. IsFiniteSet({}) /\ Ends({}) = {} /\ NoneTurns({})
  BY NothingTurns
<1>5. Lists(q, nodes) /\ InOrder(R, q)
  <2> HIDE DEF pick
  <2> QED
    BY <1>3, <1>4, KahnFacts
<1>6. Sorted(nodes, <) = W[<<>>]
  BY DEF Sorted, TopologicalOrder, Placeable
<1>7. W[<<>>] = q
  <2>1. \A placed \in Seq(Nat) : left(placed) \in SUBSET nodes
    BY <1>4 DEF Placeable
  <2>2. \A f : Kahn(nodes, {}, pick, f) <=>
                 f = [placed \in Seq(Nat) |->
                        IF left(placed) = {} THEN placed
                        ELSE f[Append(placed, CHOOSE n \in left(placed) :
                                                \A k \in left(placed) \ {n} : n < k)]]
    <3>1. \A placed \in Seq(Nat) : pick[left(placed)] = CHOOSE n \in left(placed) :
                                                          \A k \in left(placed) \ {n} : n < k
      <4> HIDE DEF left
      <4> QED
        BY <2>1
    <3> HIDE DEF pick
    <3>2. \A f : [placed \in Seq(Nat) |-> IF left(placed) = {} THEN placed
                                          ELSE f[Append(placed, pick[left(placed)])]]
                 = [placed \in Seq(Nat) |->
                        IF left(placed) = {} THEN placed
                        ELSE f[Append(placed, CHOOSE n \in left(placed) :
                                                \A k \in left(placed) \ {n} : n < k)]]
      <4> HIDE DEF left
      <4> QED
        BY <3>1
    <3> QED
      BY <3>2 DEF Kahn
  <2> HIDE DEF left, pick
  <2> QED
    BY <2>2
<1> HIDE DEF W, q
<1>8. \A i, j \in 1 .. Len(q) : i < j => q[i] < q[j]
  <2>1. \A i \in 1 .. Len(q) : q[i] \in Nat
    BY <1>5 DEF Lists
  <2> QED
    BY <1>1, <1>5, <2>1 DEF InOrder
<1> QED
  BY <1>5, <1>6, <1>7, <1>8

-----------------------------------------------------------------------------
(* What a cone weighs. *)

\* The member a sum over a set takes first.
Picked(s) == CHOOSE x \in s : TRUE

\* f adds up what d says of the members, one picked after the other.
Adds(S, d, f) ==
  f = [s \in SUBSET S |-> IF s = {} THEN 0 ELSE d[Picked(s)] + f[s \ {Picked(s)}]]

\* There is such a function, of any finite set of numbers.
LEMMA AddsExists ==
  ASSUME NEW S, IsFiniteSet(S), NEW d \in [S -> Nat]
  PROVE  /\ \E f : Adds(S, d, f)
         /\ \A f : Adds(S, d, f) => f[S] \in Nat
<1> DEFINE N == Cardinality(S)
           Small(k) == {s \in SUBSET S : Cardinality(s) <= k}
           Upto(k, f) == /\ f \in [Small(k) -> Nat]
                         /\ \A s \in Small(k) : f[s] = IF s = {} THEN 0 ELSE d[Picked(s)] + f[s \ {Picked(s)}]
           Good == {k \in 0 .. N : \E f : Upto(k, f)}
<1>1. /\ N \in Nat
      /\ \A s \in SUBSET S : IsFiniteSet(s) /\ Cardinality(s) \in Nat /\ Cardinality(s) <= N
  <2>1. \A s \in SUBSET S : IsFiniteSet(s) /\ Cardinality(s) <= N
    BY FS_Subset
  <2> QED
    BY <2>1, FS_CardinalityType
<1>2. \A s \in SUBSET S : s # {} => Picked(s) \in s
  BY DEF Picked
<1>3. ASSUME NEW s \in SUBSET S, s # {}
      PROVE  s \ {Picked(s)} \in SUBSET S /\ Cardinality(s \ {Picked(s)}) + 1 = Cardinality(s)
  <2>1. Picked(s) \in s /\ IsFiniteSet(s)
    BY <1>1, <1>2, <1>3
  <2>2. Cardinality(s \ {Picked(s)}) = Cardinality(s) - 1
    BY <2>1, FS_RemoveElement
  <2>3. Cardinality(s) \in Nat
    BY <1>1
  <2> QED
    BY <2>2, <2>3
<1>4. 0 \in Good
  <2> DEFINE f == [s \in Small(0) |-> 0]
  <2>1. ASSUME NEW s \in Small(0) PROVE s = {}
    <3> SUFFICES ASSUME s # {} PROVE FALSE
      OBVIOUS
    <3>1. s \in SUBSET S /\ Cardinality(s) <= 0
      OBVIOUS
    <3>2. s \ {Picked(s)} \in SUBSET S /\ Cardinality(s \ {Picked(s)}) + 1 = Cardinality(s)
      BY <1>3, <3>1
    <3> QED
      BY <1>1, <3>1, <3>2
  <2>2. f \in [Small(0) -> Nat] /\ \A s \in Small(0) : f[s] = 0
    OBVIOUS
  <2> HIDE DEF f, Small
  <2>3. Upto(0, f)
    BY <2>1, <2>2
  <2> HIDE DEF Upto, N
  <2> QED
    BY <1>1, <2>3
<1>5. ASSUME NEW k \in 1 .. N, k - 1 \in Good PROVE k \in Good
  <2>1. PICK f : Upto(k - 1, f)
    BY <1>5
  <2> DEFINE value(s) == IF s = {} THEN 0 ELSE d[Picked(s)] + f[s \ {Picked(s)}]
             g == [s \in Small(k) |-> value(s)]
  <2>2. ASSUME NEW s \in Small(k), s # {}
        PROVE  s \ {Picked(s)} \in Small(k - 1) /\ s \ {Picked(s)} \in Small(k) /\ d[Picked(s)] \in Nat
    <3>1. s \in SUBSET S /\ Cardinality(s) <= k /\ k \in Nat
      BY <1>1
    <3>2. s \ {Picked(s)} \in SUBSET S /\ Cardinality(s \ {Picked(s)}) + 1 = Cardinality(s)
      BY <1>3, <2>2, <3>1
    <3>3. Cardinality(s \ {Picked(s)}) \in Nat /\ Cardinality(s) \in Nat
      BY <1>1, <3>1, <3>2
    <3>4. Picked(s) \in S
      BY <1>2, <2>2, <3>1
    <3> QED
      BY <3>1, <3>2, <3>3, <3>4
  <2>3. \A s \in Small(k - 1) : f[s] \in Nat /\ f[s] = value(s) /\ s \in Small(k)
    <3>1. \A s \in Small(k - 1) : s \in Small(k)
      BY <1>1
    <3> HIDE DEF Small
    <3> QED
      BY <2>1, <3>1
  <2>4. ASSUME NEW s \in Small(k) PROVE value(s) \in Nat
    <3>1. CASE s = {}
      BY <3>1
    <3>2. CASE s # {}
      <4>1. f[s \ {Picked(s)}] \in Nat /\ d[Picked(s)] \in Nat
        <5> HIDE DEF Small, value
        <5> QED
          BY <2>2, <2>3, <3>2
      <4> QED
        BY <3>2, <4>1
    <3> QED
      BY <3>1, <3>2
  <2>5. \A s \in Small(k - 1) : g[s] = f[s]
    <3> HIDE DEF Small, value
    <3> QED
      BY <2>3
  <2>6. ASSUME NEW s \in Small(k), s # {} PROVE g[s] = d[Picked(s)] + g[s \ {Picked(s)}]
    <3>1. g[s] = d[Picked(s)] + f[s \ {Picked(s)}]
      BY <2>6
    <3> HIDE DEF g, Small
    <3> QED
      BY <2>2, <2>5, <2>6, <3>1
  <2>7. g \in [Small(k) -> Nat] /\ \A s \in Small(k) : s = {} => g[s] = 0
    <3>1. g \in [Small(k) -> Nat]
      <4> HIDE DEF Small, value
      <4> QED
        BY <2>4
    <3> QED
      BY <3>1
  <2> HIDE DEF g, Small
  <2>8. Upto(k, g)
    BY <2>6, <2>7
  <2> HIDE DEF Upto, N
  <2> QED
    BY <1>1, <2>8
<1>6. N \in Good
  <2> HIDE DEF Good
  <2> QED
    BY <1>1, <1>4, <1>5, Upwards
<1>7. PICK f : Upto(N, f)
  BY <1>6
<1>8. Small(N) = SUBSET S
  BY <1>1
<1>9. Adds(S, d, f)
  <2>1. \A s \in SUBSET S : f[s] = IF s = {} THEN 0 ELSE d[Picked(s)] + f[s \ {Picked(s)}]
    BY <1>7, <1>8
  <2>2. f \in [SUBSET S -> Nat]
    BY <1>7, <1>8
  <2> QED
    BY <2>1, <2>2 DEF Adds
\* Of any such function the least set without a sum would have a lesser one.
<1>10. ASSUME NEW h, Adds(S, d, h) PROVE h[S] \in Nat
  <2> DEFINE Odd == {s \in SUBSET S : h[s] \notin Nat}
             Sizes == {Cardinality(s) : s \in Odd}
  <2>1. \A s \in SUBSET S : h[s] = IF s = {} THEN 0 ELSE d[Picked(s)] + h[s \ {Picked(s)}]
    BY <1>10 DEF Adds
  <2>2. ASSUME Odd # {} PROVE FALSE
    <3>1. Sizes \in SUBSET Nat /\ Sizes # {}
      BY <1>1, <2>2
    <3>2. PICK c \in Sizes : \A b \in Sizes : c <= b
      <4> HIDE DEF Sizes
      <4> QED
        BY <3>1, LeastNatural
    <3>3. PICK s \in Odd : c = Cardinality(s)
      BY <3>2
    <3>4. s \in SUBSET S /\ h[s] \notin Nat /\ s # {} /\ h[s] = d[Picked(s)] + h[s \ {Picked(s)}]
      BY <2>1, <3>3
    <3>5. /\ s \ {Picked(s)} \in SUBSET S /\ Cardinality(s \ {Picked(s)}) + 1 = Cardinality(s)
          /\ d[Picked(s)] \in Nat
      BY <1>2, <1>3, <3>4
    <3>6. Cardinality(s \ {Picked(s)}) \in Nat /\ Cardinality(s) \in Nat
      BY <1>1, <3>4, <3>5
    <3>7. h[s \ {Picked(s)}] \notin Nat
      BY <3>4, <3>5
    <3>8. Cardinality(s \ {Picked(s)}) \in Sizes
      BY <3>5, <3>7
    <3> HIDE DEF Sizes, Odd
    <3> QED
      BY <3>2, <3>3, <3>5, <3>6, <3>8
  <2> QED
    BY <2>2
<1> QED
  BY <1>9, <1>10

\* What the Legs are cut of: a layer with a band for each node, whose trusted
\* gates lead from no node back to it.
IsCourse(l) ==
  /\ IsLayer(l)
  /\ \A n \in l.nodes : l.band[n] \in Nat
  /\ NoneTurns(Trusted(l.gates))

\* The trusted edges of a course join its nodes.
LEMMA CourseFacts ==
  ASSUME NEW l, IsCourse(l)
  PROVE  LET E == Trusted(l.gates)
         IN  /\ l.nodes \in SUBSET Nat /\ IsFiniteSet(l.nodes)
             /\ E \in SUBSET (l.nodes \X l.nodes) /\ IsFiniteSet(E) /\ Ends(E) \subseteq l.nodes
             /\ NoneTurns(E)
<1> DEFINE E == Trusted(l.gates)
<1>1. /\ l.nodes \in SUBSET Nat /\ IsFiniteSet(l.nodes) /\ NoneTurns(E)
      /\ l.gates \in Gates(l.nodes)
  BY DEF IsCourse, IsLayer
<1>2. E \in SUBSET (l.nodes \X l.nodes)
  BY <1>1, GatesFacts DEF Trusted
<1> HIDE DEF E
<1>3. IsFiniteSet(E)
  BY <1>1, <1>2, FS_Product, FS_Subset
<1>4. Ends(E) \subseteq l.nodes
  BY <1>2 DEF Ends
<1> QED
  BY <1>1, <1>2, <1>3, <1>4 DEF E

\* A difficulty is a number.
LEMMA DifficultyFacts ==
  ASSUME NEW l, IsCourse(l), NEW n \in l.nodes
  PROVE  Difficulty(l, n) \in Nat
<1> DEFINE b == l.band[n]
<1>1. b \in Nat
  BY DEF IsCourse
<1>2. \E x \in {b, 1} : \A y \in {b, 1} : x >= y
  BY <1>1
<1>3. Max({b, 1}) \in {b, 1}
  BY <1>2 DEF Max
<1> QED
  BY <1>1, <1>3 DEF Difficulty

\* A cone is a part of the course, and weighs something.
LEMMA ConeFacts ==
  ASSUME NEW l, IsCourse(l), NEW n \in l.nodes
  PROVE  /\ Cone(l, n) \in SUBSET l.nodes /\ IsFiniteSet(Cone(l, n))
         /\ Weight(l, n)[1] \in Nat /\ Weight(l, n)[2] \in Nat \ {0}
<1> DEFINE C == Cone(l, n)
           d == [m \in C |-> Difficulty(l, m)]
           F == CHOOSE f : f = [s \in SUBSET C |->
                                  IF s = {} THEN 0
                                  ELSE Difficulty(l, Picked(s)) + f[s \ {Picked(s)}]]
<1>1. C \in SUBSET l.nodes /\ n \in C
  <2>1. Ancestors(Trusted(l.gates), n) \subseteq l.nodes
    BY CourseFacts, AncestorsFacts
  <2> QED
    BY <2>1 DEF Cone
<1>2. IsFiniteSet(C) /\ Cardinality(C) \in Nat /\ Cardinality(C) # 0
  <2>1. IsFiniteSet(l.nodes)
    BY CourseFacts
  <2> HIDE DEF C
  <2> QED
    BY <1>1, <2>1, FS_Subset, FS_CardinalityType, FS_EmptySet
<1>3. ConeDifficulty(l, n) = F[C]
  BY DEF ConeDifficulty, MapThenSumSet, MapThenFoldSet, Picked
<1> HIDE DEF C
<1>4. d \in [C -> Nat] /\ \A x \in C : d[x] = Difficulty(l, x)
  BY <1>1, DifficultyFacts
<1>5. \A f : Adds(C, d, f) <=> f = [s \in SUBSET C |->
                                  IF s = {} THEN 0
                                  ELSE Difficulty(l, Picked(s)) + f[s \ {Picked(s)}]]
  <2>1. \A s \in SUBSET C : s # {} => Picked(s) \in C
    <3>1. \A s \in SUBSET C : s # {} => Picked(s) \in s
      BY DEF Picked
    <3> QED
      BY <3>1
  <2>2. \A s \in SUBSET C : s # {} => d[Picked(s)] = Difficulty(l, Picked(s))
    BY <1>4, <2>1
  <2> HIDE DEF d
  <2>3. \A f : [s \in SUBSET C |-> IF s = {} THEN 0 ELSE d[Picked(s)] + f[s \ {Picked(s)}]]
               = [s \in SUBSET C |-> IF s = {} THEN 0
                                     ELSE Difficulty(l, Picked(s)) + f[s \ {Picked(s)}]]
    BY <2>2
  <2> QED
    BY <2>3 DEF Adds
<1>6. F[C] \in Nat
  <2> DEFINE Spelt(f) == f = [s \in SUBSET C |->
                                IF s = {} THEN 0
                                ELSE Difficulty(l, Picked(s)) + f[s \ {Picked(s)}]]
  <2> HIDE DEF d
  <2>1. PICK f : Adds(C, d, f)
    BY <1>2, <1>4, AddsExists
  <2>2. Spelt(f)
    BY <1>5, <2>1
  <2>3. F = CHOOSE h : Spelt(h)
    OBVIOUS
  <2> HIDE DEF F, Spelt
  <2>4. Spelt(F)
    BY <2>2, <2>3
  <2>5. Adds(C, d, F)
    BY <1>5, <2>4 DEF Spelt
  <2> QED
    BY <1>2, <1>4, <2>5, AddsExists
<1> HIDE DEF F
<1>7. ConeDifficulty(l, n) \in Nat
  BY <1>3, <1>6
<1> QED
  BY <1>1, <1>2, <1>7 DEF Weight, C

-----------------------------------------------------------------------------
(* The orders of milestones and of stops. *)

\* Multiplying by a positive number keeps the order.
LEMMA Scaled ==
  ASSUME NEW x \in Nat, NEW y \in Nat, NEW k \in Nat \ {0}
  PROVE  (x < y <=> x * k < y * k) /\ (x = y <=> x * k = y * k)
<1>1. ASSUME NEW a \in Nat, NEW b \in Nat, a < b PROVE a * k < b * k
  <2>1. PICK c \in Nat : b = a + 1 + c
    <3>1. b - (a + 1) \in Nat /\ b = a + 1 + (b - (a + 1))
      BY <1>1
    <3> QED
      BY <3>1
  <2>2. b * k = a * k + k + c * k
    BY <2>1
  <2>3. a * k \in Nat /\ c * k \in Nat
    BY <2>1
  <2> QED
    BY <2>2, <2>3
<1>2. x * k \in Nat /\ y * k \in Nat
  OBVIOUS
<1>3. x < y \/ x = y \/ y < x
  OBVIOUS
<1>4. CASE x < y
  <2>1. x * k < y * k
    BY <1>1, <1>4
  <2> QED
    BY <1>2, <1>4, <2>1
<1>5. CASE y < x
  <2>1. y * k < x * k
    BY <1>1, <1>5
  <2> QED
    BY <1>2, <1>5, <2>1
<1>6. CASE x = y
  BY <1>2, <1>6
<1> QED
  BY <1>3, <1>4, <1>5, <1>6

\* A sum of difficulties and how many there are.
IsWeight(w) == w[1] \in Nat /\ w[2] \in Nat \ {0}

\* Comparing by mean, then size, then label is transitive.
LEMMA LighterChains ==
  ASSUME NEW m \in Nat, NEW n \in Nat, NEW o \in Nat,
         NEW u, IsWeight(u), NEW v, IsWeight(v), NEW w, IsWeight(w),
         Lighter(m, u, n, v), Lighter(n, v, o, w)
  PROVE  Lighter(m, u, o, w)
<1> DEFINE a == u[1] * v[2]
           b == v[1] * u[2]
           c == v[1] * w[2]
           d == w[1] * v[2]
           x == u[1] * w[2]
           y == w[1] * u[2]
<1>1. /\ u[1] \in Nat /\ v[1] \in Nat /\ w[1] \in Nat
      /\ u[2] \in Nat \ {0} /\ v[2] \in Nat \ {0} /\ w[2] \in Nat \ {0}
  BY DEF IsWeight
<1>2. /\ a \in Nat /\ b \in Nat /\ c \in Nat /\ d \in Nat /\ x \in Nat /\ y \in Nat
  BY <1>1
<1>3. /\ a * w[2] = x * v[2] /\ b * w[2] = c * u[2] /\ d * u[2] = y * v[2]
  BY <1>1
<1>4. (a < b \/ a = b) /\ (c < d \/ c = d)
  BY DEF Lighter
<1>5. /\ (a < b => a * w[2] < b * w[2]) /\ (a = b => a * w[2] = b * w[2])
      /\ (c < d => c * u[2] < d * u[2]) /\ (c = d => c * u[2] = d * u[2])
      /\ (x < y <=> x * v[2] < y * v[2]) /\ (x = y <=> x * v[2] = y * v[2])
  <2> HIDE DEF a, b, c, d, x, y
  <2> QED
    BY <1>1, <1>2, Scaled
<1>6. /\ x * v[2] \in Nat /\ b * w[2] \in Nat /\ y * v[2] \in Nat
  <2> HIDE DEF a, b, c, d, x, y
  <2> QED
    BY <1>1, <1>2
<1>7. (a < b \/ c < d => x < y) /\ (a = b /\ c = d => x = y)
  <2> DEFINE p == x * v[2]
             q == b * w[2]
             r == y * v[2]
  <2>1. p \in Nat /\ q \in Nat /\ r \in Nat
    BY <1>6
  <2>2. /\ (a < b => p < q) /\ (a = b => p = q) /\ (c < d => q < r) /\ (c = d => q = r)
        /\ (x < y <=> p < r) /\ (x = y <=> p = r)
    <3> HIDE DEF a, b, c, d, x, y
    <3> QED
      BY <1>3, <1>5
  <2> HIDE DEF a, b, c, d, x, y, p, q, r
  <2> QED
    BY <1>4, <2>1, <2>2
<1>8. CASE a < b \/ c < d
  BY <1>7, <1>8 DEF Lighter
<1>9. CASE a = b /\ c = d /\ ~ (a < b) /\ ~ (c < d)
  <2>1. u[2] < v[2] \/ (u[2] = v[2] /\ m < n)
    BY <1>9 DEF Lighter
  <2>2. v[2] < w[2] \/ (v[2] = w[2] /\ n < o)
    BY <1>9 DEF Lighter
  <2>3. u[2] < w[2] \/ (u[2] = w[2] /\ m < o)
    BY <1>1, <2>1, <2>2
  <2> QED
    BY <1>7, <1>9, <2>3 DEF Lighter
<1> HIDE DEF a, b, c, d, x, y
<1> QED
  BY <1>2, <1>4, <1>8, <1>9

\* The milestones in order are the terminal concepts, each once.
LEMMA MilestonesFacts ==
  ASSUME NEW l, IsCourse(l)
  PROVE  Lists(MilestoneOrder(l), Milestones(l))
<1> DEFINE nodes == Milestones(l)
           Before(m, n) == Lighter(m, Weight(l, m), n, Weight(l, n))
           R == {p \in Nat \X Nat : Before(p[1], p[2])}
           pick == [r \in SUBSET nodes |-> CHOOSE n \in r : \A k \in r \ {n} : Before(n, k)]
           left(placed) == Placeable(nodes, {}, placed)
           W == CHOOSE f : f = [placed \in Seq(Nat) |->
                                  IF left(placed) = {} THEN placed
                                  ELSE f[Append(placed, CHOOSE n \in left(placed) :
                                                          \A k \in left(placed) \ {n} : Before(n, k))]]
           q == (CHOOSE f : Kahn(nodes, {}, pick, f))[<<>>]
<1>1. \A a, b \in Nat : <<a, b>> \in R <=> Before(a, b)
  OBVIOUS
<1> HIDE DEF R
<1>2. nodes \in SUBSET Nat /\ IsFiniteSet(nodes) /\ \A n \in nodes : IsWeight(Weight(l, n))
  <2>1. nodes \subseteq l.nodes
    BY DEF Milestones
  <2>2. l.nodes \in SUBSET Nat /\ IsFiniteSet(l.nodes)
    BY CourseFacts
  <2>3. \A n \in l.nodes : IsWeight(Weight(l, n))
    BY ConeFacts DEF IsWeight
  <2> HIDE DEF nodes
  <2> QED
    BY <2>1, <2>2, <2>3, FS_Subset
<1> HIDE DEF nodes
<1>3. Orders(R, nodes)
  <2>1. ASSUME NEW a \in nodes PROVE ~ Before(a, a)
    <3>1. a \in Nat /\ Weight(l, a)[1] \in Nat /\ Weight(l, a)[2] \in Nat
      BY <1>2 DEF IsWeight
    <3>2. Weight(l, a)[1] * Weight(l, a)[2] \in Nat
      BY <3>1
    <3> QED
      BY <3>1, <3>2 DEF Lighter
  <2>2. ASSUME NEW a \in nodes, NEW b \in nodes, a # b PROVE Before(a, b) \/ Before(b, a)
    <3> DEFINE v == Weight(l, a)
               w == Weight(l, b)
               x == v[1] * w[2]
               y == w[1] * v[2]
    <3>1. a \in Nat /\ b \in Nat /\ v[1] \in Nat /\ v[2] \in Nat /\ w[1] \in Nat /\ w[2] \in Nat
      BY <1>2 DEF IsWeight
    <3>2. x \in Nat /\ y \in Nat
      BY <3>1
    <3>3. /\ Lighter(a, v, b, w) <=> x < y \/ (x = y /\ (v[2] < w[2] \/ (v[2] = w[2] /\ a < b)))
          /\ Lighter(b, w, a, v) <=> y < x \/ (y = x /\ (w[2] < v[2] \/ (w[2] = v[2] /\ b < a)))
      BY DEF Lighter
    <3> HIDE DEF x, y
    <3>4. Lighter(a, v, b, w) \/ Lighter(b, w, a, v)
      BY <2>2, <3>1, <3>2, <3>3
    <3> QED
      BY <3>4
  <2>3. ASSUME NEW a \in nodes, NEW b \in nodes, NEW c \in nodes, Before(a, b), Before(b, c)
        PROVE  Before(a, c)
    BY <1>2, <2>3, LighterChains
  <2> HIDE DEF Before
  <2>4. \A a, b \in nodes : <<a, b>> \in R <=> Before(a, b)
    BY <1>1, <1>2
  <2> QED
    BY <2>1, <2>2, <2>3, <2>4 DEF Orders
<1> HIDE DEF Before
<1>4. ASSUME NEW r \in SUBSET nodes, r # {}
      PROVE  pick[r] \in r /\ \A b \in r \ {pick[r]} : <<pick[r], b>> \in R
  <2>1. \A k \in SUBSET nodes : k # {} => \E a \in k : \A b \in k \ {a} : <<a, b>> \in R
    <3> HIDE DEF pick
    <3> QED
      BY <1>2, <1>3, FirstOfEach
  <2>2. \E a \in r : \A b \in r \ {a} : <<a, b>> \in R
    BY <1>4, <2>1
  <2>3. \E a \in r : \A b \in r \ {a} : Before(a, b)
    BY <1>1, <1>2, <2>2
  <2>4. pick[r] \in r /\ \A b \in r \ {pick[r]} : Before(pick[r], b)
    BY <2>3
  <2> HIDE DEF pick
  <2> QED
    BY <1>1, <1>2, <2>4
<1>5. IsFiniteSet({}) /\ Ends({}) = {} /\ NoneTurns({})
  BY NothingTurns
<1>6. Lists(q, nodes)
  <2> HIDE DEF pick
  <2> QED
    BY <1>2, <1>4, <1>5, KahnFacts
<1>7. MilestoneOrder(l) = W[<<>>]
  BY DEF MilestoneOrder, Sorted, TopologicalOrder, Placeable, Before, nodes
<1>8. W[<<>>] = q
  <2>1. \A placed \in Seq(Nat) : left(placed) \in SUBSET nodes
    BY <1>5 DEF Placeable
  <2>2. \A f : Kahn(nodes, {}, pick, f) <=>
                 f = [placed \in Seq(Nat) |->
                        IF left(placed) = {} THEN placed
                        ELSE f[Append(placed, CHOOSE n \in left(placed) :
                                                \A k \in left(placed) \ {n} : Before(n, k))]]
    <3>1. \A placed \in Seq(Nat) : pick[left(placed)] = CHOOSE n \in left(placed) :
                                                          \A k \in left(placed) \ {n} : Before(n, k)
      <4> HIDE DEF left
      <4> QED
        BY <2>1
    <3> HIDE DEF pick
    <3>2. \A f : [placed \in Seq(Nat) |-> IF left(placed) = {} THEN placed
                                          ELSE f[Append(placed, pick[left(placed)])]]
                 = [placed \in Seq(Nat) |->
                        IF left(placed) = {} THEN placed
                        ELSE f[Append(placed, CHOOSE n \in left(placed) :
                                                \A k \in left(placed) \ {n} : Before(n, k))]]
      <4> HIDE DEF left
      <4> QED
        BY <3>1
    <3> QED
      BY <3>2 DEF Kahn
  <2> HIDE DEF left, pick
  <2> QED
    BY <2>2
<1> HIDE DEF W, q
<1> QED
  BY <1>6, <1>7, <1>8 DEF nodes

\* The stops of a part in order are its members, each once and after the
\* prerequisites it has in the part.
LEMMA StopOrderFacts ==
  ASSUME NEW l, IsCourse(l), NEW stops, stops \subseteq l.nodes
  PROVE  /\ Lists(StopOrder(l, stops), stops)
         /\ Preceded(Within(Trusted(l.gates), stops), StopOrder(l, stops))
<1> DEFINE edges == Within(Trusted(l.gates), stops)
           Before(m, n) == \/ Difficulty(l, m) < Difficulty(l, n)
                           \/ Difficulty(l, m) = Difficulty(l, n) /\ m < n
           R == {p \in Nat \X Nat : Before(p[1], p[2])}
           pick == [r \in SUBSET stops |-> CHOOSE n \in r : \A k \in r \ {n} : Before(n, k)]
           left(placed) == Placeable(stops, edges, placed)
           W == CHOOSE f : f = [placed \in Seq(Nat) |->
                                  IF left(placed) = {} THEN placed
                                  ELSE f[Append(placed, CHOOSE n \in left(placed) :
                                                          \A k \in left(placed) \ {n} : Before(n, k))]]
           q == (CHOOSE f : Kahn(stops, edges, pick, f))[<<>>]
<1>1. \A a, b \in Nat : <<a, b>> \in R <=> Before(a, b)
  OBVIOUS
<1> HIDE DEF R
<1>2. stops \in SUBSET Nat /\ IsFiniteSet(stops) /\ \A n \in stops : Difficulty(l, n) \in Nat
  <2>1. l.nodes \in SUBSET Nat /\ IsFiniteSet(l.nodes)
    BY CourseFacts
  <2>2. \A n \in l.nodes : Difficulty(l, n) \in Nat
    BY DifficultyFacts
  <2> HIDE DEF edges, left, W, q, pick
  <2> QED
    BY <2>1, <2>2, FS_Subset
<1>3. Orders(R, stops)
  <2>1. ASSUME NEW a \in stops, NEW b \in stops, NEW c \in stops
        PROVE  /\ ~ Before(a, a) /\ (a # b => Before(a, b) \/ Before(b, a))
               /\ Before(a, b) /\ Before(b, c) => Before(a, c)
    <3>1. /\ a \in Nat /\ b \in Nat /\ c \in Nat /\ Difficulty(l, a) \in Nat
          /\ Difficulty(l, b) \in Nat /\ Difficulty(l, c) \in Nat
      BY <1>2
    <3> QED
      BY <3>1
  <2> HIDE DEF Before
  <2>2. \A a, b \in stops : <<a, b>> \in R <=> Before(a, b)
    BY <1>1, <1>2
  <2> QED
    BY <2>1, <2>2 DEF Orders
<1> HIDE DEF Before
<1>4. ASSUME NEW r \in SUBSET stops, r # {}
      PROVE  pick[r] \in r /\ \A b \in r \ {pick[r]} : <<pick[r], b>> \in R
  <2>1. \A k \in SUBSET stops : k # {} => \E a \in k : \A b \in k \ {a} : <<a, b>> \in R
    <3> HIDE DEF pick, edges, left, W, q
    <3> QED
      BY <1>2, <1>3, FirstOfEach
  <2>2. \E a \in r : \A b \in r \ {a} : <<a, b>> \in R
    BY <1>4, <2>1
  <2>3. \E a \in r : \A b \in r \ {a} : Before(a, b)
    BY <1>1, <1>2, <2>2
  <2>4. pick[r] \in r /\ \A b \in r \ {pick[r]} : Before(pick[r], b)
    BY <2>3
  <2> HIDE DEF pick
  <2> QED
    BY <1>1, <1>2, <2>4
<1>5. IsFiniteSet(edges) /\ Ends(edges) \subseteq stops /\ NoneTurns(edges)
  <2> DEFINE E == Trusted(l.gates)
  <2>1. IsFiniteSet(E) /\ NoneTurns(E)
    BY CourseFacts
  <2>2. edges \in SUBSET E
    BY DEF Within
  <2>3. IsFiniteSet(edges)
    BY <2>1, <2>2, FS_Subset
  <2>4. Ends(edges) \subseteq stops
    BY DEF Ends, Within
  <2> HIDE DEF edges, E
  <2>5. \A n : Ancestors(edges, n) \subseteq Ancestors(E, n)
    BY <2>1, <2>2, AncestorsSteps
  <2> QED
    BY <2>1, <2>3, <2>4, <2>5 DEF NoneTurns
<1>6. StopOrder(l, stops) = W[<<>>]
  BY DEF StopOrder, TopologicalOrder, Placeable, Before
<1> HIDE DEF edges
<1>7. Lists(q, stops) /\ Preceded(edges, q)
  <2> HIDE DEF pick
  <2> QED
    BY <1>2, <1>4, <1>5, KahnFacts
<1>8. \A placed \in Seq(Nat) : left(placed) \in SUBSET stops
  BY <1>5 DEF Placeable
<1> HIDE DEF left
<1> DEFINE Spelt(f) == f = [placed \in Seq(Nat) |->
                              IF left(placed) = {} THEN placed
                              ELSE f[Append(placed, CHOOSE n \in left(placed) :
                                                      \A k \in left(placed) \ {n} : Before(n, k))]]
<1>9. \A f : Kahn(stops, edges, pick, f) <=> Spelt(f)
  <2>1. \A placed \in Seq(Nat) : pick[left(placed)] = CHOOSE n \in left(placed) :
                                                        \A k \in left(placed) \ {n} : Before(n, k)
    BY <1>8
  <2> HIDE DEF pick
  <2>2. \A f : [placed \in Seq(Nat) |-> IF left(placed) = {} THEN placed
                                        ELSE f[Append(placed, pick[left(placed)])]]
               = [placed \in Seq(Nat) |->
                      IF left(placed) = {} THEN placed
                      ELSE f[Append(placed, CHOOSE n \in left(placed) :
                                              \A k \in left(placed) \ {n} : Before(n, k))]]
    BY <2>1
  <2> QED
    BY <2>2 DEF Kahn, left
<1>10. W = CHOOSE f : Spelt(f)
  OBVIOUS
<1> HIDE DEF Spelt, W, pick
<1>11. W = CHOOSE f : Kahn(stops, edges, pick, f)
  BY <1>9, <1>10
<1> HIDE DEF W
<1> QED
  BY <1>6, <1>7, <1>11 DEF edges

-----------------------------------------------------------------------------
(* Pieces of a trail. *)

\* The stops after the a-th, up to the b-th.
Piece(q, a, b) == [i \in 1 .. b - a |-> q[a + i]]

\* The section they make.
Section(q, a, b) == [milestone |-> q[b], steps |-> Piece(q, a, b)]

\* e names where each of the n sections ends, the first after the a-th stop and
\* the last at the b-th.
Marks(q, a, b, secs, n, e) ==
  /\ e \in [0 .. n -> Nat] /\ e[0] = a /\ e[n] = b
  /\ \A k \in 1 .. n : e[k - 1] < e[k] /\ secs[k] = Section(q, e[k - 1], e[k])

\* The n sections are what q is cut into between its a-th and b-th stop.
Cut(q, a, b, secs, n) == \E e : Marks(q, a, b, secs, n, e)

\* Marks rise.
LEMMA MarksRise ==
  ASSUME NEW q, NEW a, NEW b, NEW secs, NEW n \in Nat, NEW e, Marks(q, a, b, secs, n, e)
  PROVE  /\ \A k \in 0 .. n : a <= e[k] /\ e[k] <= b
         /\ \A j, k \in 0 .. n : j < k => e[j] < e[k]
<1>1. /\ e \in [0 .. n -> Nat] /\ e[0] = a /\ e[n] = b
      /\ \A k \in 1 .. n : e[k - 1] < e[k]
  BY DEF Marks
<1>2. \A j, k \in 0 .. n : j < k => e[j] < e[k]
  <2> SUFFICES ASSUME NEW j \in 0 .. n PROVE \A k \in 0 .. n : j < k => e[j] < e[k]
    OBVIOUS
  <2> DEFINE S == {k \in 0 .. n : j < k => e[j] < e[k]}
  <2>1. 0 \in S
    OBVIOUS
  <2>2. ASSUME NEW m \in 0 .. n PROVE m \in S
    <3>1. ASSUME NEW k \in 1 .. m, k - 1 \in S PROVE k \in S
      <4>1. k \in 1 .. n /\ k - 1 \in 0 .. n /\ k \in 0 .. n
        OBVIOUS
      <4>2. e[k - 1] < e[k] /\ e[k - 1] \in Nat /\ e[k] \in Nat /\ e[j] \in Nat
        BY <1>1, <4>1
      <4>3. CASE j < k - 1
        BY <3>1, <4>1, <4>2, <4>3
      <4>4. CASE j = k - 1
        BY <4>1, <4>2, <4>4
      <4>5. CASE ~ (j < k)
        BY <4>1, <4>5
      <4> QED
        BY <4>1, <4>3, <4>4, <4>5
    <3>2. m \in Nat
      OBVIOUS
    <3> HIDE DEF S
    <3> QED
      BY <2>1, <3>1, <3>2, Upwards
  <2> QED
    BY <2>2
<1>3. ASSUME NEW k \in 0 .. n PROVE a <= e[k] /\ e[k] <= b
  <2>1. 0 \in 0 .. n /\ n \in 0 .. n /\ (k = 0 \/ 0 < k) /\ (k = n \/ k < n)
    OBVIOUS
  <2>2. e[0] \in Nat /\ e[n] \in Nat /\ e[k] \in Nat
    BY <1>1, <2>1
  <2> QED
    BY <1>1, <1>2, <2>1, <2>2
<1> QED
  BY <1>2, <1>3

\* Every stop is in a section.
LEMMA MarksMeet ==
  ASSUME NEW q, NEW a, NEW b, NEW secs, NEW n \in Nat, NEW e, Marks(q, a, b, secs, n, e),
         NEW p \in Nat, a < p, p <= b
  PROVE  \E k \in 1 .. n : /\ e[k - 1] < p /\ p <= e[k]
                           /\ p - e[k - 1] \in 1 .. e[k] - e[k - 1]
                           /\ q[e[k - 1] + (p - e[k - 1])] = q[p]
<1>1. /\ e \in [0 .. n -> Nat] /\ e[0] = a /\ e[n] = b
      /\ \A k \in 1 .. n : e[k - 1] < e[k]
  BY DEF Marks
<1> DEFINE S == {k \in 0 .. n : p <= e[k]}
<1>2. S \in SUBSET Nat /\ S # {}
  <2>1. n \in 0 .. n /\ p <= e[n]
    BY <1>1
  <2>2. n \in S
    BY <2>1
  <2> QED
    BY <2>2
<1>3. PICK k \in S : \A j \in S : k <= j
  <2> HIDE DEF S
  <2> QED
    BY <1>2, LeastNatural
<1>4. k \in 0 .. n /\ k # 0 /\ p <= e[k]
  <2>1. k = 0 => ~ (p <= a)
    BY <1>1
  <2> QED
    BY <1>1, <1>3
<1>5. k \in 1 .. n /\ k - 1 \in 0 .. n /\ ~ (k <= k - 1)
  BY <1>4
<1>6. e[k - 1] \in Nat /\ e[k] \in Nat /\ ~ (p <= e[k - 1])
  BY <1>1, <1>3, <1>4, <1>5
<1>7. e[k - 1] < p /\ p - e[k - 1] \in 1 .. e[k] - e[k - 1] /\ e[k - 1] + (p - e[k - 1]) = p
  BY <1>4, <1>6
<1> QED
  BY <1>4, <1>5, <1>7

\* A piece of a list of numbers is one.
LEMMA PieceFacts ==
  ASSUME NEW q \in Seq(Nat), NEW a \in Nat, NEW b \in Nat, a <= b, b <= Len(q)
  PROVE  /\ Piece(q, a, b) \in Seq(Nat) /\ Len(Piece(q, a, b)) = b - a
         /\ \A i \in 1 .. b - a : Piece(q, a, b)[i] = q[a + i] /\ a + i \in 1 .. Len(q)
         /\ DOMAIN Piece(q, a, b) = 1 .. b - a
<1>1. b - a \in Nat /\ \A i \in 1 .. b - a : a + i \in 1 .. Len(q)
  OBVIOUS
<1>2. \A i \in 1 .. b - a : q[a + i] \in Nat
  BY <1>1
<1>3. Piece(q, a, b) \in [1 .. b - a -> Nat]
  BY <1>2 DEF Piece
<1>4. \A i \in 1 .. b - a : Piece(q, a, b)[i] = q[a + i]
  BY DEF Piece
<1>5. \A k \in Nat : \A f \in [1 .. k -> Nat] : f \in Seq(Nat) /\ Len(f) = k
  OBVIOUS
<1>6. Piece(q, a, b) \in Seq(Nat) /\ Len(Piece(q, a, b)) = b - a
  BY <1>1, <1>3, <1>5
<1> QED
  BY <1>1, <1>3, <1>4, <1>6

\* Lists with the same elements at the same places are one.
LEMMA SameList ==
  ASSUME NEW S, NEW s \in Seq(S), NEW t \in Seq(S), Len(s) = Len(t),
         \A i \in 1 .. Len(s) : s[i] = t[i]
  PROVE  s = t
<1>1. /\ s = [i \in 1 .. Len(s) |-> s[i]] /\ t = [i \in 1 .. Len(s) |-> t[i]]
  OBVIOUS
<1> QED
  BY <1>1

\* Where the elements of joined lists are.
LEMMA JoinedPlaces ==
  ASSUME NEW S, NEW s \in Seq(S), NEW t \in Seq(S)
  PROVE  /\ s \o t \in Seq(S) /\ Len(s \o t) = Len(s) + Len(t) /\ Len(s) \in Nat /\ Len(t) \in Nat
         /\ \A i \in 1 .. Len(s) : (s \o t)[i] = s[i]
         /\ \A i \in 1 .. Len(t) : (s \o t)[Len(s) + i] = t[i]
OBVIOUS

\* Pieces with a common end join.
LEMMA PiecesJoin ==
  ASSUME NEW q \in Seq(Nat), NEW a \in Nat, NEW b \in Nat, NEW c \in Nat,
         a <= b, b <= c, c <= Len(q)
  PROVE  Piece(q, a, b) \o Piece(q, b, c) = Piece(q, a, c)
<1> DEFINE s == Piece(q, a, b)
           t == Piece(q, b, c)
           u == Piece(q, a, c)
<1>1. /\ s \in Seq(Nat) /\ Len(s) = b - a /\ (\A i \in 1 .. b - a : s[i] = q[a + i])
      /\ t \in Seq(Nat) /\ Len(t) = c - b /\ (\A i \in 1 .. c - b : t[i] = q[b + i])
      /\ u \in Seq(Nat) /\ Len(u) = c - a /\ (\A i \in 1 .. c - a : u[i] = q[a + i])
  <2>1. b <= Len(q) /\ a <= c
    OBVIOUS
  <2> QED
    BY <2>1, PieceFacts
<1> HIDE DEF s, t, u
<1>2. /\ s \o t \in Seq(Nat) /\ Len(s \o t) = Len(s) + Len(t)
      /\ \A i \in 1 .. Len(s) : (s \o t)[i] = s[i]
      /\ \A i \in 1 .. Len(t) : (s \o t)[Len(s) + i] = t[i]
  <2>1. s \in Seq(Nat) /\ t \in Seq(Nat)
    BY <1>1
  <2> QED
    BY <2>1, JoinedPlaces
<1>3. ASSUME NEW i \in 1 .. c - a PROVE (s \o t)[i] = u[i]
  <2>1. CASE i <= b - a
    <3>1. i \in 1 .. b - a
      BY <2>1
    <3>2. (s \o t)[i] = s[i]
      BY <1>1, <3>1
    <3> QED
      BY <1>1, <3>1, <3>2
  <2>2. CASE ~ (i <= b - a)
    <3>1. /\ i - (b - a) \in 1 .. c - b /\ b + (i - (b - a)) = a + i
          /\ (b - a) + (i - (b - a)) = i
      BY <2>2
    <3>2. (s \o t)[i] = t[i - (b - a)]
      BY <1>1, <1>2, <3>1
    <3> QED
      BY <1>1, <3>1, <3>2
  <2> QED
    BY <2>1, <2>2
<1>4. Len(s \o t) = Len(u) /\ Len(u) = c - a
  BY <1>1, <1>2
<1>5. s \o t = u
  BY <1>1, <1>2, <1>3, <1>4, SameList
<1> QED
  BY <1>5 DEF s, t, u

\* f[i] is the first i of the lists joined.
Joins(q, n, f) == f = [i \in 1 .. n |-> IF i = 1 THEN q[i] ELSE f[i - 1] \o q[i]]

\* A joined list is built from its lists one after the other.
LEMMA FlattenJoins ==
  ASSUME NEW q, NEW n \in Nat, Len(q) = n, n # 0
  PROVE  \E g : /\ \A i \in 1 .. n : g[i] = IF i = 1 THEN q[i] ELSE g[i - 1] \o q[i]
                /\ FlattenSeq(q) = g[n]
<1> DEFINE Never == {m \in 1 .. n : ~ \E f : Joins(q, m, f)}
           g == CHOOSE f : Joins(q, n, f)
<1>1. ASSUME Never # {} PROVE FALSE
  <2>1. PICK m \in Never : \A k \in Never : m <= k
    <3>1. Never \in SUBSET Nat
      OBVIOUS
    <3> HIDE DEF Never
    <3> QED
      BY <1>1, <3>1, LeastNatural
  <2>2. m \in 1 .. n /\ m \in Nat
    OBVIOUS
  <2>3. CASE m = 1
    <3> DEFINE f == [i \in 1 .. 1 |-> q[i]]
    <3>1. f = [i \in 1 .. 1 |-> IF i = 1 THEN q[i] ELSE f[i - 1] \o q[i]]
      OBVIOUS
    <3> QED
      BY <2>1, <2>3, <3>1 DEF Joins
  <2>4. CASE m # 1
    <3>1. m - 1 \in 1 .. n /\ m - 1 \notin Never
      <4>1. m - 1 \in 1 .. n /\ ~ (m <= m - 1)
        BY <2>2, <2>4
      <4> QED
        BY <2>1, <4>1
    <3>2. PICK f : Joins(q, m - 1, f)
      BY <3>1
    <3> DEFINE h == [i \in 1 .. m |-> IF i = m THEN f[m - 1] \o q[m] ELSE f[i]]
    <3>3. ASSUME NEW i \in 1 .. m PROVE h[i] = IF i = 1 THEN q[i] ELSE h[i - 1] \o q[i]
      <4>1. CASE i = m
        <5>1. h[i - 1] = f[i - 1] /\ i # 1
          BY <2>2, <2>4, <4>1
        <5> QED
          BY <4>1, <5>1
      <4>2. CASE i # m
        <5>1. i \in 1 .. m - 1 /\ i # m /\ (i # 1 => i - 1 \in 1 .. m /\ i - 1 # m)
          BY <2>2, <4>2
        <5>2. f[i] = IF i = 1 THEN q[i] ELSE f[i - 1] \o q[i]
          BY <3>2, <5>1 DEF Joins
        <5> QED
          BY <5>1, <5>2
      <4> QED
        BY <4>1, <4>2
    <3>4. h = [i \in 1 .. m |-> h[i]]
      OBVIOUS
    <3> HIDE DEF h
    <3>5. Joins(q, m, h)
      BY <3>3, <3>4 DEF Joins
    <3> QED
      BY <2>1, <3>5
  <2> QED
    BY <2>3, <2>4
<1>2. n \in 1 .. n
  OBVIOUS
<1>3. \E f : Joins(q, n, f)
  BY <1>1, <1>2
<1>4. Joins(q, n, g)
  BY <1>3
<1>5. \A i \in 1 .. n : g[i] = IF i = 1 THEN q[i] ELSE g[i - 1] \o q[i]
  BY <1>4 DEF Joins
<1>6. FlattenSeq(q) = g[n]
  BY DEF FlattenSeq, Joins
<1> HIDE DEF g
<1> QED
  BY <1>5, <1>6

\* What sections are cut from they make up again.
LEMMA PiecesFlatten ==
  ASSUME NEW q \in Seq(Nat), NEW n \in Nat, NEW e \in [0 .. n -> Nat],
         \A k \in 1 .. n : e[k - 1] <= e[k], e[n] <= Len(q),
         NEW ss \in Seq(Seq(Nat)), Len(ss) = n, \A k \in 1 .. n : ss[k] = Piece(q, e[k - 1], e[k])
  PROVE  FlattenSeq(ss) = Piece(q, e[0], e[n])
<1>1. CASE n = 0
  <2>1. ss = <<>> /\ FlattenSeq(ss) = ss
    BY <1>1 DEF FlattenSeq
  <2>2. e[0] \in Nat /\ e[0] - e[0] = 0
    BY <1>1
  <2>3. Piece(q, e[0], e[0]) = <<>>
    BY <2>2 DEF Piece
  <2> QED
    BY <1>1, <2>1, <2>3
<1>2. CASE n # 0
  <2>1. PICK g : /\ \A i \in 1 .. n : g[i] = IF i = 1 THEN ss[i] ELSE g[i - 1] \o ss[i]
                 /\ FlattenSeq(ss) = g[n]
    BY <1>2, FlattenJoins
  <2> DEFINE T == {k \in 0 .. n : k # 0 => g[k] = Piece(q, e[0], e[k])}
  <2>2. \A k \in 0 .. n : e[k] <= Len(q) /\ e[0] <= e[k]
    <3>1. ASSUME NEW k \in 0 .. n PROVE e[k] <= e[n] /\ e[0] <= e[k]
      <4> DEFINE U == {j \in 0 .. n : e[0] <= e[j]}
                 V == {j \in 0 .. n : e[n - j] <= e[n]}
      <4>1. ASSUME NEW j \in 0 .. n PROVE j \in U
        <5>1. 0 \in U
          BY <1>2
        <5>2. ASSUME NEW i \in 1 .. j, i - 1 \in U PROVE i \in U
          <6>1. i \in 1 .. n /\ i \in 0 .. n /\ i - 1 \in 0 .. n
            OBVIOUS
          <6>2. e[i - 1] <= e[i] /\ e[i] \in Nat /\ e[i - 1] \in Nat /\ e[0] \in Nat
            BY <6>1
          <6> QED
            BY <5>2, <6>1, <6>2
        <5>3. j \in Nat
          OBVIOUS
        <5> HIDE DEF U
        <5> QED
          BY <5>1, <5>2, <5>3, Upwards
      <4>2. ASSUME NEW j \in 0 .. n PROVE j \in V
        <5>1. 0 \in V
          <6>1. n - 0 = n /\ e[n] \in Nat /\ 0 \in 0 .. n
            OBVIOUS
          <6> QED
            BY <6>1
        <5>2. ASSUME NEW i \in 1 .. j, i - 1 \in V PROVE i \in V
          <6>1. /\ n - i \in 0 .. n /\ n - (i - 1) \in 1 .. n /\ n - (i - 1) - 1 = n - i
                /\ n - (i - 1) \in 0 .. n /\ i \in 0 .. n
            OBVIOUS
          <6>2. e[n - i] <= e[n - (i - 1)] /\ e[n - i] \in Nat /\ e[n - (i - 1)] \in Nat /\ e[n] \in Nat
            BY <6>1
          <6>3. e[n - (i - 1)] <= e[n]
            BY <5>2
          <6> QED
            BY <6>1, <6>2, <6>3
        <5>3. j \in Nat
          OBVIOUS
        <5> HIDE DEF V
        <5> QED
          BY <5>1, <5>2, <5>3, Upwards
      <4>3. n - k \in 0 .. n /\ n - (n - k) = k
        OBVIOUS
      <4>4. n - k \in V /\ k \in U
        BY <4>1, <4>2, <4>3
      <4> QED
        BY <4>3, <4>4
    <3>2. e[n] \in Nat /\ Len(q) \in Nat /\ \A k \in 0 .. n : e[k] \in Nat
      OBVIOUS
    <3> QED
      BY <3>1, <3>2
  <2>3. 0 \in T
    OBVIOUS
  <2>4. ASSUME NEW k \in 1 .. n, k - 1 \in T PROVE k \in T
    <3>1. k \in 0 .. n /\ k - 1 \in 0 .. n /\ e[k] \in Nat /\ e[k - 1] \in Nat /\ e[0] \in Nat
      OBVIOUS
    <3>2. ss[k] = Piece(q, e[k - 1], e[k])
      OBVIOUS
    <3>3. CASE k = 1
      <4>1. g[k] = ss[k] /\ k - 1 = 0
        BY <2>1, <3>3
      <4> QED
        BY <3>1, <3>2, <4>1
    <3>4. CASE k # 1
      <4>1. g[k] = g[k - 1] \o ss[k] /\ k - 1 # 0
        <5>1. g[k] = IF k = 1 THEN ss[k] ELSE g[k - 1] \o ss[k]
          BY <2>1
        <5>2. g[k] = g[k - 1] \o ss[k]
          BY <3>4, <5>1, Zenon
        <5>3. k - 1 # 0
          BY <3>4
        <5> QED
          BY <5>2, <5>3
      <4>2. g[k - 1] = Piece(q, e[0], e[k - 1])
        BY <2>4, <4>1
      <4>3. e[0] <= e[k - 1] /\ e[k - 1] <= e[k] /\ e[k] <= Len(q)
        BY <2>2, <3>1
      <4>4. Piece(q, e[0], e[k - 1]) \o Piece(q, e[k - 1], e[k]) = Piece(q, e[0], e[k])
        BY <3>1, <4>3, PiecesJoin
      <4> QED
        BY <3>1, <3>2, <4>1, <4>2, <4>4
    <3> QED
      BY <3>3, <3>4
  <2>5. n \in T
    <3> HIDE DEF T
    <3> QED
      BY <2>3, <2>4, Upwards
  <2> QED
    BY <1>2, <2>1, <2>5
<1> QED
  BY <1>1, <1>2

\* Sections after one another.
LEMMA CutsJoin ==
  ASSUME NEW q, NEW a, NEW b, NEW c, NEW S, NEW s \in Seq(S), NEW t \in Seq(S),
         Cut(q, a, b, s, Len(s)), Cut(q, b, c, t, Len(t))
  PROVE  Cut(q, a, c, s \o t, Len(s \o t))
<1>1. PICK e : Marks(q, a, b, s, Len(s), e)
  BY DEF Cut
<1>2. PICK f : Marks(q, b, c, t, Len(t), f)
  BY DEF Cut
<1> DEFINE m == Len(s)
           n == Len(t)
           u == s \o t
           g == [k \in 0 .. m + n |-> IF k <= m THEN e[k] ELSE f[k - m]]
<1>3. /\ m \in Nat /\ n \in Nat /\ Len(u) = m + n
      /\ \A i \in 1 .. m : u[i] = s[i]
      /\ \A i \in 1 .. n : u[m + i] = t[i]
  BY JoinedPlaces
<1>4. /\ e \in [0 .. m -> Nat] /\ e[0] = a /\ e[m] = b
      /\ \A k \in 1 .. m : e[k - 1] < e[k] /\ s[k] = Section(q, e[k - 1], e[k])
  BY <1>1 DEF Marks
<1>5. /\ f \in [0 .. n -> Nat] /\ f[0] = b /\ f[n] = c
      /\ \A k \in 1 .. n : f[k - 1] < f[k] /\ t[k] = Section(q, f[k - 1], f[k])
  BY <1>2 DEF Marks
<1> HIDE DEF m, n, u
<1>6. /\ \A k \in 0 .. m : k \in 0 .. m + n /\ g[k] = e[k]
      /\ \A k \in 0 .. n : m + k \in 0 .. m + n /\ g[m + k] = f[k]
  <2>1. \A k \in 0 .. m : k \in 0 .. m + n /\ k <= m
    BY <1>3
  <2>2. \A k \in 0 .. n : m + k \in 0 .. m + n /\ (m + k <= m => k = 0) /\ m + k - m = k /\ m + 0 = m
    BY <1>3
  <2>3. ASSUME NEW k \in 0 .. n PROVE g[m + k] = f[k]
    <3>1. CASE k = 0
      <4>1. m + k = m /\ m \in 0 .. m + n /\ m <= m
        BY <1>3, <2>2, <3>1
      <4>2. g[m] = e[m]
        BY <4>1
      <4> QED
        BY <1>4, <1>5, <3>1, <4>1, <4>2
    <3>2. CASE k # 0
      <4> DEFINE j == m + k
      <4>1. ~ (j <= m) /\ j \in 0 .. m + n /\ j - m = k
        BY <1>3, <3>2
      <4>2. \A i \in 0 .. m + n : g[i] = IF i <= m THEN e[i] ELSE f[i - m]
        OBVIOUS
      <4> HIDE DEF g, j
      <4>3. g[j] = IF j <= m THEN e[j] ELSE f[j - m]
        BY <4>1, <4>2
      <4>4. g[j] = f[k]
        BY <4>1, <4>3
      <4> QED
        BY <4>4 DEF j
    <3> QED
      BY <3>1, <3>2
  <2> QED
    BY <2>1, <2>2, <2>3
<1>7. g \in [0 .. m + n -> Nat]
  <2>1. ASSUME NEW k \in 0 .. m + n PROVE (IF k <= m THEN e[k] ELSE f[k - m]) \in Nat
    <3>1. CASE k <= m
      <4>1. k \in 0 .. m
        BY <1>3, <3>1
      <4> QED
        BY <1>4, <3>1, <4>1
    <3>2. CASE ~ (k <= m)
      <4>1. k - m \in 0 .. n
        BY <1>3, <3>2
      <4> QED
        BY <1>5, <3>2, <4>1
    <3> QED
      BY <3>1, <3>2
  <2> QED
    BY <2>1
<1> HIDE DEF g
<1>8. g[0] = a /\ g[m + n] = c
  <2>1. 0 \in 0 .. m /\ n \in 0 .. n
    BY <1>3
  <2> QED
    BY <1>4, <1>5, <1>6, <2>1
<1>9. ASSUME NEW k \in 1 .. m + n PROVE g[k - 1] < g[k] /\ u[k] = Section(q, g[k - 1], g[k])
  <2>1. CASE k <= m
    <3>1. k \in 1 .. m /\ k - 1 \in 0 .. m /\ k \in 0 .. m
      BY <1>3, <2>1
    <3>2. g[k - 1] = e[k - 1] /\ g[k] = e[k] /\ u[k] = s[k]
      BY <1>3, <1>6, <3>1
    <3> QED
      BY <1>4, <3>1, <3>2
  <2>2. CASE ~ (k <= m)
    <3> DEFINE i == k - m
    <3>1. i \in 1 .. n /\ i - 1 \in 0 .. n /\ i \in 0 .. n /\ m + i = k /\ m + (i - 1) = k - 1
      BY <1>3, <2>2
    <3> HIDE DEF i
    <3>2. g[k - 1] = f[i - 1] /\ g[k] = f[i] /\ u[k] = t[i]
      BY <1>3, <1>6, <3>1
    <3> QED
      BY <1>5, <3>1, <3>2
  <2> QED
    BY <2>1, <2>2
<1>10. Marks(q, a, c, u, m + n, g)
  BY <1>7, <1>8, <1>9 DEF Marks
<1>11. Cut(q, a, c, u, Len(u))
  BY <1>3, <1>10 DEF Cut
<1> QED
  BY <1>11 DEF u

\* What is put behind a trail changes nothing of its sections.
LEMMA PrefixFacts ==
  ASSUME NEW q \in Seq(Nat), NEW s \in Seq(Nat)
  PROVE  /\ \A a, b \in Nat : a < b /\ b <= Len(q) => Section(q \o s, a, b) = Section(q, a, b)
         /\ Piece(q \o s, Len(q), Len(q \o s)) = s
<1> DEFINE t == q \o s
           m == Len(q)
           n == Len(s)
<1>1. /\ t \in Seq(Nat) /\ Len(t) = m + n /\ m \in Nat /\ n \in Nat
      /\ \A i \in 1 .. m : t[i] = q[i]
      /\ \A i \in 1 .. n : t[m + i] = s[i]
  BY JoinedPlaces
<1> HIDE DEF t, m, n
<1>2. ASSUME NEW a \in Nat, NEW b \in Nat, a < b, b <= m PROVE Section(t, a, b) = Section(q, a, b)
  <2>1. b \in 1 .. m /\ \A i \in 1 .. b - a : a + i \in 1 .. m
    BY <1>1, <1>2
  <2>2. t[b] = q[b] /\ \A i \in 1 .. b - a : t[a + i] = q[a + i]
    BY <1>1, <2>1
  <2>3. Piece(t, a, b) = Piece(q, a, b)
    BY <2>2 DEF Piece
  <2> QED
    BY <2>2, <2>3 DEF Section
<1>3. Piece(t, m, Len(t)) = s
  <2>1. Len(t) - m = n
    BY <1>1
  <2>2. Piece(t, m, Len(t)) = [i \in 1 .. n |-> t[m + i]]
    BY <2>1 DEF Piece
  <2>3. [i \in 1 .. n |-> t[m + i]] = [i \in 1 .. n |-> s[i]]
    BY <1>1
  <2>4. s = [i \in 1 .. n |-> s[i]]
    BY DEF n
  <2> QED
    BY <2>2, <2>3, <2>4
<1> QED
  BY <1>2, <1>3 DEF t, m

\* One section more.
LEMMA OneSectionMore ==
  ASSUME NEW q \in Seq(Nat), NEW s \in Seq(Nat), Len(s) # 0, NEW secs, NEW i \in Nat, i # 0,
         Cut(q, 0, Len(q), secs, i - 1), secs[i] = [milestone |-> s[Len(s)], steps |-> s]
  PROVE  Cut(q \o s, 0, Len(q \o s), secs, i)
<1> DEFINE t == q \o s
           m == Len(q)
           n == Len(s)
<1>1. /\ t \in Seq(Nat) /\ Len(t) = m + n /\ m \in Nat /\ n \in Nat /\ n # 0
      /\ \A j \in 1 .. n : t[m + j] = s[j]
  BY JoinedPlaces
<1>2. /\ \A a, b \in Nat : a < b /\ b <= m => Section(t, a, b) = Section(q, a, b)
      /\ Piece(t, m, Len(t)) = s
  BY PrefixFacts
<1>3. PICK e : Marks(q, 0, m, secs, i - 1, e)
  BY DEF Cut
<1>4. i - 1 \in Nat /\ i \in 1 .. i
  OBVIOUS
<1>5. /\ e \in [0 .. i - 1 -> Nat] /\ e[0] = 0 /\ e[i - 1] = m
      /\ \A k \in 1 .. i - 1 : e[k - 1] < e[k] /\ secs[k] = Section(q, e[k - 1], e[k])
  BY <1>3 DEF Marks
<1>6. \A k \in 0 .. i - 1 : e[k] <= m
  BY <1>3, <1>4, MarksRise
<1> HIDE DEF t, m, n
<1> DEFINE f == [k \in 0 .. i |-> IF k = i THEN m + n ELSE e[k]]
<1>7. /\ f \in [0 .. i -> Nat] /\ f[i] = m + n
      /\ \A k \in 0 .. i - 1 : f[k] = e[k]
  <2>1. \A k \in 0 .. i : k = i \/ k \in 0 .. i - 1
    OBVIOUS
  <2>2. \A k \in 0 .. i - 1 : k \in 0 .. i /\ k # i /\ e[k] \in Nat
    BY <1>5
  <2>3. \A k \in 0 .. i : (IF k = i THEN m + n ELSE e[k]) \in Nat
    BY <1>1, <2>1, <2>2
  <2>4. i \in 0 .. i
    OBVIOUS
  <2> QED
    BY <2>2, <2>3, <2>4
<1> HIDE DEF f
<1>8. ASSUME NEW k \in 1 .. i PROVE f[k - 1] < f[k] /\ secs[k] = Section(t, f[k - 1], f[k])
  <2>1. CASE k = i
    <3>1. i - 1 \in 0 .. i - 1
      BY <1>4
    <3>2. f[k - 1] = m /\ f[k] = m + n
      BY <1>5, <1>7, <2>1, <3>1
    <3>3. n \in 1 .. n
      BY <1>1
    <3>4. t[m + n] = s[n]
      BY <1>1, <3>3
    <3>5. Piece(t, m, m + n) = s
      BY <1>1, <1>2
    <3>6. secs[k] = Section(t, m, m + n)
      BY <2>1, <3>4, <3>5 DEF Section, n
    <3>7. m < m + n
      BY <1>1
    <3> QED
      BY <3>2, <3>6, <3>7
  <2>2. CASE k # i
    <3>1. k \in 1 .. i - 1 /\ k - 1 \in 0 .. i - 1 /\ k \in 0 .. i - 1
      BY <2>2
    <3>2. f[k - 1] = e[k - 1] /\ f[k] = e[k] /\ e[k - 1] \in Nat /\ e[k] \in Nat /\ e[k] <= m
      BY <1>5, <1>6, <1>7, <3>1
    <3> QED
      BY <1>2, <1>5, <3>1, <3>2
  <2> QED
    BY <2>1, <2>2
<1>9. f[0] = 0
  <2>1. 0 \in 0 .. i - 1
    BY <1>4
  <2> QED
    BY <1>5, <1>7, <2>1
<1>10. Marks(t, 0, Len(t), secs, i, f)
  BY <1>1, <1>7, <1>8, <1>9 DEF Marks
<1> QED
  BY <1>10 DEF Cut, t

\* Lists of different nodes join to a list of both.
LEMMA ListsJoin ==
  ASSUME NEW A, NEW S, NEW q, Lists(q, A), NEW s, Lists(s, S), A \cap S = {}
  PROVE  Lists(q \o s, A \cup S)
<1> DEFINE t == q \o s
           m == Len(q)
           n == Len(s)
<1>1. /\ q \in Seq(Nat) /\ s \in Seq(Nat)
      /\ A = {q[i] : i \in 1 .. m} /\ S = {s[i] : i \in 1 .. n}
      /\ \A i, j \in 1 .. m : q[i] = q[j] => i = j
      /\ \A i, j \in 1 .. n : s[i] = s[j] => i = j
  BY DEF Lists, Range, IsInjective
<1>2. /\ t \in Seq(Nat) /\ Len(t) = m + n /\ m \in Nat /\ n \in Nat
      /\ \A i \in 1 .. m : t[i] = q[i]
      /\ \A i \in 1 .. n : t[m + i] = s[i]
  BY <1>1, JoinedPlaces
<1> HIDE DEF t, m, n
<1>3. \A k \in 1 .. m + n : k \in 1 .. m \/ (k - m \in 1 .. n /\ m + (k - m) = k)
  BY <1>2
<1>4. \A k \in 1 .. m + n : /\ k \in 1 .. m => t[k] \in A /\ t[k] = q[k]
                            /\ k \notin 1 .. m => t[k] \in S /\ t[k] = s[k - m] /\ k - m \in 1 .. n
  <2> SUFFICES ASSUME NEW k \in 1 .. m + n
               PROVE  /\ k \in 1 .. m => t[k] \in A /\ t[k] = q[k]
                      /\ k \notin 1 .. m => t[k] \in S /\ t[k] = s[k - m] /\ k - m \in 1 .. n
    OBVIOUS
  <2>1. CASE k \in 1 .. m
    BY <1>1, <1>2, <2>1
  <2>2. CASE k \notin 1 .. m
    <3>1. k - m \in 1 .. n /\ m + (k - m) = k
      BY <1>3, <2>2
    <3>2. t[k] = s[k - m]
      <4>1. t[m + (k - m)] = s[k - m]
        BY <1>2, <3>1
      <4> QED
        BY <3>1, <4>1
    <3> QED
      BY <1>1, <2>2, <3>1, <3>2
  <2> QED
    BY <2>1, <2>2
<1>5. ASSUME NEW i \in 1 .. m + n, NEW j \in 1 .. m + n, t[i] = t[j] PROVE i = j
  <2>1. CASE i \in 1 .. m /\ j \in 1 .. m
    BY <1>1, <1>4, <1>5, <2>1
  <2>2. CASE i \notin 1 .. m /\ j \notin 1 .. m
    <3>1. i - m = j - m
      BY <1>1, <1>4, <1>5, <2>2
    <3> QED
      BY <1>2, <3>1
  <2>3. CASE ~ (i \in 1 .. m <=> j \in 1 .. m)
    BY <1>4, <1>5, <2>3
  <2> QED
    BY <2>1, <2>2, <2>3
<1>6. \A x \in A : \E k \in 1 .. m + n : t[k] = x
  <2>1. \A i \in 1 .. m : i \in 1 .. m + n
    BY <1>2
  <2> QED
    BY <1>1, <1>2, <2>1
<1>7. \A x \in S : \E k \in 1 .. m + n : t[k] = x
  <2>1. \A i \in 1 .. n : m + i \in 1 .. m + n
    BY <1>2
  <2> QED
    BY <1>1, <1>2, <2>1
<1>8. Range(t) = A \cup S
  <2>1. DOMAIN t = 1 .. m + n
    BY <1>2
  <2>2. Range(t) = {t[k] : k \in 1 .. m + n}
    BY <2>1 DEF Range
  <2> QED
    BY <1>4, <1>6, <1>7, <2>2
<1>9. IsInjective(t)
  <2>1. DOMAIN t = 1 .. m + n
    BY <1>2
  <2> QED
    BY <1>5, <2>1 DEF IsInjective
<1> QED
  BY <1>2, <1>8, <1>9 DEF Lists, t

\* What is put behind a trail may depend on it.
LEMMA PrecededJoin ==
  ASSUME NEW E, NEW q \in Seq(Nat), NEW s \in Seq(Nat), Preceded(E, q),
         \A i \in 1 .. Len(s) : Prerequisites(E, s[i]) \subseteq {s[j] : j \in 1 .. i - 1} \cup Range(q)
  PROVE  Preceded(E, q \o s)
<1> DEFINE t == q \o s
           m == Len(q)
           n == Len(s)
<1>1. /\ t \in Seq(Nat) /\ Len(t) = m + n /\ m \in Nat /\ n \in Nat
      /\ \A i \in 1 .. m : t[i] = q[i]
      /\ \A i \in 1 .. n : t[m + i] = s[i]
      /\ Range(q) = {q[i] : i \in 1 .. m}
  BY JoinedPlaces DEF Range
<1>2. \A k \in 1 .. m : Prerequisites(E, q[k]) \subseteq {q[j] : j \in 1 .. k - 1}
  BY DEF Preceded
<1> HIDE DEF t, m, n
<1>3. ASSUME NEW k \in 1 .. m + n PROVE Prerequisites(E, t[k]) \subseteq {t[j] : j \in 1 .. k - 1}
  <2>1. CASE k \in 1 .. m
    <3>1. \A j \in 1 .. k - 1 : j \in 1 .. m
      BY <1>1, <2>1
    <3>2. \A j \in 1 .. k - 1 : t[j] = q[j]
      BY <1>1, <3>1
    <3>3. {t[j] : j \in 1 .. k - 1} = {q[j] : j \in 1 .. k - 1}
      BY <3>2
    <3>4. t[k] = q[k]
      BY <1>1, <2>1
    <3> QED
      BY <1>2, <2>1, <3>3, <3>4
  <2>2. CASE k \notin 1 .. m
    <3> DEFINE i == k - m
    <3>1. i \in 1 .. n /\ m + i = k
      BY <1>1, <2>2
    <3>2. /\ \A j \in 1 .. i - 1 : m + j \in 1 .. k - 1 /\ j \in 1 .. n
          /\ \A j \in 1 .. m : j \in 1 .. k - 1
      BY <1>1, <2>2, <3>1
    <3> HIDE DEF i
    <3>3. t[k] = s[i]
      BY <1>1, <3>1
    <3> DEFINE B == {t[o] : o \in 1 .. k - 1}
    <3>4. \A j \in 1 .. i - 1 : s[j] \in B
      <4>1. \A j \in 1 .. i - 1 : t[m + j] = s[j] /\ t[m + j] \in B
        BY <1>1, <3>2
      <4> HIDE DEF B
      <4> QED
        BY <4>1
    <3>5. \A j \in 1 .. m : q[j] \in B
      <4>1. \A j \in 1 .. m : t[j] = q[j] /\ t[j] \in B
        BY <1>1, <3>2
      <4> HIDE DEF B
      <4> QED
        BY <4>1
    <3> HIDE DEF B
    <3>6. Prerequisites(E, s[i]) \subseteq {s[j] : j \in 1 .. i - 1} \cup Range(q)
      BY <3>1 DEF n
    <3>7. {s[j] : j \in 1 .. i - 1} \subseteq B /\ Range(q) \subseteq B
      BY <1>1, <3>4, <3>5
    <3>8. Prerequisites(E, t[k]) \subseteq B
      BY <3>3, <3>6, <3>7
    <3> QED
      BY <3>8 DEF B
  <2> QED
    BY <2>1, <2>2
<1> QED
  BY <1>1, <1>3 DEF Preceded, t

-----------------------------------------------------------------------------
(* What the milestones claim. *)

\* What it is to list the nodes.
LEMMA ListsFacts ==
  ASSUME NEW q, NEW nodes, Lists(q, nodes)
  PROVE  /\ q \in Seq(Nat) /\ Len(q) \in Nat /\ DOMAIN q = 1 .. Len(q)
         /\ nodes = {q[i] : i \in 1 .. Len(q)}
         /\ \A i, j \in 1 .. Len(q) : q[i] = q[j] => i = j
         /\ Len(q) = 0 => q = <<>>
BY DEF Lists, Range, IsInjective

\* Nothing outside the set has to precede something in it.
ClosedUnder(E, C) == \A e \in E : e[2] \in C => e[1] \in C

\* A cone is closed, and each of its members has a way to its tip.
LEMMA ConeCloses ==
  ASSUME NEW l, IsCourse(l), NEW n
  PROVE  /\ ClosedUnder(Trusted(l.gates), Cone(l, n)) /\ n \in Cone(l, n)
         /\ \A x \in Cone(l, n) : x = n \/ \E e \in Trusted(l.gates) : e[1] = x /\ e[2] \in Cone(l, n)
<1> DEFINE E == Trusted(l.gates)
<1>1. IsFiniteSet(E)
  BY CourseFacts
<1> HIDE DEF E
<1>2. /\ \A e \in E : e[2] = n \/ e[2] \in Ancestors(E, n) => e[1] \in Ancestors(E, n)
      /\ \A x \in Ancestors(E, n) : \E e \in E : e[1] = x /\ (e[2] = n \/ e[2] \in Ancestors(E, n))
  BY <1>1, AncestorsSteps
<1>3. Cone(l, n) = Ancestors(E, n) \cup {n}
  BY DEF Cone, E
<1>4. ClosedUnder(E, Cone(l, n)) /\ n \in Cone(l, n)
  BY <1>2, <1>3 DEF ClosedUnder
<1>5. \A x \in Cone(l, n) : x = n \/ \E e \in E : e[1] = x /\ e[2] \in Cone(l, n)
  BY <1>2, <1>3
<1> QED
  BY <1>4, <1>5 DEF E

\* A milestone is in no other cone.
LEMMA MilestoneAlone ==
  ASSUME NEW l, IsCourse(l), NEW m \in Milestones(l), NEW n, m \in Cone(l, n)
  PROVE  m = n
<1>1. m = n \/ \E e \in Trusted(l.gates) : e[1] = m
  BY ConeCloses
<1>2. \A e \in Trusted(l.gates) : e[1] # m
  BY DEF Milestones, Successors
<1> QED
  BY <1>1, <1>2

\* s lists the stops, ends on m and depends on nothing that is still to come.
EndsOn(E, s, stops, m, C) ==
  /\ Lists(s, stops) /\ Len(s) # 0 /\ s[Len(s)] = m
  /\ \A i \in 1 .. Len(s) : Prerequisites(E, s[i]) \subseteq {s[j] : j \in 1 .. i - 1} \cup C

\* So does an order of what a milestone claims of its cone, after what was
\* claimed before.
LEMMA DraftFacts ==
  ASSUME NEW l, IsCourse(l), NEW C, ClosedUnder(Trusted(l.gates), C),
         NEW m, m \in Milestones(l), m \notin C,
         NEW s, Lists(s, Cone(l, m) \ C), Preceded(Within(Trusted(l.gates), Cone(l, m) \ C), s)
  PROVE  EndsOn(Trusted(l.gates), s, Cone(l, m) \ C, m, C)
<1> DEFINE E == Trusted(l.gates)
           cone == Cone(l, m)
           S == cone \ C
           D == Within(E, S)
           n == Len(s)
<1>1. m \in l.nodes /\ cone \subseteq l.nodes
  <2>1. m \in l.nodes
    BY DEF Milestones
  <2> QED
    BY <2>1, ConeFacts
<1>2. /\ ClosedUnder(E, cone) /\ m \in cone
      /\ \A x \in cone : x = m \/ \E e \in E : e[1] = x /\ e[2] \in cone
  BY ConeCloses
<1>3. Lists(s, S) /\ Preceded(D, s)
  OBVIOUS
<1> HIDE DEF E, cone
<1>4. /\ s \in Seq(Nat) /\ n \in Nat
      /\ S = {s[i] : i \in 1 .. n}
      /\ \A i, j \in 1 .. n : s[i] = s[j] => i = j
  <2> HIDE DEF S, D
  <2> QED
    BY <1>3, ListsFacts
<1>5. \A i \in 1 .. n : Prerequisites(D, s[i]) \subseteq {s[j] : j \in 1 .. i - 1}
  BY <1>3 DEF Preceded
<1>6. ClosedUnder(E, C)
  BY DEF E
<1>7. \A x \in S : \A p \in Prerequisites(E, x) : p \in C \/ p \in Prerequisites(D, x)
  <2> SUFFICES ASSUME NEW x \in S, NEW p \in Prerequisites(E, x), p \notin C
               PROVE  p \in Prerequisites(D, x)
    OBVIOUS
  <2>1. PICK e \in E : e[2] = x /\ e[1] = p
    BY DEF Prerequisites
  <2>2. p \in cone
    BY <1>2, <2>1 DEF ClosedUnder
  <2>3. e \in D
    BY <2>1, <2>2 DEF Within
  <2> HIDE DEF D
  <2> QED
    BY <2>1, <2>3 DEF Prerequisites
<1>8. ASSUME NEW i \in 1 .. n
      PROVE  Prerequisites(E, s[i]) \subseteq {s[j] : j \in 1 .. i - 1} \cup C
  <2>1. s[i] \in S
    BY <1>4
  <2> DEFINE B == {s[j] : j \in 1 .. i - 1}
  <2>2. Prerequisites(D, s[i]) \subseteq B
    BY <1>5
  <2> HIDE DEF B, D, S
  <2>3. Prerequisites(E, s[i]) \subseteq B \cup C
    BY <1>7, <2>1, <2>2
  <2> QED
    BY <2>3 DEF B
<1>9. m \in S
  BY <1>2
<1>10. n # 0 /\ n \in 1 .. n
  <2>1. n # 0
    <3> HIDE DEF S
    <3>1. PICK i \in 1 .. n : s[i] = m
      BY <1>4, <1>9
    <3> QED
      BY <1>4, <3>1
  <2> QED
    BY <1>4, <2>1
\* Whatever else came last would have something of the part after it.
<1>11. s[n] = m
  <2> DEFINE x == s[n]
  <2> SUFFICES ASSUME x # m PROVE FALSE
    OBVIOUS
  <2>1. x \in S
    BY <1>4, <1>10
  <2> HIDE DEF x
  <2>2. PICK e \in E : e[1] = x /\ e[2] \in cone
    BY <1>2, <2>1
  <2>3. e[2] \in S
    BY <1>6, <2>1, <2>2 DEF ClosedUnder
  <2>4. PICK k \in 1 .. n : s[k] = e[2]
    <3> HIDE DEF S
    <3> QED
      BY <1>4, <2>3
  <2>5. x \in Prerequisites(D, s[k])
    <3>1. e \in D
      BY <2>1, <2>2, <2>3 DEF Within
    <3> HIDE DEF D
    <3> QED
      BY <2>2, <2>4, <3>1 DEF Prerequisites
  <2>6. PICK j \in 1 .. k - 1 : s[j] = x
    <3> HIDE DEF D, S
    <3>1. Prerequisites(D, s[k]) \subseteq {s[j] : j \in 1 .. k - 1}
      BY <1>5
    <3> QED
      BY <2>5, <3>1
  <2>7. j \in 1 .. n /\ j # n
    BY <1>4, <2>4
  <2> QED
    BY <1>4, <1>10, <2>6, <2>7 DEF x
<1> QED
  BY <1>3, <1>8, <1>10, <1>11 DEF E, cone, EndsOn

\* The drafts are cut from one list of all nodes, in which each comes after its
\* prerequisites and which ends on the summit.
LEMMA DraftsCut ==
  ASSUME NEW l, IsCourse(l)
  PROVE  \E q : /\ Lists(q, l.nodes) /\ Preceded(Trusted(l.gates), q)
                /\ Drafts(l) \in Seq(Range(Drafts(l)))
                /\ Cut(q, 0, Len(q), Drafts(l), Len(Drafts(l)))
                /\ q # <<>> => q[Len(q)] = Summit(l)
<1> DEFINE E == Trusted(l.gates)
           order == MilestoneOrder(l)
           n == Len(order)
           Claimed(i) == UNION {Cone(l, order[j]) : j \in 1 .. i}
           drafts == Drafts(l)
           Ends2(i, q) == i # 0 => q # <<>> /\ q[Len(q)] = order[i]
           Good == {i \in 0 .. n : \E q : /\ Lists(q, Claimed(i)) /\ Preceded(E, q)
                                          /\ Cut(q, 0, Len(q), drafts, i)
                                          /\ Ends2(i, q)}
<1>1. Lists(order, Milestones(l))
  BY MilestonesFacts
<1> HIDE DEF order
<1>2. /\ order \in Seq(Nat) /\ n \in Nat /\ DOMAIN order = 1 .. n
      /\ Milestones(l) = {order[i] : i \in 1 .. n}
      /\ \A i, j \in 1 .. n : order[i] = order[j] => i = j
  BY <1>1, ListsFacts
<1>3. drafts = [i \in 1 .. n |-> [milestone |-> order[i],
                                   steps |-> StopOrder(l, Cone(l, order[i]) \ Claimed(i - 1))]]
  BY <1>2 DEF Drafts, Claim, order
<1> HIDE DEF n
<1>4. \A i \in 1 .. n : drafts[i] = [milestone |-> order[i],
                                     steps |-> StopOrder(l, Cone(l, order[i]) \ Claimed(i - 1))]
  <2> HIDE DEF Claimed, drafts
  <2> QED
    BY <1>3
<1>5. Len(drafts) = n /\ drafts \in Seq(Range(drafts))
  <2>1. DOMAIN drafts = 1 .. n
    <3> HIDE DEF Claimed, drafts
    <3> QED
      BY <1>3
  <2> HIDE DEF drafts, Claimed
  <2>2. drafts = [i \in 1 .. n |-> drafts[i]]
    BY <1>3, <2>1
  <2>3. drafts \in [1 .. n -> Range(drafts)]
    BY <2>1, <2>2 DEF Range
  <2>4. \A S : \A k \in Nat : \A f \in [1 .. k -> S] : f \in Seq(S) /\ Len(f) = k
    OBVIOUS
  <2> QED
    BY <1>2, <2>3, <2>4
<1> HIDE DEF drafts
<1>6. 0 \in Good
  <2>1. Claimed(0) = {}
    OBVIOUS
  <2>2. Lists(<<>>, {}) /\ Preceded(E, <<>>)
    BY DEF Lists, Range, IsInjective, Preceded
  <2>3. Cut(<<>>, 0, Len(<<>>), drafts, 0)
    <3> DEFINE e == [k \in 0 .. 0 |-> 0]
    <3>1. e \in [0 .. 0 -> Nat] /\ e[0] = 0 /\ Len(<<>>) = 0
      OBVIOUS
    <3>2. Marks(<<>>, 0, 0, drafts, 0, e)
      BY <3>1 DEF Marks
    <3> QED
      BY <3>1, <3>2 DEF Cut
  <2>4. 0 \in 0 .. n /\ Ends2(0, <<>>)
    BY <1>2
  <2> HIDE DEF Claimed, E, Ends2
  <2> QED
    BY <2>1, <2>2, <2>3, <2>4
<1>7. ASSUME NEW i \in 1 .. n, i - 1 \in Good PROVE i \in Good
  <2> DEFINE C == Claimed(i - 1)
             m == order[i]
             cone == Cone(l, m)
             s == StopOrder(l, cone \ C)
  <2>1. PICK q : /\ Lists(q, C) /\ Preceded(E, q) /\ Cut(q, 0, Len(q), drafts, i - 1)
    BY <1>7
  <2>2. ClosedUnder(E, C)
    BY ConeCloses DEF ClosedUnder
  <2>3. m \in Milestones(l)
    BY <1>2
  <2>4. m \notin C
    <3> SUFFICES ASSUME NEW j \in 1 .. i - 1, m \in Cone(l, order[j]) PROVE FALSE
      OBVIOUS
    <3>1. j \in 1 .. n /\ j # i
      BY <1>2
    <3>2. m = order[j]
      BY <2>3, MilestoneAlone
    <3> QED
      BY <1>2, <3>1, <3>2
  <2>5. Claimed(i) = C \cup cone
    <3>1. \A j : j \in 1 .. i <=> j \in 1 .. i - 1 \/ j = i
      BY <1>2
    <3> QED
      BY <3>1
  <2>6. drafts[i] = [milestone |-> m, steps |-> s]
    BY <1>4
  <2> HIDE DEF C, m, cone, s, E, Claimed
  <2>7. /\ Lists(s, cone \ C) /\ Len(s) # 0 /\ s[Len(s)] = m
        /\ \A j \in 1 .. Len(s) : Prerequisites(E, s[j]) \subseteq {s[k] : k \in 1 .. j - 1} \cup C
    <3> DEFINE rest == Cone(l, m) \ C
    <3>1. ClosedUnder(Trusted(l.gates), C)
      BY <2>2 DEF E
    <3>2. s = StopOrder(l, rest) /\ rest \subseteq l.nodes
      <4>1. m \in l.nodes
        BY <2>3 DEF Milestones
      <4>2. Cone(l, m) \subseteq l.nodes
        BY <4>1, ConeFacts
      <4> QED
        BY <4>2 DEF s, cone
    <3> HIDE DEF rest
    <3>3. Lists(s, rest) /\ Preceded(Within(Trusted(l.gates), rest), s)
      BY <3>2, StopOrderFacts
    <3>4. EndsOn(Trusted(l.gates), s, Cone(l, m) \ C, m, C)
      BY <2>3, <2>4, <3>1, <3>3, DraftFacts DEF rest
    <3> QED
      BY <3>4 DEF E, cone, EndsOn
  <2>8. q \in Seq(Nat) /\ Range(q) = C /\ s \in Seq(Nat)
    BY <2>1, <2>7 DEF Lists
  <2> DEFINE t == q \o s
  <2>9. Lists(t, Claimed(i))
    <3>1. C \cup (cone \ C) = Claimed(i) /\ C \cap (cone \ C) = {}
      BY <2>5
    <3>2. Lists(t, C \cup (cone \ C))
      <4> DEFINE S == cone \ C
      <4>1. Lists(s, S) /\ C \cap S = {}
        BY <2>7
      <4> HIDE DEF S
      <4>2. Lists(t, C \cup S)
        BY <2>1, <4>1, ListsJoin
      <4> QED
        BY <4>2 DEF S
    <3> QED
      BY <3>1, <3>2
  <2>10. Preceded(E, t)
    BY <2>1, <2>7, <2>8, PrecededJoin
  <2>11. Cut(t, 0, Len(t), drafts, i)
    <3>1. drafts[i] = [milestone |-> s[Len(s)], steps |-> s]
      BY <2>6, <2>7
    <3>2. i \in Nat /\ i # 0
      BY <1>2
    <3> QED
      BY <2>1, <2>7, <2>8, <3>1, <3>2, OneSectionMore
  <2>12. Ends2(i, t)
    <3>1. /\ Len(t) = Len(q) + Len(s) /\ Len(s) \in Nat /\ Len(q) \in Nat
          /\ \A k \in 1 .. Len(s) : t[Len(q) + k] = s[k]
      BY <2>8, JoinedPlaces
    <3> HIDE DEF t
    <3>2. Len(s) \in 1 .. Len(s) /\ Len(t) # 0
      BY <2>7, <3>1
    <3>3. t[Len(t)] = m
      BY <2>7, <3>1, <3>2
    <3>4. t # <<>>
      BY <3>2
    <3> QED
      BY <3>3, <3>4 DEF m
  <2>13. i \in 0 .. n
    BY <1>2
  <2> HIDE DEF t, Ends2
  <2> QED
    BY <2>9, <2>10, <2>11, <2>12, <2>13
<1>8. n \in Good
  <2> HIDE DEF Good
  <2> QED
    BY <1>2, <1>6, <1>7, Upwards
<1>9. PICK q : /\ Lists(q, Claimed(n)) /\ Preceded(E, q) /\ Cut(q, 0, Len(q), drafts, n) /\ Ends2(n, q)
  BY <1>8
<1>10. Claimed(n) = l.nodes
  <2>1. ASSUME NEW j \in 1 .. n PROVE Cone(l, order[j]) \subseteq l.nodes
    <3>1. order[j] \in l.nodes
      BY <1>2 DEF Milestones
    <3> QED
      BY <3>1, ConeFacts
  <2>2. ASSUME NEW x \in l.nodes PROVE x \in Claimed(n)
    <3>1. IsFiniteSet(E) /\ NoneTurns(E) /\ E \in SUBSET (l.nodes \X l.nodes)
      BY CourseFacts
    <3>2. PICK m : (m = x \/ x \in Ancestors(E, m)) /\ Successors(E, m) = {}
      <4> HIDE DEF E
      <4> QED
        BY <3>1, SomethingLast
    <3>3. m \in l.nodes
      <4>1. CASE m = x
        BY <4>1
      <4>2. CASE m # x
        <5> HIDE DEF E
        <5>1. x \in Ancestors(E, m)
          BY <3>2, <4>2
        <5>2. \E e \in E : e[2] = m
          <6>1. CASE \E e \in E : e[2] = m
            BY <6>1
          <6>2. CASE ~ \E e \in E : e[2] = m
            <7>1. Closes(E, m, {})
              BY <6>2 DEF Closes
            <7> QED
              BY <3>1, <5>1, <7>1, AncestorsFacts
          <6> QED
            BY <6>1, <6>2
        <5> QED
          BY <3>1, <5>2
      <4> QED
        BY <4>1, <4>2
    <3>4. m \in Milestones(l)
      BY <3>2, <3>3 DEF Milestones
    <3>5. PICK j \in 1 .. n : order[j] = m
      BY <1>2, <3>4
    <3>6. x \in Cone(l, order[j])
      BY <3>2, <3>5 DEF Cone
    <3> QED
      BY <3>6
  <2> QED
    BY <2>1, <2>2
<1>11. q # <<>> => q[Len(q)] = Summit(l)
  <2>1. CASE n = 0
    <3>1. l.nodes = {}
      BY <1>10, <2>1
    <3>2. Lists(q, {})
      BY <1>9, <1>10, <3>1
    <3>3. /\ Len(q) \in Nat /\ {} = {q[i] : i \in 1 .. Len(q)}
          /\ Len(q) = 0 => q = <<>>
      BY <3>2, ListsFacts
    <3>4. Len(q) = 0
      <4>1. Len(q) # 0 => 1 \in 1 .. Len(q)
        BY <3>3
      <4> QED
        BY <3>3, <4>1
    <3> QED
      BY <3>3, <3>4
  <2>2. CASE n # 0
    BY <1>9, <2>2 DEF Summit, Last, order, n
  <2> QED
    BY <2>1, <2>2
<1> HIDE DEF Claimed
<1> QED
  BY <1>5, <1>9, <1>10, <1>11 DEF drafts

-----------------------------------------------------------------------------
(* Sections cut anew. *)

\* What sections of q can be.
Sections(q) == {Section(q, x, y) : x \in Nat, y \in Nat}

\* The list s of sections is what q is cut into between its a-th and b-th stop.
CutInto(q, a, b, s) == s \in Seq(Sections(q)) /\ Cut(q, a, b, s, Len(s))

\* What is cut at marks is made of sections.
LEMMA MarkedSections ==
  ASSUME NEW q, NEW a, NEW b, NEW n \in Nat, NEW s, s = [k \in 1 .. n |-> s[k]],
         NEW e, Marks(q, a, b, s, n, e)
  PROVE  CutInto(q, a, b, s) /\ Len(s) = n
<1>1. \A k \in 1 .. n : s[k] \in Sections(q)
  <2> SUFFICES ASSUME NEW k \in 1 .. n PROVE s[k] \in Sections(q)
    OBVIOUS
  <2>1. k - 1 \in 0 .. n /\ k \in 0 .. n
    OBVIOUS
  <2>2. s[k] = Section(q, e[k - 1], e[k]) /\ e[k - 1] \in Nat /\ e[k] \in Nat
    BY <2>1 DEF Marks
  <2> QED
    BY <2>2 DEF Sections
<1>2. s \in [1 .. n -> Sections(q)]
  BY <1>1
<1>3. \A S : \A k \in Nat : \A f \in [1 .. k -> S] : f \in Seq(S) /\ Len(f) = k
  OBVIOUS
<1>4. s \in Seq(Sections(q)) /\ Len(s) = n
  BY <1>2, <1>3
<1> QED
  BY <1>4 DEF CutInto, Cut

\* Cuts that rise and end at the last of n places.
Rising(cuts, n) ==
  /\ cuts \in Seq(Nat) /\ Len(cuts) # 0 /\ cuts[Len(cuts)] = n
  /\ \A k \in 1 .. Len(cuts) : cuts[k] \in 1 .. n
  /\ \A j, k \in 1 .. Len(cuts) : j < k => cuts[j] < cuts[k]

\* Places sorted rise.
LEMMA RisingSorted ==
  ASSUME NEW n \in Nat, NEW S, S \subseteq 1 .. n, n \in S
  PROVE  Rising(Sorted(S, <), n)
<1> DEFINE q == Sorted(S, <)
           m == Len(q)
<1>1. S \in SUBSET Nat /\ IsFiniteSet(S)
  <2> HIDE DEF q, m
  <2>1. IsFiniteSet(1 .. n) /\ S \in SUBSET (1 .. n)
    BY FS_Interval
  <2>2. S \in SUBSET Nat
    BY <2>1
  <2> QED
    BY <2>1, <2>2, FS_Subset
<1>2. Lists(q, S) /\ \A i, j \in 1 .. m : i < j => q[i] < q[j]
  BY <1>1, SortedRises
<1> HIDE DEF q
<1>3. q \in Seq(Nat) /\ m \in Nat /\ S = {q[i] : i \in 1 .. m}
  BY <1>2, ListsFacts
<1>4. PICK k \in 1 .. m : q[k] = n
  BY <1>3
<1>5. \A i \in 1 .. m : q[i] \in 1 .. n
  BY <1>3
<1>6. k = m
  <2> SUFFICES ASSUME k # m PROVE FALSE
    OBVIOUS
  <2>1. k < m /\ m \in 1 .. m
    BY <1>3
  <2>2. q[k] < q[m] /\ q[m] \in 1 .. n
    BY <1>2, <1>5, <2>1
  <2> QED
    BY <1>4, <2>2
<1>7. m # 0 /\ q[m] = n
  BY <1>3, <1>4, <1>6
<1> QED
  BY <1>2, <1>3, <1>5, <1>7 DEF Rising, q

\* The cuts of a draft rise to its end.
LEMMA CutsRise ==
  ASSUME NEW l, NEW draft, Len(draft.steps) \in Nat, Len(draft.steps) # 0
  PROVE  Rising(Cuts(l, draft), Len(draft.steps))
<1> DEFINE n == Len(draft.steps)
           S == {i \in 1 .. n - 1 : SubTerminal(l, draft, draft.steps[i])} \cup {n}
<1>1. Rising(<<n>>, n)
  BY DEF Rising
<1>2. Rising(Sorted(S, <), n)
  <2>1. S \subseteq 1 .. n /\ n \in S /\ n \in Nat
    OBVIOUS
  <2> HIDE DEF S, n
  <2> QED
    BY <2>1, RisingSorted
<1>3. Cuts(l, draft) = <<n>> \/ Cuts(l, draft) = Sorted(S, <)
  BY DEF Cuts
<1> HIDE DEF n, S
<1>4. Rising(Cuts(l, draft), n)
  BY <1>1, <1>2, <1>3
<1> QED
  BY <1>4 DEF n

\* Where the parts of cuts begin.
LEMMA PartBegins ==
  ASSUME NEW cuts, NEW n \in Nat, Rising(cuts, n), NEW k \in 1 .. Len(cuts),
         NEW before, before = IF k = 1 THEN 0 ELSE cuts[k - 1]
  PROVE  /\ before \in Nat /\ before < cuts[k] /\ cuts[k] \in 1 .. n
         /\ Min(Part(cuts, k)) = before + 1
         /\ Cardinality(Part(cuts, k)) = cuts[k] - before
<1>1. cuts[k] \in 1 .. n /\ cuts[k] \in Nat
  BY DEF Rising
<1>2. before \in Nat /\ before < cuts[k]
  <2>1. CASE k = 1
    BY <1>1, <2>1
  <2>2. CASE k # 1
    <3>1. k - 1 \in 1 .. Len(cuts) /\ k - 1 < k
      BY <2>2 DEF Rising
    <3>2. cuts[k - 1] \in 1 .. n /\ cuts[k - 1] < cuts[k]
      BY <3>1 DEF Rising
    <3> QED
      BY <2>2, <3>2
  <2> QED
    BY <2>1, <2>2
<1>3. Part(cuts, k) = before + 1 .. cuts[k]
  BY <1>2 DEF Part
<1>4. Min(before + 1 .. cuts[k]) = before + 1
  <2> DEFINE S == before + 1 .. cuts[k]
  <2>1. before + 1 \in S /\ \A y \in S : before + 1 <= y
    BY <1>1, <1>2
  <2>2. \A x \in S : (\A y \in S : x <= y) => x = before + 1
    <3>1. ASSUME NEW x \in S, \A y \in S : x <= y PROVE x = before + 1
      <4>1. x <= before + 1 /\ before + 1 <= x /\ x \in Nat
        BY <1>2, <2>1, <3>1
      <4> QED
        BY <1>2, <4>1
    <3> QED
      BY <3>1
  <2> HIDE DEF S
  <2>3. Min(S) = before + 1
    BY <2>1, <2>2 DEF Min
  <2> QED
    BY <2>3 DEF S
<1>5. Cardinality(before + 1 .. cuts[k]) = cuts[k] - before
  <2>1. before + 1 \in Int /\ cuts[k] \in Int
    BY <1>1, <1>2
  <2>2. Cardinality(before + 1 .. cuts[k])
          = IF before + 1 > cuts[k] THEN 0 ELSE cuts[k] - (before + 1) + 1
    BY <2>1, FS_Interval
  <2> QED
    BY <1>1, <1>2, <2>2
<1> QED
  BY <1>1, <1>2, <1>3, <1>4, <1>5

\* A section is split into sections of the same piece of the trail.
LEMMA SplitCut ==
  ASSUME NEW l, NEW q, q \in Seq(Nat), NEW a, a \in Nat, NEW b, b \in Nat, a < b, b <= Len(q)
  PROVE  CutInto(q, a, b, Split(l, Section(q, a, b)))
<1> DEFINE d == Section(q, a, b)
           n == b - a
           cuts == Cuts(l, d)
           s == Split(l, d)
           m == Len(cuts)
<1>1. /\ d.milestone = q[b] /\ d.steps = Piece(q, a, b)
  BY DEF Section
<1>2. /\ d.steps \in Seq(Nat) /\ Len(d.steps) = n /\ n \in Nat /\ n # 0
      /\ \A i \in 1 .. n : d.steps[i] = q[a + i]
  <2>1. a <= b /\ n \in Nat /\ n # 0
    OBVIOUS
  <2>2. /\ Piece(q, a, b) \in Seq(Nat) /\ Len(Piece(q, a, b)) = b - a
        /\ \A i \in 1 .. b - a : Piece(q, a, b)[i] = q[a + i]
    BY <2>1, PieceFacts
  <2> HIDE DEF d
  <2> QED
    BY <1>1, <2>1, <2>2
<1> HIDE DEF d
<1>3. Rising(cuts, n)
  <2>1. Len(d.steps) \in Nat /\ Len(d.steps) # 0
    BY <1>2
  <2>2. Rising(Cuts(l, d), Len(d.steps))
    BY <2>1, CutsRise
  <2> HIDE DEF n
  <2> QED
    BY <1>2, <2>2
<1>4. s = [k \in DOMAIN cuts |->
             [milestone |-> IF k = m THEN d.milestone ELSE d.steps[cuts[k]],
              steps |-> SubSeq(d.steps, Min(Part(cuts, k)), cuts[k])]]
  BY DEF Split, CutSection
<1> HIDE DEF cuts, s
<1>5. /\ cuts \in Seq(Nat) /\ m \in Nat /\ m # 0 /\ DOMAIN cuts = 1 .. m /\ cuts[m] = n
      /\ \A k \in 1 .. m : cuts[k] \in 1 .. n
  BY <1>3 DEF Rising
<1>6. \A k \in 1 .. m : s[k] = [milestone |-> IF k = m THEN d.milestone ELSE d.steps[cuts[k]],
                                steps |-> SubSeq(d.steps, Min(Part(cuts, k)), cuts[k])]
  BY <1>4, <1>5
<1>7. s = [k \in 1 .. m |-> s[k]]
  BY <1>4, <1>5
<1> HIDE DEF m
<1> DEFINE before(k) == IF k = 1 THEN 0 ELSE cuts[k - 1]
           e == [k \in 0 .. m |-> IF k = 0 THEN a ELSE a + cuts[k]]
<1>8. e \in [0 .. m -> Nat] /\ e[0] = a /\ e[m] = b
  <2>1. \A k \in 0 .. m : k = 0 \/ k \in 1 .. m
    BY <1>5
  <2>2. \A k \in 1 .. m : a + cuts[k] \in Nat
    BY <1>5
  <2>3. m \in 0 .. m /\ 0 \in 0 .. m /\ a + n = b
    BY <1>5
  <2> HIDE DEF n
  <2> QED
    BY <1>5, <2>1, <2>2, <2>3
<1>9. \A k \in 1 .. m : e[k] = a + cuts[k] /\ e[k - 1] = a + before(k)
  <2> SUFFICES ASSUME NEW k \in 1 .. m PROVE e[k] = a + cuts[k] /\ e[k - 1] = a + before(k)
    OBVIOUS
  <2>1. k \in 0 .. m /\ k - 1 \in 0 .. m /\ k # 0 /\ (k = 1 <=> k - 1 = 0) /\ a + 0 = a
    BY <1>5
  <2>2. e[k] = a + cuts[k]
    BY <2>1
  <2>3. e[k - 1] = IF k - 1 = 0 THEN a ELSE a + cuts[k - 1]
    BY <2>1
  <2> HIDE DEF e
  <2> QED
    BY <2>1, <2>2, <2>3
<1> HIDE DEF e
<1>10. ASSUME NEW k \in 1 .. m PROVE e[k - 1] < e[k] /\ s[k] = Section(q, e[k - 1], e[k])
  <2> DEFINE x == before(k)
             y == cuts[k]
  <2>1. x \in Nat /\ x < y /\ y \in 1 .. n /\ Min(Part(cuts, k)) = x + 1
    <3>1. k \in 1 .. Len(cuts) /\ n \in Nat /\ before(k) = IF k = 1 THEN 0 ELSE cuts[k - 1]
      BY <1>2 DEF m
    <3> HIDE DEF n, before
    <3> QED
      BY <1>3, <3>1, PartBegins
  <2>2. e[k] = a + y /\ e[k - 1] = a + x
    BY <1>9
  <2> HIDE DEF x
  <2>3. y = n \/ k # m
    BY <1>5
  <2> DEFINE t == SubSeq(d.steps, x + 1, y)
  <2>4. s[k] = [milestone |-> IF k = m THEN d.milestone ELSE d.steps[y], steps |-> t]
    BY <1>6, <2>1
  <2> HIDE DEF y
  <2>5. d.steps[y] = q[a + y] /\ d.milestone = q[a + n]
    <3>1. a + n = b
      OBVIOUS
    <3> QED
      BY <1>1, <1>2, <2>1, <3>1
  <2>6. t = Piece(q, a + x, a + y)
    <3>1. (a + y) - (a + x) = y - x /\ y - x \in Nat /\ y \in Nat
      BY <2>1
    <3>2. Piece(q, a + x, a + y) = [i \in 1 .. y - x |-> q[a + x + i]]
      BY <3>1 DEF Piece
    <3>3. t = [i \in 1 .. y - x |-> d.steps[x + i]]
      <4>1. \A r \in Seq(Nat) : SubSeq(r, x + 1, y) = [i \in 1 .. (1 + y - (x + 1)) |-> r[i + (x + 1) - 1]]
        BY <2>1, <3>1
      <4>2. 1 + y - (x + 1) = y - x /\ \A i \in 1 .. y - x : i + (x + 1) - 1 = x + i
        BY <2>1, <3>1
      <4>3. t = [i \in 1 .. (1 + y - (x + 1)) |-> d.steps[i + (x + 1) - 1]]
        BY <1>2, <4>1
      <4> HIDE DEF t
      <4> QED
        BY <4>2, <4>3
    <3>4. \A i \in 1 .. y - x : x + i \in 1 .. n /\ a + (x + i) = a + x + i
      <4> HIDE DEF t, n
      <4> QED
        BY <1>2, <2>1, <3>1
    <3>5. \A i \in 1 .. y - x : d.steps[x + i] = q[a + x + i]
      BY <1>2, <3>4
    <3> HIDE DEF t, n
    <3> QED
      BY <3>2, <3>3, <3>5
  <2> HIDE DEF t, n
  <2>7. s[k] = Section(q, a + x, a + y)
    <3>1. CASE k = m
      BY <2>3, <2>4, <2>5, <2>6, <3>1 DEF Section
    <3>2. CASE k # m
      BY <2>4, <2>5, <2>6, <3>2 DEF Section
    <3> QED
      BY <3>1, <3>2
  <2>8. y \in Nat
    BY <1>5 DEF y
  <2> QED
    BY <2>1, <2>2, <2>7, <2>8
<1>11. Marks(q, a, b, s, m, e)
  BY <1>8, <1>10 DEF Marks
<1>12. CutInto(q, a, b, s)
  BY <1>5, <1>7, <1>11, MarkedSections
<1> QED
  BY <1>12 DEF s, d

\* All sections are split, one after the other.
LEMMA SplitAllCut ==
  ASSUME NEW l, NEW q, q \in Seq(Nat), NEW drafts, drafts \in Seq(Range(drafts)),
         Cut(q, 0, Len(q), drafts, Len(drafts))
  PROVE  CutInto(q, 0, Len(q), SplitAll(l, drafts))
<1> DEFINE n == Len(drafts)
           N == Len(q)
           ss == [i \in DOMAIN drafts |-> Split(l, drafts[i])]
<1>1. n \in Nat /\ DOMAIN drafts = 1 .. n /\ N \in Nat
  OBVIOUS
<1>2. SplitAll(l, drafts) = FlattenSeq(ss)
  BY DEF SplitAll
<1>3. ss = [i \in 1 .. n |-> Split(l, drafts[i])] /\ Len(ss) = n
  <2>1. ss = [i \in 1 .. n |-> Split(l, drafts[i])]
    BY <1>1
  <2>2. Len([i \in 1 .. n |-> Split(l, drafts[i])]) = n
    BY <1>1
  <2> HIDE DEF ss
  <2> QED
    BY <2>1, <2>2
<1>4. PICK e : Marks(q, 0, N, drafts, n, e)
  BY DEF Cut
<1>5. /\ e \in [0 .. n -> Nat] /\ e[0] = 0 /\ e[n] = N
      /\ \A k \in 1 .. n : e[k - 1] < e[k] /\ drafts[k] = Section(q, e[k - 1], e[k])
  BY <1>4 DEF Marks
<1>6. \A k \in 0 .. n : e[k] <= N
  BY <1>1, <1>4, MarksRise
<1> HIDE DEF ss, n, N
<1>7. \A i \in 1 .. n : ss[i] = Split(l, drafts[i])
  BY <1>3
<1>8. CASE n = 0
  <2>1. ss = <<>> /\ FlattenSeq(ss) = ss
    BY <1>3, <1>8 DEF FlattenSeq
  <2>2. N = 0
    BY <1>5, <1>8
  <2> DEFINE f == [k \in 0 .. 0 |-> 0]
             s == [k \in 1 .. 0 |-> 0]
  <2>3. s = <<>> /\ s = [k \in 1 .. 0 |-> s[k]]
    OBVIOUS
  <2>4. Marks(q, 0, 0, s, 0, f)
    BY DEF Marks
  <2> HIDE DEF s, f
  <2>5. CutInto(q, 0, 0, s)
    BY <2>3, <2>4, MarkedSections
  <2> QED
    BY <1>2, <2>1, <2>2, <2>3, <2>5 DEF N
<1>9. CASE n # 0
  <2>1. PICK g : /\ \A i \in 1 .. n : g[i] = IF i = 1 THEN ss[i] ELSE g[i - 1] \o ss[i]
                 /\ FlattenSeq(ss) = g[n]
    <3>1. n \in Nat /\ Len(ss) = n /\ n # 0
      BY <1>1, <1>3, <1>9
    <3> QED
      BY <3>1, FlattenJoins, Zenon
  <2> DEFINE T == {k \in 0 .. n : k # 0 => CutInto(q, 0, e[k], g[k])}
  <2>2. 0 \in T
    BY <1>1
  <2>3. ASSUME NEW k \in 1 .. n, k - 1 \in T PROVE k \in T
    <3>1. /\ k \in 0 .. n /\ k - 1 \in 0 .. n /\ k \in Nat
      BY <1>1
    <3>2. /\ e[k] \in Nat /\ e[k - 1] \in Nat /\ e[k - 1] < e[k] /\ e[k] <= N
          /\ drafts[k] = Section(q, e[k - 1], e[k])
      BY <1>5, <1>6, <3>1
    <3>3. CutInto(q, e[k - 1], e[k], ss[k])
      <4>1. CutInto(q, e[k - 1], e[k], Split(l, Section(q, e[k - 1], e[k])))
        BY <3>2, SplitCut DEF N
      <4> QED
        BY <1>7, <3>2, <4>1
    <3>4. g[k] = IF k = 1 THEN ss[k] ELSE g[k - 1] \o ss[k]
      BY <2>1
    <3>5. CASE k = 1
      <4>1. e[k - 1] = 0 /\ g[k] = ss[k]
        <5>1. k - 1 = 0
          BY <3>5
        <5> QED
          BY <1>5, <3>4, <3>5, <5>1
      <4> QED
        BY <3>1, <3>3, <4>1
    <3>6. CASE k # 1
      <4>1. k - 1 # 0
        BY <3>6
      <4>2. CutInto(q, 0, e[k - 1], g[k - 1])
        BY <2>3, <4>1
      <4>3. g[k] = g[k - 1] \o ss[k]
        BY <3>4, <3>6, Zenon
      <4> DEFINE u == g[k - 1]
                 v == ss[k]
      <4>4. /\ u \in Seq(Sections(q)) /\ Cut(q, 0, e[k - 1], u, Len(u))
            /\ v \in Seq(Sections(q)) /\ Cut(q, e[k - 1], e[k], v, Len(v))
        BY <3>3, <4>2 DEF CutInto
      <4> HIDE DEF u, v
      <4>5. Cut(q, 0, e[k], u \o v, Len(u \o v))
        BY <4>4, CutsJoin
      <4>6. u \o v \in Seq(Sections(q))
        BY <4>4
      <4>7. CutInto(q, 0, e[k], u \o v)
        BY <4>5, <4>6 DEF CutInto
      <4> QED
        BY <3>1, <4>3, <4>7 DEF u, v
    <3> QED
      BY <3>5, <3>6
  <2>4. n \in T
    <3> HIDE DEF T
    <3> QED
      BY <1>1, <2>2, <2>3, Upwards
  <2> QED
    BY <1>2, <1>5, <1>9, <2>1, <2>4 DEF N
<1> QED
  BY <1>8, <1>9

\* The stops of the sections after the x-th, up to the y-th.
StopsBetween(secs, x, y) == FlattenSeq([i \in 1 .. y - x |-> secs[x + 1 + i - 1].steps])

\* The sections of each part make one of the same piece of the trail.
LEMMA JoinedPart ==
  ASSUME NEW q, q \in Seq(Nat), NEW N, N \in Nat, N <= Len(q), NEW n \in Nat, NEW secs,
         NEW e, Marks(q, 0, N, secs, n, e),
         NEW x, x \in Nat, NEW y, y \in Nat, x < y, y <= n
  PROVE  StopsBetween(secs, x, y) = Piece(q, e[x], e[y])
<1> DEFINE m == y - x
           f == [k \in 0 .. m |-> e[x + k]]
           ss == [i \in 1 .. m |-> secs[x + 1 + i - 1].steps]
<1>1. m \in Nat /\ x + 0 = x /\ x + m = y /\ 0 \in 0 .. m /\ m \in 0 .. m
  OBVIOUS
<1>2. /\ e \in [0 .. n -> Nat] /\ e[0] = 0 /\ e[n] = N
      /\ \A k \in 1 .. n : e[k - 1] < e[k] /\ secs[k] = Section(q, e[k - 1], e[k])
  BY DEF Marks
<1>3. \A k \in 0 .. n : e[k] <= N
  BY MarksRise
<1>4. \A k \in 0 .. m : x + k \in 0 .. n
  BY <1>1
<1>5. f \in [0 .. m -> Nat] /\ \A k \in 0 .. m : f[k] = e[x + k]
  BY <1>2, <1>4
<1>6. \A i \in 1 .. m : /\ x + i \in 1 .. n /\ x + 1 + i - 1 = x + i /\ x + (i - 1) = x + i - 1
                        /\ i \in 0 .. m /\ i - 1 \in 0 .. m /\ x + i \in 0 .. n /\ x + i - 1 \in 0 .. n
  BY <1>1
<1> HIDE DEF m, f
<1>7. \A i \in 1 .. m : ss[i] = Piece(q, f[i - 1], f[i]) /\ f[i - 1] <= f[i] /\ ss[i] \in Seq(Nat)
  <2> SUFFICES ASSUME NEW i \in 1 .. m
               PROVE  ss[i] = Piece(q, f[i - 1], f[i]) /\ f[i - 1] <= f[i] /\ ss[i] \in Seq(Nat)
    OBVIOUS
  <2>1. f[i - 1] = e[x + i - 1] /\ f[i] = e[x + i]
    BY <1>5, <1>6
  <2>2. /\ e[x + i - 1] < e[x + i] /\ secs[x + i] = Section(q, e[x + i - 1], e[x + i])
        /\ e[x + i] <= N /\ e[x + i - 1] \in Nat /\ e[x + i] \in Nat
    BY <1>2, <1>3, <1>6
  <2>3. ss[i] = secs[x + i].steps
    BY <1>6
  <2> HIDE DEF ss
  <2>4. ss[i] = Piece(q, f[i - 1], f[i])
    BY <2>1, <2>2, <2>3 DEF Section
  <2>5. f[i - 1] \in Nat /\ f[i] \in Nat /\ f[i - 1] <= f[i] /\ f[i] <= Len(q)
    BY <2>1, <2>2
  <2>6. Piece(q, f[i - 1], f[i]) \in Seq(Nat)
    BY <2>5, PieceFacts
  <2> QED
    BY <2>4, <2>5, <2>6
<1>8. ss \in Seq(Seq(Nat)) /\ Len(ss) = m
  <2>1. ss = [i \in 1 .. m |-> ss[i]]
    OBVIOUS
  <2> HIDE DEF ss
  <2>2. ss \in [1 .. m -> Seq(Nat)]
    BY <1>7, <2>1
  <2>3. \A S : \A k \in Nat : \A h \in [1 .. k -> S] : h \in Seq(S) /\ Len(h) = k
    OBVIOUS
  <2> QED
    BY <1>1, <2>2, <2>3
<1>9. f[m] <= Len(q) /\ f[0] = e[x] /\ f[m] = e[y]
  <2>1. f[0] = e[x] /\ f[m] = e[y] /\ y \in 0 .. n
    BY <1>1, <1>4, <1>5
  <2>2. e[y] <= N /\ e[y] \in Nat
    BY <1>2, <1>3, <2>1
  <2> QED
    BY <2>1, <2>2
<1> HIDE DEF ss
<1>10. FlattenSeq(ss) = Piece(q, f[0], f[m])
  BY <1>1, <1>5, <1>7, <1>8, <1>9, PiecesFlatten
<1> QED
  BY <1>9, <1>10 DEF ss, m, StopsBetween

\* A section has an item where its piece of the trail has one.
LEMMA ItemfulPiece ==
  ASSUME NEW l, NEW q, q \in Seq(Nat), NEW x, x \in Nat, NEW y, y \in Nat, x < y, y <= Len(q)
  PROVE  Itemful(l, Section(q, x, y)) # {} <=> \E p \in Nat : x < p /\ p <= y /\ q[p] \in l.itemful
<1> DEFINE d == Section(q, x, y)
           m == y - x
<1>1. d.steps = Piece(q, x, y)
  BY DEF Section
<1>2. /\ DOMAIN d.steps = 1 .. m /\ m \in Nat
      /\ \A i \in 1 .. m : d.steps[i] = q[x + i]
  <2>1. x <= y /\ m \in Nat
    OBVIOUS
  <2>2. /\ DOMAIN Piece(q, x, y) = 1 .. y - x
        /\ \A i \in 1 .. y - x : Piece(q, x, y)[i] = q[x + i]
    BY <2>1, PieceFacts
  <2> HIDE DEF d, m
  <2> QED
    BY <1>1, <2>1, <2>2 DEF m
<1> HIDE DEF d
<1>3. Itemful(l, d) = {i \in 1 .. m : q[x + i] \in l.itemful}
  <2>1. Itemful(l, d) = {i \in 1 .. m : d.steps[i] \in l.itemful}
    BY <1>2 DEF Itemful
  <2> HIDE DEF m
  <2> QED
    BY <1>2, <2>1
<1>4. ASSUME NEW i \in 1 .. m, q[x + i] \in l.itemful
      PROVE  \E p \in Nat : x < p /\ p <= y /\ q[p] \in l.itemful
  <2>1. x + i \in Nat /\ x < x + i /\ x + i <= y
    OBVIOUS
  <2> QED
    BY <1>4, <2>1
<1>5. ASSUME NEW p \in Nat, x < p, p <= y, q[p] \in l.itemful
      PROVE  \E i \in 1 .. m : q[x + i] \in l.itemful
  <2>1. p - x \in 1 .. m /\ x + (p - x) = p
    BY <1>5
  <2>2. q[x + (p - x)] \in l.itemful
    BY <1>5, <2>1
  <2> HIDE DEF m
  <2> QED
    BY <2>1, <2>2
<1> HIDE DEF m
<1>6. Itemful(l, d) # {} <=> \E i \in 1 .. m : q[x + i] \in l.itemful
  BY <1>3
<1>7. Itemful(l, d) # {} <=> \E p \in Nat : x < p /\ p <= y /\ q[p] \in l.itemful
  BY <1>4, <1>5, <1>6
<1> QED
  BY <1>7 DEF d

\* The cuts of a merge: one at each place but the last, which is put off to the end.
LEMMA ToTheEndFacts ==
  ASSUME NEW n \in Nat, n # 0, NEW w, w \in Seq(Nat), \A k \in 1 .. Len(w) : w[k] \in 1 .. n,
         \A i, j \in 1 .. Len(w) : i < j => w[i] < w[j]
  PROVE  /\ Rising(ToTheEnd(w, n), n)
         /\ w # <<>> => /\ Len(ToTheEnd(w, n)) = Len(w)
                        /\ \A k \in 1 .. Len(w) : /\ w[k] <= ToTheEnd(w, n)[k]
                                                  /\ k # Len(w) => ToTheEnd(w, n)[k] = w[k]
<1> DEFINE c == ToTheEnd(w, n)
           m == Len(w)
<1>1. CASE w = <<>>
  <2>1. c = <<n>>
    BY <1>1 DEF ToTheEnd
  <2>2. Rising(<<n>>, n)
    BY DEF Rising
  <2> QED
    BY <1>1, <2>1, <2>2
<1>2. CASE w # <<>>
  <2>1. m \in Nat /\ m # 0 /\ m \in 1 .. m /\ DOMAIN w = 1 .. m
    BY <1>2
  <2>2. c = [w EXCEPT ![m] = n]
    BY <1>2 DEF ToTheEnd
  <2>3. c \in Seq(Nat) /\ Len(c) = m
    BY <2>1, <2>2
  <2>4. c[m] = n /\ \A k \in 1 .. m : k # m => c[k] = w[k]
    BY <2>1, <2>2
  <2> HIDE DEF c, m
  <2>5. \A k \in 1 .. m : w[k] \in 1 .. n /\ w[k] <= c[k] /\ c[k] \in 1 .. n
    <3> SUFFICES ASSUME NEW k \in 1 .. m PROVE w[k] \in 1 .. n /\ w[k] <= c[k] /\ c[k] \in 1 .. n
      OBVIOUS
    <3>1. w[k] \in 1 .. n
      BY DEF m
    <3>2. c[k] = IF k = m THEN n ELSE w[k]
      BY <2>4
    <3> QED
      BY <3>1, <3>2
  <2>6. ASSUME NEW j \in 1 .. m, NEW k \in 1 .. m, j < k PROVE c[j] < c[k]
    <3>1. j # m
      BY <2>1, <2>6
    <3>2. c[j] = w[j] /\ w[j] < w[k]
      BY <2>4, <2>6, <3>1 DEF m
    <3>3. w[k] <= c[k] /\ w[k] \in Nat /\ w[j] \in Nat /\ c[k] \in Nat
      BY <2>5
    <3> QED
      BY <3>2, <3>3
  <2>7. Rising(c, n)
    BY <2>1, <2>3, <2>4, <2>5, <2>6 DEF Rising
  <2> QED
    BY <2>3, <2>4, <2>5, <2>7 DEF c, m
<1> QED
  BY <1>1, <1>2

\* Joining the sections of each part cuts the trail at some of its marks.
LEMMA JoinSectionsCut ==
  ASSUME NEW q, q \in Seq(Nat), NEW n \in Nat, NEW secs, NEW e, Marks(q, 0, Len(q), secs, n, e),
         NEW cuts, Rising(cuts, n)
  PROVE  LET legs == JoinSections(secs, cuts)
         IN  /\ CutInto(q, 0, Len(q), legs) /\ Len(legs) = Len(cuts)
             /\ \A k \in 1 .. Len(cuts) :
                  legs[k] = Section(q, e[IF k = 1 THEN 0 ELSE cuts[k - 1]], e[cuts[k]])
<1> DEFINE legs == JoinSections(secs, cuts)
           N == Len(q)
           m == Len(cuts)
           before(k) == IF k = 1 THEN 0 ELSE cuts[k - 1]
<1>1. /\ cuts \in Seq(Nat) /\ m \in Nat /\ m # 0 /\ DOMAIN cuts = 1 .. m /\ cuts[m] = n
      /\ \A k \in 1 .. m : cuts[k] \in 1 .. n
  BY DEF Rising
<1>2. /\ e \in [0 .. n -> Nat] /\ e[0] = 0 /\ e[n] = N
      /\ \A k \in 1 .. n : e[k - 1] < e[k] /\ secs[k] = Section(q, e[k - 1], e[k])
  BY DEF Marks
<1>3. \A j, k \in 0 .. n : j < k => e[j] < e[k]
  BY MarksRise
<1>4. legs = [k \in 1 .. m |->
                [milestone |-> secs[cuts[k]].milestone,
                 steps |-> FlattenSeq([i \in 1 .. Cardinality(Part(cuts, k)) |->
                                         secs[Min(Part(cuts, k)) + i - 1].steps])]]
  BY <1>1 DEF JoinSections
<1> HIDE DEF legs
<1>5. \A k \in 1 .. m :
        legs[k] = [milestone |-> secs[cuts[k]].milestone,
                   steps |-> FlattenSeq([i \in 1 .. Cardinality(Part(cuts, k)) |->
                                           secs[Min(Part(cuts, k)) + i - 1].steps])]
  BY <1>4
<1>6. legs = [k \in 1 .. m |-> legs[k]]
  BY <1>4
<1> HIDE DEF m, N
<1>7. ASSUME NEW k \in 1 .. m
      PROVE  /\ before(k) \in 0 .. n /\ cuts[k] \in 0 .. n /\ e[before(k)] < e[cuts[k]]
             /\ legs[k] = Section(q, e[before(k)], e[cuts[k]])
  <2> DEFINE x == before(k)
             y == cuts[k]
  <2>1. x \in Nat /\ x < y /\ y \in 1 .. n /\ Min(Part(cuts, k)) = x + 1 /\ Cardinality(Part(cuts, k)) = y - x
    <3>1. k \in 1 .. Len(cuts) /\ before(k) = IF k = 1 THEN 0 ELSE cuts[k - 1]
      BY DEF m
    <3> HIDE DEF before
    <3> QED
      BY <3>1, PartBegins
  <2>2. legs[k] = [milestone |-> secs[y].milestone,
                   steps |-> StopsBetween(secs, x, y)]
    BY <1>5, <2>1 DEF StopsBetween
  <2> HIDE DEF x
  <2>3. secs[y].milestone = q[e[y]]
    <3>1. secs[y] = Section(q, e[y - 1], e[y])
      BY <1>2, <2>1
    <3> HIDE DEF y
    <3> QED
      BY <3>1 DEF Section
  <2>4. StopsBetween(secs, x, y) = Piece(q, e[x], e[y])
    <3>1. N \in Nat /\ N <= Len(q) /\ Marks(q, 0, N, secs, n, e) /\ y \in Nat /\ y <= n
      <4>1. Len(q) \in Nat
        OBVIOUS
      <4> QED
        BY <2>1, <4>1 DEF N
    <3> HIDE DEF y, before
    <3>2. x \in Nat /\ x < y
      BY <2>1
    <3> QED
      BY <3>1, <3>2, JoinedPart
  <2>5. x \in 0 .. n /\ y \in 0 .. n /\ x < y
    BY <2>1
  <2>6. e[x] < e[y]
    BY <1>3, <2>5
  <2> HIDE DEF y
  <2>7. legs[k] = Section(q, e[x], e[y])
    BY <2>2, <2>3, <2>4 DEF Section
  <2> QED
    BY <2>5, <2>6, <2>7 DEF x, y
<1> DEFINE f == [k \in 0 .. m |-> IF k = 0 THEN 0 ELSE e[cuts[k]]]
<1>8. /\ f \in [0 .. m -> Nat] /\ f[0] = 0 /\ f[m] = N
      /\ \A k \in 1 .. m : f[k] = e[cuts[k]] /\ f[k - 1] = e[before(k)]
  <2>1. \A k \in 0 .. m : k = 0 \/ k \in 1 .. m
    BY <1>1
  <2>2. \A k \in 1 .. m : k \in 0 .. m /\ k # 0 /\ k - 1 \in 0 .. m /\ (k = 1 <=> k - 1 = 0)
    BY <1>1
  <2>3. \A k \in 1 .. m : e[cuts[k]] \in Nat
    BY <1>2, <1>7
  <2>4. f \in [0 .. m -> Nat]
    BY <2>1, <2>3
  <2>5. \A k \in 0 .. m : f[k] = IF k = 0 THEN 0 ELSE e[cuts[k]]
    OBVIOUS
  <2> HIDE DEF f
  <2>6. m \in 0 .. m /\ 0 \in 0 .. m
    BY <1>1
  <2>7. f[0] = 0 /\ f[m] = N
    BY <1>1, <1>2, <2>5, <2>6
  <2>8. ASSUME NEW k \in 1 .. m PROVE f[k] = e[cuts[k]] /\ f[k - 1] = e[before(k)]
    <3>1. f[k - 1] = IF k - 1 = 0 THEN 0 ELSE e[cuts[k - 1]]
      BY <2>2, <2>5
    <3>2. f[k] = e[cuts[k]]
      BY <2>2, <2>5
    <3> QED
      BY <1>2, <2>2, <3>1, <3>2
  <2> QED
    BY <2>4, <2>7, <2>8
<1> HIDE DEF f, before
<1>9. Marks(q, 0, N, legs, m, f)
  BY <1>7, <1>8 DEF Marks
<1>10. CutInto(q, 0, N, legs) /\ Len(legs) = m
  BY <1>1, <1>6, <1>9, MarkedSections
<1> QED
  BY <1>7, <1>10 DEF legs, before, m, N

\* What sections are cut from is what they make up; each ends on its milestone.
LEMMA CutSteps ==
  ASSUME NEW q, q \in Seq(Nat), NEW legs, CutInto(q, 0, Len(q), legs)
  PROVE  /\ StepsOf(legs) = q
         /\ \A k \in DOMAIN legs : Last(legs[k].steps) = legs[k].milestone
         /\ legs # <<>> => q # <<>> /\ Last(legs).milestone = q[Len(q)]
<1> DEFINE m == Len(legs)
           N == Len(q)
<1>1. legs \in Seq(Sections(q)) /\ m \in Nat /\ DOMAIN legs = 1 .. m /\ N \in Nat
  BY DEF CutInto
<1>2. PICK e : Marks(q, 0, N, legs, m, e)
  BY DEF CutInto, Cut
<1>3. /\ e \in [0 .. m -> Nat] /\ e[0] = 0 /\ e[m] = N
      /\ \A k \in 1 .. m : e[k - 1] < e[k] /\ legs[k] = Section(q, e[k - 1], e[k])
  BY <1>2 DEF Marks
<1>4. \A k \in 0 .. m : e[k] <= N
  BY <1>1, <1>2, MarksRise
<1> HIDE DEF m, N
<1>5. Piece(q, 0, N) = q
  <2>1. N - 0 = N /\ \A i \in 1 .. N : 0 + i = i
    BY <1>1
  <2>2. Piece(q, 0, N) = [i \in 1 .. N |-> q[i]]
    BY <2>1 DEF Piece
  <2>3. q = [i \in 1 .. N |-> q[i]]
    BY DEF N
  <2> QED
    BY <2>2, <2>3
<1>6. StepsOf(legs) = q
  <2>1. StepsOf(legs) = StopsBetween(legs, 0, m)
    <3>1. m - 0 = m /\ \A i \in 1 .. m : 0 + 1 + i - 1 = i
      BY <1>1
    <3>2. [i \in DOMAIN legs |-> legs[i].steps] = [i \in 1 .. m - 0 |-> legs[0 + 1 + i - 1].steps]
      BY <1>1, <3>1
    <3> QED
      BY <3>2 DEF StepsOf, StopsBetween
  <2>2. CASE m = 0
    <3>1. legs = <<>> /\ [i \in DOMAIN legs |-> legs[i].steps] = <<>>
      BY <1>1, <2>2 DEF m
    <3>2. StepsOf(legs) = <<>>
      BY <3>1 DEF StepsOf, FlattenSeq
    <3>3. Len(q) = 0
      BY <1>3, <2>2 DEF N
    <3> QED
      BY <3>2, <3>3
  <2>3. CASE m # 0
    <3>1. 0 < m /\ m <= m /\ N <= Len(q) /\ 0 \in Nat /\ m \in Nat /\ N \in Nat
      BY <1>1, <2>3 DEF N
    <3>2. StopsBetween(legs, 0, m) = Piece(q, e[0], e[m])
      BY <1>2, <3>1, JoinedPart
    <3> QED
      BY <1>3, <1>5, <2>1, <3>2
  <2> QED
    BY <2>2, <2>3
<1>7. ASSUME NEW k \in 1 .. m PROVE Last(legs[k].steps) = legs[k].milestone
  <2> DEFINE x == e[k - 1]
             y == e[k]
  <2>1. k - 1 \in 0 .. m /\ k \in 0 .. m
    BY <1>1
  <2>2. x \in Nat /\ y \in Nat /\ x < y /\ y <= N /\ legs[k] = Section(q, x, y)
    BY <1>3, <1>4, <2>1
  <2> HIDE DEF x, y
  <2>3. legs[k].steps = Piece(q, x, y) /\ legs[k].milestone = q[y]
    BY <2>2 DEF Section
  <2>4. x <= y /\ y <= Len(q) /\ y - x \in 1 .. y - x /\ x + (y - x) = y
    BY <1>1, <2>2 DEF N
  <2>5. Len(Piece(q, x, y)) = y - x /\ \A i \in 1 .. y - x : Piece(q, x, y)[i] = q[x + i]
    BY <2>2, <2>4, PieceFacts
  <2>6. Piece(q, x, y)[y - x] = q[x + (y - x)]
    BY <2>4, <2>5
  <2>7. Last(Piece(q, x, y)) = q[y]
    BY <2>4, <2>5, <2>6 DEF Last
  <2> QED
    BY <2>3, <2>7
<1>8. ASSUME legs # <<>> PROVE q # <<>> /\ Last(legs).milestone = q[Len(q)]
  <2>1. m # 0
    BY <1>1, <1>8 DEF m
  <2>2. m \in 1 .. m /\ m - 1 \in 0 .. m
    BY <1>1, <2>1
  <2>3. legs[m] = Section(q, e[m - 1], e[m]) /\ e[m - 1] < e[m] /\ e[m - 1] \in Nat
    BY <1>3, <2>2
  <2>4. Last(legs).milestone = q[N]
    BY <1>3, <2>3 DEF Last, Section, m
  <2>5. N # 0
    BY <1>1, <1>3, <2>3
  <2>6. q # <<>>
    BY <2>5 DEF N
  <2> QED
    BY <2>4, <2>6 DEF N
<1> QED
  BY <1>1, <1>6, <1>7, <1>8

\* So are the Legs cut; and each has an item, if a stop has.
LEMMA LegsCut ==
  ASSUME NEW l, IsCourse(l)
  PROVE  \E q : /\ Lists(q, l.nodes) /\ Preceded(Trusted(l.gates), q)
                /\ CutInto(q, 0, Len(q), Legs(l))
                /\ q # <<>> => q[Len(q)] = Summit(l)
                /\ l.itemful \cap l.nodes # {} =>
                     \A k \in 1 .. Len(Legs(l)) : Itemful(l, Legs(l)[k]) # {}
<1>1. PICK q : /\ Lists(q, l.nodes) /\ Preceded(Trusted(l.gates), q)
               /\ Drafts(l) \in Seq(Range(Drafts(l)))
               /\ Cut(q, 0, Len(q), Drafts(l), Len(Drafts(l)))
               /\ q # <<>> => q[Len(q)] = Summit(l)
  BY DraftsCut
<1> DEFINE secs == SplitAll(l, Drafts(l))
           n == Len(secs)
           N == Len(q)
           legs == Legs(l)
           With == {i \in DOMAIN secs : Itemful(l, secs[i]) # {}}
           w == Winnable(l, secs)
           cuts == ToTheEnd(w, n)
           Goal == /\ CutInto(q, 0, N, legs)
                   /\ l.itemful \cap l.nodes # {} => \A k \in 1 .. Len(legs) : Itemful(l, legs[k]) # {}
<1>2. q \in Seq(Nat) /\ N \in Nat /\ l.nodes = {q[i] : i \in 1 .. N}
  BY <1>1, ListsFacts
<1>3. CutInto(q, 0, N, secs)
  BY <1>1, <1>2, SplitAllCut
<1>4. legs = Merge(l, secs)
  BY DEF Legs
<1> HIDE DEF secs, legs
<1>5. secs \in Seq(Sections(q)) /\ n \in Nat /\ DOMAIN secs = 1 .. n /\ (secs = <<>> <=> n = 0)
  BY <1>3 DEF CutInto
<1>6. PICK e : Marks(q, 0, N, secs, n, e)
  BY <1>3 DEF CutInto, Cut
<1>7. /\ e \in [0 .. n -> Nat] /\ e[0] = 0 /\ e[n] = N
      /\ \A k \in 1 .. n : e[k - 1] < e[k] /\ secs[k] = Section(q, e[k - 1], e[k])
  BY <1>6 DEF Marks
<1>8. /\ \A k \in 0 .. n : e[k] <= N
      /\ \A j, k \in 0 .. n : j < k => e[j] < e[k]
  <2> HIDE DEF n, N, With, w, cuts
  <2>1. n \in Nat /\ Marks(q, 0, N, secs, n, e)
    BY <1>5, <1>6
  <2> QED
    BY <2>1, MarksRise
<1> HIDE DEF n, N
<1>9. CASE n = 0
  <2>1. legs = <<>>
    BY <1>4, <1>5, <1>9 DEF Merge
  <2>2. legs = secs
    BY <1>5, <1>9, <2>1
  <2>3. Len(legs) = 0
    BY <2>1
  <2>4. \A k \in 1 .. Len(legs) : FALSE
    BY <2>3
  <2>5. Goal
    BY <1>3, <2>2, <2>4
  <2> QED
    BY <1>1, <2>5 DEF N, legs
<1>10. CASE n # 0
  <2>1. /\ With \in SUBSET (1 .. n) /\ IsFiniteSet(With) /\ With \in SUBSET Nat
    <3>1. With \in SUBSET (1 .. n) /\ IsFiniteSet(1 .. n)
      BY <1>5, FS_Interval
    <3> HIDE DEF With, w, cuts
    <3>2. IsFiniteSet(With)
      BY <3>1, FS_Subset
    <3>3. With \in SUBSET Nat
      BY <3>1
    <3> QED
      BY <3>1, <3>2, <3>3
  <2>2. w = Sorted(With, <)
    BY DEF Winnable
  <2>3. Lists(w, With) /\ \A i, j \in 1 .. Len(w) : i < j => w[i] < w[j]
    <3> HIDE DEF w, With
    <3> QED
      BY <2>1, <2>2, SortedRises
  <2>4. legs = JoinSections(secs, cuts)
    BY <1>4, <1>5, <1>10 DEF Merge, n
  <2> HIDE DEF w
  <2>5. w \in Seq(Nat) /\ Len(w) \in Nat /\ With = {w[i] : i \in 1 .. Len(w)} /\ (Len(w) = 0 => w = <<>>)
    <3> HIDE DEF With
    <3> QED
      BY <2>3, ListsFacts
  <2>6. \A k \in 1 .. Len(w) : w[k] \in 1 .. n /\ Itemful(l, secs[w[k]]) # {}
    <3>1. \A x \in With : x \in 1 .. n /\ Itemful(l, secs[x]) # {}
      BY <2>1
    <3> HIDE DEF With
    <3> QED
      BY <2>5, <3>1
  <2>7. /\ Rising(cuts, n)
        /\ w # <<>> => /\ Len(cuts) = Len(w)
                       /\ \A k \in 1 .. Len(w) : w[k] <= cuts[k] /\ (k # Len(w) => cuts[k] = w[k])
    BY <1>5, <1>10, <2>3, <2>5, <2>6, ToTheEndFacts
  <2> HIDE DEF cuts
  <2>8. /\ CutInto(q, 0, N, legs) /\ Len(legs) = Len(cuts)
        /\ \A k \in 1 .. Len(cuts) :
             legs[k] = Section(q, e[IF k = 1 THEN 0 ELSE cuts[k - 1]], e[cuts[k]])
    BY <1>2, <1>5, <1>6, <2>4, <2>7, JoinSectionsCut DEF N
  <2>9. ASSUME NEW x \in l.itemful \cap l.nodes, w = <<>> PROVE FALSE
    <3>1. PICK p \in 1 .. N : q[p] = x
      BY <1>2
    <3>2. p \in Nat /\ 0 < p /\ p <= N
      BY <1>2
    <3>3. PICK k \in 1 .. n : e[k - 1] < p /\ p <= e[k]
      BY <1>5, <1>6, <3>2, MarksMeet
    <3>4. /\ k - 1 \in 0 .. n /\ k \in 0 .. n
      BY <1>5
    <3>5. /\ e[k - 1] \in Nat /\ e[k] \in Nat /\ e[k - 1] < e[k] /\ e[k] <= Len(q)
          /\ secs[k] = Section(q, e[k - 1], e[k])
      BY <1>7, <1>8, <3>4 DEF N
    <3>6. Itemful(l, Section(q, e[k - 1], e[k])) # {}
      BY <1>2, <3>1, <3>2, <3>3, <3>5, ItemfulPiece
    <3>7. k \in With
      BY <1>5, <3>5, <3>6
    <3>8. \A i \in 1 .. Len(w) : FALSE
      BY <2>9
    <3> HIDE DEF With
    <3> QED
      BY <2>5, <3>7, <3>8
  <2>10. ASSUME NEW k \in 1 .. Len(legs), w # <<>> PROVE Itemful(l, legs[k]) # {}
    <3> DEFINE a == IF k = 1 THEN 0 ELSE cuts[k - 1]
               b == cuts[k]
               v == w[k]
    <3>1. k \in 1 .. Len(cuts) /\ k \in 1 .. Len(w) /\ Len(cuts) = Len(w)
      BY <2>7, <2>8, <2>10
    <3>2. v \in 1 .. n /\ v <= b /\ b \in 1 .. n /\ Itemful(l, secs[v]) # {}
      BY <2>6, <2>7, <2>10, <3>1 DEF Rising
    <3>3. a \in 0 .. n /\ a < v
      <4>1. CASE k = 1
        BY <1>5, <3>2, <4>1
      <4>2. CASE k # 1
        <5>1. k - 1 \in 1 .. Len(w) /\ k - 1 # Len(w) /\ k - 1 < k
          BY <2>5, <3>1, <4>2
        <5>2. a = w[k - 1] /\ w[k - 1] < w[k] /\ w[k - 1] \in 1 .. n
          BY <2>3, <2>6, <2>7, <2>10, <3>1, <4>2, <5>1
        <5>3. a \in 1 .. n
          BY <5>2
        <5> QED
          BY <1>5, <5>2, <5>3
      <4> QED
        BY <4>1, <4>2
    <3>4. legs[k] = Section(q, e[a], e[b])
      BY <2>8, <3>1
    <3> HIDE DEF a, b, v
    <3>5. /\ v - 1 \in 0 .. n /\ v \in 0 .. n /\ b \in 0 .. n
          /\ (a = v - 1 \/ a < v - 1) /\ (v = b \/ v < b)
      BY <1>5, <3>2, <3>3
    <3>6. /\ e[a] \in Nat /\ e[v - 1] \in Nat /\ e[v] \in Nat /\ e[b] \in Nat
          /\ e[v - 1] < e[v] /\ e[v] <= N /\ e[b] <= N
          /\ e[a] <= e[v - 1] /\ e[v] <= e[b]
          /\ secs[v] = Section(q, e[v - 1], e[v])
      <4>1. e[a] \in Nat /\ e[v - 1] \in Nat /\ e[v] \in Nat /\ e[b] \in Nat
        BY <1>7, <3>3, <3>5
      <4>2. e[v - 1] < e[v] /\ e[v] <= N /\ e[b] <= N /\ secs[v] = Section(q, e[v - 1], e[v])
        BY <1>7, <1>8, <3>2, <3>5
      <4>3. e[a] <= e[v - 1]
        <5>1. e[a] = e[v - 1] \/ e[a] < e[v - 1]
          BY <1>8, <3>3, <3>5
        <5> QED
          BY <4>1, <5>1
      <4>4. e[v] <= e[b]
        <5>1. e[v] = e[b] \/ e[v] < e[b]
          BY <1>8, <3>5
        <5> QED
          BY <4>1, <5>1
      <4> QED
        BY <4>1, <4>2, <4>3, <4>4
    <3>7. PICK p \in Nat : e[v - 1] < p /\ p <= e[v] /\ q[p] \in l.itemful
      BY <1>2, <3>2, <3>6, ItemfulPiece DEF N
    <3>8. e[a] < p /\ p <= e[b] /\ e[a] < e[b] /\ e[b] <= Len(q)
      BY <3>6, <3>7 DEF N
    <3>9. Itemful(l, Section(q, e[a], e[b])) # {}
      BY <1>2, <3>6, <3>7, <3>8, ItemfulPiece
    <3> QED
      BY <3>4, <3>9
  <2>11. Goal
    BY <2>8, <2>9, <2>10
  <2> QED
    BY <1>1, <2>11 DEF N, legs
<1> QED
  BY <1>9, <1>10

\* As long as the nodes are many.
LEMMA ListLength ==
  ASSUME NEW q, NEW nodes, Lists(q, nodes)
  PROVE  Len(q) = Cardinality(nodes)
<1>1. /\ q \in Seq(Nat) /\ Len(q) \in Nat /\ DOMAIN q = 1 .. Len(q)
      /\ nodes = {q[i] : i \in 1 .. Len(q)}
      /\ \A i, j \in 1 .. Len(q) : q[i] = q[j] => i = j
  BY ListsFacts
<1> DEFINE n == Len(q)
<1>2. q \in Bijection(1 .. n, nodes)
  <2>1. q = [i \in 1 .. n |-> q[i]]
    BY <1>1
  <2>2. q \in [1 .. n -> nodes]
    BY <1>1, <2>1
  <2> QED
    BY <1>1, <2>2 DEF Bijection, Injection, Surjection, IsInjective
<1>3. n \in Nat
  BY <1>1
<1> HIDE DEF n
<1>4. IsFiniteSet(1 .. n) /\ Cardinality(1 .. n) = n
  BY <1>3, FS_Interval
<1>5. ExistsBijection(1 .. n, nodes)
  BY <1>2 DEF ExistsBijection
<1>6. Cardinality(nodes) = Cardinality(1 .. n)
  BY <1>4, <1>5, FS_Bijection
<1> QED
  BY <1>4, <1>6 DEF n

\* The trail of a course lists its nodes, each after what it depends on.
LEMMA TrailFacts ==
  ASSUME NEW l, IsCourse(l)
  PROVE  /\ Lists(Trail(l), l.nodes) /\ Preceded(Trusted(l.gates), Trail(l))
         /\ PartitionedInto(l, StepsOf(Legs(l)), Legs(l))
<1> DEFINE legs == Legs(l)
           E == Trusted(l.gates)
<1>1. PICK q : /\ Lists(q, l.nodes) /\ Preceded(E, q)
               /\ CutInto(q, 0, Len(q), legs)
               /\ q # <<>> => q[Len(q)] = Summit(l)
               /\ l.itemful \cap l.nodes # {} => \A k \in 1 .. Len(legs) : Itemful(l, legs[k]) # {}
  BY LegsCut
<1> HIDE DEF legs, E
<1>2. q \in Seq(Nat) /\ DOMAIN q = 1 .. Len(q) /\ Range(q) = l.nodes
  BY <1>1, ListsFacts DEF Lists
<1>3. /\ StepsOf(legs) = q
      /\ \A k \in DOMAIN legs : Last(legs[k].steps) = legs[k].milestone
      /\ legs # <<>> => q # <<>> /\ Last(legs).milestone = q[Len(q)]
  BY <1>1, <1>2, CutSteps
<1>4. Len(q) = Cardinality(l.nodes)
  BY <1>1, ListLength
<1>5. DOMAIN legs = 1 .. Len(legs)
  BY <1>1 DEF CutInto
<1>6. \A i \in DOMAIN q : Prerequisites(E, q[i]) \subseteq {q[j] : j \in 1 .. i - 1}
  BY <1>1, <1>2 DEF Preceded
<1>7. PartitionedInto(l, q, legs)
  BY <1>1, <1>2, <1>3, <1>4, <1>5, <1>6 DEF PartitionedInto, E
<1> QED
  BY <1>1, <1>3, <1>7 DEF Trail, legs, E

\* What no node of is its own ancestor has no node that is.
LEMMA AcyclicTurnsNone ==
  ASSUME NEW E, IsFiniteSet(E), Acyclic(E)
  PROVE  NoneTurns(E)
<1>1. \A n : Ancestors(E, n) \subseteq Ends(E)
  BY AncestorsFacts
<1> QED
  BY <1>1 DEF Acyclic, NoneTurns

\* A part of a graph no node of which precedes itself is another.
LEMMA PartsTurnNeither ==
  ASSUME NEW E, IsFiniteSet(E), NoneTurns(E), NEW D \in SUBSET E
  PROVE  NoneTurns(D)
<1>1. \A n : Ancestors(D, n) \subseteq Ancestors(E, n)
  BY AncestorsSteps
<1> QED
  BY <1>1 DEF NoneTurns

\* The floor leaves a course of a course.
LEMMA FloorIsACourse ==
  ASSUME NEW g, IsCourse(g)
  PROVE  IsCourse(ApplyDifficultyFloor(g))
<1> DEFINE l == ApplyDifficultyFloor(g)
           after == ContractedGates(g)
           T == Trusted(g.gates)
           A == Trusted(l.gates)
           F == Floored(g)
<1>1. IsLayer(g) /\ NoneTurns(T) /\ \A n \in g.nodes : g.band[n] \in Nat
  BY DEF IsCourse
<1>2. /\ Keeps(g.nodes, DOMAIN g.gates, T, F, after)
      /\ IsFiniteSet(T)
  <2>1. T \in SUBSET (DOMAIN g.gates) /\ IsFiniteSet(DOMAIN g.gates)
    BY <1>1, FloorFacts
  <2> HIDE DEF T
  <2>2. IsFiniteSet(T)
    BY <2>1, FS_Subset
  <2> QED
    BY <1>1, <2>2, FloorFacts DEF T
<1>3. IsLayer(l) /\ IsFiniteSet(DOMAIN l.gates) /\ l.nodes = g.nodes \ F
  BY <1>1, FloorIsALayer
<1>4. l.gates = after /\ l.band = g.band
  <2>1. "nodes" \in DOMAIN g /\ "gates" \in DOMAIN g /\ "band" \in DOMAIN g
    BY <1>1 DEF IsLayer
  <2>2. l = [g EXCEPT !.nodes = g.nodes \ F, !.gates = after]
    BY DEF ApplyDifficultyFloor
  <2> HIDE DEF l, after, F
  <2> QED
    BY <2>1, <2>2
<1>5. A = Trusted(after) /\ A \in SUBSET (DOMAIN after) /\ IsFiniteSet(DOMAIN after)
  BY <1>3, <1>4 DEF Trusted
<1>6. IsFiniteSet(A)
  <2> HIDE DEF A
  <2> QED
    BY <1>5, FS_Subset
<1> HIDE DEF l, after, F, T
<1>7. DOMAIN after \in SUBSET (g.nodes \X g.nodes)
  <2>1. after \in Gates(g.nodes)
    BY <1>2 DEF Keeps
  <2> QED
    BY <2>1, GatesFacts
<1>8. ASSUME NEW e \in A PROVE e[1] \in Ancestors(T, e[2])
  <2>1. e = <<e[1], e[2]>>
    BY <1>5, <1>7
  <2>2. <<e[1], e[2]>> \in Trusted(after) /\ <<e[1], e[2]>> \in DOMAIN after
    BY <1>5, <2>1
  <2>3. e[1] # e[2]
    BY <1>2, <2>2 DEF Keeps
  <2>4. \A u, v : u # v /\ <<u, v>> \in Trusted(after) => u \in Leads(T, F, v)
    BY <1>2 DEF Keeps
  <2>5. e[1] \in Leads(T, F, e[2])
    BY <2>2, <2>3, <2>4
  <2>6. {d \in T : d[2] = e[2] \/ d[2] \in F} \in SUBSET T
    OBVIOUS
  <2>7. Leads(T, F, e[2]) \subseteq Ancestors(T, e[2])
    BY <1>2, <2>6, AncestorsSteps DEF Leads
  <2> QED
    BY <2>5, <2>7
<1> HIDE DEF A
<1>9. ASSUME NEW n PROVE Ancestors(A, n) \subseteq Ancestors(T, n)
  <2>1. \A z \in Ancestors(T, n) : Ancestors(T, z) \subseteq Ancestors(T, n)
    BY <1>2, AncestorsSteps
  <2>2. Closes(A, n, Ancestors(T, n))
    BY <1>8, <2>1 DEF Closes
  <2> QED
    BY <1>6, <2>2, AncestorsFacts
<1>10. NoneTurns(A)
  BY <1>1, <1>9 DEF NoneTurns
<1>11. \A n \in l.nodes : l.band[n] \in Nat
  BY <1>1, <1>3, <1>4
<1> QED
  BY <1>3, <1>10, <1>11 DEF IsCourse, A, l

\* So does narrowing.
LEMMA NarrowedIsACourse ==
  ASSUME NEW l, IsCourse(l), NEW stops \in SUBSET l.nodes
  PROVE  IsCourse(Narrowed(l, stops)) /\ Narrowed(l, stops).nodes = stops
<1> DEFINE o == Narrowed(l, stops)
           W == Within(DOMAIN l.gates, stops)
           gates == [e \in W |-> l.gates[e]]
<1>1. /\ DOMAIN l = {"nodes", "gates", "band", "contested", "itemful"}
      /\ l.nodes \subseteq Nat /\ IsFiniteSet(l.nodes) /\ l.gates \in Gates(l.nodes)
      /\ \A n : <<n, n>> \notin DOMAIN l.gates
  BY DEF IsCourse, IsLayer
<1>2. DOMAIN l.gates \in SUBSET (l.nodes \X l.nodes) /\ l.gates \in [DOMAIN l.gates -> BOOLEAN]
  BY <1>1, GatesFacts
<1>3. W \in SUBSET (stops \X stops) /\ W \in SUBSET (DOMAIN l.gates)
  BY <1>2 DEF Within
<1>4. Restrict(l.gates, W) = gates
  <2>1. W \cap DOMAIN l.gates = W
    BY <1>3
  <2> QED
    BY <1>3, <2>1 DEF Restrict
<1>5. /\ DOMAIN o = DOMAIN l /\ o.nodes = stops /\ o.gates = gates /\ o.band = l.band
  <2>1. o = [l EXCEPT !.nodes = stops, !.gates = gates, !.itemful = stops]
    BY <1>4 DEF Narrowed
  <2> HIDE DEF o, gates
  <2> QED
    BY <1>1, <2>1
<1> HIDE DEF o
<1>6. gates \in Gates(stops)
  <2>1. DOMAIN gates = W /\ gates \in [W -> BOOLEAN]
    BY <1>2, <1>3
  <2> HIDE DEF gates, W
  <2> QED
    BY <1>3, <2>1, GatesFacts
<1>7. \A n : <<n, n>> \notin DOMAIN gates
  BY <1>1, <1>3
<1>8. Trusted(gates) \in SUBSET Trusted(l.gates)
  BY <1>3 DEF Trusted
<1> HIDE DEF gates
<1>9. NoneTurns(Trusted(gates))
  BY <1>8, CourseFacts, PartsTurnNeither
<1>10. IsFiniteSet(stops) /\ stops \subseteq Nat
  BY <1>1, FS_Subset
<1>11. \A n \in stops : l.band[n] \in Nat
  BY DEF IsCourse
<1>12. IsLayer(o)
  BY <1>1, <1>5, <1>6, <1>7, <1>10 DEF IsLayer
<1> QED
  BY <1>5, <1>9, <1>11, <1>12 DEF IsCourse, o

-----------------------------------------------------------------------------
(* What a session is composed over. *)

\* The layer is a course, and the option selects of its nodes are listed.
CourseInv ==
  /\ IsCourse(graph)
  /\ \A n \in graph.nodes : assets[n].options \in Seq(BOOLEAN)

\* A case is a course.
LEMMA CasesAreCourses ==
  ASSUME NEW c \in Cases
  PROVE  IsCourse(c.graph) /\ \A n \in c.graph.nodes : c.assets[n].options \in Seq(BOOLEAN)
<1> DEFINE g == c.graph
           T == Trusted(g.gates)
<1>1. /\ IsLayer(g) /\ Acyclic(T)
      /\ \A n \in g.nodes : g.band[n] \in Nat /\ c.assets[n].options \in Seq(BOOLEAN)
  BY CasesFacts, CasesAreLayers
<1>2. T \in SUBSET (DOMAIN g.gates) /\ IsFiniteSet(DOMAIN g.gates)
  BY <1>1, FloorFacts
<1> HIDE DEF g, T
<1>3. NoneTurns(T)
  BY <1>1, <1>2, FS_Subset, AcyclicTurnsNone
<1> QED
  BY <1>1, <1>3 DEF IsCourse, g, T

\* It stays so, as no step changes a layer or its assets.
LEMMA SessionStaysACourse == CourseInv /\ [SessionNext]_sessionVars => CourseInv'
<1>1. [SessionNext]_sessionVars => UNCHANGED <<graph, assets>>
  BY DEF SessionNext, Qualify, RecordVerdict, RecordLessonRead, GradeResponse, sessionVars
<1> QED
  BY <1>1 DEF CourseInv

\* In every reachable state a session is over a course.
THEOREM SessionsAreOverCourses == SessionSpec => []CourseInv
<1>1. SessionInit => CourseInv
  BY CasesAreCourses DEF SessionInit, CourseInv
<1> QED
  BY <1>1, SessionStaysACourse, PTL DEF SessionSpec

\* An offer is a course of stops each of which is ready.
LEMMA OfferFacts ==
  ASSUME SessionInv, CourseInv, Open
  PROVE  IsCourse(offer) /\ offer.nodes \in SUBSET Ready
<1> DEFINE l == ApplyDifficultyFloor(graph)
           stops == GreatestReady(l, Ready)
<1>1. IsCourse(l)
  BY FloorIsACourse DEF CourseInv
<1>2. offer = Narrowed(l, stops)
  BY DEF SessionInv
<1>3. IsFiniteSet(l.nodes)
  BY <1>1 DEF IsCourse, IsLayer
<1> HIDE DEF l
<1>4. stops = UNION {s \in SUBSET (l.nodes \cap Ready) : Stands(Trusted(l.gates), s)}
  BY <1>3, GreatestReadyFacts
<1> HIDE DEF stops
<1>5. stops \in SUBSET l.nodes /\ stops \in SUBSET Ready
  BY <1>4
<1>6. IsCourse(Narrowed(l, stops)) /\ Narrowed(l, stops).nodes = stops
  BY <1>1, <1>5, NarrowedIsACourse
<1> QED
  BY <1>2, <1>5, <1>6

(* For any layer, and for the part of it a session offers, the Legs partition *)
(* the trail: each stop is on exactly one Leg, after all that must precede    *)
(* it, each Leg ends on its milestone, the last one's is the summit, and each *)
(* has an item when any stop has (expeditionSections.ts).                     *)
THEOREM TheLegsPartition == SessionSpec => []LegsPartitionTheTrail
<1>1. SessionInv /\ CourseInv => LegsPartitionTheTrail
  <2> SUFFICES ASSUME SessionInv, CourseInv PROVE LegsPartitionTheTrail
    OBVIOUS
  <2> DEFINE l == IF Open THEN offer ELSE ApplyDifficultyFloor(graph)
  <2>1. IsCourse(l)
    BY OfferFacts, FloorIsACourse DEF CourseInv
  <2>2. PartitionedInto(l, StepsOf(Legs(l)), Legs(l))
    <3> HIDE DEF l
    <3> QED
      BY <2>1, TrailFacts
  <2> QED
    BY <2>2 DEF LegsPartitionTheTrail
<1> QED
  BY <1>1, SessionInvariant, SessionsAreOverCourses, PTL

-----------------------------------------------------------------------------
(* The stops along a trail. *)

\* The list x lies in the list q from after base on.
Lies(q, x, base) ==
  /\ base \in Nat
  /\ \A r \in 1 .. Len(x) : base + r \in 1 .. Len(q) /\ q[base + r] = x[r]

\* In what is joined each list lies, and nothing else does.
LEMMA JoinedLie ==
  ASSUME NEW X, NEW a, a \in Seq(X), NEW b, b \in Seq(X)
  PROVE  /\ a \o b \in Seq(X)
         /\ Lies(a \o b, b, Len(a))
         /\ \A x, base : Lies(a, x, base) => Lies(a \o b, x, base)
         /\ \A p \in 1 .. Len(a \o b) : p \in 1 .. Len(a) \/ p - Len(a) \in 1 .. Len(b)
<1> DEFINE c == a \o b
<1>1. /\ c \in Seq(X) /\ Len(c) = Len(a) + Len(b) /\ Len(a) \in Nat /\ Len(b) \in Nat
      /\ \A i \in 1 .. Len(a) : c[i] = a[i]
      /\ \A i \in 1 .. Len(b) : c[Len(a) + i] = b[i]
  OBVIOUS
<1> HIDE DEF c
<1>2. Lies(c, b, Len(a))
  <2>1. ASSUME NEW r \in 1 .. Len(b) PROVE Len(a) + r \in 1 .. Len(c) /\ c[Len(a) + r] = b[r]
    BY <1>1
  <2> QED
    BY <1>1, <2>1 DEF Lies
<1>3. ASSUME NEW x, NEW base, Lies(a, x, base) PROVE Lies(c, x, base)
  <2>1. ASSUME NEW r \in 1 .. Len(x) PROVE base + r \in 1 .. Len(c) /\ c[base + r] = x[r]
    <3>1. base + r \in 1 .. Len(a) /\ a[base + r] = x[r]
      BY <1>3 DEF Lies
    <3> DEFINE k == base + r
    <3>2. k \in 1 .. Len(a) /\ a[k] = x[r]
      BY <3>1
    <3> HIDE DEF k
    <3>3. k \in 1 .. Len(c) /\ c[k] = x[r]
      BY <1>1, <3>2
    <3> QED
      BY <3>3 DEF k
  <2> QED
    BY <1>3, <2>1 DEF Lies
<1>4. \A p \in 1 .. Len(c) : p \in 1 .. Len(a) \/ p - Len(a) \in 1 .. Len(b)
  BY <1>1
<1> QED
  BY <1>1, <1>2, <1>3, <1>4 DEF c

\* The first k lists lie in q, and each place of q is in one of them.
Strung(lists, k, q) ==
  /\ \A j \in 1 .. k : \E base : Lies(q, lists[j], base)
  /\ \A p \in 1 .. Len(q) : \E j \in 1 .. k, base \in Nat :
       Lies(q, lists[j], base) /\ p - base \in 1 .. Len(lists[j])

\* Flattened, lists are strung.
LEMMA FlattenStrings ==
  ASSUME NEW X, NEW lists, NEW n \in Nat, Len(lists) = n, \A j \in 1 .. n : lists[j] \in Seq(X)
  PROVE  n # 0 => FlattenSeq(lists) \in Seq(X) /\ Strung(lists, n, FlattenSeq(lists))
<1> SUFFICES ASSUME n # 0 PROVE FlattenSeq(lists) \in Seq(X) /\ Strung(lists, n, FlattenSeq(lists))
  OBVIOUS
<1>1. PICK g : /\ \A i \in 1 .. n : g[i] = IF i = 1 THEN lists[i] ELSE g[i - 1] \o lists[i]
               /\ FlattenSeq(lists) = g[n]
  BY FlattenJoins
<1> DEFINE Good(m) == g[m] \in Seq(X) /\ Strung(lists, m, g[m])
           Odd == {m \in 1 .. n : ~ Good(m)}
<1>2. ASSUME Odd # {} PROVE FALSE
  <2>1. PICK m \in Odd : \A k \in Odd : m <= k
    <3>1. Odd \in SUBSET Nat
      OBVIOUS
    <3> HIDE DEF Odd
    <3> QED
      BY <1>2, <3>1, LeastNatural
  <2>2. m \in 1 .. n /\ m \in Nat /\ lists[m] \in Seq(X) /\ ~ Good(m)
    OBVIOUS
  <2>3. CASE m = 1
    <3> DEFINE q == lists[1]
    <3>1. g[m] = q /\ q \in Seq(X) /\ Len(q) \in Nat
      BY <1>1, <2>2, <2>3
    <3> HIDE DEF q
    <3>2. Lies(q, q, 0) /\ \A p \in 1 .. Len(q) : p - 0 \in 1 .. Len(q)
      BY <3>1 DEF Lies
    <3>3. Strung(lists, 1, q)
      <4>1. ASSUME NEW j \in 1 .. 1 PROVE Lies(q, lists[j], 0)
        BY <3>2 DEF q
      <4>2. ASSUME NEW p \in 1 .. Len(q) PROVE Lies(q, lists[1], 0) /\ p - 0 \in 1 .. Len(lists[1])
        BY <3>2 DEF q
      <4>3. 1 \in 1 .. 1 /\ 0 \in Nat
        OBVIOUS
      <4> QED
        BY <4>1, <4>2, <4>3 DEF Strung
    <3> QED
      BY <2>2, <2>3, <3>1, <3>3
  <2>4. CASE m # 1
    <3> DEFINE a == g[m - 1]
               b == lists[m]
               c == a \o b
    <3>1. m - 1 \in 1 .. n /\ m - 1 \notin Odd /\ m - 1 \in Nat
      <4>1. m - 1 \in 1 .. n /\ ~ (m <= m - 1)
        BY <2>2, <2>4
      <4> QED
        BY <2>1, <4>1
    <3>2. a \in Seq(X) /\ Strung(lists, m - 1, a)
      BY <3>1
    <3>3. g[m] = c /\ b \in Seq(X) /\ Len(a) \in Nat
      <4>1. g[m] = c
        BY <1>1, <2>2, <2>4
      <4>2. b \in Seq(X)
        BY <2>2
      <4> HIDE DEF a
      <4>3. Len(a) \in Nat
        BY <3>2
      <4> QED
        BY <4>1, <4>2, <4>3
    <3> HIDE DEF a, b
    <3>4. /\ c \in Seq(X) /\ Lies(c, b, Len(a))
          /\ \A x, base : Lies(a, x, base) => Lies(c, x, base)
          /\ \A p \in 1 .. Len(c) : p \in 1 .. Len(a) \/ p - Len(a) \in 1 .. Len(b)
      BY <3>2, <3>3, JoinedLie
    <3> HIDE DEF c
    <3>5. ASSUME NEW j \in 1 .. m PROVE \E base : Lies(c, lists[j], base)
      <4>1. CASE j = m
        BY <3>4, <4>1 DEF b
      <4>2. CASE j # m
        <5>1. j \in 1 .. m - 1
          BY <2>2, <4>2
        <5> QED
          BY <3>2, <3>4, <5>1 DEF Strung
      <4> QED
        BY <4>1, <4>2
    <3>6. ASSUME NEW p \in 1 .. Len(c)
          PROVE  \E j \in 1 .. m, base \in Nat : Lies(c, lists[j], base) /\ p - base \in 1 .. Len(lists[j])
      <4>1. CASE p \in 1 .. Len(a)
        <5>1. PICK j \in 1 .. m - 1, base \in Nat : Lies(a, lists[j], base) /\ p - base \in 1 .. Len(lists[j])
          BY <3>2, <4>1 DEF Strung
        <5>2. j \in 1 .. m
          BY <2>2
        <5> QED
          BY <3>4, <5>1, <5>2
      <4>2. CASE p - Len(a) \in 1 .. Len(b)
        <5>1. m \in 1 .. m
          BY <2>2
        <5> QED
          BY <3>3, <3>4, <4>2, <5>1 DEF b
      <4> QED
        BY <3>4, <4>1, <4>2
    <3>7. Strung(lists, m, c)
      BY <3>5, <3>6 DEF Strung
    <3> QED
      BY <2>2, <3>3, <3>4, <3>7
  <2> QED
    BY <2>3, <2>4
<1>3. n \in 1 .. n
  OBVIOUS
<1>4. Good(n)
  BY <1>2, <1>3
<1> QED
  BY <1>1, <1>4

\* c is a and then b.
Chained(X, a, b, c) ==
  /\ c \in Seq(X) /\ Len(c) = Len(a) + Len(b)
  /\ \A i \in 1 .. Len(a) : c[i] = a[i]
  /\ \A i \in 1 .. Len(b) : c[Len(a) + i] = b[i]

\* Two lists one after the other.
LEMMA Concatenated ==
  ASSUME NEW X, NEW a, a \in Seq(X), NEW b, b \in Seq(X)
  PROVE  Chained(X, a, b, a \o b)
BY DEF Chained

\* The lesson of n.
Lesson(n) == [node |-> n, kind |-> "theory"]

\* The exercise with the j-th option select of n.
Exercise(n, j) == [node |-> n, kind |-> "item", item |-> j]

\* The gem of n.
Gem(n) == [node |-> n, kind |-> "capstone"]

\* All of them.
Stop == {Lesson(n) : n \in Nat} \cup {Exercise(n, j) : n \in Nat, j \in Nat} \cup {Gem(n) : n \in Nat}

\* A node has a lesson, an exercise for each of its items, and last the gem.
LEMMA StopsFacts ==
  ASSUME NEW n \in Nat, assets[n].options \in Seq(BOOLEAN)
  PROVE  /\ Stops(n) \in Seq(Stop) /\ Len(Stops(n)) \in Nat /\ Len(Stops(n)) \in 1 .. Len(Stops(n))
         /\ \A r \in 1 .. Len(Stops(n)) :
              /\ Stops(n)[r].node = n
              /\ Stops(n)[r].kind \in {"theory", "item", "capstone"}
              /\ Stops(n)[r].kind = "capstone" => r = Len(Stops(n))
         /\ Stops(n)[Len(Stops(n))].kind = "capstone"
         /\ \E r \in 1 .. Len(Stops(n)) : Stops(n)[r].kind = "theory"
         /\ \A i \in Items(n) : \E r \in 1 .. Len(Stops(n)) :
              Stops(n)[r].kind = "item" /\ <<n, Stops(n)[r].item>> = i
<1> DEFINE o == assets[n].options
           J == {j \in DOMAIN o : o[j]}
           q == Sorted(J, <)
           c == Len(q)
           mid == [i \in 1 .. c |-> Exercise(n, q[i])]
           pair == [j \in J |-> <<n, j>>]
<1>1. J \in SUBSET Nat /\ IsFiniteSet(J)
  <2> DEFINE m == Len(o)
  <2>1. DOMAIN o = 1 .. m /\ m \in Nat
    OBVIOUS
  <2>2. J \in SUBSET (1 .. m)
    BY <2>1
  <2> HIDE DEF m, J
  <2>3. IsFiniteSet(1 .. m)
    BY <2>1, FS_Interval
  <2>4. J \in SUBSET Nat
    BY <2>1, <2>2
  <2> HIDE DEF q, c, mid, pair
  <2>5. IsFiniteSet(J)
    BY <2>2, <2>3, FS_Subset
  <2> QED
    BY <2>4, <2>5
<1>2. Items(n) = {<<n, j>> : j \in J}
  BY DEF Items
<1>3. {j[2] : j \in Items(n)} = J
  <2> HIDE DEF J
  <2>1. \A j \in J : <<n, j>> \in Items(n) /\ <<n, j>>[2] = j
    BY <1>2
  <2>2. ASSUME NEW i \in Items(n) PROVE i[2] \in J
    BY <1>2
  <2> QED
    BY <2>1, <2>2
<1> HIDE DEF J
<1>4. Lists(q, J) /\ c = Cardinality(J)
  BY <1>1, SortedRises, ListLength
<1>5. q \in Seq(Nat) /\ c \in Nat /\ J = {q[i] : i \in 1 .. c} /\ \A i \in 1 .. c : q[i] \in Nat
  <2>1. q \in Seq(Nat) /\ c \in Nat /\ J = {q[i] : i \in 1 .. c}
    BY <1>4, ListsFacts
  <2> HIDE DEF q
  <2> QED
    BY <2>1
<1>6. Cardinality(Items(n)) = c
  <2>1. pair \in Bijection(J, Items(n))
    BY <1>2 DEF Bijection, Injection, Surjection, IsInjective
  <2>2. ExistsBijection(J, Items(n))
    BY <2>1 DEF ExistsBijection
  <2> QED
    BY <1>1, <1>4, <2>2, FS_Bijection
<1> DEFINE L == <<Lesson(n)>>
           G == <<Gem(n)>>
           S == Stops(n)
<1>7. S = (L \o mid) \o G
  BY <1>3, <1>6 DEF Stops, Lesson, Exercise, Gem
<1> HIDE DEF q, c
<1>8. mid \in Seq(Stop) /\ Len(mid) = c /\ \A i \in 1 .. c : mid[i] = Exercise(n, q[i])
  <2>1. \A i \in 1 .. c : Exercise(n, q[i]) \in Stop
    BY <1>5 DEF Stop
  <2> QED
    BY <1>5, <2>1
<1>9. /\ L \in Seq(Stop) /\ Len(L) = 1 /\ L[1] = Lesson(n)
      /\ G \in Seq(Stop) /\ Len(G) = 1 /\ G[1] = Gem(n)
  <2>1. Lesson(n) \in Stop /\ Gem(n) \in Stop
    BY DEF Stop
  <2> QED
    BY <2>1
<1> HIDE DEF mid, L, G, S
<1>10. /\ S \in Seq(Stop) /\ Len(S) = c + 2
       /\ S[1] = Lesson(n) /\ S[c + 2] = Gem(n)
       /\ \A i \in 1 .. c : S[1 + i] = Exercise(n, q[i])
  <2> DEFINE LM == L \o mid
  <2>1. /\ LM \in Seq(Stop) /\ Len(LM) = 1 + c
        /\ \A i \in 1 .. 1 : LM[i] = L[i]
        /\ \A i \in 1 .. c : LM[1 + i] = mid[i]
    <3>1. Chained(Stop, L, mid, LM)
      BY <1>8, <1>9, Concatenated
    <3> HIDE DEF LM
    <3> QED
      BY <1>8, <1>9, <3>1 DEF Chained
  <2>2. S = LM \o G
    BY <1>7
  <2> HIDE DEF LM
  <2>3. /\ S \in Seq(Stop) /\ Len(S) = (1 + c) + 1
        /\ \A i \in 1 .. 1 + c : S[i] = LM[i]
        /\ \A i \in 1 .. 1 : S[(1 + c) + i] = G[i]
    <3>1. Chained(Stop, LM, G, S)
      BY <1>9, <2>1, <2>2, Concatenated
    <3> QED
      BY <1>9, <2>1, <3>1 DEF Chained
  <2>4. /\ (1 + c) + 1 = c + 2 /\ 1 \in 1 .. 1 + c /\ 1 \in 1 .. 1
        /\ \A i \in 1 .. c : 1 + i \in 1 .. 1 + c
    BY <1>5
  <2>5. S[1] = Lesson(n)
    BY <1>9, <2>1, <2>3, <2>4
  <2>6. S[c + 2] = Gem(n)
    BY <1>9, <2>3, <2>4
  <2>7. \A i \in 1 .. c : S[1 + i] = Exercise(n, q[i])
    BY <1>8, <2>1, <2>3, <2>4
  <2> QED
    BY <2>3, <2>4, <2>5, <2>6, <2>7
<1> DEFINE e == c + 2
<1>11. \A r \in 1 .. e : r = 1 \/ r = e \/ (r - 1 \in 1 .. c /\ r = 1 + (r - 1))
  BY <1>5
<1>12. 1 \in 1 .. e /\ e \in 1 .. e /\ e \in Nat /\ \A i \in 1 .. c : 1 + i \in 1 .. e
  BY <1>5
<1>13. S \in Seq(Stop) /\ Len(S) = e /\ S[1] = Lesson(n) /\ S[e] = Gem(n)
  BY <1>10
<1> HIDE DEF e
<1> DEFINE Described(r) == /\ S[r].node = n
                           /\ S[r].kind \in {"theory", "item", "capstone"}
                           /\ S[r].kind = "capstone" => r = e
<1>14. \A r \in 1 .. e : Described(r)
  <2> SUFFICES ASSUME NEW r \in 1 .. e
               PROVE  Described(r)
    OBVIOUS
  <2>1. CASE r = 1
    BY <1>13, <2>1 DEF Lesson
  <2>2. CASE r = e
    BY <1>13, <2>2 DEF Gem
  <2>3. CASE r - 1 \in 1 .. c /\ r = 1 + (r - 1)
    <3>1. S[r] = Exercise(n, q[r - 1])
      BY <1>10, <2>3
    <3> QED
      BY <3>1 DEF Exercise
  <2> QED
    BY <1>11, <2>1, <2>2, <2>3
<1>15. S[e].kind = "capstone" /\ S[1].kind = "theory"
  BY <1>13 DEF Lesson, Gem
<1>16. ASSUME NEW i \in Items(n)
       PROVE  \E r \in 1 .. e : S[r].kind = "item" /\ <<n, S[r].item>> = i
  <2>1. PICK j \in J : i = <<n, j>>
    BY <1>2
  <2>2. PICK k \in 1 .. c : q[k] = j
    BY <1>5
  <2>3. S[1 + k] = Exercise(n, j)
    BY <1>10, <2>2
  <2>4. S[1 + k].kind = "item" /\ S[1 + k].item = j
    BY <2>3 DEF Exercise
  <2> QED
    BY <1>12, <2>1, <2>4
<1>17. /\ S \in Seq(Stop) /\ Len(S) = e /\ e \in Nat /\ e \in 1 .. e
       /\ \A r \in 1 .. e : Described(r)
       /\ S[e].kind = "capstone"
       /\ \E r \in 1 .. e : S[r].kind = "theory"
       /\ \A i \in Items(n) : \E r \in 1 .. e : S[r].kind = "item" /\ <<n, S[r].item>> = i
  <2>1. S \in Seq(Stop) /\ Len(S) = e /\ e \in Nat /\ e \in 1 .. e
    BY <1>13, <1>12
  <2>2. \A r \in 1 .. e : Described(r)
    BY <1>14
  <2>3. S[e].kind = "capstone"
    BY <1>15
  <2>4. \E r \in 1 .. e : S[r].kind = "theory"
    BY <1>12, <1>15
  <2>5. \A i \in Items(n) : \E r \in 1 .. e : S[r].kind = "item" /\ <<n, S[r].item>> = i
    BY <1>16
  <2> QED
    BY <2>1, <2>2, <2>3, <2>4, <2>5
<1> QED
  BY <1>17 DEF S

\* A stop is done by its own evidence.
Done(stop, state) ==
  CASE stop.kind = "capstone" -> state[stop.node] = "mastered"
    [] stop.kind = "theory" -> stop.node \in read
    [] stop.kind = "item" -> latest[<<stop.node, stop.item>>] = "correct"

\* The places of the stops that can be played.
ToPlay(stops, state) == {i \in DOMAIN stops : state[stops[i].node] # "locked" /\ ~ Done(stops[i], state)}

\* The first stop to play is at the least of these places.
LEMMA HeadIsLeast ==
  ASSUME NEW X, NEW stops, stops \in Seq(X), NEW state
  PROVE  LET playable == PlayableOf(stops, state)
         IN  /\ playable = <<>> => ToPlay(stops, state) = {}
             /\ playable # <<>> =>
                  \E p \in ToPlay(stops, state) :
                    Head(playable) = stops[p] /\ \A i \in ToPlay(stops, state) : p <= i
<1> DEFINE P == ToPlay(stops, state)
           places == Sorted(P, <)
           playable == PlayableOf(stops, state)
           n == Len(stops)
           m == Len(places)
<1>1. DOMAIN stops = 1 .. n /\ n \in Nat /\ P \in SUBSET (1 .. n)
  BY DEF ToPlay
<1>2. playable = [k \in DOMAIN places |-> stops[places[k]]]
  BY DEF PlayableOf, ToPlay, Done
<1> HIDE DEF P, n, playable
<1>3. IsFiniteSet(P) /\ P \in SUBSET Nat
  <2>1. IsFiniteSet(1 .. n)
    BY <1>1, FS_Interval
  <2>2. IsFiniteSet(P)
    BY <1>1, <2>1, FS_Subset
  <2> QED
    BY <1>1, <2>2
<1>4. Lists(places, P) /\ \A i, j \in 1 .. m : i < j => places[i] < places[j]
  BY <1>3, SortedRises
<1>5. m \in Nat /\ DOMAIN places = 1 .. m /\ P = {places[k] : k \in 1 .. m}
  BY <1>4, ListsFacts
<1> HIDE DEF places, m
<1>6. ASSUME playable = <<>> PROVE P = {}
  <2>1. 1 .. m = {}
    BY <1>2, <1>5, <1>6
  <2> QED
    BY <1>5, <2>1
<1>7. ASSUME playable # <<>>
      PROVE  \E p \in P : Head(playable) = stops[p] /\ \A i \in P : p <= i
  <2>1. m # 0
    <3> SUFFICES ASSUME m = 0 PROVE FALSE
      OBVIOUS
    <3>1. DOMAIN places = {}
      BY <1>5
    <3>2. playable = <<>>
      BY <1>2, <3>1
    <3> QED
      BY <1>7, <3>2
  <2>2. 1 \in 1 .. m /\ places[1] \in P
    BY <1>5, <2>1
  <2>3. Head(playable) = stops[places[1]]
    BY <1>2, <1>5, <2>2
  <2>4. ASSUME NEW i \in P PROVE places[1] <= i
    <3>1. PICK k \in 1 .. m : i = places[k]
      BY <1>5
    <3>2. CASE k = 1
      BY <1>3, <3>1, <3>2
    <3>3. CASE k # 1
      <4>1. 1 < k
        BY <1>5, <3>3
      <4>2. places[1] < places[k]
        BY <1>4, <2>2, <4>1
      <4>3. places[1] \in Nat /\ i \in Nat
        BY <1>3, <2>2
      <4> QED
        BY <3>1, <4>2, <4>3
    <3> QED
      BY <3>2, <3>3
  <2> QED
    BY <2>2, <2>3, <2>4
<1> QED
  BY <1>6, <1>7 DEF P, playable

\* A concept on the frontier has something to do but the gem.
LEMMA FrontierHasWork ==
  ASSUME NEW m \in offer.nodes, m \in Nat, assets[m].options \in Seq(BOOLEAN), m \notin Mastered, NEW state
  PROVE  \E r \in 1 .. Len(Stops(m)) : Stops(m)[r].kind # "capstone" /\ ~ Done(Stops(m)[r], state)
<1> DEFINE S == Stops(m)
<1>1. /\ \A r \in 1 .. Len(S) : S[r].node = m
      /\ \E r \in 1 .. Len(S) : S[r].kind = "theory"
      /\ \A i \in Items(m) : \E r \in 1 .. Len(S) : S[r].kind = "item" /\ <<m, S[r].item>> = i
  BY StopsFacts
<1>2. m \notin read \/ \E i \in Items(m) : latest[i] # "correct"
  BY DEF Mastered, NodeIsComplete
<1> HIDE DEF S
<1>3. CASE m \notin read
  <2>1. PICK r \in 1 .. Len(S) : S[r].kind = "theory" /\ S[r].node = m
    BY <1>1
  <2>2. ~ Done(S[r], state)
    BY <1>3, <2>1 DEF Done
  <2> QED
    BY <2>1, <2>2 DEF S
<1>4. ASSUME NEW i \in Items(m), latest[i] # "correct"
      PROVE  \E r \in 1 .. Len(S) : S[r].kind # "capstone" /\ ~ Done(S[r], state)
  <2>1. PICK r \in 1 .. Len(S) : S[r].kind = "item" /\ <<m, S[r].item>> = i /\ S[r].node = m
    BY <1>1
  <2>2. ~ Done(S[r], state)
    BY <1>4, <2>1 DEF Done
  <2> QED
    BY <2>1, <2>2
<1> QED
  BY <1>2, <1>3, <1>4 DEF S

\* While a concept is not mastered, what is first to play is no gem.
LEMMA ProgressIsMade ==
  ASSUME SessionInv, CourseInv, Open, ~ (offer.nodes \subseteq Mastered)
  PROVE  Playable # <<>> /\ Head(Playable).kind # "capstone"
<1> DEFINE q == Trail(offer)
           n == Len(q)
           T == Trusted(offer.gates)
           state == NodeState
           lists == [i \in DOMAIN q |-> Stops(q[i])]
           flat == StopsAlong(q)
           P == ToPlay(flat, state)
           playable == Playable
<1>1. IsCourse(offer) /\ offer.nodes \in SUBSET Ready
  BY OfferFacts
<1>2. Lists(q, offer.nodes) /\ Preceded(T, q)
  BY <1>1, TrailFacts
<1>3. \A m \in offer.nodes : m \in Nat /\ assets[m].options \in Seq(BOOLEAN)
  <2>1. \A m \in offer.nodes : m \in Nat
    BY <1>1 DEF IsCourse, IsLayer
  <2>2. ApplyDifficultyFloor(graph).nodes \subseteq graph.nodes
    <3>1. ApplyDifficultyFloor(graph).nodes = graph.nodes \ Floored(graph)
      BY FloorIsALayer DEF SessionInv
    <3> QED
      BY <3>1
  <2>3. offer.nodes \subseteq graph.nodes
    BY <1>1, <2>2 DEF Ready
  <2> QED
    BY <2>1, <2>3 DEF CourseInv
<1>4. \A m \in offer.nodes :
        /\ m \in Mastered => state[m] = "mastered"
        /\ m \notin Mastered /\ Prerequisites(T, m) \subseteq Mastered => state[m] = "frontier"
        /\ m \notin Mastered /\ state[m] # "locked" => state[m] = "frontier"
  BY DEF NodeState
<1>5. /\ n \in Nat /\ DOMAIN q = 1 .. n /\ offer.nodes = {q[i] : i \in 1 .. n}
  BY <1>2, ListsFacts
<1> HIDE DEF q, n, T, state
<1>6. /\ Len(lists) = n /\ \A i \in 1 .. n : lists[i] = Stops(q[i])
      /\ flat = FlattenSeq(lists)
  BY <1>5 DEF StopsAlong
<1>7. playable = PlayableOf(flat, state)
  BY DEF Playable, q, state
<1> HIDE DEF lists, flat, playable
<1>8. \A i \in 1 .. n : q[i] \in offer.nodes /\ q[i] \in Nat /\ assets[q[i]].options \in Seq(BOOLEAN)
  BY <1>3, <1>5
<1>9. flat \in Seq(Stop) /\ Strung(lists, n, flat)
  <2>1. \A i \in 1 .. n : lists[i] \in Seq(Stop)
    BY <1>6, <1>8, StopsFacts
  <2>2. n # 0
    BY <1>5
  <2> QED
    BY <1>5, <1>6, <2>1, <2>2, FlattenStrings
\* A list that lies along the trail, of a concept on the frontier, has work to play.
<1>10. ASSUME NEW j \in 1 .. n, NEW base, Lies(flat, lists[j], base), q[j] \notin Mastered, state[q[j]] = "frontier"
       PROVE  \E r \in 1 .. Len(lists[j]) : lists[j][r].kind # "capstone" /\ base + r \in P
  <2>1. PICK r \in 1 .. Len(lists[j]) : lists[j][r].kind # "capstone" /\ ~ Done(lists[j][r], state)
    BY <1>6, <1>8, <1>10, FrontierHasWork
  <2>2. base + r \in 1 .. Len(flat) /\ flat[base + r] = lists[j][r]
    BY <1>10 DEF Lies
  <2>3. lists[j][r].node = q[j]
    BY <1>6, <1>8, StopsFacts
  <2>4. DOMAIN flat = 1 .. Len(flat)
    BY <1>9
  <2>5. base + r \in P
    BY <1>10, <2>1, <2>2, <2>3, <2>4 DEF ToPlay
  <2> QED
    BY <2>1, <2>5
<1>11. P # {}
  <2> DEFINE Left == {i \in 1 .. n : q[i] \notin Mastered}
  <2>1. Left # {} /\ Left \in SUBSET Nat
    BY <1>5
  <2>2. PICK i \in Left : \A k \in Left : i <= k
    <3> HIDE DEF Left
    <3> QED
      BY <2>1, LeastNatural
  <2>3. i \in 1 .. n /\ q[i] \notin Mastered
    OBVIOUS
  <2>4. \A k \in 1 .. i - 1 : q[k] \in Mastered
    <3> SUFFICES ASSUME NEW k \in 1 .. i - 1 PROVE q[k] \in Mastered
      OBVIOUS
    <3>1. k \in 1 .. n /\ ~ (i <= k)
      BY <1>5, <2>3
    <3> QED
      BY <2>2, <3>1
  <2>5. Prerequisites(T, q[i]) \subseteq {q[k] : k \in 1 .. i - 1}
    BY <1>2, <2>3 DEF Preceded, n
  <2>6. Prerequisites(T, q[i]) \subseteq Mastered
    BY <2>4, <2>5
  <2>7. state[q[i]] = "frontier"
    BY <1>4, <1>8, <2>3, <2>6
  <2>8. PICK base : Lies(flat, lists[i], base)
    BY <1>9, <2>3 DEF Strung
  <2> QED
    BY <1>10, <2>3, <2>7, <2>8
<1>12. /\ playable = <<>> => P = {}
       /\ playable # <<>> => \E p \in P : Head(playable) = flat[p] /\ \A i \in P : p <= i
  BY <1>7, <1>9, HeadIsLeast
<1>13. PICK p \in P : Head(playable) = flat[p] /\ \A i \in P : p <= i
  BY <1>11, <1>12
<1>14. p \in 1 .. Len(flat) /\ state[flat[p].node] # "locked" /\ ~ Done(flat[p], state)
  BY <1>9 DEF ToPlay
<1>15. ASSUME flat[p].kind = "capstone" PROVE FALSE
  <2>1. PICK j \in 1 .. n, base \in Nat : Lies(flat, lists[j], base) /\ p - base \in 1 .. Len(lists[j])
    BY <1>9, <1>14 DEF Strung
  <2> DEFINE r == p - base
             S == lists[j]
             m == q[j]
  <2>2. r \in 1 .. Len(S) /\ base + r = p /\ r \in Nat
    BY <1>14, <2>1
  <2>3. flat[p] = S[r]
    BY <2>1, <2>2 DEF Lies
  <2>4. S[r].node = m /\ r = Len(S)
    <3>1. \A x \in 1 .. Len(Stops(m)) :
            Stops(m)[x].node = m /\ (Stops(m)[x].kind = "capstone" => x = Len(Stops(m)))
      BY <1>8, <2>1, StopsFacts
    <3>2. S = Stops(m)
      BY <1>6, <2>1
    <3> HIDE DEF S, r, m
    <3>3. S[r].kind = "capstone"
      BY <1>15, <2>3
    <3> QED
      BY <2>2, <3>1, <3>2, <3>3
  <2>5. state[m] # "locked" /\ state[m] # "mastered"
    BY <1>14, <1>15, <2>3, <2>4 DEF Done
  <2>6. m \notin Mastered /\ state[m] = "frontier"
    BY <1>4, <1>8, <2>5
  <2>7. PICK t \in 1 .. Len(S) : S[t].kind # "capstone" /\ base + t \in P
    BY <1>10, <2>1, <2>6
  <2>8. t # r /\ t < r
    <3>1. t # r
      BY <1>15, <2>3, <2>7
    <3> QED
      BY <2>2, <2>4, <3>1
  <2>9. base + t < p
    BY <2>1, <2>2, <2>8
  <2>10. p <= base + t
    BY <1>13, <2>7
  <2> QED
    BY <1>14, <2>1, <2>9, <2>10
<1> QED
  BY <1>11, <1>12, <1>13, <1>15 DEF playable

(* For any qualified trail and any learner: while a concept is not mastered   *)
(* the marker stands on a lesson to read or an item to answer                 *)
(* (studySessionTrail.ts).                                                    *)
THEOREM TheMarkerMovesOn == SessionSpec => []NextStopMakesProgress
<1>1. SessionInv /\ CourseInv => NextStopMakesProgress
  BY ProgressIsMade DEF NextStopMakesProgress, NextStop
<1> QED
  BY <1>1, SessionInvariant, SessionsAreOverCourses, PTL
=============================================================================
