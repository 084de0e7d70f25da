--------------------------- MODULE RecallCombatProofs ---------------------------
(***************************************************************************)
(* Lemmas about the rules of a Recall Challenge, for any items, boards and *)
(* lineups: what one event returns, and that it keeps every ward.          *)
(***************************************************************************)
EXTENDS RecallCombat, FiniteSetTheorems, TLAPS

LEMMA LineupFacts ==
  ASSUME NEW l \in Lineup
  PROVE  l \in Seq(Item) /\ l # <<>>
BY DEF Lineup

LEMMA InitialFacts ==
  ASSUME NEW l \in Seq(Item)
  PROVE  /\ InitialCombat(l) \in Combat
         /\ InitialCombat(l).unresolved = l /\ ~InitialCombat(l).abandoned
BY DEF InitialCombat, Combat, RECALL_MISS_BUFFER

LEMMA MissFacts ==
  ASSUME NEW s \in Combat, s.unresolved # <<>>
  PROVE  /\ Miss(s) \in Combat /\ Miss(s).abandoned = s.abandoned
<1>1. /\ s.unresolved \in Seq(Item) /\ s.buffer \in 0..3 /\ s.resolved \in SUBSET Item
      /\ s.retreated \in BOOLEAN /\ s.abandoned \in BOOLEAN
  BY DEF Combat, RECALL_MISS_BUFFER
<1> DEFINE b == IF s.buffer > 0 THEN s.buffer - 1 ELSE 0
           u == IF Len(s.unresolved) > 1
                THEN Append(Tail(s.unresolved), Head(s.unresolved)) ELSE s.unresolved
<1>2. b \in 0..3
  BY <1>1
<1>3. u \in Seq(Item)
  BY <1>1
<1>4. Miss(s) = [s EXCEPT !.matched = {}, !.dirty = FALSE, !.buffer = b, !.unresolved = u]
  BY DEF Miss, ClearBoard, Combat
<1> HIDE DEF b, u
<1> QED BY <1>1, <1>2, <1>3, <1>4 DEF Combat, RECALL_MISS_BUFFER

LEMMA ResolveFacts ==
  ASSUME NEW s \in Combat, s.unresolved # <<>>
  PROVE  /\ Resolve(s) \in Combat /\ Resolve(s).abandoned = s.abandoned
<1>1. /\ s.unresolved \in Seq(Item) /\ s.buffer \in 0..3 /\ s.resolved \in SUBSET Item
      /\ s.retreated \in BOOLEAN /\ s.abandoned \in BOOLEAN
  BY DEF Combat, RECALL_MISS_BUFFER
<1> DEFINE b == IF s.buffer = 0 THEN 1 ELSE s.buffer
           d == s.resolved \cup {Head(s.unresolved)}
           u == Tail(s.unresolved)
<1>2. b \in 0..3 /\ u \in Seq(Item) /\ d \in SUBSET Item
  BY <1>1
<1>3. Resolve(s) = [s EXCEPT !.matched = {}, !.dirty = FALSE, !.unresolved = u,
                             !.resolved = d, !.buffer = b]
  BY DEF Resolve, ClearBoard, Combat
<1> HIDE DEF b, d, u
<1> QED BY <1>1, <1>2, <1>3 DEF Combat, RECALL_MISS_BUFFER

LEMMA MatchPairFacts ==
  ASSUME NEW s \in Combat, s.unresolved # <<>>, NEW a, a.prompt \in Prompt
  PROVE  /\ MatchPair(s, a) \in Combat /\ MatchPair(s, a).abandoned = s.abandoned
<1> DEFINE m == s.matched \cup {a.prompt}
<1>1. m \in SUBSET Prompt
  BY DEF Combat
<1>2. /\ [s EXCEPT !.dirty = TRUE] \in Combat /\ [s EXCEPT !.dirty = TRUE].abandoned = s.abandoned
  BY DEF Combat
<1>3. /\ [s EXCEPT !.matched = m] \in Combat /\ [s EXCEPT !.matched = m].abandoned = s.abandoned
  BY <1>1 DEF Combat
<1>4. \/ MatchPair(s, a) = [s EXCEPT !.dirty = TRUE]
      \/ MatchPair(s, a) = [s EXCEPT !.matched = m]
      \/ MatchPair(s, a) = Miss(s)
      \/ MatchPair(s, a) = Resolve(s)
  BY DEF MatchPair
<1> QED BY <1>2, <1>3, <1>4, MissFacts, ResolveFacts

\* A request as far as the rules know it; a pair names a prompt of the board.
Requested(a) == /\ a.kind \in Answers \cup Engagements
                /\ a.kind \in Answers => a.prompt \in Prompt

\* What one event does to the state of the fight.
LEMMA PlayedFacts ==
  ASSUME NEW s \in Combat, NEW a, Requested(a)
  PROVE  /\ Played(s, a) \in Combat
         /\ a.kind \in Engagements => Played(s, a).unresolved = s.unresolved
         /\ a.kind # "abandon" => Played(s, a).abandoned = s.abandoned
         /\ a.kind = "abandon" => Played(s, a).abandoned
<1>1. CASE a.kind = "retreat"
  <2>1. Played(s, a) = [s EXCEPT !.retreated = TRUE]
    BY <1>1 DEF Played, Answers
  <2> QED BY <1>1, <2>1 DEF Combat
<1>2. CASE a.kind = "resume"
  <2>1. Played(s, a) = [s EXCEPT !.retreated = FALSE]
    BY <1>2 DEF Played, Answers
  <2> QED BY <1>2, <2>1 DEF Combat
<1>3. CASE a.kind = "abandon"
  <2>1. Played(s, a) = [s EXCEPT !.abandoned = TRUE]
    BY <1>3 DEF Played, Answers
  <2> QED BY <1>3, <2>1 DEF Combat
<1>4. CASE a.kind \in Answers
  <2>1. a.prompt \in Prompt /\ a.kind \notin Engagements /\ a.kind # "abandon"
    BY <1>4 DEF Requested, Answers, Engagements
  <2>2. \/ Played(s, a) = s
        \/ s.unresolved # <<>> /\ Played(s, a) = MatchPair(s, a)
        \/ s.unresolved # <<>> /\ Played(s, a) = Miss(s)
        \/ s.unresolved # <<>> /\ Played(s, a) = Resolve(s)
    BY <1>4 DEF Played, Answers
  <2> QED BY <2>1, <2>2, MissFacts, ResolveFacts, MatchPairFacts
<1> QED BY <1>1, <1>2, <1>3, <1>4 DEF Requested, Engagements

-----------------------------------------------------------------------------
(* The wards. *)

Elements(q) == {q[i] : i \in DOMAIN q}

Distinct(q) == \A i, j \in DOMAIN q : q[i] = q[j] => i = j

\* Every item of the lineup is either still to be answered, once, or resolved.
Conserved(lineup, s) ==
  /\ Distinct(s.unresolved)
  /\ Elements(lineup) = Elements(s.unresolved) \cup s.resolved
  /\ IsFiniteSet(s.resolved)
  /\ Len(lineup) = Len(s.unresolved) + Cardinality(s.resolved)
  /\ Elements(s.unresolved) \cap s.resolved = {}

LEMMA TailFacts ==
  ASSUME NEW q \in Seq(Item), q # <<>>, Distinct(q)
  PROVE  /\ Tail(q) \in Seq(Item) /\ Head(q) \in Item /\ Len(Tail(q)) + 1 = Len(q)
         /\ Elements(q) = {Head(q)} \cup Elements(Tail(q))
         /\ Head(q) \notin Elements(Tail(q)) /\ Distinct(Tail(q))
<1>1. /\ Tail(q) \in Seq(Item) /\ Head(q) = q[1] /\ Len(q) \in Nat /\ Len(q) >= 1
      /\ Len(Tail(q)) = Len(q) - 1 /\ DOMAIN q = 1..Len(q) /\ Head(q) \in Item
      /\ \A i \in 1..(Len(q) - 1) : Tail(q)[i] = q[i + 1]
  OBVIOUS
<1>2. DOMAIN Tail(q) = 1..(Len(q) - 1)
  BY <1>1
<1>3. \A x \in Elements(q) : x \in {Head(q)} \cup Elements(Tail(q))
  <2> SUFFICES ASSUME NEW i \in 1..Len(q), i # 1
               PROVE  q[i] \in Elements(Tail(q))
    BY <1>1 DEF Elements
  <2>1. i - 1 \in DOMAIN Tail(q) /\ Tail(q)[i - 1] = q[i]
    BY <1>1, <1>2
  <2> QED BY <2>1 DEF Elements
<1>4. \A i \in DOMAIN Tail(q) : i + 1 \in DOMAIN q /\ i + 1 # 1 /\ Tail(q)[i] = q[i + 1]
  BY <1>1, <1>2
<1>5. Elements(Tail(q)) \subseteq Elements(q) /\ Head(q) \in Elements(q)
  BY <1>1, <1>4 DEF Elements
<1>6. Head(q) \notin Elements(Tail(q))
  <2>1. \A i \in DOMAIN Tail(q) : Tail(q)[i] # q[1]
    BY <1>1, <1>4 DEF Distinct
  <2> QED BY <1>1, <2>1 DEF Elements
<1>7. Distinct(Tail(q))
  BY <1>1, <1>2, <1>4 DEF Distinct
<1> QED BY <1>1, <1>3, <1>5, <1>6, <1>7

LEMMA AppendFacts ==
  ASSUME NEW q \in Seq(Item), NEW x \in Item, x \notin Elements(q), Distinct(q)
  PROVE  /\ Append(q, x) \in Seq(Item) /\ Len(Append(q, x)) = Len(q) + 1
         /\ Elements(Append(q, x)) = Elements(q) \cup {x} /\ Distinct(Append(q, x))
<1>1. /\ Append(q, x) \in Seq(Item) /\ Len(q) \in Nat /\ Len(Append(q, x)) = Len(q) + 1
      /\ DOMAIN q = 1..Len(q) /\ DOMAIN Append(q, x) = 1..(Len(q) + 1)
      /\ \A i \in 1..Len(q) : Append(q, x)[i] = q[i]
      /\ Append(q, x)[Len(q) + 1] = x
  OBVIOUS
<1>2. Elements(Append(q, x)) = Elements(q) \cup {x}
  <2>1. \A i \in 1..(Len(q) + 1) : i \in 1..Len(q) \/ i = Len(q) + 1
    BY <1>1
  <2>2. Len(q) + 1 \in 1..(Len(q) + 1) /\ 1..Len(q) \subseteq 1..(Len(q) + 1)
    BY <1>1
  <2> QED BY <1>1, <2>1, <2>2 DEF Elements
<1>3. Distinct(Append(q, x))
  <2> SUFFICES ASSUME NEW i \in 1..(Len(q) + 1), NEW j \in 1..(Len(q) + 1),
                      Append(q, x)[i] = Append(q, x)[j]
               PROVE  i = j
    BY <1>1 DEF Distinct
  <2>1. \A k \in 1..Len(q) : q[k] # x
    BY <1>1 DEF Elements
  <2>2. CASE i \in 1..Len(q) /\ j \in 1..Len(q)
    BY <1>1, <2>2 DEF Distinct
  <2>3. CASE i = Len(q) + 1 \/ j = Len(q) + 1
    BY <1>1, <2>1, <2>3
  <2> QED BY <1>1, <2>2, <2>3
<1> QED BY <1>1, <1>2, <1>3

\* A fight begins with every ward of its lineup.
LEMMA InitialConserves ==
  ASSUME NEW l \in Seq(Item), Distinct(l)
  PROVE  Conserved(l, InitialCombat(l))
<1>1. InitialCombat(l).unresolved = l /\ InitialCombat(l).resolved = {}
  BY DEF InitialCombat
<1>2. IsFiniteSet({}) /\ Cardinality({}) = 0
  BY FS_EmptySet
<1> QED BY <1>1, <1>2 DEF Conserved

\* A missed item changes its place only.
LEMMA MissConserves ==
  ASSUME NEW l \in Seq(Item), NEW s \in Combat, s.unresolved # <<>>, Conserved(l, s)
  PROVE  Conserved(l, Miss(s))
<1> DEFINE u == s.unresolved
<1>1. u \in Seq(Item) /\ u # <<>> /\ Distinct(u)
  BY DEF Combat, Conserved
<1>2. Miss(s).resolved = s.resolved
  BY DEF Miss, ClearBoard, Combat
<1>3. Miss(s).unresolved = IF Len(u) > 1 THEN Append(Tail(u), Head(u)) ELSE u
  BY DEF Miss, ClearBoard, Combat
<1> HIDE DEF u
<1>4. /\ Tail(u) \in Seq(Item) /\ Head(u) \in Item /\ Len(Tail(u)) + 1 = Len(u)
      /\ Elements(u) = {Head(u)} \cup Elements(Tail(u))
      /\ Head(u) \notin Elements(Tail(u)) /\ Distinct(Tail(u))
  BY <1>1, TailFacts
<1> DEFINE v == Append(Tail(u), Head(u))
<1>5. Distinct(v) /\ Elements(v) = Elements(Tail(u)) \cup {Head(u)} /\ Len(v) = Len(Tail(u)) + 1
  BY <1>4, AppendFacts
<1> HIDE DEF v
<1>6. /\ Distinct(Miss(s).unresolved) /\ Elements(Miss(s).unresolved) = Elements(u)
      /\ Len(Miss(s).unresolved) = Len(u)
  BY <1>1, <1>3, <1>4, <1>5 DEF v
<1> QED BY <1>2, <1>6 DEF Conserved, u

\* A resolved item leaves the queue for the resolved ones.
LEMMA ResolveConserves ==
  ASSUME NEW l \in Seq(Item), NEW s \in Combat, s.unresolved # <<>>, Conserved(l, s)
  PROVE  Conserved(l, Resolve(s))
<1> DEFINE u == s.unresolved
<1>1. u \in Seq(Item) /\ u # <<>> /\ Distinct(u) /\ IsFiniteSet(s.resolved)
  BY DEF Combat, Conserved
<1>2. Resolve(s).resolved = s.resolved \cup {Head(u)} /\ Resolve(s).unresolved = Tail(u)
  BY DEF Resolve, ClearBoard, Combat
<1>3. /\ Elements(l) = Elements(u) \cup s.resolved /\ Elements(u) \cap s.resolved = {}
      /\ Len(l) = Len(u) + Cardinality(s.resolved)
  BY DEF Conserved
<1> HIDE DEF u
<1>4. /\ Len(Tail(u)) + 1 = Len(u) /\ Elements(u) = {Head(u)} \cup Elements(Tail(u))
      /\ Head(u) \notin Elements(Tail(u)) /\ Distinct(Tail(u)) /\ Tail(u) \in Seq(Item)
  BY <1>1, TailFacts
<1>5. /\ IsFiniteSet(s.resolved \cup {Head(u)})
      /\ Cardinality(s.resolved \cup {Head(u)}) = Cardinality(s.resolved) + 1
  BY <1>1, <1>3, <1>4, FS_AddElement
<1>6. Cardinality(s.resolved) \in Nat /\ Len(u) \in Nat /\ Len(Tail(u)) \in Nat
  BY <1>1, <1>4, FS_CardinalityType
<1>7. Len(l) = Len(Tail(u)) + Cardinality(s.resolved \cup {Head(u)})
  BY <1>3, <1>4, <1>5, <1>6
<1>8. /\ Elements(l) = Elements(Tail(u)) \cup (s.resolved \cup {Head(u)})
      /\ Elements(Tail(u)) \cap (s.resolved \cup {Head(u)}) = {}
  BY <1>3, <1>4
<1> QED BY <1>2, <1>4, <1>5, <1>7, <1>8 DEF Conserved

\* No event loses, doubles or invents a ward.
LEMMA PlayedConserves ==
  ASSUME NEW l \in Seq(Item), NEW s \in Combat, NEW a, Requested(a), Conserved(l, s)
  PROVE  Conserved(l, Played(s, a))
<1>1. ASSUME NEW t, t.unresolved = s.unresolved, t.resolved = s.resolved
      PROVE  Conserved(l, t)
  BY <1>1 DEF Conserved
<1>2. CASE a.kind \in Engagements
  <2>1. \/ Played(s, a) = [s EXCEPT !.retreated = TRUE]
        \/ Played(s, a) = [s EXCEPT !.retreated = FALSE]
        \/ Played(s, a) = [s EXCEPT !.abandoned = TRUE]
    BY <1>2 DEF Played, Engagements, Answers
  <2>2. Played(s, a).unresolved = s.unresolved /\ Played(s, a).resolved = s.resolved
    BY <2>1 DEF Combat
  <2> QED BY <1>1, <2>2
<1>3. CASE a.kind \in Answers
  <2> DEFINE m == s.matched \cup {a.prompt}
  <2>1. \/ Played(s, a) = s
        \/ s.unresolved # <<>> /\ Played(s, a) = MatchPair(s, a)
        \/ s.unresolved # <<>> /\ Played(s, a) = Miss(s)
        \/ s.unresolved # <<>> /\ Played(s, a) = Resolve(s)
    BY <1>3 DEF Played, Answers
  <2>2. \/ MatchPair(s, a) = [s EXCEPT !.dirty = TRUE]
        \/ MatchPair(s, a) = [s EXCEPT !.matched = m]
        \/ MatchPair(s, a) = Miss(s)
        \/ MatchPair(s, a) = Resolve(s)
    BY DEF MatchPair
  <2>3. Conserved(l, [s EXCEPT !.dirty = TRUE]) /\ Conserved(l, [s EXCEPT !.matched = m])
    <3>1. /\ [s EXCEPT !.dirty = TRUE].unresolved = s.unresolved
          /\ [s EXCEPT !.dirty = TRUE].resolved = s.resolved
          /\ [s EXCEPT !.matched = m].unresolved = s.unresolved
          /\ [s EXCEPT !.matched = m].resolved = s.resolved
      BY DEF Combat
    <3> QED BY <1>1, <3>1
  <2> QED BY <2>1, <2>2, <2>3, MissConserves, ResolveConserves
<1> QED BY <1>2, <1>3 DEF Requested

=============================================================================
