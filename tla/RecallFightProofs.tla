--------------------------- MODULE RecallFightProofs ---------------------------
(***************************************************************************)
(* What is proved of RecallFight, for any challenges, references, items    *)
(* and boards.                                                             *)
(***************************************************************************)
EXTENDS RecallFight, RecallCombatProofs, WellFoundedInduction, NaturalsInduction

(* The inductive invariant. *)

\* A fight has a lineup as soon as it begins, and its wards are conserved.
FightsAreConserved ==
  \A c \in Challenge :
    /\ Conserved(lineup[c], combat[c])
    /\ stage[c] = "absent" <=> lineup[c] = NoFight
    /\ stage[c] = "won" <=> lineup[c] # NoFight /\ combat[c].unresolved = <<>>

FightInv == TypeOK /\ FightsAreConserved

LEMMA FightInitInv == Init => FightInv
<1> SUFFICES ASSUME Init PROVE FightInv
  OBVIOUS
<1>1. NoFight \in Seq(Item) /\ Distinct(NoFight)
  BY DEF NoFight, Distinct
<1>2. InitialCombat(NoFight) \in Combat /\ Conserved(NoFight, InitialCombat(NoFight))
  BY <1>1, InitialFacts, InitialConserves
<1>3. TypeOK
  BY <1>2 DEF Init, TypeOK
<1>4. FightsAreConserved
  BY <1>2 DEF Init, FightsAreConserved
<1> QED BY <1>3, <1>4 DEF FightInv

LEMMA LineupIsDistinct ==
  ASSUME NEW l \in Lineup
  PROVE  l \in Seq(Item) /\ l # <<>> /\ Distinct(l)
BY LineupFacts DEF Lineup, Distinct

LEMMA BeginInv ==
  ASSUME FightInv, NEW c \in Challenge, NEW l \in Lineup, Begin(c, l)
  PROVE  FightInv'
<1>1. /\ InitialCombat(l) \in Combat /\ Conserved(l, InitialCombat(l)) /\ l # NoFight
      /\ InitialCombat(l).unresolved = l
  BY LineupIsDistinct, InitialFacts, InitialConserves DEF NoFight
<1>2. TypeOK /\ stage[c] = "absent"
  BY DEF FightInv, Begin
<1>3. \A x \in Challenge :
        /\ stage'[x] = IF x = c THEN "active"
                       ELSE IF stage[x] = "active" THEN "abandoned" ELSE stage[x]
        /\ lineup'[x] = IF x = c THEN l ELSE lineup[x]
        /\ combat'[x] = IF x = c THEN InitialCombat(l) ELSE combat[x]
  BY <1>2 DEF Begin, TypeOK
<1>4. TypeOK'
  <2>1. stage' \in [Challenge -> {"absent", "active", "won", "abandoned"}]
    BY <1>2 DEF Begin, TypeOK
  <2>2. lineup' \in [Challenge -> Lineup \cup {NoFight}] /\ combat' \in [Challenge -> Combat]
    BY <1>1, <1>2 DEF Begin, TypeOK
  <2> QED BY <1>2, <2>1, <2>2 DEF Begin, TypeOK
<1>5. FightsAreConserved'
  <2> SUFFICES ASSUME NEW x \in Challenge
               PROVE  /\ Conserved(lineup'[x], combat'[x])
                      /\ stage'[x] = "absent" <=> lineup'[x] = NoFight
                      /\ stage'[x] = "won" <=> lineup'[x] # NoFight /\ combat'[x].unresolved = <<>>
    BY DEF FightsAreConserved
  <2>1. CASE x = c
    BY <1>1, <1>3, <2>1 DEF NoFight
  <2>2. CASE x # c
    BY <1>3, <2>2 DEF FightInv, FightsAreConserved
  <2> QED BY <2>1, <2>2
<1> QED BY <1>4, <1>5 DEF FightInv

LEMMA TurnInv ==
  ASSUME FightInv, NEW c \in Challenge, NEW r \in Ref, NEW a \in Action, Turn(c, r, a)
  PROVE  FightInv'
<1> DEFINE s == combat[c]
           e == Played(s, a)
<1>1. Requested(a)
  BY DEF Action, Requested, Answers, Engagements
<1>2. /\ TypeOK /\ s \in Combat /\ Conserved(lineup[c], s) /\ stage[c] = "active"
      /\ lineup[c] # NoFight /\ lineup[c] \in Seq(Item)
  BY LineupFacts DEF FightInv, FightsAreConserved, TypeOK, Turn
<1>3. e \in Combat /\ Conserved(lineup[c], e)
  BY <1>1, <1>2, PlayedFacts, PlayedConserves
<1> HIDE DEF e
<1>4. /\ combat' = [combat EXCEPT ![c] = e] /\ stage' = [stage EXCEPT ![c] = StageAfter(e)]
      /\ lineup' = lineup /\ counted' = [counted EXCEPT ![c] = @ \cup {r}]
  BY <1>2 DEF Turn, TypeOK, e
<1>5. /\ StageAfter(e) \in {"won", "abandoned", "active"}
      /\ StageAfter(e) = "won" <=> e.unresolved = <<>>
  BY DEF StageAfter
<1>6. TypeOK'
  BY <1>2, <1>3, <1>4, <1>5 DEF TypeOK
<1>7. FightsAreConserved'
  <2> SUFFICES ASSUME NEW x \in Challenge
               PROVE  /\ Conserved(lineup[x], combat'[x])
                      /\ stage'[x] = "absent" <=> lineup[x] = NoFight
                      /\ stage'[x] = "won" <=> lineup[x] # NoFight /\ combat'[x].unresolved = <<>>
    BY <1>4 DEF FightsAreConserved
  <2>1. CASE x = c
    BY <1>2, <1>3, <1>4, <1>5, <2>1 DEF TypeOK
  <2>2. CASE x # c
    BY <1>2, <1>4, <2>2 DEF FightInv, FightsAreConserved, TypeOK
  <2> QED BY <2>1, <2>2
<1> QED BY <1>6, <1>7 DEF FightInv

LEMMA FightStep == FightInv /\ [Next]_vars => FightInv'
<1> SUFFICES ASSUME FightInv, [Next]_vars PROVE FightInv'
  OBVIOUS
<1>1. ASSUME NEW c \in Challenge, NEW l \in Lineup, Begin(c, l)
      PROVE  FightInv'
  BY <1>1, BeginInv
<1>2. ASSUME NEW c \in Challenge, NEW r \in Ref, NEW a \in Action, Turn(c, r, a)
      PROVE  FightInv'
  BY <1>2, TurnInv
<1>3. CASE UNCHANGED vars
  BY <1>3 DEF vars, FightInv, TypeOK, FightsAreConserved
<1> QED BY <1>1, <1>2, <1>3 DEF Next

\* Rotation, dirty boards, retreats and recovery lose, double and invent no
\* ward, and a fight that was abandoned or replaced never counts as won
\* (foldRecallChallenge).
THEOREM FightConservesWards == Spec => []WardsAreConserved
<1>1. FightInv => WardsAreConserved
  BY DEF FightInv, FightsAreConserved, WardsAreConserved, Conserved, Elements, Queue
<1> QED BY <1>1, FightInitInv, FightStep, PTL DEF Spec

-----------------------------------------------------------------------------
(* Perfect play: what is left to answer falls with every right answer. *)

LEMMA LeastNatural ==
  ASSUME NEW S \in SUBSET Nat, S # {}
  PROVE  \E m \in S : \A k \in S : m <= k
<1>1. PICK m \in S : \A k \in S : ~ (<<k, m>> \in OpToRel(<, Nat))
  BY NatLessThanWellFounded, WFMin
<1>2. \A k \in Nat : <<k, m>> \in OpToRel(<, Nat) <=> k < m
  BY DEF OpToRel
<1>3. \A k \in S : ~ (k < m)
  BY <1>1, <1>2, Zenon
<1>4. m \in Nat /\ \A k \in S : k \in Nat
  OBVIOUS
<1>5. \A k \in S : m <= k
  BY <1>3, <1>4
<1> QED BY <1>5

\* A set that holds 0 and, with each number below n, the next one holds n.
LEMMA Upwards ==
  ASSUME NEW n \in Nat, NEW S, 0 \in S, \A k \in 1..n : k - 1 \in S => k \in S
  PROVE  \A k \in 0..n : k \in S
<1> DEFINE Odd == {k \in Nat : k <= n /\ k \notin S}
<1>1. ASSUME Odd # {} PROVE FALSE
  <2>1. PICK k \in Odd : \A l \in Odd : k <= l
    <3>1. Odd \in SUBSET Nat
      OBVIOUS
    <3> HIDE DEF Odd
    <3> QED BY <1>1, <3>1, LeastNatural
  <2>2. k \in Nat /\ k <= n /\ k \notin S /\ k # 0
    BY <2>1
  <2>3. k - 1 \in Nat /\ k - 1 <= n /\ ~ (k <= k - 1) /\ k \in 1..n
    BY <2>2
  <2>4. k - 1 \in S
    BY <2>1, <2>3
  <2> QED BY <2>2, <2>3, <2>4
<1> QED BY <1>1

\* f plays n right answers from s on, and stops when nothing is unresolved.
Plays(s, n, f) ==
  f = [k \in 0..n |->
         IF k = 0 THEN s
         ELSE IF f[k - 1].unresolved = <<>> THEN f[k - 1]
         ELSE Played(f[k - 1], RightAnswer(f[k - 1]))]

\* The recursion that PerfectPlayWins plays has a value.
LEMMA PlayExists ==
  ASSUME NEW s, NEW n \in Nat
  PROVE  \E f : Plays(s, n, f)
<1> DEFINE S == {k \in 0..n : \E f : Plays(s, k, f)}
<1>1. 0 \in S
  <2> DEFINE g == [k \in 0..0 |-> s]
  <2>1. \A k \in 0..0 : k = 0
    OBVIOUS
  <2>2. g = [k \in 0..0 |-> IF k = 0 THEN s
                            ELSE IF g[k - 1].unresolved = <<>> THEN g[k - 1]
                            ELSE Played(g[k - 1], RightAnswer(g[k - 1]))]
    BY <2>1
  <2>3. Plays(s, 0, g)
    BY <2>2 DEF Plays
  <2> HIDE DEF g
  <2> QED BY <2>3
<1>2. ASSUME NEW m \in 1..n, m - 1 \in S PROVE m \in S
  <2>1. PICK f : Plays(s, m - 1, f)
    BY <1>2
  <2> DEFINE next == IF f[m - 1].unresolved = <<>> THEN f[m - 1]
                     ELSE Played(f[m - 1], RightAnswer(f[m - 1]))
             g == [k \in 0..m |-> IF k = m THEN next ELSE f[k]]
  <2>2. ASSUME NEW k \in 0..m
        PROVE  g[k] = IF k = 0 THEN s ELSE IF g[k - 1].unresolved = <<>> THEN g[k - 1]
                      ELSE Played(g[k - 1], RightAnswer(g[k - 1]))
    <3>1. CASE k = m
      <4>1. k # 0 /\ k - 1 \in 0..m /\ k - 1 # m
        BY <3>1
      <4>2. g[k - 1] = f[m - 1] /\ g[k] = next
        BY <3>1, <4>1
      <4> HIDE DEF g
      <4> QED BY <4>1, <4>2
    <3>2. CASE k # m
      <4>1. k \in 0..(m - 1) /\ (k # 0 => k - 1 \in 0..m /\ k - 1 # m)
        BY <3>2
      <4>2. f[k] = IF k = 0 THEN s ELSE IF f[k - 1].unresolved = <<>> THEN f[k - 1]
                   ELSE Played(f[k - 1], RightAnswer(f[k - 1]))
        BY <2>1, <4>1 DEF Plays
      <4>3. g[k] = f[k] /\ (k # 0 => g[k - 1] = f[k - 1])
        BY <3>2, <4>1
      <4> HIDE DEF g
      <4> QED BY <4>2, <4>3
    <3> QED BY <3>1, <3>2
  <2>3. \E q : g = [k \in 0..m |-> q[k]]
    OBVIOUS
  <2>4. g = [k \in 0..m |-> IF k = 0 THEN s ELSE IF g[k - 1].unresolved = <<>> THEN g[k - 1]
                            ELSE Played(g[k - 1], RightAnswer(g[k - 1]))]
    <3> HIDE DEF g
    <3> QED BY <2>2, <2>3
  <2> HIDE DEF g
  <2>5. Plays(s, m, g)
    BY <2>4 DEF Plays
  <2> QED BY <2>5
<1> HIDE DEF S
<1>3. \A k \in 0..n : k \in S
  BY <1>1, <1>2, Upwards
<1> QED BY <1>3 DEF S

\* The pairs left on the board, at least one; a board that is complete and was
\* not cleared still takes one.
PairsLeft(s) ==
  IF Cardinality(s.matched) < Cardinality(Prompt)
  THEN Cardinality(Prompt) - Cardinality(s.matched) ELSE 1

\* The right answers a fight can still take: a board for each later item, one
\* more when this one must be repeated, and what is left of this one.
AnswersLeft(s) ==
  (Len(s.unresolved) - 1) * Cardinality(Prompt)
    + (IF s.dirty THEN Cardinality(Prompt) ELSE 0) + PairsLeft(s)

LEMMA BoardFacts ==
  ASSUME NEW m \in SUBSET Prompt
  PROVE  /\ IsFiniteSet(m) /\ Cardinality(m) \in Nat /\ Cardinality(Prompt) \in Nat
         /\ Cardinality(m) <= Cardinality(Prompt) /\ Cardinality(Prompt) >= 1
         /\ Cardinality({}) = 0
         /\ \A p \in Prompt \ m : Cardinality(m \cup {p}) = Cardinality(m) + 1
<1>1. IsFiniteSet(Prompt) /\ Prompt # {}
  BY BoardsArePlayable
<1>2. IsFiniteSet(m) /\ Cardinality(m) <= Cardinality(Prompt)
  BY <1>1, FS_Subset
<1>3. Cardinality(Prompt) \in Nat /\ Cardinality(m) \in Nat
  BY <1>1, <1>2, FS_CardinalityType
<1>4. Cardinality(Prompt) # 0
  BY <1>1, FS_EmptySet
<1>5. \A p \in Prompt \ m : Cardinality(m \cup {p}) = Cardinality(m) + 1
  BY <1>2, FS_AddElement
<1> QED BY <1>2, <1>3, <1>4, <1>5, FS_EmptySet

LEMMA PairsLeftFacts ==
  ASSUME NEW s \in Combat
  PROVE  /\ PairsLeft(s) \in Nat /\ 1 <= PairsLeft(s) /\ PairsLeft(s) <= Cardinality(Prompt)
         /\ s.matched = {} => PairsLeft(s) = Cardinality(Prompt)
<1>1. s.matched \in SUBSET Prompt
  BY DEF Combat
<1>2. /\ Cardinality(s.matched) \in Nat /\ Cardinality(Prompt) \in Nat
      /\ Cardinality(Prompt) >= 1 /\ Cardinality({}) = 0
  BY <1>1, BoardFacts
<1> QED BY <1>2 DEF PairsLeft

\* A round that resolves the item leaves the boards of the other ones.
LEMMA ResolveLeaves ==
  ASSUME NEW s \in Combat, s.unresolved # <<>>
  PROVE  /\ Resolve(s) \in Combat
         /\ \/ Resolve(s).unresolved = <<>>
            \/ AnswersLeft(Resolve(s)) + 1 <= AnswersLeft(s)
<1> DEFINE e == Resolve(s)
           P == Cardinality(Prompt)
           l == Len(s.unresolved)
<1>1. e \in Combat
  BY ResolveFacts
<1>2. e.unresolved = Tail(s.unresolved) /\ ~e.dirty /\ e.matched = {}
  BY DEF Resolve, ClearBoard, Combat
<1>3. s.unresolved \in Seq(Item) /\ l \in Nat /\ l >= 1 /\ s.dirty \in BOOLEAN
  BY DEF Combat
<1>4. Len(e.unresolved) = l - 1
  BY <1>2, <1>3
<1>5. P \in Nat /\ P >= 1
  BY BoardFacts
<1>6. PairsLeft(e) = P /\ PairsLeft(s) \in Nat /\ 1 <= PairsLeft(s)
  BY <1>1, <1>2, PairsLeftFacts
<1> HIDE DEF e, P, l
<1>7. AnswersLeft(e) = (l - 1 - 1) * P + P
  BY <1>1, <1>2, <1>3, <1>4, <1>5, <1>6 DEF AnswersLeft, P
<1>8. (l - 1 - 1) * P + P = (l - 1) * P /\ (l - 1) * P \in Int
  BY <1>3, <1>5
<1>9. AnswersLeft(s) = (l - 1) * P + (IF s.dirty THEN P ELSE 0) + PairsLeft(s)
  BY DEF AnswersLeft, P, l
<1> QED BY <1>1, <1>3, <1>5, <1>6, <1>7, <1>8, <1>9 DEF e

\* A dirty round that ends keeps its item and costs the board it still owed.
LEMMA MissLeaves ==
  ASSUME NEW s \in Combat, s.unresolved # <<>>, s.dirty
  PROVE  Miss(s) \in Combat /\ AnswersLeft(Miss(s)) + 1 <= AnswersLeft(s)
<1> DEFINE e == Miss(s)
           P == Cardinality(Prompt)
           l == Len(s.unresolved)
<1>1. e \in Combat
  BY MissFacts
<1>2. /\ ~e.dirty /\ e.matched = {}
      /\ e.unresolved = IF Len(s.unresolved) > 1
                        THEN Append(Tail(s.unresolved), Head(s.unresolved)) ELSE s.unresolved
  BY DEF Miss, ClearBoard, Combat
<1>3. s.unresolved \in Seq(Item) /\ l \in Nat /\ l >= 1
  BY DEF Combat
<1>4. Len(e.unresolved) = l
  BY <1>2, <1>3
<1>5. P \in Nat /\ P >= 1
  BY BoardFacts
<1>6. PairsLeft(e) = P /\ PairsLeft(s) \in Nat /\ 1 <= PairsLeft(s)
  BY <1>1, <1>2, PairsLeftFacts
<1> HIDE DEF e, P, l
<1>7. AnswersLeft(e) = (l - 1) * P + P
  BY <1>2, <1>3, <1>4, <1>5, <1>6 DEF AnswersLeft, P
<1>8. (l - 1) * P \in Int
  BY <1>3, <1>5
<1>9. AnswersLeft(s) = (l - 1) * P + P + PairsLeft(s)
  BY DEF AnswersLeft, P, l
<1> QED BY <1>1, <1>5, <1>6, <1>7, <1>8, <1>9 DEF e

\* A pair that does not complete the board leaves one pair less on it.
LEMMA PairLeaves ==
  ASSUME NEW s \in Combat, s.unresolved # <<>>, NEW p \in Prompt, p \notin s.matched,
         Cardinality(s.matched \cup {p}) < Cardinality(Prompt)
  PROVE  /\ [s EXCEPT !.matched = s.matched \cup {p}] \in Combat
         /\ AnswersLeft([s EXCEPT !.matched = s.matched \cup {p}]) + 1 <= AnswersLeft(s)
<1> DEFINE e == [s EXCEPT !.matched = s.matched \cup {p}]
           P == Cardinality(Prompt)
           l == Len(s.unresolved)
           d == IF s.dirty THEN P ELSE 0
<1>1. /\ e \in Combat /\ e.unresolved = s.unresolved /\ e.dirty = s.dirty
      /\ e.matched = s.matched \cup {p}
  BY DEF Combat
<1>2. s.unresolved \in Seq(Item) /\ l \in Nat /\ s.matched \in SUBSET Prompt
  BY DEF Combat
<1>3. /\ P \in Nat /\ Cardinality(s.matched) \in Nat
      /\ Cardinality(s.matched \cup {p}) = Cardinality(s.matched) + 1
  BY <1>2, BoardFacts
<1> HIDE DEF e
<1>4. PairsLeft(e) + 1 = PairsLeft(s) /\ PairsLeft(s) \in Nat /\ PairsLeft(e) \in Nat
  BY <1>1, <1>3 DEF PairsLeft
<1> HIDE DEF P, l
<1>5. (l - 1) * P \in Int /\ d \in Nat
  BY <1>2, <1>3
<1>6. AnswersLeft(e) = (l - 1) * P + d + PairsLeft(e)
  BY <1>1 DEF AnswersLeft, P, l
<1>7. AnswersLeft(s) = (l - 1) * P + d + PairsLeft(s)
  BY DEF AnswersLeft, P, l
<1> HIDE DEF d
<1> QED BY <1>1, <1>4, <1>5, <1>6, <1>7 DEF e

\* Whatever was missed before, a right answer brings the end nearer.
LEMMA RightAnswerLeaves ==
  ASSUME NEW s \in Combat, s.unresolved # <<>>
  PROVE  /\ Played(s, RightAnswer(s)) \in Combat
         /\ \/ Played(s, RightAnswer(s)).unresolved = <<>>
            \/ AnswersLeft(Played(s, RightAnswer(s))) + 1 <= AnswersLeft(s)
<1> DEFINE a == RightAnswer(s)
           e == Played(s, a)
           m == s.matched \cup {a.prompt}
<1>1. /\ a.item = Head(s.unresolved) /\ a.correct
      /\ a.kind \in Answers /\ a.kind \notin {"retreat", "resume", "abandon"}
      /\ a.prompt = CHOOSE p \in Prompt : Prompt \subseteq s.matched \/ p \notin s.matched
  BY DEF RightAnswer, Answers
<1>2. /\ a.prompt \in Prompt
      /\ Prompt \subseteq s.matched \/ a.prompt \notin s.matched
  <2>1. \E p \in Prompt : Prompt \subseteq s.matched \/ p \notin s.matched
    BY BoardsArePlayable
  <2> QED BY <1>1, <2>1
<1> SUFFICES /\ e \in Combat
             /\ e.unresolved = <<>> \/ AnswersLeft(e) + 1 <= AnswersLeft(s)
  OBVIOUS
<1> HIDE DEF a
<1>3. e = IF a.kind = "matching_pair" THEN MatchPair(s, a) ELSE Resolve(s)
  BY <1>1 DEF Played
<1> HIDE DEF e
<1>4. CASE e = Resolve(s)
  BY <1>4, ResolveLeaves
<1>5. CASE s.dirty /\ e = Miss(s)
  BY <1>5, MissLeaves
<1>6. CASE Cardinality(m) < Cardinality(Prompt) /\ e = [s EXCEPT !.matched = m]
  <2>1. s.matched \in SUBSET Prompt
    BY DEF Combat
  <2>2. ~(Prompt \subseteq s.matched)
    <3> SUFFICES ASSUME Prompt \subseteq s.matched PROVE FALSE
      OBVIOUS
    <3>1. m = Prompt
      BY <1>2, <2>1
    <3>2. Cardinality(Prompt) \in Nat
      BY <2>1, BoardFacts
    <3> HIDE DEF m
    <3> QED BY <1>6, <3>1, <3>2
  <2>3. a.prompt \notin s.matched
    BY <1>2, <2>2
  <2> QED BY <1>2, <1>6, <2>3, PairLeaves
<1>7. e = Resolve(s) \/ (s.dirty /\ e = Miss(s))
      \/ (Cardinality(m) < Cardinality(Prompt) /\ e = [s EXCEPT !.matched = m])
  BY <1>1, <1>3 DEF MatchPair
<1> QED BY <1>4, <1>5, <1>6, <1>7

\* The rounds that are granted are enough at the beginning.
LEMMA EnoughAnswers ==
  ASSUME NEW s \in Combat
  PROVE  /\ RightAnswersNeeded(s) \in Nat
         /\ s.unresolved # <<>> => AnswersLeft(s) <= RightAnswersNeeded(s)
<1> DEFINE P == Cardinality(Prompt)
           l == Len(s.unresolved)
<1>1. s.unresolved \in Seq(Item) /\ l \in Nat /\ s.matched \in SUBSET Prompt
  BY DEF Combat
<1>2. P \in Nat /\ PairsLeft(s) \in Nat /\ PairsLeft(s) <= P
  BY <1>1, BoardFacts, PairsLeftFacts
<1> HIDE DEF P, l
<1>3. (l + 1) * P \in Nat /\ (l - 1) * P \in Int /\ (l - 1) * P + P + P = (l + 1) * P
  BY <1>1, <1>2
<1>4. RightAnswersNeeded(s) = (l + 1) * P
  BY DEF RightAnswersNeeded, P, l
<1>5. AnswersLeft(s) = (l - 1) * P + (IF s.dirty THEN P ELSE 0) + PairsLeft(s)
  BY DEF AnswersLeft, P, l
<1> QED BY <1>2, <1>3, <1>4, <1>5

\* Something unresolved always leaves an answer to give.
LEMMA SomethingLeft ==
  ASSUME NEW s \in Combat, s.unresolved # <<>>
  PROVE  AnswersLeft(s) \in Nat /\ AnswersLeft(s) >= 1
<1> DEFINE P == Cardinality(Prompt)
           l == Len(s.unresolved) - 1
<1>1. s.unresolved \in Seq(Item) /\ l \in Nat /\ s.matched \in SUBSET Prompt
  BY DEF Combat
<1>2. P \in Nat /\ PairsLeft(s) \in Nat /\ 1 <= PairsLeft(s)
  BY <1>1, BoardFacts, PairsLeftFacts
<1> HIDE DEF P, l
<1>3. l * P \in Nat
  BY <1>1, <1>2
<1>4. AnswersLeft(s) = l * P + (IF s.dirty THEN P ELSE 0) + PairsLeft(s)
  BY DEF AnswersLeft, P, l
<1> QED BY <1>2, <1>3, <1>4

LEMMA PlayEnds ==
  ASSUME NEW s \in Combat, NEW f, Plays(s, RightAnswersNeeded(s), f)
  PROVE  f[RightAnswersNeeded(s)].unresolved = <<>>
<1> DEFINE N == RightAnswersNeeded(s)
           S == {k \in 0..N : /\ f[k] \in Combat
                              /\ f[k].unresolved = <<>> \/ AnswersLeft(f[k]) + k <= N}
<1>1. N \in Nat
  BY EnoughAnswers
<1>2. \A k \in 0..N : f[k] = IF k = 0 THEN s ELSE IF f[k - 1].unresolved = <<>> THEN f[k - 1]
                             ELSE Played(f[k - 1], RightAnswer(f[k - 1]))
  BY DEF Plays
<1>3. 0 \in S
  <2>1. f[0] = s /\ 0 \in 0..N
    BY <1>1, <1>2
  <2>2. s.unresolved = <<>> \/ (AnswersLeft(s) \in Nat /\ AnswersLeft(s) <= N)
    BY EnoughAnswers, SomethingLeft
  <2> HIDE DEF N
  <2> QED BY <1>1, <2>1, <2>2
<1> HIDE DEF N
<1>4. ASSUME NEW k \in 1..N, k - 1 \in S PROVE k \in S
  <2>1. /\ k \in 0..N /\ k # 0 /\ k - 1 \in Nat /\ f[k - 1] \in Combat
        /\ f[k - 1].unresolved = <<>> \/ AnswersLeft(f[k - 1]) + (k - 1) <= N
    BY <1>1, <1>4
  <2>2. CASE f[k - 1].unresolved = <<>>
    BY <1>2, <2>1, <2>2
  <2>3. CASE f[k - 1].unresolved # <<>>
    <3>1. f[k] = Played(f[k - 1], RightAnswer(f[k - 1]))
      BY <1>2, <2>1, <2>3
    <3>2. /\ f[k] \in Combat
          /\ f[k].unresolved = <<>> \/ AnswersLeft(f[k]) + 1 <= AnswersLeft(f[k - 1])
      BY <2>1, <2>3, <3>1, RightAnswerLeaves
    <3>3. AnswersLeft(f[k - 1]) \in Nat /\ (f[k].unresolved # <<>> => AnswersLeft(f[k]) \in Nat)
      BY <2>1, <2>3, <3>2, SomethingLeft
    <3> QED BY <1>1, <2>1, <2>3, <3>2, <3>3
  <2> QED BY <2>2, <2>3
<1>5. N \in S
  <2> HIDE DEF S
  <2> QED BY <1>1, <1>3, <1>4, Upwards
<1>6. f[N].unresolved # <<>> => AnswersLeft(f[N]) \in Nat /\ AnswersLeft(f[N]) >= 1
  BY <1>5, SomethingLeft
<1> QED BY <1>1, <1>5, <1>6 DEF N

\* No fight is ever stuck: whatever was missed before, the board that was left
\* dirty and the shield that was lost, right answers alone win it within the
\* rounds that are left (foldRecallChallenge).
THEOREM RightAnswersWin == Spec => []PerfectPlayWins
<1>1. FightInv => PerfectPlayWins
  <2> SUFFICES ASSUME FightInv, NEW c \in Challenge PROVE
        LET after[n \in 0..RightAnswersNeeded(combat[c])] ==
              IF n = 0 THEN combat[c]
              ELSE IF after[n - 1].unresolved = <<>> THEN after[n - 1]
              ELSE Played(after[n - 1], RightAnswer(after[n - 1]))
        IN after[RightAnswersNeeded(combat[c])].unresolved = <<>>
    BY DEF PerfectPlayWins
  <2> DEFINE s == combat[c]
             N == RightAnswersNeeded(s)
             after[n \in 0..N] ==
               IF n = 0 THEN s
               ELSE IF after[n - 1].unresolved = <<>> THEN after[n - 1]
               ELSE Played(after[n - 1], RightAnswer(after[n - 1]))
  <2>1. s \in Combat
    BY DEF FightInv, TypeOK
  <2>2. \E f : Plays(s, N, f)
    BY <2>1, EnoughAnswers, PlayExists
  <2>3. Plays(s, N, after)
    BY <2>2 DEF Plays
  <2> HIDE DEF after
  <2>4. after[N].unresolved = <<>>
    BY <2>1, <2>3, PlayEnds
  <2> QED BY <2>4 DEF after
<1> QED BY <1>1, FightInitInv, FightStep, PTL DEF Spec

=============================================================================
