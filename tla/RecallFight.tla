------------------------------ MODULE RecallFight ------------------------------
(***************************************************************************)
(* What Recall Challenges promise for one scope of one learner: there is   *)
(* one fight at a time, its turns are taken one after the other by the     *)
(* rules of RecallCombat, each request counts at most once however often   *)
(* it is sent, and a fight that is won or abandoned stays as it is.        *)
(***************************************************************************)
EXTENDS RecallCombat

CONSTANTS Challenge,   \* challenge ids
          Ref          \* attempt and operation references held by clients

VARIABLES stage,       \* absent, active, won or abandoned
          lineup,      \* the items the fight is about
          combat,
          counted      \* the requests that were played

vars == <<stage, lineup, combat, counted>>

Action == [kind : Answers, item : Item, prompt : Prompt, correct : BOOLEAN]
            \cup [kind : Engagements]

NoFight == <<>>        \* a challenge not begun has no lineup

Init == /\ stage = [c \in Challenge |-> "absent"]
        /\ lineup = [c \in Challenge |-> NoFight]
        /\ combat = [c \in Challenge |-> InitialCombat(NoFight)]
        /\ counted = [c \in Challenge |-> {}]

\* A new fight replaces the one that was being fought.
Begin(c, l) ==
  /\ stage[c] = "absent"
  /\ stage' = [x \in Challenge |-> IF x = c THEN "active"
                                   ELSE IF stage[x] = "active" THEN "abandoned" ELSE stage[x]]
  /\ lineup' = [lineup EXCEPT ![c] = l]
  /\ combat' = [combat EXCEPT ![c] = InitialCombat(l)]
  /\ UNCHANGED counted

StageAfter(s) == IF s.unresolved = <<>> THEN "won" ELSE IF s.abandoned THEN "abandoned" ELSE "active"

Turn(c, r, a) ==
  /\ stage[c] = "active" /\ r \notin counted[c]
  /\ Acceptable(combat[c], a)
  /\ combat' = [combat EXCEPT ![c] = Played(combat[c], a)]
  /\ stage' = [stage EXCEPT ![c] = StageAfter(combat'[c])]
  /\ counted' = [counted EXCEPT ![c] = @ \cup {r}]
  /\ UNCHANGED lineup

Next == \E c \in Challenge : \/ \E l \in Lineup : Begin(c, l)
                             \/ \E r \in Ref, a \in Action : Turn(c, r, a)

Spec == Init /\ [][Next]_vars

-----------------------------------------------------------------------------
TypeOK ==
  /\ stage \in [Challenge -> {"absent", "active", "won", "abandoned"}]
  /\ lineup \in [Challenge -> Lineup \cup {NoFight}]
  /\ combat \in [Challenge -> Combat]
  /\ counted \in [Challenge -> SUBSET Ref]

Queue(s) == {s.unresolved[i] : i \in DOMAIN s.unresolved}

\* No ward is lost, duplicated or invented by rotation, dirty boards or
\* recovery, and an abandoned or replaced fight never counts as won.
WardsAreConserved ==
  \A c \in Challenge :
    /\ {lineup[c][i] : i \in DOMAIN lineup[c]} = Queue(combat[c]) \cup combat[c].resolved
    /\ Len(lineup[c]) = Len(combat[c].unresolved) + Cardinality(combat[c].resolved)
    /\ Queue(combat[c]) \cap combat[c].resolved = {}
    /\ stage[c] = "won" <=> lineup[c] # NoFight /\ combat[c].unresolved = <<>>

\* The next correct answer of a learner who knows everything.
RightAnswer(s) ==
  LET item == Head(s.unresolved) IN
  [item |-> item, correct |-> TRUE,
   kind |-> IF item \in Matching THEN "matching_pair" ELSE "selection_answer",
   prompt |-> CHOOSE p \in Prompt : Prompt \subseteq s.matched \/ p \notin s.matched]

\* A round for each unresolved item, and one more for a board already dirty.
RightAnswersNeeded(s) == (Len(s.unresolved) + 1) * Cardinality(Prompt)

\* No fight is ever stuck: whatever was missed before, retreats and recovery
\* included, correct answers alone win it within the rounds that are left.
\* (The fold is a function, recursive over the number of answers.)
PerfectPlayWins ==
  \A c \in Challenge : stage[c] = "active" =>
    LET after[n \in 0..RightAnswersNeeded(combat[c])] ==
          IF n = 0 THEN combat[c]
          ELSE IF after[n - 1].unresolved = <<>> THEN after[n - 1]
          ELSE Played(after[n - 1], RightAnswer(after[n - 1]))
    IN after[RightAnswersNeeded(combat[c])].unresolved = <<>>

=============================================================================
