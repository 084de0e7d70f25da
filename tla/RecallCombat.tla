----------------------------- MODULE RecallCombat -----------------------------
(***************************************************************************)
(* The rules of a Recall Challenge: how the immutable lineup and one event *)
(* after the other give the state of the fight (foldRecallChallenge).      *)
(*                                                                         *)
(* A fold over the events in sequence order is its last step applied to    *)
(* the fold of the others, so the state is kept and each event is Played   *)
(* on it.  The reshuffle counter of a matching board is left out.          *)
(***************************************************************************)
EXTENDS Naturals, Sequences, FiniteSets

CONSTANTS Item,        \* Study Items
          Matching,    \* those answered pair by pair on a board
          Prompt       \* the prompts of a board

ASSUME BoardsArePlayable ==
  Matching \subseteq Item /\ IsFiniteSet(Prompt) /\ Prompt # {}

RECALL_MISS_BUFFER == 3

\* matched and dirty are the board of the current item: the prompts matched
\* so far, and whether a pair was missed in this round.
Combat == [unresolved : Seq(Item), resolved : SUBSET Item, buffer : 0..RECALL_MISS_BUFFER,
           retreated : BOOLEAN, abandoned : BOOLEAN,
           matched : SUBSET Prompt, dirty : BOOLEAN]

\* The lineups selectRecallLineup may return: distinct items, at least one.
Lineup == {s \in UNION {[1..n -> Item] : n \in 1..Cardinality(Item)} :
             \A i, j \in DOMAIN s : s[i] = s[j] => i = j}

InitialCombat(lineup) ==
  [unresolved |-> lineup, resolved |-> {}, buffer |-> RECALL_MISS_BUFFER,
   retreated |-> FALSE, abandoned |-> FALSE, matched |-> {}, dirty |-> FALSE]

\* What a request asks for: an answer to an item, graded against its key, or
\* a change of engagement, whose item, prompt and correct mean nothing.
Answers == {"selection_answer", "matching_pair"}
Engagements == {"retreat", "resume", "abandon"}

\* A selection answer for a selection item, a pair of the board for a matching one.
WellTyped(a) ==
  IF a.item \in Matching THEN a.kind = "matching_pair" ELSE a.kind = "selection_answer"

CurrentTurn(s, item) ==
  s.unresolved # <<>> /\ ~s.abandoned /\ Head(s.unresolved) = item

-----------------------------------------------------------------------------
(* One event. *)

MutantClearBoard(s) == [s EXCEPT !.matched = {}]   \* a new round stays dirty

ClearBoard(s) == [s EXCEPT !.matched = {}, !.dirty = FALSE]

MutantMiss(s) ==     \* the missed item is queued again and not taken from the front
  [ClearBoard(s) EXCEPT !.buffer = IF @ > 0 THEN @ - 1 ELSE 0,
                        !.unresolved = IF Len(@) > 1 THEN Append(@, Head(@)) ELSE @]

\* One segment of the shield, and the item goes behind the other ones.
Miss(s) ==
  [ClearBoard(s) EXCEPT !.buffer = IF @ > 0 THEN @ - 1 ELSE 0,
                        !.unresolved = IF Len(@) > 1 THEN Append(Tail(@), Head(@)) ELSE @]

MutantResolve(s) ==  \* every resolved item restores a segment
  [ClearBoard(s) EXCEPT !.unresolved = Tail(@), !.resolved = @ \cup {Head(s.unresolved)},
                        !.buffer = @ + 1]

\* In recovery it restores exactly one segment.
Resolve(s) ==
  [ClearBoard(s) EXCEPT !.unresolved = Tail(@), !.resolved = @ \cup {Head(s.unresolved)},
                        !.buffer = IF @ = 0 THEN 1 ELSE @]

\* Only a completed round counts, and one with a wrong pair in it is one miss.
MatchPair(s, a) ==
  LET matched == s.matched \cup {a.prompt} IN
  IF ~a.correct THEN [s EXCEPT !.dirty = TRUE]
  ELSE IF Cardinality(matched) < Cardinality(Prompt) THEN [s EXCEPT !.matched = matched]
  ELSE IF s.dirty THEN Miss(s) ELSE Resolve(s)

Played(s, a) ==
  CASE a.kind = "retreat" -> [s EXCEPT !.retreated = TRUE]
    [] a.kind = "resume"  -> [s EXCEPT !.retreated = FALSE]
    [] a.kind = "abandon" -> [s EXCEPT !.abandoned = TRUE]
    [] a.kind \in Answers ->
         IF s.unresolved = <<>> \/ a.item # Head(s.unresolved) THEN s
         ELSE IF a.kind = "matching_pair" THEN MatchPair(s, a)
         ELSE IF a.correct THEN Resolve(s) ELSE Miss(s)

\* An engagement request that has nothing to change: it appends no event.
ChangesNothing(s, kind) ==
  \/ kind = "retreat" /\ s.retreated
  \/ kind = "resume" /\ ~s.retreated
  \/ kind = "abandon" /\ s.abandoned

Acceptable(s, a) ==
  IF a.kind \in Answers THEN CurrentTurn(s, a.item) /\ WellTyped(a)
  ELSE ~ChangesNothing(s, a.kind)

=============================================================================
