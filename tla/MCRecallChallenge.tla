---- MODULE MCRecallChallenge ----
(* RecallChallenge for TLC.  Challenge ids and references are used in order,*)
(* handlers and items are interchangeable, and of the answers that do not   *)
(* suit their item one per item is enough.  The first fight is about all    *)
(* the items and the ones that replace it about one.                        *)
EXTENDS RecallChallenge, TLC

Symmetry == Permutations(Handler) \cup Permutations(Item)

IdsInOrder ==
  /\ \A c \in Challenge : rows[c].status = "absent" /\ rows'[c].status # "absent" =>
       /\ \A x \in Challenge : x < c => rows[x].status # "absent"
       /\ Len(lineup'[c]) = IF c = 1 THEN Cardinality(Item) ELSE 1
  /\ \A r \in Ref : sent[r] = Unsent /\ sent'[r] # Unsent =>
       /\ \A x \in Ref : x < r => sent[x] # Unsent
       /\ sent'[r].kind \in Answers => WellTyped(sent'[r]) \/ sent'[r].correct

====
