---- MODULE MCRecallFight ----
(* RecallFight for TLC: references are used in order, since they differ in  *)
(* nothing but their identity.                                              *)
EXTENDS RecallFight

RefsInOrder ==
  \A c \in Challenge : \A r \in counted'[c] \ counted[c] :
    \A x \in Ref : x < r => x \in UNION {counted[k] : k \in Challenge}

====
