--------------------------- MODULE MCTopicGeneration ---------------------------
(* Small instances of TopicGeneration for TLC.  Operation ids are numbers,  *)
(* and claims take them in order: they are interchangeable, so the order is *)
(* the symmetry reduction, sound for liveness too.                          *)
EXTENDS TopicGeneration, TLC

Symmetry == Permutations(Process)

Fresh == {t \in Token : pc[t] = "fresh"}

TokensInOrder == \A t \in Fresh : pc'[t] # "fresh" => \A u \in Fresh : t <= u

(* Either one row with its Retry and every fault, or two rows that queue with *)
(* one fault between them.  A row is there once it is started; Tick ages an   *)
(* absent one too.  What breaks this is a start, a request or a fault, never a *)
(* step that fairness asks for, so no behaviour is dropped as unfair.         *)
OneRowOrAQueue ==
  (\A e \in Expedition : exp'[e].status # "absent") => requests' = 0 /\ faults' <= 1
=============================================================================
