--------------------------- MODULE MCTimelyGeneration --------------------------
(* A small instance of TimelyGeneration for TLC. *)
EXTENDS MCTopicGeneration, TimelyGeneration
=============================================================================
