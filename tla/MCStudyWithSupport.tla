-------------------------- MODULE MCStudyWithSupport --------------------------
(* Small instances of StudyWithSupport for TLC. *)
EXTENDS StudyWithSupport, TLC

Generated == [ordinal |-> 0, by |-> NoToken, pin |-> NoToken]

Outlines == {{Generated}, {Generated, [Generated EXCEPT !.ordinal = 1, !.pin = <<1, 1>>]}}

Bounds(requests, retries, faults) == [requests |-> requests, retries |-> retries, faults |-> faults]

\* The detours alone, hidden and restored with a fault or retried; the source
\* from the start, and once adopted; a reference against attempts in flight.
Profiles == {[detour |-> Bounds(3, 0, 1), begun |-> "new", calls |-> 0],
             [detour |-> Bounds(1, 1, 0), begun |-> "new", calls |-> 0],
             [detour |-> Bounds(0, 0, 0), begun |-> "new", calls |-> 5],
             [detour |-> Bounds(0, 0, 0), begun |-> "adopted", calls |-> 3],
             [detour |-> Bounds(1, 0, 0), begun |-> "adopted", calls |-> 1]}

Symmetry == Permutations(Handler)

Fresh == {t \in Token : pc[t] = "fresh"}

TokensInOrder == \A t \in Fresh : pc'[t] # "fresh" => \A u \in Fresh : t <= u
=============================================================================
