-------------------------- MODULE MCGroundingAdmission --------------------------
(* Small instances of GroundingAdmission for TLC. *)
EXTENDS GroundingAdmission

Caps == [planning |-> 1, answering |-> 1, judgment |-> 2]

Bundle(definitions, mentions) == [definitions |-> definitions, mentions |-> mentions]

Verdict(s, j) == <<1, 1, s, j>>

\* One claim, with every verdict of two judges over three samples.
OneClaim ==
  [candidates |-> 1, bundles |-> {Bundle(<<1>>, <<>>)}, faults |-> 0,
   objections |-> SUBSET {Verdict(s, j) : s \in 1 .. 3, j \in 1 .. 2}]

\* Four claims of three passages, of which the second sample divides the judges.
Passages ==
  [candidates |-> 1, bundles |-> {Bundle(<<1, 2>>, <<1>>), Bundle(<<1>>, <<>>)}, faults |-> 0,
   objections |-> {{<<1, t, 1, 1>> : t \in doubted} \cup {<<1, t, 3, 1>> : t \in vetoed}
                     \cup {<<1, 2, s, 2>> : s \in split} :
                       doubted \in {{1, 3}, {2, 3}}, vetoed \in {{}, {3}, {1, 2}}, split \in {{2}, {2, 3}}}]

\* Two candidates, and calls and writes that fail.
Failures ==
  [candidates |-> 2, bundles |-> {Bundle(<<1>>, <<>>)}, faults |-> 2,
   objections |-> {{<<2, 1, 1, 2>>}}]

\* More candidates than workers; what fails here fails before the claims.
Crowd == [Failures EXCEPT !.candidates = 3, !.objections = {{}}, !.faults = 1]

CrowdFailsEarly == admission = Crowd /\ progress = "claiming" => faults' = faults

SomeAdmissions == {OneClaim, Passages, Failures, Crowd}
=============================================================================
