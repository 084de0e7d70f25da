-------------------------- MODULE MCGraphPublication --------------------------
(* A small instance of GraphPublication for TLC: two Declared Domains that     *)
(* share the label 1, the label "1 2" whose slug is also that of a second 1,   *)
(* and a run under quarantine.                                                 *)
EXTENDS GraphPublication

Run(domain, core, sound) == [domain |-> domain, core |-> core, sound |-> sound]

SomeRuns ==
  <<Run(1, {<<1>>, <<2>>}, TRUE), Run(2, {<<1>>}, TRUE),
    Run(1, {<<1>>, <<1, 2>>}, TRUE), Run(1, {<<2>>}, FALSE)>>

SomeSelections == {<<1>>, <<2, 1>>, <<2>>, <<3>>, <<1, 4>>}
=============================================================================
