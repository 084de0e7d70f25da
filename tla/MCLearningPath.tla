---------------------------- MODULE MCLearningPath ----------------------------
(* The way from extraction runs to a trail to study and a fight over what was *)
(* studied, as nine parts that hand a stored result to the next and share no  *)
(* variable: an extraction run, the publication of graph versions, the front  *)
(* half of an enrichment, the admission of its grounding, its consensus ordering and     *)
(* banding, the Study Item Bank, the packages accepted paths travel in, the   *)
(* study session, and the rules of a Recall fight.  An initial state chooses  *)
(* the part that runs; the others stay in an initial state of their own.      *)
EXTENDS MCGraphPublication, ConsensusOrdering, GraphEnrichment, MCGroundingAdmission,
        StudyItemBank, StudySession, AcceptedPackages, ExtractionRun, MCRecallFight

VARIABLE part \* the part that runs

(* Ordering and banding.  Five concepts: a cycle of three joined to another   *)
(* at concept 3, the edge 4 <- 2 that a longer path implies, and any one edge *)
(* of the two cycles missing from a draw or reversed in it.                   *)
TwoDomains == <<1 .. 5, {6}>>

Bow == {<<1, 2>>, <<2, 3>>, <<3, 1>>, <<3, 4>>, <<4, 5>>, <<5, 3>>, <<2, 4>>}

SomeOrderings ==
  {(Bow \ {gone}) \cup more : gone \in Bow, more \in {{}, {<<2, 1>>}}} \cup {{<<1, 1>>}}

Flat(nodes) == [n \in nodes |-> 1]

SomeBandings ==
  {f \in [1 .. 5 -> {1, 3, 5}] : f[1] # 5 /\ f[2] # 3 /\ f[5] # 1 /\ f[4] = f[3]}
    \cup {Flat({6})}

OrderingJudges == [evidenced |-> 1 .. 6, orderings |-> SomeOrderings,
                   bandings |-> {Flat(1 .. 5), Flat({6})}]

BandingJudges == [evidenced |-> {1, 6}, orderings |-> {{}}, bandings |-> SomeBandings]

SomeJudges == {OrderingJudges, BandingJudges}

-----------------------------------------------------------------------------
(* Enrichment.  Three published concepts of two domains; candidates that      *)
(* repeat a slot, carry a title or name a concept; proposals that repeat one. *)
ThreeAnchors == <<<<1, "a">>, <<1, "b">>, <<2, "a">>>>

Mention(slot, carrier) == [slot |-> slot, carrier |-> carrier]

SomeCandidates ==
  {<<>>,
   <<Mention(<<1, "x">>, FALSE), Mention(<<1, "x">>, TRUE), Mention(<<1, "a">>, FALSE)>>,
   <<Mention(<<1, "y">>, FALSE), Mention(<<1, "x">>, FALSE), Mention(<<1, "y">>, FALSE)>>}

SomeLabels == {"a", "x", "z"}

SomeProposals == {<<>>, <<"a", "x", "y">>, <<"x", "x">>}

-----------------------------------------------------------------------------
(* The bank: one chain over three nodes with every verdict, two chains beside *)
(* each other, a source layer with its admissions, and three generations of   *)
(* one layer whose data is fixed, so that their persists overlap.             *)
Draft(by, passages) == [by |-> by, passages |-> passages]

EveryVerdict == {"clear", "vetoed", "unavailable"}

OneChain ==
  [sourced |-> FALSE, nodes |-> 3, types |-> {"option_select"}, generations |-> {1},
   lessons |-> {Draft("plain", 1)}, rungs |-> {"verbatim", "fallback"}, verdicts |-> EveryVerdict]

TwoChains ==
  [sourced |-> FALSE, nodes |-> 2, types |-> {"matching", "impostor"}, generations |-> {1},
   lessons |-> {Draft("none", 0), Draft("plain", 3)}, rungs |-> {"verbatim"},
   verdicts |-> EveryVerdict]

SourceChains ==
  [sourced |-> TRUE, nodes |-> 2, types |-> {"option_select", "matching"}, generations |-> {1},
   lessons |-> {Draft("none", 0), Draft("plain", 1), Draft("cited", 3)},
   rungs |-> {"verbatim"}, verdicts |-> {"clear", "vetoed"}]

Regenerations ==
  [sourced |-> FALSE, nodes |-> 2, types |-> {"option_select"}, generations |-> 1 .. 3,
   lessons |-> {Draft("plain", 1)}, rungs |-> {"verbatim"}, verdicts |-> {"clear"}]

SomeBanks == {OneChain, TwoChains, SourceChains, Regenerations}

\* A persist of generation g is open.
Saving(g) == jobs[g].at \in {"sweep lessons", "sweep items"} \/ Writing(g)

\* Of several generations the first is over before the others begin, and what
\* the others do before they save, which no other sees, comes in their order.
OnlySavesOverlap ==
  \A g \in DOMAIN jobs : jobs'[g] # jobs[g] =>
    \A h \in 1 .. (g - 1) : jobs[h].at \in {"done", "failed"} \/ (h > 1 /\ Saving(h))

-----------------------------------------------------------------------------
(* The session: graphs of four for the contraction, of five for the Legs, of  *)
(* four with every mix of assets for qualification, and one to study.         *)
ReadyAsset == [origin |-> "anchor", verified |-> FALSE, lessons |-> <<TRUE>>, options |-> <<TRUE>>]

Unready ==
  {[ReadyAsset EXCEPT !.origin = "llm_grounded"],
   [ReadyAsset EXCEPT !.origin = "source_mentioned"],
   [ReadyAsset EXCEPT !.lessons = <<>>],
   [ReadyAsset EXCEPT !.options = <<FALSE>>]}

Graph(n, gates, band, itemful) ==
  [nodes |-> 1 .. n, gates |-> gates, band |-> band, contested |-> {}, itemful |-> itemful]

AllReady(g) == [graph |-> g, assets |-> [n \in g.nodes |-> ReadyAsset]]

Certain(edges) == [e \in edges |-> TRUE]

FloorCases ==
  LET edges == {<<1, 2>>, <<1, 3>>, <<2, 4>>, <<3, 4>>, <<2, 3>>, <<1, 4>>}
  IN  {AllReady(Graph(4, gates, [n \in 1 .. 4 |-> IF n \in floored THEN 1 ELSE 2], 1 .. 4)) :
         gates \in UNION {[e -> BOOLEAN] : e \in SUBSET edges}, floored \in {{2}, {2, 3}, {4}}}

LegCases ==
  {AllReady(Graph(5, Certain(edges), band, itemful)) :
     edges \in {{<<1, 5>>, <<2, 5>>, <<3, 2>>, <<4, 5>>},
                {<<1, 2>>, <<1, 3>>, <<3, 4>>, <<2, 5>>},
                {<<1, 3>>, <<2, 3>>, <<2, 4>>}},
     band \in {[n \in 1 .. 5 |-> 2], [n \in 1 .. 5 |-> IF n = 3 THEN 0 ELSE 1 + (n % 3)]},
     itemful \in SUBSET (1 .. 5)}

AssetCases ==
  {[graph |-> Graph(4, Certain(edges), [n \in 1 .. 4 |-> 2], 1 .. 4), assets |-> a] :
     edges \in {{<<1, 2>>, <<2, 3>>, <<1, 4>>}, {<<1, 3>>, <<2, 3>>, <<3, 4>>}},
     a \in [1 .. 4 -> Unready \cup {ReadyAsset}]}

StudyCase ==
  [AllReady(Graph(3, Certain({<<1, 2>>, <<2, 3>>}), [n \in 1 .. 3 |-> 2], 1 .. 3))
     EXCEPT !.assets[2].options = <<TRUE, FALSE, TRUE>>]

SomeTrails == FloorCases \cup LegCases \cup AssetCases \cup {StudyCase}

\* Only the one case is studied after its qualification.
OneCaseIsStudied == answer = "unasked" \/ graph = StudyCase.graph

-----------------------------------------------------------------------------
(* Extraction.  Two candidates, every pair of decisions on them, atoms that   *)
(* share a key or take that of the other candidate, and quotes of which the   *)
(* third is not in the source.                                                *)
SomeDiscoveries == {<<1, 2>>, <<1, 1>>}

Proposal(atomic, parent, tier, inDomain, verified, selected) ==
  [atomic |-> atomic, parent |-> parent, tier |-> tier, inDomain |-> inDomain, passed |-> TRUE,
   verified |-> verified, grounded |-> atomic # 4, selected |-> selected]

DecisionsOn(atomic, parent) ==
  {Proposal(atomic, parent, "core", TRUE, verified, selected) : verified, selected \in BOOLEAN}
    \cup {Proposal(atomic, parent, "quarantine", TRUE, TRUE, FALSE),
          Proposal(atomic, parent, "reject", FALSE, TRUE, FALSE)}

Selected(atomic, parent) == Proposal(atomic, parent, "core", TRUE, TRUE, TRUE)

SomeDecisions ==
  {<<p, Proposal(2, 2, "quarantine", TRUE, TRUE, FALSE)>> : p \in DecisionsOn(1, 1)}
    \cup {<<>>, <<Selected(1, 1), Selected(2, 2)>>, <<Selected(3, 1), Selected(4, 1)>>, <<Selected(3, 1), Selected(3, 1)>>,
          <<Selected(2, 1)>>, <<Selected(1, 1)>>}

Extracted(definitions, mentions, assertions) ==
  [definitions |-> definitions, mentions |-> mentions, assertions |-> assertions]

SomeExtractions ==
  {Extracted({1}, <<3, 2, 1>>, {}), Extracted({1, 2, 3}, <<1>>, {{2, 3}})}

-----------------------------------------------------------------------------
\* Of the packages one export at a time reads tables, so that what two of them
\* write, in files and in the manifest, still overlaps; and as exports are alike
\* the first one that is idle begins.
ExportsInOrder ==
  \A x, y \in Exporter :
    /\ exports'[x].at = "reading" /\ exports'[y].at = "reading" => x = y
    /\ exports[x].at = "idle" /\ exports'[x].at # "idle" /\ y < x => exports[y].at # "idle"

-----------------------------------------------------------------------------
PathInit ==
  /\ part \in {"extraction", "publication", "enrichment", "admission", "ordering", "bank",
              "packages", "study", "fight"}
  /\ ExtractionInit
  /\ PublicationInit
  /\ Init
  /\ EnrichmentInit
  /\ GroundingInit /\ (part # "admission" => admission = Crowd)
  /\ ConsensusInit /\ (part # "ordering" => judges = BandingJudges)
  /\ BankInit /\ (part # "bank" => bank = OneChain)
  /\ IF part = "packages"
     THEN \/ sharing = {} /\ (PackagesInit("empty", 4) \/ PackagesInit("whole", 3))
          \/ sharing = Path /\ (PackagesInit("whole", 2) \/ PackagesInit("rebuilt", 2))
     ELSE PackagesInit("empty", 0) /\ sharing = {}
  /\ SessionInit /\ (part # "study" => graph = StudyCase.graph /\ assets = StudyCase.assets)

Extracting ==
  /\ part = "extraction" /\ ExtractionNext
  /\ UNCHANGED <<publicationVars, enrichmentVars, groundingVars, consensusVars, bankVars, packageVars, sessionVars, vars, part>>

Published ==
  /\ part = "publication" /\ PublicationNext
  /\ UNCHANGED <<extractionVars, enrichmentVars, groundingVars, consensusVars, bankVars, packageVars, sessionVars, vars, part>>

Enriched ==
  /\ part = "enrichment" /\ EnrichmentNext
  /\ UNCHANGED <<extractionVars, publicationVars, groundingVars, consensusVars, bankVars, packageVars, sessionVars, vars, part>>

Admitted ==
  /\ part = "admission" /\ GroundingNext /\ CrowdFailsEarly
  /\ UNCHANGED <<extractionVars, publicationVars, enrichmentVars, consensusVars, bankVars, packageVars, sessionVars, vars, part>>

Ordered ==
  /\ part = "ordering" /\ ConsensusNext
  /\ UNCHANGED <<extractionVars, publicationVars, enrichmentVars, groundingVars, bankVars, packageVars, sessionVars, vars, part>>

Banked ==
  /\ part = "bank" /\ BankNext /\ OnlySavesOverlap
  /\ UNCHANGED <<extractionVars, publicationVars, enrichmentVars, groundingVars, consensusVars, packageVars, sessionVars, vars, part>>

Packed ==
  /\ part = "packages" /\ PackagesNext /\ ExportsInOrder
  /\ UNCHANGED <<extractionVars, publicationVars, enrichmentVars, groundingVars, consensusVars, bankVars, sessionVars, vars, part>>

Studied ==
  /\ part = "study" /\ OneCaseIsStudied /\ SessionNext
  /\ UNCHANGED <<extractionVars, publicationVars, enrichmentVars, groundingVars, consensusVars, bankVars, packageVars, vars, part>>

Fought ==
  /\ part = "fight" /\ Next /\ RefsInOrder
  /\ UNCHANGED <<extractionVars, publicationVars, enrichmentVars, groundingVars, consensusVars, bankVars, packageVars, sessionVars, part>>

PathNext ==
  Extracting \/ Published \/ Enriched \/ Admitted \/ Ordered \/ Banked \/ Packed \/ Studied \/ Fought

pathVars ==
  <<extractionVars, publicationVars, enrichmentVars, groundingVars, consensusVars, bankVars, packageVars,
    sessionVars, vars, part>>

\* The calls of an admission answer or time out.
PathSpec == PathInit /\ [][PathNext]_pathVars /\ WF_pathVars(Admitted)

\* A batch under admission returns or throws, whatever fails and wherever: no
\* limiter and no bracket waits for one that will never settle.
AdmissionSettles ==
  part = "admission" ~> part = "admission" /\ progress \in {"returned", "thrown"}
=============================================================================
