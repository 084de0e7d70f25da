--------------------------- MODULE ExpeditionTrail ---------------------------
(* The trail of an Expedition, derived anew from the Derived Graph Layer on   *)
(* every read and never stored: the difficulty floor with its edge contraction*)
(* (applyDifficultyFloor.ts), the Legs and the summit (expeditionSections.ts) *)
(* and the part of it a source Expedition can offer (sourceExpedition.ts).    *)
(*                                                                            *)
(* A layer is a record of its nodes, its gates (a function from prerequisite  *)
(* edges to whether the edge is trusted, that is not uncertain), each node's  *)
(* difficulty band (0 without a difficulty row), the nodes whose band is      *)
(* contested, and the nodes that carry a current Study Item.  Labels sort as  *)
(* the ids do.                                                                *)
EXTENDS PrerequisiteGraph

CONSTANTS
  FloorBand, \* TRAIL_DIFFICULTY_FLOOR_BAND
  LegCap     \* SECTION_LINEUP_MAX

Trusted(gates) == {e \in DOMAIN gates : gates[e]}

\* The concepts too trivial to be a stop, and known to be.
Floored(layer) ==
  {n \in layer.nodes : layer.band[n] \in 1 .. FloorBand /\ n \notin layer.contested}

\* Mutant: a contracted gate is trusted when either of its halves is.
ContractTrusting(gates, f) ==
  LET into == {e \in DOMAIN gates : e[2] = f}
      outOf == {e \in DOMAIN gates : e[1] = f}
      rest == DOMAIN gates \ (into \cup outOf)
      through == {<<i[1], o[2]>> : i \in into, o \in outOf}
  IN  [e \in rest \cup {t \in through : t[1] # t[2]} |->
         IF e \in rest THEN gates[e]
         ELSE gates[<<e[1], f>>] \/ gates[<<f, e[2]>>]]

(* One floored node is taken out: each of its prerequisites is wired to each  *)
(* of its dependents, unless the two are wired already.                       *)
Contract(gates, f) ==
  LET into == {e \in DOMAIN gates : e[2] = f}
      outOf == {e \in DOMAIN gates : e[1] = f}
      rest == DOMAIN gates \ (into \cup outOf)
      through == {<<i[1], o[2]>> : i \in into, o \in outOf}
  IN  [e \in rest \cup {t \in through : t[1] # t[2]} |->
         IF e \in rest THEN gates[e]
         ELSE gates[<<e[1], f>>] /\ gates[<<f, e[2]>>]]

ContractedGates(layer) ==
  FoldLeft(Contract, layer.gates, Sorted(Floored(layer), <))

\* The layer a projection sees: the floored nodes gone, their gates contracted.
ApplyDifficultyFloor(layer) ==
  [layer EXCEPT !.nodes = @ \ Floored(layer), !.gates = ContractedGates(layer)]

-----------------------------------------------------------------------------
(* Legs.  The layer of these operators is floored already.                    *)

\* A terminal concept: no trusted edge leads out of it.
Milestones(layer) ==
  {n \in layer.nodes : Successors(Trusted(layer.gates), n) = {}}

\* A node without a difficulty row is as easy as one of band 1.
Difficulty(layer, n) == Max({layer.band[n], 1})

Cone(layer, n) == Ancestors(Trusted(layer.gates), n) \cup {n}

ConeDifficulty(layer, n) == MapThenSumSet(LAMBDA m : Difficulty(layer, m), Cone(layer, n))

Weight(layer, n) == <<ConeDifficulty(layer, n), Cardinality(Cone(layer, n))>>

\* By mean difficulty of the cone, then its size, then the label.
Lighter(m, w, n, v) ==
  \/ w[1] * v[2] < v[1] * w[2]
  \/ w[1] * v[2] = v[1] * w[2] /\ (w[2] < v[2] \/ (w[2] = v[2] /\ m < n))

MilestoneOrder(layer) ==
  LET Before(m, n) == Lighter(m, Weight(layer, m), n, Weight(layer, n))
  IN  Sorted(Milestones(layer), Before)

\* These stops in trail order: the easiest ready concept first.
StopOrder(layer, stops) ==
  LET Easier(m, n) ==
        \/ Difficulty(layer, m) < Difficulty(layer, n)
        \/ Difficulty(layer, m) = Difficulty(layer, n) /\ m < n
  IN  TopologicalOrder(stops, Within(Trusted(layer.gates), stops), Easier)

\* Each milestone, in turn, claims what is left of its cone.
Claim(layer, order) ==
  [i \in DOMAIN order |->
     [milestone |-> order[i],
      steps |-> StopOrder(layer, Cone(layer, order[i])
                                   \ UNION {Cone(layer, order[j]) : j \in 1 .. i - 1})]]

Drafts(layer) == Claim(layer, MilestoneOrder(layer))

Itemful(layer, draft) == {i \in DOMAIN draft.steps : draft.steps[i] \in layer.itemful}

\* A stop whose only dependent within its section is the section's milestone.
SubTerminal(layer, draft, n) ==
  n # draft.milestone
    /\ Successors(Trusted(layer.gates), n) \cap Range(draft.steps) = {draft.milestone}

\* The k-th part of a sequence cut after each of the indices.
Part(cuts, k) == (IF k = 1 THEN 1 ELSE cuts[k - 1] + 1) .. cuts[k]

Cuts(layer, draft) ==
  LET last == Len(draft.steps)
  IN  IF Cardinality(Itemful(layer, draft)) <= LegCap THEN <<last>>
      ELSE Sorted({i \in 1 .. last - 1 : SubTerminal(layer, draft, draft.steps[i])}
                    \cup {last}, <)

CutSection(draft, cuts) ==
  [k \in DOMAIN cuts |->
     [milestone |-> IF k = Len(cuts) THEN draft.milestone ELSE draft.steps[cuts[k]],
      steps |-> SubSeq(draft.steps, Min(Part(cuts, k)), cuts[k])]]

\* A section its Guardian cannot hold is cut after each sub-terminal stop.
Split(layer, draft) == CutSection(draft, Cuts(layer, draft))

Winnable(layer, drafts) == Sorted({i \in DOMAIN drafts : Itemful(layer, drafts[i]) # {}}, <)

\* The drafts of each part joined, under the milestone of its cut.
JoinSections(drafts, cuts) ==
  [k \in DOMAIN cuts |->
     [milestone |-> drafts[cuts[k]].milestone,
      steps |-> FlattenSeq([i \in 1 .. Cardinality(Part(cuts, k)) |->
                              drafts[Min(Part(cuts, k)) + i - 1].steps])]]

\* Mutant: a trailing run of sections without an item is dropped.
MergeDroppingTail(layer, drafts) == JoinSections(drafts, Winnable(layer, drafts))

\* The last cut is put off to the end: a trailing run joins the part before.
ToTheEnd(cuts, end) == IF cuts = <<>> THEN <<end>> ELSE [cuts EXCEPT ![Len(cuts)] = end]

(* A section without an item is absorbed by the one that follows it, and a    *)
(* trailing run of them by the one before, whose milestone becomes the run's. *)
Merge(layer, drafts) ==
  IF drafts = <<>> THEN <<>>
  ELSE JoinSections(drafts, ToTheEnd(Winnable(layer, drafts), Len(drafts)))

SplitAll(layer, drafts) == FlattenSeq([i \in DOMAIN drafts |-> Split(layer, drafts[i])])

Legs(layer) == Merge(layer, SplitAll(layer, Drafts(layer)))

StepsOf(legs) == FlattenSeq([i \in DOMAIN legs |-> legs[i].steps])

Trail(layer) == StepsOf(Legs(layer))

Summit(layer) == Last(MilestoneOrder(layer))

-----------------------------------------------------------------------------
(* What keeps a node out of a source Expedition.  Its asset is a record of    *)
(* where the node came from, whether its passages are verified, its lessons   *)
(* and its option selects, each TRUE when it meets the contract.              *)
DirectlyReady(asset) ==
  /\ asset.origin # "llm_grounded"
  /\ asset.origin = "source_mentioned" => asset.verified
  /\ asset.lessons = <<TRUE>>
  /\ TRUE \in Range(asset.options)

\* Mutant: the closure is made in one pass.
ReadyInOnePass(floored, ready) ==
  {n \in floored.nodes \cap ready : Prerequisites(Trusted(floored.gates), n) \subseteq ready}

(* The greatest part of the floored trail that is ready and closed under      *)
(* every trusted prerequisite: a stop whose prerequisite is gone goes too.    *)
GreatestReady(floored, ready) ==
  LET Shrink[trail \in SUBSET floored.nodes] ==
        LET stranded == {e \in Trusted(floored.gates) : e[2] \in trail /\ e[1] \notin trail}
        IN  IF stranded = {} THEN trail ELSE Shrink[trail \ {e[2] : e \in stranded}]
  IN  Shrink[floored.nodes \cap ready]

\* The trail narrowed to the stops, each of which has a qualified item.
Narrowed(floored, stops) ==
  [floored EXCEPT !.nodes = stops,
                  !.gates = Restrict(@, Within(DOMAIN @, stops)),
                  !.itemful = stops]
=============================================================================
