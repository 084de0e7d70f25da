---------------------------- MODULE GraphEnrichment ----------------------------
(* The front half of a source-grounded Derived Graph Layer: the asserted      *)
(* anchors are joined by nodes rescued from the source's mentions and by      *)
(* prerequisites minted per anchor (enrichmentNodeMinting.ts), the verbatim   *)
(* floor drops what the source does not say, near-duplicates are merged       *)
(* (deduplicateDerivedNodes.ts) and the result is submitted to the shared     *)
(* completion, which validates it before any other call                       *)
(* (runGraphEnrichment.ts, completeDerivedGraphLayer.ts).  The judges, the    *)
(* proposer and the embedding are external: any of their answers may come.    *)
(*                                                                            *)
(* A slot is a pair of a Declared Domain and a normalized label.  The nodes   *)
(* are numbered: the anchors first, in the order of their concept ids.        *)
EXTENDS PrerequisiteGraph

CONSTANTS
  AnchorSlots,  \* a sequence: the slots of the published concepts
  Candidates,   \* the sets of rescue candidates a version may have: sequences
                \* of records [slot, carrier], carrier TRUE when its label is
                \* the title of its source
  Labels,       \* what the labelling judge may name
  Proposals,    \* the lists of labels the proposer may answer with
  MaxPerAnchor, \* maxMintedPerAnchor
  MaxPerRun     \* maxMintedPerRun

ASSUME EnrichmentAssumption ==
  /\ AnchorSlots \in Seq(Range(AnchorSlots)) /\ AnchorSlots # <<>> /\ IsInjective(AnchorSlots)
  /\ \A c \in Candidates : c \in Seq(Range(c))
  /\ \A labels \in Proposals : labels \in Seq(Range(labels))
  /\ MaxPerAnchor \in Nat /\ MaxPerRun \in Nat

VARIABLES
  phase,   \* the step the run is about to take, or how it ended
  slots,   \* node -> the slot of every node ever made
  kind,    \* node -> "anchor", "source_mentioned" or "llm_grounded"
  taken,   \* the claimed slots: takenByDomain
  alive,   \* the nodes in the node set
  rescue,  \* rescued node -> its disposition
  pending, \* this anchor's proposals: "reserved", then "kept" by the judge
  anchor,  \* the anchor being minted for
  minting, \* proposed node -> its durability disposition
  admit,   \* durability-kept node -> its grounding-admission outcome
  floor,   \* enrichment node -> its verbatim outcome
  merges   \* absorbed node -> the node it was merged into

enrichmentVars ==
  <<phase, slots, kind, taken, alive, rescue, pending, anchor, minting, admit, floor, merges>>

AnchorNodes == 1 .. Len(AnchorSlots)

EnrichmentInit ==
  /\ phase = "rescue"
  /\ slots = AnchorSlots
  /\ kind = [n \in AnchorNodes |-> "anchor"]
  /\ taken = Range(AnchorSlots)
  /\ alive = AnchorNodes
  /\ rescue = <<>> /\ pending = <<>> /\ anchor = 1
  /\ minting = <<>> /\ admit = <<>> /\ floor = <<>> /\ merges = <<>>

\* f with the keys of g added, or overwritten, as by Map.set.
Joined(f, g) == [n \in DOMAIN f \cup DOMAIN g |-> IF n \in DOMAIN g THEN g[n] ELSE f[n]]

SlotsOf(nodes) == {slots[n] : n \in nodes}

-----------------------------------------------------------------------------
(* The candidates of one slot are one node; a slot an anchor holds is none.   *)
(* A node that carries its source's title is dropped unasked, the judge drops *)
(* any others, and every dropped slot stays taken.                            *)
Rescue(candidates) ==
  /\ phase = "rescue"
  /\ LET fresh == {candidates[i].slot : i \in DOMAIN candidates} \ taken
         first(s) == Min({i \in DOMAIN candidates : candidates[i].slot = s})
         places == Sorted({first(s) : s \in fresh}, <)
         order == [i \in DOMAIN places |-> candidates[places[i]].slot]
         made == {Len(slots) + i : i \in DOMAIN order}
         carriers == {n \in made : \E i \in DOMAIN candidates :
                        candidates[i].slot = order[n - Len(slots)] /\ candidates[i].carrier}
     IN  \E judged \in SUBSET (made \ carriers) :
           /\ slots' = slots \o order
           /\ kind' = Joined(kind, [n \in made |-> "source_mentioned"])
           /\ taken' = taken \cup fresh
           /\ rescue' = [n \in made |-> IF n \in carriers \cup judged THEN "dropped" ELSE "kept"]
           /\ alive' = alive \cup (made \ (carriers \cup judged))
  /\ phase' = "durability"
  /\ UNCHANGED <<pending, anchor, minting, admit, floor, merges>>

Rescued == {n \in alive : kind[n] = "source_mentioned"}

\* Mutant: a dropped node gives its label back.
JudgeRescueReleasing ==
  /\ phase = "durability"
  /\ \E dropped \in SUBSET Rescued :
       /\ rescue' = [n \in DOMAIN rescue |-> IF n \in dropped THEN "dropped" ELSE rescue[n]]
       /\ alive' = alive \ dropped
       /\ taken' = taken \ SlotsOf(dropped)
  /\ phase' = "label"
  /\ UNCHANGED <<slots, kind, pending, anchor, minting, admit, floor, merges>>

\* Drop-only, and an unavailable judge keeps the node.
JudgeRescue ==
  /\ phase = "durability"
  /\ \E dropped \in SUBSET Rescued :
       /\ rescue' = [n \in DOMAIN rescue |-> IF n \in dropped THEN "dropped" ELSE rescue[n]]
       /\ alive' = alive \ dropped
  /\ phase' = "label"
  /\ UNCHANGED <<slots, kind, taken, pending, anchor, minting, admit, floor, merges>>

(* Each kept node, in order, adopts the label proposed for it when nobody has *)
(* claimed it; the label it had stays claimed too.                            *)
Relabel ==
  /\ phase = "label"
  /\ \E proposal \in [Rescued -> Labels] :
       LET Adopt(state, n) ==
             LET slot == <<slots[n][1], proposal[n]>>
             IN  IF slot \in state.taken THEN state
                 ELSE [taken |-> state.taken \cup {slot},
                       slots |-> [state.slots EXCEPT ![n] = slot]]
           named == FoldLeft(Adopt, [taken |-> taken, slots |-> slots],
                             Sorted(Rescued, <))
       IN  taken' = named.taken /\ slots' = named.slots
  /\ phase' = "mint"
  /\ UNCHANGED <<kind, alive, rescue, pending, anchor, minting, admit, floor, merges>>

-----------------------------------------------------------------------------
Minted == {n \in alive : kind[n] = "llm_grounded"}

Budget == MaxPerRun - Cardinality(Minted)

MoreToMint == phase = "mint" /\ anchor <= Len(AnchorSlots) /\ Budget > 0

(* The proposer answers for one anchor with any list of labels.  Those that   *)
(* nobody has claimed are reserved, in order, as many as could be minted.     *)
Propose(labels) ==
  /\ MoreToMint /\ pending = <<>>
  /\ LET domain == AnchorSlots[anchor][1]
         limit == IF MaxPerAnchor < Budget THEN MaxPerAnchor ELSE Budget
         Reserve(reserved, label) ==
           IF \/ Len(reserved) >= limit
              \/ <<domain, label>> \in taken \cup Range(reserved)
           THEN reserved ELSE Append(reserved, <<domain, label>>)
         reserved == FoldLeft(Reserve, <<>>, labels)
         made == {Len(slots) + i : i \in DOMAIN reserved}
     IN  /\ slots' = slots \o reserved
         /\ kind' = Joined(kind, [n \in made |-> "llm_grounded"])
         /\ taken' = taken \cup Range(reserved)
         /\ pending' = [n \in made |-> "reserved"]
         /\ anchor' = IF reserved = <<>> THEN anchor + 1 ELSE anchor
  /\ UNCHANGED <<phase, alive, rescue, minting, admit, floor, merges>>

(* A dropped proposal gives its slot back: the verdict is the anchor's.  An   *)
(* unavailable judge keeps the proposal.                                      *)
JudgeMinting ==
  /\ phase = "mint" /\ \E n \in DOMAIN pending : pending[n] = "reserved"
  /\ \E dropped \in SUBSET DOMAIN pending :
       /\ minting' = Joined(minting, [n \in DOMAIN pending |->
                                         IF n \in dropped THEN "dropped" ELSE "kept"])
       /\ taken' = taken \ SlotsOf(dropped)
       /\ pending' = [n \in DOMAIN pending \ dropped |-> "kept"]
       /\ anchor' = IF dropped = DOMAIN pending THEN anchor + 1 ELSE anchor
  /\ UNCHANGED <<phase, slots, kind, alive, rescue, admit, floor, merges>>

(* Source-less Grounding Admission settles the kept proposals: a held-out one *)
(* keeps its slot, a rejected one gives it back, an admitted one is a node.   *)
AdmitGrounding ==
  /\ phase = "mint" /\ \E n \in DOMAIN pending : pending[n] = "kept"
  /\ \E outcome \in [DOMAIN pending -> {"admitted", "held_out", "rejected"}] :
       /\ admit' = Joined(admit, outcome)
       /\ alive' = alive \cup {n \in DOMAIN pending : outcome[n] = "admitted"}
       /\ taken' = taken \ SlotsOf({n \in DOMAIN pending : outcome[n] = "rejected"})
  /\ pending' = <<>>
  /\ anchor' = anchor + 1
  /\ UNCHANGED <<phase, slots, kind, rescue, minting, floor, merges>>

-----------------------------------------------------------------------------
\* Mutant: only the nodes that stay are recorded.
ApplyUnrecordedFloor ==
  /\ phase = "mint" /\ ~ MoreToMint
  /\ \E failed \in SUBSET Rescued :
       /\ floor' = [n \in (Rescued \ failed) \cup Minted |->
                      IF n \in Minted THEN "exempt" ELSE "verified"]
       /\ alive' = alive \ failed
  /\ phase' = "dedup"
  /\ UNCHANGED <<slots, kind, taken, rescue, pending, anchor, minting, admit, merges>>

(* A rescued node none of whose passages is in its block leaves the node set; *)
(* a minted one has no block to verify.                                       *)
ApplyVerbatimFloor ==
  /\ phase = "mint" /\ ~ MoreToMint
  /\ \E failed \in SUBSET Rescued :
       /\ floor' = [n \in Rescued \cup Minted |->
                      IF n \in failed THEN "failed"
                      ELSE IF n \in Minted THEN "exempt" ELSE "verified"]
       /\ alive' = alive \ failed
  /\ phase' = "dedup"
  /\ UNCHANGED <<slots, kind, taken, rescue, pending, anchor, minting, admit, merges>>

\* Pairs of one domain, never of two anchors: what the embedding may propose.
Proposable ==
  {p \in alive \X alive : /\ p[1] < p[2]
                          /\ slots[p[1]][1] = slots[p[2]][1]
                          /\ p[2] \notin AnchorNodes}

\* The clusters the merged pairs join.
Clusters(merged) ==
  LET linked == merged \cup {<<p[2], p[1]>> : p \in merged}
  IN  {Ancestors(linked, n) : n \in Ends(merged)}

\* Mutant: a cluster is merged whatever is in it.
ResolvableAlways(cluster) == cluster # {}

\* Two published concepts in one cluster: the whole cluster is refused.
Resolvable(cluster) == Cardinality(cluster \cap AnchorNodes) < 2

(* An anchor, or else a node of the most evidence, then of the smallest       *)
(* (random) id: any node may be that one.                                     *)
MayBeCanonical(n, cluster) == cluster \cap AnchorNodes # {} => n \in AnchorNodes

(* The adjudicator merges any of the proposed pairs, one it fails on stays    *)
(* unmerged, and each cluster is absorbed by its canonical node.              *)
Deduplicate ==
  /\ phase = "dedup"
  /\ \E merged \in SUBSET Proposable :
       LET resolved == {c \in Clusters(merged) : Resolvable(c)}
       IN  \E canonical \in SUBSET UNION resolved :
             /\ \A c \in resolved :
                  \E n \in c : c \cap canonical = {n} /\ MayBeCanonical(n, c)
             /\ merges' = [n \in (UNION resolved) \ canonical |->
                             CHOOSE m \in canonical : \E c \in resolved : {m, n} \subseteq c]
             /\ alive' = (alive \ UNION resolved) \cup canonical
  /\ phase' = "validate"
  /\ UNCHANGED <<slots, kind, taken, rescue, pending, anchor, minting, admit, floor>>

-----------------------------------------------------------------------------
\* The records account for the node: it is there, absorbed or floor-dropped.
ProvenLifecycle(n) ==
  \/ n \in alive \cup DOMAIN merges
  \/ n \in DOMAIN floor /\ floor[n] = "failed"

(* What the completion demands of a source-grounded request (validateRequest).*)
(* Duplicate ids and records that disagree on a label are not representable.  *)
Admissible ==
  /\ \A n \in DOMAIN merges : merges[n] \in alive /\ n \notin alive
  /\ \A n \in DOMAIN floor : floor[n] # "failed" => n \in alive \cup DOMAIN merges
  /\ \A n \in DOMAIN rescue : rescue[n] # "dropped" => ProvenLifecycle(n)
  /\ \A n \in DOMAIN minting : minting[n] = "dropped" <=> n \notin DOMAIN admit
  /\ \A n \in DOMAIN admit :
       /\ n \in DOMAIN minting /\ minting[n] # "dropped"
       /\ admit[n] = "admitted" <=> ProvenLifecycle(n)
  /\ \A n \in Minted : n \in DOMAIN admit /\ admit[n] = "admitted"

Submit ==
  /\ phase = "validate"
  /\ phase' = IF Admissible THEN "accepted" ELSE "refused"
  /\ UNCHANGED <<slots, kind, taken, alive, rescue, pending, anchor, minting, admit, floor, merges>>

(* A failed call that may not become a verdict fails the run: the carrier     *)
(* judge's, the proposer's, the grounding admission's, and, between the floor *)
(* and the merging, the definition judge's.  Nothing is persisted.            *)
Fail ==
  /\ phase \in {"rescue", "mint", "dedup"}
  /\ phase' = "failed"
  /\ UNCHANGED <<slots, kind, taken, alive, rescue, pending, anchor, minting, admit, floor, merges>>

EnrichmentNext ==
  \/ \E candidates \in Candidates : Rescue(candidates)
  \/ JudgeRescue
  \/ Relabel
  \/ \E labels \in Proposals : Propose(labels)
  \/ JudgeMinting
  \/ AdmitGrounding
  \/ ApplyVerbatimFloor
  \/ Deduplicate
  \/ Submit
  \/ Fail

EnrichmentSpec == EnrichmentInit /\ [][EnrichmentNext]_enrichmentVars

-----------------------------------------------------------------------------
(* Published identity is not the derived layer's to change: every anchor      *)
(* survives under its own label, and what a node was merged into is a node of *)
(* its domain that is still there.                                            *)
PublishedIdentityStands ==
  /\ AnchorNodes \subseteq alive
  /\ \A n \in AnchorNodes : slots[n] = AnchorSlots[n]
  /\ \A n \in DOMAIN merges : merges[n] \in alive /\ slots[merges[n]][1] = slots[n][1]

(* One concept, one node: within a domain no two nodes carry one label and    *)
(* every label in use is claimed; a concept the carrier or durability judge   *)
(* dropped, or the knowledge boundary held out, does not come back as a minted*)
(* node of a later anchor; the run mints no more than its budget; and what is *)
(* published stands.                                                          *)
LabelsAreOwnedOnce ==
  LET banished == {n \in DOMAIN rescue : rescue[n] = "dropped"}
                    \cup {n \in DOMAIN admit : admit[n] = "held_out"}
  IN  /\ \A m \in alive, n \in alive : slots[m] = slots[n] => m = n
      /\ SlotsOf(alive) \subseteq taken
      /\ SlotsOf(banished) \cap SlotsOf(Minted) = {}
      /\ Cardinality({n \in DOMAIN admit : admit[n] = "admitted"}) <= MaxPerRun
      /\ PublishedIdentityStands
=============================================================================
