-------------------------- MODULE ConsensusOrdering --------------------------
(* The back half every Derived Graph Layer is completed by                    *)
(* (completeDerivedGraphLayer.ts): per Declared Domain the judge draws the    *)
(* whole prerequisite ordering K times and the draws are tallied into a       *)
(* consensus (deriveConsensusOrdering.ts), while beside it the same domains   *)
(* are banded K times and contested bands calibrated (intrinsicDifficulty.ts);*)
(* when both are done the layer is persisted once, and any failure persists   *)
(* nothing.  The judges are external: a draw is any of their answers.         *)
EXTENDS PrerequisiteGraph

CONSTANTS
  Domains,        \* the Declared Domains, sorted: a sequence of sets of nodes
  K,              \* orderingSampleCount
  BandK,          \* difficultySampleCount
  ContestPercent, \* directionContestMinorityFraction
  FloorPercent,   \* minEdgeConfidence
  Judges          \* records of the nodes that have evidence to be judged by
                  \* (evidenced) and of what the judges may answer: sets of
                  \* whole-set orderings and of functions node -> band

\* A node has one Declared Domain.
ASSUME ConsensusAssumption ==
  /\ Domains \in Seq(SUBSET Nat) /\ \A i \in DOMAIN Domains : IsFiniteSet(Domains[i])
  /\ \A i, j \in DOMAIN Domains : i # j => Domains[i] \cap Domains[j] = {}
  /\ K \in Nat \ {0}
  /\ BandK \in Nat \ {0}
  /\ ContestPercent \in 1 .. 100
  /\ FloorPercent \in 0 .. 100

VARIABLES
  judges,     \* the evidence and the judges of this run
  domain,     \* the domain being ordered
  draws,      \* the ordering draws answered for it
  votes,      \* how many draws gave each edge: the pair votes of the trace
  ordering,   \* the consensus edges by their disposition
  banding,    \* the domain being banded
  bandDraws,  \* the banding draws answered for it
  bandVotes,  \* how many draws gave each node each band
  difficulty, \* the difficulty of each scored node
  completion, \* "running", "failed" or "persisted"
  layer       \* the persisted layer

orderingVars == <<domain, draws, votes, ordering>>
bandingVars == <<banding, bandDraws, bandVotes, difficulty>>
consensusVars == <<judges, orderingVars, bandingVars, completion, layer>>

Node == UNION Range(Domains)

Band == 1 .. 5

Dispositions == {"certain", "uncertain", "weak", "routed"}

NoVotes == [e \in Node \X Node |-> 0]

NoBandVotes == [n \in Node |-> [b \in Band |-> 0]]

ConsensusInit ==
  /\ judges \in Judges
  /\ domain = 1
  /\ draws = 0
  /\ votes = NoVotes
  /\ ordering = [d \in Dispositions |-> {}]
  /\ banding = 1
  /\ bandDraws = 0
  /\ bandVotes = NoBandVotes
  /\ difficulty = <<>>
  /\ completion = "running"
  /\ layer = <<>>

-----------------------------------------------------------------------------
Reversed(e) == <<e[2], e[1]>>

\* The nodes without evidence are left out of the ordering.
Judged == Domains[domain] \cap judges.evidenced

ToOrder == completion = "running" /\ domain <= Len(Domains)

\* An edge that cites a concept outside the list, or a concept as its own.
BadEdge(e) == e \notin Judged \X Judged \/ e[1] = e[2]

\* One draw's answer; a bad edge rejects the call and the run with it.
DrawOrdering(answer) ==
  /\ ToOrder /\ Cardinality(Judged) >= 2 /\ draws < K
  /\ IF \E e \in answer : BadEdge(e)
     THEN completion' = "failed" /\ UNCHANGED orderingVars
     ELSE /\ draws' = draws + 1
          /\ votes' = [e \in DOMAIN votes |->
                         IF e \in answer THEN votes[e] + 1 ELSE votes[e]]
          /\ UNCHANGED <<domain, ordering, completion>>
  /\ UNCHANGED <<judges, bandingVars, layer>>

(* The majority direction of a pair; a tie goes to the smaller id first.      *)
Majority(e) ==
  \/ votes[e] > votes[Reversed(e)]
  \/ votes[e] > 0 /\ votes[e] = votes[Reversed(e)] /\ e[1] < e[2]

Contested(e) == votes[Reversed(e)] * 100 >= ContestPercent * K

Confident(e) == votes[e] * 100 >= FloorPercent * K

Majorities == {e \in Judged \X Judged : Majority(e)}

Uncontested == {e \in Majorities : ~ Contested(e)}

Strong == {e \in Uncontested : Confident(e)}

\* Mutant: the search for a cycle is made once.
UncycledOnce(edges) == edges \ FindCycle(edges)

\* Cycles are found and taken out of the certain edges until none is left.
Uncycled(edges) ==
  LET Route[rest \in SUBSET edges] ==
        IF FindCycle(rest) = {} THEN rest ELSE Route[rest \ FindCycle(rest)]
  IN  Route[edges]

(* The tally of the K draws becomes the domain's edges; a domain with fewer   *)
(* than two nodes to order has drawn nothing.                                 *)
ConcludeDomain ==
  /\ ToOrder
  /\ draws = K \/ Cardinality(Judged) < 2
  /\ LET certain == Uncycled(Strong)
         found == [certain |-> certain,
                   uncertain |-> (Majorities \ Uncontested) \cup (Strong \ certain),
                   weak |-> Uncontested \ Strong,
                   routed |-> Strong \ certain]
     IN  ordering' = [d \in Dispositions |-> ordering[d] \cup found[d]]
  /\ domain' = domain + 1
  /\ draws' = 0
  /\ UNCHANGED <<judges, votes, bandingVars, completion, layer>>

-----------------------------------------------------------------------------
ToBand == completion = "running" /\ banding <= Len(Domains)

\* One banding draw; it must place every node of the domain in a band.
DrawBanding(answer) ==
  /\ ToBand /\ bandDraws < BandK
  /\ IF DOMAIN answer = Domains[banding] /\ Range(answer) \subseteq Band
     THEN /\ bandDraws' = bandDraws + 1
          /\ bandVotes' =
               [n \in Node |-> IF n \in DOMAIN answer
                               THEN [bandVotes[n] EXCEPT ![answer[n]] = @ + 1]
                               ELSE bandVotes[n]]
          /\ UNCHANGED <<banding, difficulty, completion>>
     ELSE completion' = "failed" /\ UNCHANGED bandingVars
  /\ UNCHANGED <<judges, orderingVars, layer>>

Voted(n) == {b \in Band : bandVotes[n][b] > 0}

\* The band most draws gave n, a tie to the lower band.
Modal(n) ==
  CHOOSE b \in Band : \A c \in Band \ {b} :
    \/ bandVotes[n][b] > bandVotes[n][c]
    \/ bandVotes[n][b] = bandVotes[n][c] /\ b < c

Share(n) == bandVotes[n][Modal(n)]

\* Fewer than six draws in ten agree on the modal band.
BandContested(n) == Share(n) * 10 < 6 * BandK

(* The anchors of a band: the uncontested node most draws agreed on, the      *)
(* first by label (here by id) among equals.                                  *)
Anchors(b) ==
  LET sure == {n \in Domains[banding] : ~ BandContested(n) /\ Modal(n) = b}
  IN  {n \in sure : \A m \in sure \ {n} :
         Share(n) > Share(m) \/ (Share(n) = Share(m) /\ n < m)}

(* The bracket of a contested node between the anchors of its extreme bands.  *)
(* The judge's two comparisons are external answers.                          *)
Bracketed(n, harderThanHigh, easierThanLow) ==
  LET low == Min(Voted(n))
      high == Max(Voted(n))
  IN  IF ~ BandContested(n) \/ Anchors(high) = {} THEN Modal(n)
      ELSE IF harderThanHigh THEN high
      ELSE IF Anchors(low) # {} /\ easierThanLow THEN low
      ELSE Modal(n)

\* The contested nodes are bracketed at once, the anchors being fixed by then.
ConcludeBanding ==
  /\ ToBand /\ bandDraws = BandK
  /\ LET contested == {n \in Domains[banding] : BandContested(n)}
     IN  \E harder \in SUBSET contested, easier \in SUBSET contested :
           difficulty' =
             [n \in DOMAIN difficulty \cup Domains[banding] |->
                IF n \in DOMAIN difficulty THEN difficulty[n]
                ELSE [band |-> Bracketed(n, n \in harder, n \in easier),
                      contested |-> n \in contested]]
  /\ banding' = banding + 1
  /\ bandDraws' = 0
  /\ UNCHANGED <<judges, bandVotes, orderingVars, completion, layer>>

-----------------------------------------------------------------------------
Kept == TransitiveReduction(ordering["certain"])

(* Both branches are in: the scores must cover the nodes exactly, and the     *)
(* layer and its trace are written in one persist.                            *)
Persist ==
  /\ completion = "running"
  /\ domain > Len(Domains) /\ banding > Len(Domains)
  /\ IF /\ Ends(Kept \cup ordering["uncertain"]) \subseteq Node
        /\ DOMAIN difficulty = Node
     THEN /\ completion' = "persisted"
          /\ layer' = [certain |-> Kept,
                       uncertain |-> ordering["uncertain"],
                       difficulty |-> difficulty]
     ELSE completion' = "failed" /\ UNCHANGED layer
  /\ UNCHANGED <<judges, orderingVars, bandingVars>>

ConsensusNext ==
  \/ \E answer \in judges.orderings : DrawOrdering(answer)
  \/ ConcludeDomain
  \/ \E answer \in judges.bandings : DrawBanding(answer)
  \/ ConcludeBanding
  \/ Persist

ConsensusSpec == ConsensusInit /\ [][ConsensusNext]_consensusVars

-----------------------------------------------------------------------------
Beside(e) == {e, Reversed(e)}

(* A persisted layer is whole: it scores every node, with a band some draw    *)
(* gave it, and dropping the implied edges has lost no prerequisite of any    *)
(* concept.                                                                   *)
LayerIsWhole ==
  \A n \in Node :
    /\ layer.difficulty[n].band \in Voted(n)
    /\ Ancestors(layer.certain, n) = Ancestors(ordering["certain"], n)

(* What the consensus promises whatever the judges answer: every pair of      *)
(* concepts some draw related is kept exactly once, in a direction the draws  *)
(* did not outvote; the certain edges never form a cycle; the cost of a cycle *)
(* stays inside it, an edge the draws agreed on being routed to uncertain only*)
(* when it lies on one; and the layer that is persisted is whole.             *)
ConsensusIsSound ==
  LET final == {"certain", "uncertain", "weak"}
      agreed == ordering["certain"] \cup ordering["routed"]
  IN  completion = "persisted" =>
      /\ LayerIsWhole
      /\ Acyclic(ordering["certain"])
      /\ \A e \in ordering["routed"] : e[2] \in Ancestors(agreed, e[1])
      /\ \A e \in DOMAIN votes : votes[e] > 0 =>
           \E kept \in Beside(e), d \in final :
             /\ votes[kept] >= votes[Reversed(kept)]
             /\ kept \in ordering[d]
             /\ Reversed(kept) \notin ordering[d]
             /\ \A c \in final \ {d} : Beside(e) \cap ordering[c] = {}
=============================================================================
