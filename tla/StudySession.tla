---------------------------- MODULE StudySession ----------------------------
(* A source Expedition's trail from qualification to study.  qualify          *)
(* (sourceExpedition.ts) offers the part of a layer whose assets meet the     *)
(* contract; the learner's verdicts, lesson reads and graded answers are      *)
(* recorded (gradeStudyResponse.ts); and every read composes the session      *)
(* anew from them (studySessionProjection.ts, calibrationClosure.ts,          *)
(* adaptivePathProjection.ts, studySessionTrail.ts).                          *)
EXTENDS ExpeditionTrail

CONSTANT Cases \* records of a graph and of its nodes' assets

(* Edges join nodes of the layer and none joins a node to itself, which the   *)
(* table inferred_prerequisite_edges refuses.  The trusted ones are what is   *)
(* left of the certain edges, which the consensus cuts free of cycles         *)
(* (completeDerivedGraphLayer.ts).                                            *)
ASSUME CasesAreLayers ==
  \A c \in Cases :
    LET g == c.graph
    IN  /\ DOMAIN g = {"nodes", "gates", "band", "contested", "itemful"}
        /\ g.nodes \subseteq Nat /\ IsFiniteSet(g.nodes)
        /\ g.gates \in [DOMAIN g.gates -> BOOLEAN] /\ DOMAIN g.gates \subseteq g.nodes \X g.nodes
        /\ \A n \in g.nodes : <<n, n>> \notin DOMAIN g.gates
        /\ Acyclic(Trusted(g.gates))
        /\ \A n \in g.nodes : g.band[n] \in Nat /\ c.assets[n].options \in Seq(BOOLEAN)

VARIABLES
  graph,   \* the Derived Graph Layer
  assets,  \* per node its origin, lessons and option selects
  answer,  \* qualify's: "unasked", "available" or "unavailable"
  offer,   \* the qualified trail
  verdict, \* per node the learner's calibration verdict
  read,    \* the nodes whose lesson the learner has read
  latest   \* per item the latest outcome of the Response Log

sessionVars == <<graph, assets, answer, offer, verdict, read, latest>>

SessionInit ==
  /\ \E c \in Cases : graph = c.graph /\ assets = c.assets
  /\ answer = "unasked"
  /\ offer = <<>>
  /\ verdict = [n \in graph.nodes |-> "none"]
  /\ read = {}
  /\ latest = <<>>

\* The items that qualify: each node's, numbered.
Items(n) == {<<n, i>> : i \in {j \in DOMAIN assets[n].options : assets[n].options[j]}}

(* The trail must keep at least two stops.  Whether the registered source and *)
(* its enrichment exist, and the pause switches, are not in this model.       *)
Qualify ==
  /\ answer = "unasked"
  /\ LET floored == ApplyDifficultyFloor(graph)
         ready == {n \in floored.nodes : DirectlyReady(assets[n])}
         stops == GreatestReady(floored, ready)
     IN  IF Cardinality(stops) < 2
         THEN answer' = "unavailable" /\ UNCHANGED <<offer, latest>>
         ELSE /\ answer' = "available"
              /\ offer' = Narrowed(floored, stops)
              /\ latest' = [i \in UNION {Items(n) : n \in stops} |-> "none"]
  /\ UNCHANGED <<graph, assets, verdict, read>>

Open == answer = "available"

\* Clearing a verdict is an upsert to "learn".
RecordVerdict(n, v) ==
  /\ Open /\ n \in offer.nodes
  /\ verdict' = [verdict EXCEPT ![n] = v]
  /\ UNCHANGED <<graph, assets, answer, offer, read, latest>>

RecordLessonRead(n) ==
  /\ Open /\ n \in offer.nodes
  /\ read' = read \cup {n}
  /\ UNCHANGED <<graph, assets, answer, offer, verdict, latest>>

(* A graded answer: its row is appended with the learner's next attempt       *)
(* number, so it is the item's latest.  A locked stop's item is graded too.   *)
GradeResponse(item, outcome) ==
  /\ Open /\ item \in DOMAIN latest
  /\ latest' = [latest EXCEPT ![item] = outcome]
  /\ UNCHANGED <<graph, assets, answer, offer, verdict, read>>

SessionNext ==
  \/ Qualify
  \/ \E n \in DOMAIN verdict, v \in {"known", "learn"} : RecordVerdict(n, v)
  \/ \E n \in DOMAIN verdict : RecordLessonRead(n)
  \/ \E item \in DOMAIN latest, outcome \in {"correct", "incorrect"} :
       GradeResponse(item, outcome)

SessionSpec == SessionInit /\ [][SessionNext]_sessionVars

-----------------------------------------------------------------------------
(* The composed session.                                                      *)

Known == {n \in offer.nodes : verdict[n] = "known"}

\* What the known verdicts credit: the nodes and all that must precede them.
KnownClosure == Known \cup UNION {Ancestors(Trusted(offer.gates), n) : n \in Known}

\* Mutant: a node is complete against every option select of the bank.
NodeIsCompleteInBank(n) ==
  n \in read /\ \A j \in DOMAIN assets[n].options :
                  <<n, j>> \in DOMAIN latest /\ latest[<<n, j>>] = "correct"

\* Every qualified node has a lesson and an item.
NodeIsComplete(n) == n \in read /\ \A i \in Items(n) : latest[i] = "correct"

Mastered == KnownClosure \cup {n \in offer.nodes : NodeIsComplete(n)}

NodeState ==
  LET mastered == Mastered
      Ready(n) == Prerequisites(Trusted(offer.gates), n) \subseteq mastered
  IN  [n \in offer.nodes |->
         IF n \in mastered THEN "mastered" ELSE IF Ready(n) THEN "frontier" ELSE "locked"]

\* A node's stops in trail order; its items follow the lesson, the gem is last.
Stops(n) ==
  <<[node |-> n, kind |-> "theory"]>>
    \o [i \in 1 .. Cardinality(Items(n)) |->
          [node |-> n, kind |-> "item",
           item |-> Sorted({j[2] : j \in Items(n)}, <)[i]]]
    \o <<[node |-> n, kind |-> "capstone"]>>

(* The stops neither locked nor complete, in trail order.  A stop completes by*)
(* its own evidence; only the gem, the last, follows the state of its node.   *)
PlayableOf(stops, state) ==
  LET Complete(stop) ==
        CASE stop.kind = "capstone" -> state[stop.node] = "mastered"
          [] stop.kind = "theory" -> stop.node \in read
          [] stop.kind = "item" -> latest[<<stop.node, stop.item>>] = "correct"
      places == Sorted({i \in DOMAIN stops : state[stops[i].node] # "locked" /\ ~ Complete(stops[i])}, <)
  IN  [k \in DOMAIN places |-> stops[places[k]]]

StopsAlong(trail) == FlattenSeq([i \in DOMAIN trail |-> Stops(trail[i])])

Playable == PlayableOf(StopsAlong(Trail(offer)), NodeState)

\* The marker of the trail.
NextStop(playable) == Head(playable)

-----------------------------------------------------------------------------
\* A trusted way from u to v through floored nodes only.
ThroughFloored(gates, f, u, v) ==
  LET inner == {e \in gates : (e[1] = u \/ e[1] \in f) /\ (e[2] = v \/ e[2] \in f)}
  IN  u \in Ancestors(inner, v)

(* Contraction neither invents nor loses a gate: two stops are wired after it *)
(* when, and only when, the graph led from one to the other directly or       *)
(* through floored nodes; a trusted wire stands for a wholly trusted way, and *)
(* a trusted way is not trusted after it only where an uncertain one already  *)
(* joined the same two stops.                                                 *)
FloorKeepsGates ==
  answer = "unasked" =>
    LET f == Floored(graph)
        after == ContractedGates(graph)
        every == DOMAIN graph.gates
        Way(gates, u, v) == ThroughFloored(gates, f, u, v)
    IN  \A u, v \in graph.nodes \ f : u # v =>
          /\ <<u, v>> \in DOMAIN after <=> Way(every, u, v)
          /\ <<u, v>> \in Trusted(after) => Way(Trusted(graph.gates), u, v)
          /\ Way(Trusted(graph.gates), u, v) /\ <<u, v>> \notin Trusted(after) =>
               \E e \in every \ Trusted(graph.gates) :
                 /\ e[1] = u \/ (e[1] \in f /\ Way(every, u, e[1]))
                 /\ e[2] = v \/ (e[2] \in f /\ Way(every, e[2], v))

PartitionedInto(l, trail, legs) ==
  /\ Len(trail) = Cardinality(l.nodes) /\ Range(trail) = l.nodes
  /\ \A i \in DOMAIN trail :
       Prerequisites(Trusted(l.gates), trail[i]) \subseteq {trail[j] : j \in 1 .. i - 1}
  /\ \A k \in DOMAIN legs : Last(legs[k].steps) = legs[k].milestone
  /\ legs # <<>> => Last(legs).milestone = Summit(l)
  /\ l.itemful \cap l.nodes # {} => \A k \in DOMAIN legs : Itemful(l, legs[k]) # {}

(* The Legs cut the trail and nothing else: each stop is in exactly one Leg,  *)
(* after everything it depends on; a Leg ends on its own milestone and the    *)
(* last one on the summit; and every Leg has an item to challenge its         *)
(* Guardian with, unless no stop has.                                         *)
LegsPartitionTheTrail ==
  LET Sound(l, legs) == PartitionedInto(l, StepsOf(legs), legs)
      layer == IF Open THEN offer ELSE ApplyDifficultyFloor(graph)
  IN  verdict = [n \in graph.nodes |-> "none"] /\ read = {} => Sound(layer, Legs(layer))

(* The offered trail is the greatest one that stands on its own: its stops    *)
(* are ready and so is all they depend on, and any other such set of stops is *)
(* part of it.                                                                *)
ReadyTrailIsGreatest ==
  Open =>
    LET floored == ApplyDifficultyFloor(graph)
        ready == {n \in floored.nodes : DirectlyReady(assets[n])}
        Stands(s) == \A n \in s : Ancestors(Trusted(floored.gates), n) \subseteq s
    IN  offer.nodes = UNION {s \in SUBSET ready : Stands(s)}

(* A qualified trail has no dead end: while a concept is not mastered the     *)
(* marker stands on a lesson to read or an item to answer, never on a gem or  *)
(* nowhere, whatever was skipped, reopened or answered ahead of its turn.     *)
NextStopMakesProgress ==
  Open /\ ~ (offer.nodes \subseteq Mastered) =>
    LET Stuck(playable) == playable = <<>> \/ NextStop(playable).kind = "capstone"
    IN  ~ Stuck(Playable)
=============================================================================
