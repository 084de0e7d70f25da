-------------------------- MODULE PrerequisiteGraph --------------------------
(* The pure graph helpers every projection of a Derived Graph Layer shares    *)
(* (prerequisiteDag.ts).  A graph is a set of pairs <<prerequisite,           *)
(* dependent>>; node ids are naturals, whose order is the one localeCompare   *)
(* gives the ids, so a helper that sorts its input is deterministic here too. *)
EXTENDS Integers, FiniteSets, Sequences, SequencesExt

Successors(edges, u) == {e[2] : e \in {d \in edges : d[1] = u}}

Prerequisites(edges, v) == {e[1] : e \in {d \in edges : d[2] = v}}

Ends(edges) == UNION {{e[1], e[2]} : e \in edges}

\* Both ends of the edge are among the nodes.
Within(edges, nodes) == {e \in edges : e[1] \in nodes /\ e[2] \in nodes}

(* Everything that must precede v.  A walk with a set of seen nodes, so it    *)
(* ends on a cycle too, and then v is one of its own ancestors.               *)
Ancestors(edges, v) ==
  LET Walk[seen \in SUBSET Ends(edges)] ==
        LET more == (UNION {Prerequisites(edges, n) : n \in seen \cup {v}}) \ seen
        IN  IF more = {} THEN seen ELSE Walk[seen \cup more]
  IN  Walk[{}]

Acyclic(edges) == \A n \in Ends(edges) : n \notin Ancestors(edges, n)

(* The edges of the first cycle a depth-first search over the sorted edges    *)
(* closes, {} when there is none.  The path is the stack of grey nodes.       *)
FindCycle(edges) ==
  LET Visit[at \in Seq(Nat) \X SUBSET Nat] ==
        LET path == at[1]
            black == at[2]
            white == Ends(edges) \ black
            u == Last(path)
            open == Successors(edges, u) \ black
            v == Min(open)
        IN  IF path = <<>>
            THEN IF white = {} THEN {} ELSE Visit[<<<<Min(white)>>, black>>]
            ELSE IF open = {} THEN Visit[<<Front(path), black \cup {u}>>]
            ELSE IF v \notin Range(path) THEN Visit[<<Append(path, v), black>>]
            ELSE LET back == CHOOSE i \in DOMAIN path : path[i] = v
                 IN  {<<path[i], path[i + 1]>> : i \in back .. Len(path) - 1}
                       \cup {<<u, v>>}
  IN  Visit[<<<<>>, {}>>]

\* Mutant: the path that makes the edge redundant may be the edge itself.
RedundantByItself(edges, e) == e[1] \in Ancestors(edges, e[2])

\* A longer path already leads from the edge's prerequisite to its dependent.
Redundant(edges, e) ==
  \E w \in Successors(edges, e[1]) \ {e[2]} : w \in Ancestors(edges, e[2])

TransitiveReduction(edges) == {e \in edges : ~ Redundant(edges, e)}

\* The number of prerequisites on the longest path into n, on an acyclic graph.
TopologicalDepth(edges, n) ==
  LET Depth[m \in Ends(edges) \cup {n}] ==
        IF Prerequisites(edges, m) = {} THEN 0
        ELSE 1 + Max({Depth[p] : p \in Prerequisites(edges, m)})
  IN  Depth[n]

(* Kahn's order: of the nodes whose prerequisites are all placed, the first   *)
(* in the tie-break order goes next.  The nodes of a cycle are left out.      *)
TopologicalOrder(nodes, edges, Before(_, _)) ==
  LET Place[placed \in Seq(Nat)] ==
        LET ready == {n \in (nodes \cup Ends(edges)) \ Range(placed) :
                        Prerequisites(edges, n) \subseteq Range(placed)}
        IN  IF ready = {} THEN placed
            ELSE Place[Append(placed,
                         CHOOSE n \in ready : \A m \in ready \ {n} : Before(n, m))]
  IN  Place[<<>>]

\* The set's members in the order Before.
Sorted(nodes, Before(_, _)) == TopologicalOrder(nodes, {}, Before)
=============================================================================
