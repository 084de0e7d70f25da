---------------------------- MODULE GraphPublication ----------------------------
(* From inspected extraction runs to published graph versions.  A Concept      *)
(* Canonicalization captures the registry of published identities and records  *)
(* which labels are one concept (canonicalizeConcepts.ts,                      *)
(* resolveConceptIdentity.ts); a Graph-Version Build reads the artifact, checks*)
(* that the registry is still the captured one, assembles the version          *)
(* (buildGraphVersion.ts) and publishes it in one transaction, which does not  *)
(* read the registry again (PostgresStores.ts).  Both are commands of          *)
(* kg-worker, and nothing keeps two of them from running at a time.            *)
(*                                                                             *)
(* A normalized label is a sequence of words, and so is the slug of an IRI: a  *)
(* number appended to a label is both the label "a 2" and the suffix "a-2".    *)
(* A concept id is a hash of the IRI, so one stands for both; what a profile   *)
(* says is the set of candidates its passages come from.                       *)
EXTENDS PrerequisiteGraph, FiniteSetsExt

CONSTANTS
  Runs,         \* extraction run -> [domain, core, sound]: its Declared Domain,
                \* the labels of its core candidates, and whether it is without
                \* quarantined candidates and incomplete profiles
  Selections,   \* the ordered selections of runs an operator names
  Builder,      \* the kg-worker processes
  MaxArtifacts, \* bounds of an instance
  MaxVersions

ASSUME PublicationAssumption ==
  /\ \A r \in DOMAIN Runs : IsFiniteSet(Runs[r].core)
  /\ Selections \subseteq Seq(DOMAIN Runs) /\ \A s \in Selections : s # <<>> /\ IsInjective(s)
  /\ MaxArtifacts \in Nat /\ MaxVersions \in Nat

VARIABLES
  registry,  \* the concepts table: rows [key, iri]
  artifacts, \* the persisted canonicalizations, in order
  versions,  \* the published versions, in order: [base, runs, concepts], where
             \* concepts is the snapshot artifact, key -> [iri, evidence], and
             \* its iri and evidence are the rows of the version
  builds     \* builder -> the build it has in hand

publicationVars == <<registry, artifacts, versions, builds>>

NoBuild == [artifact |-> 0, concepts |-> <<>>, seen |-> {}]

PublicationInit ==
  /\ registry = {} /\ artifacts = <<>> /\ versions = <<>>
  /\ builds = [b \in Builder |-> NoBuild]

KeysOf(rows) == {row.key : row \in rows}

IrisOf(rows) == {row.iri : row \in rows}

RowsOf(concepts) == {[key |-> k, iri |-> concepts[k].iri] : k \in DOMAIN concepts}

-----------------------------------------------------------------------------
(* Canonicalization *)

\* The snapshot of a version as it is read: its labels come from the registry.
Snapshot(v) ==
  IF v = 0 THEN <<>>
  ELSE LET read == {row \in registry : row.iri \in IrisOf(RowsOf(versions[v].concepts))}
           Concept(k) == CHOOSE c \in Range(versions[v].concepts) : [key |-> k, iri |-> c.iri] \in read
       IN  [k \in KeysOf(read) |-> Concept(k)]

\* The core candidates of a run, under their identity keys.
KeysIn(r) == {<<Runs[r].domain, label>> : label \in Runs[r].core}

\* What the base and the runs say of a key: its definitions.
Definitions(base, runs, k) ==
  (IF k \in DOMAIN base THEN base[k].evidence ELSE {})
    \cup {<<r, k>> : r \in {x \in Range(runs) : k \in KeysIn(x)}}

\* Pairs of labels are only ever proposed within a Declared Domain.
ProposablePairs(keys) == {p \in kSubset(2, keys) : \A k, l \in p : k[1] = l[1]}

IdentityClusters(equivalent) ==
  LET linked == {p \in (UNION equivalent) \X (UNION equivalent) : {p[1], p[2]} \in equivalent}
  IN  {Ancestors(linked, k) : k \in UNION equivalent}

\* Mutant: one published concept is merged into another.
CollidesNever(cluster) == cluster = {}

\* Two published concepts in one cluster: a collision the build must refuse.
Collides(cluster) == Cardinality(cluster \cap KeysOf(registry)) > 1

(* The published member, or else one of the most definitions: between equals   *)
(* the lowest key is taken, which may be any of them.                          *)
MaySurvive(k, cluster, base, runs) ==
  IF cluster \cap KeysOf(registry) # {} THEN k \in KeysOf(registry)
  ELSE \A other \in cluster :
         Cardinality(Definitions(base, runs, k)) >= Cardinality(Definitions(base, runs, other))

(* The adjudicator finds any of the proposed pairs equivalent; in the mode     *)
(* exact_label_only it is not asked and finds none.                            *)
Canonicalize(b, runs) ==
  /\ Len(artifacts) < MaxArtifacts
  /\ LET base == Snapshot(b)
         keys == DOMAIN base \cup UNION {KeysIn(r) : r \in Range(runs)}
     IN  \E equivalent \in SUBSET ProposablePairs(keys) :
           LET clusters == IdentityClusters(equivalent)
               merged == {c \in clusters : ~ Collides(c)}
           IN  \E survivors \in SUBSET UNION merged :
                 /\ \A c \in merged :
                      \E k \in c : c \cap survivors = {k} /\ MaySurvive(k, c, base, runs)
                 /\ artifacts' = Append(artifacts,
                      [base |-> b, runs |-> runs, captured |-> registry,
                       quarantined |-> merged # clusters,
                       merges |-> [k \in (UNION merged) \ survivors |->
                                     CHOOSE s \in survivors : \E c \in merged : {k, s} \subseteq c]])
  /\ UNCHANGED <<registry, versions, builds>>

-----------------------------------------------------------------------------
(* The build *)

\* Neither a run nor the identities are under quarantine.
Publishable(artifact) ==
  ~ artifact.quarantined /\ \A r \in Range(artifact.runs) : Runs[r].sound

EffectiveKey(artifact, k) == IF k \in DOMAIN artifact.merges THEN artifact.merges[k] ELSE k

\* The candidates of the runs, in order: the query gives those of a run in any.
Readings(runs) ==
  {FlattenSeq(orders) : orders \in {f \in [DOMAIN runs -> UNION {SetToSeqs(KeysIn(r)) : r \in Range(runs)}] :
                                       \A i \in DOMAIN runs : f[i] \in SetToSeqs(KeysIn(runs[i]))}}

\* The slug of the label, or else the first with a suffix that is not taken.
Mint(label, taken) ==
  IF label \notin taken THEN label
  ELSE Append(label, CHOOSE n \in 2 .. Cardinality(taken) + 2 :
                       /\ Append(label, n) \notin taken
                       /\ \A m \in 2 .. n - 1 : Append(label, m) \in taken)

\* key -> iri, for the concepts of the base, then the clusters as they come.
Identities(artifact, base, reading) ==
  LET known == artifact.captured
      Place(iris, k) ==
        LET own == {row.iri : row \in {row \in known : row.key = k}}
            iri == IF own # {} THEN CHOOSE i \in own : TRUE
                   ELSE Mint(k[2], IrisOf(known) \cup Range(iris))
        IN  [key \in DOMAIN iris \cup {k} |-> IF key \in DOMAIN iris THEN iris[key] ELSE iri]
  IN  FoldLeft(Place, [k \in DOMAIN base |-> base[k].iri],
               [i \in DOMAIN reading |-> EffectiveKey(artifact, reading[i])])

\* The base's evidence is carried forward, the candidates' is united with it.
AssembledConcepts(artifact, reading) ==
  LET base == Snapshot(artifact.base)
      iris == Identities(artifact, base, reading)
      Said(k) == {m \in Range(reading) : EffectiveKey(artifact, m) = k}
  IN  [k \in DOMAIN iris |->
         [iri |-> iris[k],
          evidence |-> (IF k \in DOMAIN base THEN base[k].evidence ELSE {})
                         \cup UNION {Definitions(<<>>, artifact.runs, m) : m \in Said(k)}]]

\* Mutant: a registry that has grown is not compared with the output.
CompatibleWhenKept(artifact, concepts) == artifact.captured \subseteq registry

(* The registry is the captured one, or has beyond it exactly the identities   *)
(* an earlier replay of this artifact produced.                                *)
CompatibleRegistry(artifact, concepts) ==
  /\ artifact.captured \subseteq registry
  /\ registry \ artifact.captured \in
       {{}, {row \in RowsOf(concepts) : row.key \notin KeysOf(artifact.captured)}}

\* The load and refine stages: the registry is the last thing they read.
Build(b, a) ==
  /\ builds[b] = NoBuild
  /\ Publishable(artifacts[a])
  /\ \E reading \in Readings(artifacts[a].runs) :
       LET concepts == AssembledConcepts(artifacts[a], reading) IN
       /\ CompatibleRegistry(artifacts[a], concepts)
       /\ builds' = [builds EXCEPT ![b] = [artifact |-> a, concepts |-> concepts, seen |-> registry]]
  /\ UNCHANGED <<registry, artifacts, versions>>

(* The publication: a concept whose key is registered is not inserted, an IRI  *)
(* or id in use fails the transaction, and a row of the version needs some     *)
(* concept of its id.                                                          *)
Publish(b) ==
  LET concepts == builds[b].concepts
      fresh == {row \in RowsOf(concepts) : row.key \notin KeysOf(registry)}
  IN  /\ builds[b] # NoBuild /\ Len(versions) < MaxVersions
      /\ IrisOf(fresh) \cap IrisOf(registry) = {}
      /\ Cardinality(IrisOf(RowsOf(concepts))) = Cardinality(DOMAIN concepts)
      /\ registry' = registry \cup fresh
      /\ IrisOf(RowsOf(concepts)) \subseteq IrisOf(registry')
      /\ versions' = Append(versions, [base |-> artifacts[builds[b].artifact].base,
                                       runs |-> artifacts[builds[b].artifact].runs,
                                       concepts |-> concepts])
      /\ builds' = [builds EXCEPT ![b] = NoBuild]
      /\ UNCHANGED artifacts

\* The transaction failed, or the process died before it: nothing is published.
GiveUp(b) ==
  /\ builds[b] # NoBuild
  /\ builds' = [builds EXCEPT ![b] = NoBuild]
  /\ UNCHANGED <<registry, artifacts, versions>>

PublicationNext ==
  \/ \E b \in 0 .. Len(versions), runs \in Selections : Canonicalize(b, runs)
  \/ \E b \in Builder : \/ \E a \in DOMAIN artifacts : Build(b, a)
                        \/ Publish(b)
                        \/ GiveUp(b)

PublicationSpec == PublicationInit /\ [][PublicationNext]_publicationVars

-----------------------------------------------------------------------------
\* Every concept of the base is there, with its IRI and all its evidence.
KeepsTheBase(v) ==
  versions'[v].base # 0 =>
    \A old \in Range(versions[versions'[v].base].concepts) :
      \E new \in Range(versions'[v].concepts) : new.iri = old.iri /\ old.evidence \subseteq new.evidence

(* Every candidate of the selected runs has its evidence in a concept of its   *)
(* own domain, and in the concept of its label when that was published.        *)
CarriesTheRuns(v, captured) ==
  \A r \in Range(versions'[v].runs) : \A k \in KeysIn(r) :
    LET holders == {h \in DOMAIN versions'[v].concepts : <<r, k>> \in versions'[v].concepts[h].evidence}
    IN  /\ \E h \in holders : h[1] = k[1]
        /\ \A row \in captured : row.key = k => k \in holders /\ versions'[v].concepts[k].iri = row.iri

NamesItsOwn(v) == RowsOf(versions'[v].concepts) \subseteq registry'

(* A published version extends its base and carries its runs, however many     *)
(* commands overlap; and unless another publication came between its check of  *)
(* the registry and its transaction, the concepts it names are registered      *)
(* under their own labels and domains.                                         *)
PublicationIsFaithful ==
  [][\A b \in Builder, v \in DOMAIN versions' \ DOMAIN versions :
       builds'[b] # builds[b] =>
         /\ KeepsTheBase(v)
         /\ CarriesTheRuns(v, artifacts[builds[b].artifact].captured)
         /\ builds[b].seen = registry => NamesItsOwn(v)]_publicationVars

(* The comment on assertCompatibleConceptRegistry: anything missing, changed   *)
(* or unrelated in the registry fails closed before publication.  So the       *)
(* registry has the concepts of each version under the labels and domains of   *)
(* its snapshot artifact.                                                      *)
VersionsNameTheirOwn ==
  \A v \in DOMAIN versions : RowsOf(versions[v].concepts) \subseteq registry
=============================================================================
