----------------------------- MODULE ExtractionRun -----------------------------
(* One Extraction Run over one source (executeExtractionRun.ts): candidates   *)
(* are discovered, decided on and judged, an evidence profile of each admitted*)
(* one is extracted and judged, and the run is stored in one transaction, for *)
(* the build of GraphPublication to read.  A stage that fails ends the run,   *)
(* but for the two that have an answer of their own for it: an extraction     *)
(* gives an empty profile, an assertion is rejected.                          *)
(*                                                                            *)
(* A passage of the source is a value; what a model quotes may be none of it. *)
(* Judges and extractors are external: an action takes any of their answers.  *)
EXTENDS FilteredLists, SequencesExt

CONSTANTS
  Discoveries, \* what a discovery may answer: sequences of candidate keys
  Admissions,  \* what an admission may answer: sequences of proposals
  Extractions, \* what an extraction may answer
  Verbatim,    \* the passages that are in the source
  MaxMentions

ASSUME ExtractionAssumption ==
  /\ MaxMentions \in Nat
  /\ \A keys \in Discoveries : keys \in Seq(Range(keys))
  /\ \A answer \in Admissions : answer \in Seq(Range(answer))
  /\ \A answer \in Admissions : \A p \in Range(answer) :
       p.selected => p.passed /\ p.inDomain /\ p.tier # "quarantine"

VARIABLES
  extraction, \* the stage that is next
  discovered, \* keys, in order
  proposals,  \* history: the proposals of the admission
  candidates, \* in order: [key, parent, tier]
  answers,    \* history: candidate -> what was extracted, for the admitted
  profiles,   \* candidate -> [definitions, mentions, assertions]
  vetoes      \* history: what a judge turned down

extractionVars == <<extraction, discovered, proposals, candidates, answers, profiles, vetoes>>

ExtractionInit ==
  /\ extraction = "discovery" /\ discovered = <<>> /\ proposals = <<>>
  /\ candidates = <<>> /\ answers = <<>> /\ profiles = <<>> /\ vetoes = {}

Discover ==
  /\ extraction = "discovery" /\ extraction' = "admission"
  /\ discovered' \in Discoveries
  /\ UNCHANGED <<proposals, candidates, answers, profiles, vetoes>>

-----------------------------------------------------------------------------
(* Admission *)

\* An atom split from its candidate has no other label, so its own must be in
\* the source.
Eligible(p) ==
  p.passed /\ p.verified /\ p.inDomain /\ (p.atomic # p.parent => p.grounded)

EffectiveTier(p) ==
  CASE ~ p.inDomain                -> "reject"
    [] p.tier = "quarantine"       -> "quarantine"
    [] Eligible(p) /\ p.selected   -> "core"
    [] p.tier = "reject"           -> "reject"
    [] OTHER                       -> "optional"

\* The places of the atoms with a key of their own, which stand under candidate k.
Group(k, answer) ==
  {i \in DOMAIN answer :
     /\ answer[i].parent = k
     /\ Cardinality({j \in DOMAIN answer : answer[j].atomic = answer[i].atomic}) = 1}

\* A candidate left without one is rejected under its own key.
Atoms(k, answer) ==
  IF Group(k, answer) = {}
  THEN <<[key |-> k, parent |-> k, tier |-> "reject"]>>
  ELSE [n \in 1 .. Cardinality(Group(k, answer)) |->
          LET p == answer[Place(n, Group(k, answer))]
          IN  [key |-> p.atomic, parent |-> k, tier |-> EffectiveTier(p)]]

AdmittedAtoms(keys, answer) == FlattenSeq([i \in DOMAIN keys |-> Atoms(keys[i], answer)])

Admit ==
  /\ extraction = "admission" /\ extraction' = "labels"
  /\ proposals' \in Admissions
  /\ candidates' = AdmittedAtoms(discovered, proposals')
  /\ UNCHANGED <<discovered, answers, profiles, vetoes>>

Cores == {i \in DOMAIN candidates : candidates[i].tier = "core"}
AdmittedCandidates == {i \in DOMAIN candidates : candidates[i].tier \in {"core", "optional"}}

Demoted(some) == [i \in DOMAIN candidates |->
                    IF i \in some THEN [candidates[i] EXCEPT !.tier = "optional"] ELSE candidates[i]]

\* The judge only demotes, and only cores.
JudgeLabels ==
  /\ extraction = "labels" /\ extraction' = "profiles"
  /\ \E some \in SUBSET Cores :
       /\ candidates' = Demoted(some)
       /\ vetoes' = {<<"label", i>> : i \in some}
  /\ UNCHANGED <<discovered, proposals, answers, profiles>>

-----------------------------------------------------------------------------
(* Evidence profiles *)

NothingFound == [definitions |-> {}, mentions |-> <<>>, assertions |-> {}]

\* What is in the source, the first mentions of it, and assertions with evidence.
Grounded(answer) ==
  LET found == {j \in DOMAIN answer.mentions : answer.mentions[j] \in Verbatim}
  IN  [definitions |-> answer.definitions \cap Verbatim,
       mentions    |-> {answer.mentions[j] : j \in {i \in found : Rank(i, found) <= MaxMentions}},
       assertions  |-> {a \cap Verbatim : a \in answer.assertions} \ {{}}]

\* The results with that of one more subject.
With(f, i, value) == [j \in DOMAIN f \cup {i} |-> IF j = i THEN value ELSE f[j]]

\* One subject after the other: their order is seen by none.
ExtractProfile(i) ==
  /\ extraction = "profiles" /\ i \in AdmittedCandidates \ DOMAIN profiles
  /\ \A j \in AdmittedCandidates \ DOMAIN profiles : i <= j
  /\ \E answer \in Extractions \cup {NothingFound} :
       /\ answers' = With(answers, i, answer)
       /\ profiles' = With(profiles, i, Grounded(answer))
  /\ UNCHANGED <<extraction, discovered, proposals, candidates, vetoes>>

\* A definition of something else stays as a mention, above the bound if need be.
KeptMentions(i, found) ==
  profiles[i].mentions \cup {p \in profiles[i].definitions : found[<<i, p>>] = "different"}

Quotes == UNION {{i} \X profiles[i].definitions : i \in Cores}

JudgeDefinitions ==
  /\ extraction = "profiles" /\ DOMAIN profiles = AdmittedCandidates /\ extraction' = "assertions"
  /\ \E found \in [Quotes -> {"defining", "different", "hollow"}] :
       /\ profiles' = [i \in AdmittedCandidates |->
            IF i \notin Cores THEN profiles[i]
            ELSE [profiles[i] EXCEPT
                    !.definitions = {p \in @ : found[<<i, p>>] = "defining"},
                    !.mentions = KeptMentions(i, found)]]
       /\ vetoes' = vetoes \cup {<<found[q], q[1], q[2]>> : q \in {r \in Quotes : found[r] # "defining"}}
  /\ UNCHANGED <<discovered, proposals, candidates, answers>>

\* The evidence of a rejected assertion stays as mentions; a call that failed rejects.
JudgeAssertions ==
  /\ extraction = "assertions" /\ extraction' = "store"
  /\ \E rejected \in SUBSET UNION {{i} \X profiles[i].assertions : i \in AdmittedCandidates} :
       LET Rejected(i) == {a \in profiles[i].assertions : <<i, a>> \in rejected}
       IN  profiles' = [i \in AdmittedCandidates |->
             [profiles[i] EXCEPT !.assertions = @ \ Rejected(i), !.mentions = @ \cup UNION Rejected(i)]]
  /\ UNCHANGED <<discovered, proposals, candidates, answers, vetoes>>

-----------------------------------------------------------------------------
(* The run *)

\* Mutant: completeness is read from what was extracted, before the judge.
MutantUngrounded == {i \in Cores : Grounded(answers[i]).definitions = {}}

\* reconcileUngroundableCores: a core without a definition is none.
Ungrounded == {i \in Cores : profiles[i].definitions = {}}

\* A run has one candidate of a key, or the transaction fails.
StoreRun ==
  /\ extraction = "store"
  /\ IF IsInjective([i \in DOMAIN candidates |-> candidates[i].key])
     THEN extraction' = "stored" /\ candidates' = Demoted(Ungrounded)
     ELSE extraction' = "failed" /\ candidates' = candidates
  /\ UNCHANGED <<discovered, proposals, answers, profiles, vetoes>>

\* A call gives up, the store rejects, or the process dies: nothing is stored.
RunFails ==
  /\ extraction \notin {"stored", "failed"} /\ extraction' = "failed"
  /\ UNCHANGED <<discovered, proposals, candidates, answers, profiles, vetoes>>

ExtractionNext ==
  \/ Discover \/ Admit \/ JudgeLabels
  \/ \E i \in DOMAIN candidates : ExtractProfile(i)
  \/ JudgeDefinitions \/ JudgeAssertions \/ StoreRun \/ RunFails

ExtractionSpec == ExtractionInit /\ [][ExtractionNext]_extractionVars

-----------------------------------------------------------------------------
(* What a stored run holds against what each judge said.  A core was selected *)
(* on evidence from the source, named no artifact, and still has a definition *)
(* that stood, so a build refuses no run over its cores; everything discovered*)
(* is decided on, once; and evidence is lost to nothing but a verdict that it *)
(* is hollow and, for mentions, to their bound.                               *)
StoredRunIsEarned ==
  extraction = "stored" =>
    /\ \A i, j \in DOMAIN candidates : candidates[i].key = candidates[j].key => i = j
    /\ \A k \in Range(discovered) : \E i \in DOMAIN candidates : candidates[i].parent = k
    /\ \A i \in Cores :
         /\ \E p \in Range(proposals) :
              p.atomic = candidates[i].key /\ p.selected /\ p.verified /\ p.inDomain
         /\ <<"label", i>> \notin vetoes
         /\ profiles[i].definitions # {}
         /\ \A p \in profiles[i].definitions :
              p \in Verbatim /\ \A v \in {"different", "hollow"} : <<v, i, p>> \notin vetoes
    /\ \A i \in DOMAIN profiles :
         LET kept == profiles[i].definitions \cup profiles[i].mentions \cup UNION profiles[i].assertions
             found == Grounded(answers[i])
         IN  /\ {p \in found.definitions : <<"hollow", i, p>> \notin vetoes} \subseteq kept
             /\ found.mentions \cup UNION found.assertions \subseteq kept
=============================================================================
