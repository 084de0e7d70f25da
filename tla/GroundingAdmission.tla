--------------------------- MODULE GroundingAdmission ---------------------------
(***************************************************************************)
(* Source-less Grounding Admission of one batch of candidates: each is     *)
(* probed for the knowledge boundary, what is core gets one drafted bundle *)
(* of passages, the claims of all drafts are judged in one batch, and      *)
(* every passage of a draft is kept or dropped whole.                      *)
(***************************************************************************)
EXTENDS ClaimAdmission, ConcurrentMap

CONSTANTS Concurrency,    \* candidateConcurrency
          AdmissionCases  \* batches: candidates, bundles, objections, faults

\* A bundle: how many claims each of its definitions and mentions makes.
Bundles == [definitions : Seq(Nat), mentions : Seq(Nat)]

\* What validatePolicy demands of the concurrency, and what a batch is: an
\* empty one is answered at once.
ASSUME GroundingPolicy ==
  /\ Concurrency \in Nat \ {0}
  /\ \A b \in AdmissionCases : b.candidates \in Nat \ {0} /\ b.bundles \subseteq Bundles

VARIABLES admission, \* the batch
          progress,     \* how far admitBatch has come
          maps,      \* the two maps, each under a stage of its own
          probes, drafts, \* what they have answered so far
          outcomes   \* what admitBatch returns, by candidate

groundingVars == <<admission, progress, maps, probes, drafts, outcomes, claimVars>>
callVars == <<admission, outcomes, claimVars>>

Candidate == 1 .. admission.candidates

Unknown == "unknown"

NoBundle == [definitions |-> <<>>, mentions |-> <<>>]

-----------------------------------------------------------------------------
(* Probing and drafting.  A stage and its map are entered and left together. *)

Mapped == {"probing", "drafting"}

\* The candidates on the core side of the boundary, in their order.
Core == Ascending({c \in Candidate : probes[c] = "core"})

ItemsOf(stage) == IF stage = "probing" THEN admission.candidates ELSE Len(Core)

CallMap ==
  /\ progress \in Mapped /\ maps[progress] = NotCalled
  /\ maps' = [maps EXCEPT ![progress] = Called(ItemsOf(progress), Concurrency)]
  /\ UNCHANGED <<progress, probes, drafts, callVars>>

\* The workers of a rejected map go on when the batch is over.
ProbeAnswers(c) ==
  /\ c \in maps["probing"].flying
  /\ maps' = [maps EXCEPT !["probing"] = TaskDone(@, c)]
  /\ \E verdict \in {"core", "boundary"} : probes' = [probes EXCEPT ![c] = verdict]
  /\ UNCHANGED <<progress, drafts, callVars>>

DraftAnswers(i) ==
  /\ i \in maps["drafting"].flying
  /\ maps' = [maps EXCEPT !["drafting"] = TaskDone(@, i)]
  /\ \E bundle \in admission.bundles : drafts' = [drafts EXCEPT ![Core[i]] = bundle]
  /\ UNCHANGED <<progress, probes, callVars>>

\* A call that throws, or a bundle that does not pass validateGeneratedBundle.
MapCallFails(stage, i) ==
  /\ i \in maps[stage].flying /\ Fault
  /\ maps' = [maps EXCEPT ![stage] = TaskFailed(@, i)]
  /\ UNCHANGED <<admission, progress, probes, drafts, outcomes>>
  /\ UNCHANGED <<sets, objections, samples, wave, pipeVars, batch>>

\* The stage of a rejected map is closed as failed; a stage may also fail to be
\* written, before its map or after it.
MapThrows ==
  /\ progress \in Mapped
  /\ \/ maps[progress].promise = "rejected" /\ UNCHANGED faults
     \/ maps[progress].promise \in {"none", "resolved"} /\ Fault
  /\ progress' = "thrown"
  /\ UNCHANGED <<admission, maps, probes, drafts, outcomes>>
  /\ UNCHANGED <<sets, objections, samples, wave, pipeVars, batch>>

-----------------------------------------------------------------------------
(* Claims. *)

\* groundingTargets: the claims of every definition, then of every mention;
\* each claim is known by the passage it is a sentence of.
ClaimsOf(bundle) ==
  LET passages(list, n) == [i \in 1 .. n |-> [claim \in 1 .. bundle[list][i] |-> <<list, i>>]]
  IN  FlattenSeq(passages("definitions", Len(bundle.definitions))
                   \o passages("mentions", Len(bundle.mentions)))

\* No draft at all skips the stage of drafting, and the claims with it.
Drafted ==
  /\ progress = "probing" /\ maps["probing"].promise = "resolved"
  /\ progress' = IF Core = <<>> THEN "claiming" ELSE "drafting"
  /\ UNCHANGED <<maps, probes, drafts, callVars>>

Claimed ==
  /\ \/ progress = "drafting" /\ maps["drafting"].promise = "resolved"
     \/ progress = "claiming" /\ Core = <<>>
  /\ progress' = "claiming"
  /\ \E doubts \in admission.objections :
       AdmitBatch([k \in 1 .. Len(Core) |-> Len(ClaimsOf(drafts[Core[k]]))], doubts)
  /\ UNCHANGED <<admission, maps, probes, drafts, outcomes>>

Claiming ==
  /\ progress = "claiming" /\ ClaimNext
  /\ UNCHANGED <<admission, progress, maps, probes, drafts, outcomes>>

\* The passages of a draft one of whose claims was rejected.
RejectedPassages(k) ==
  LET claims == ClaimsOf(drafts[Core[k]])
  IN  {claims[t] : t \in {t \in 1 .. Len(claims) : ClaimVetoed(k, t, samples)}}

MutantKeptPassages(bundle, dropped) ==  \* only the first claim counts
  {p \in ToSet(ClaimsOf(bundle)) : p \notin dropped \/ bundle[p[1]][p[2]] > 1}

KeptPassages(bundle, dropped) == ToSet(ClaimsOf(bundle)) \ dropped

\* settleGroundingBundle: a bundle stands on a definition.
Outcome(c) ==
  IF probes[c] = "boundary" THEN [disposition |-> "held_out", passages |-> {}]
  ELSE LET k    == CHOOSE i \in 1 .. Len(Core) : Core[i] = c
           kept == KeptPassages(drafts[c], RejectedPassages(k))
       IN  IF \E p \in kept : p[1] = "definitions"
           THEN [disposition |-> "admitted", passages |-> kept]
           ELSE [disposition |-> "rejected", passages |-> {}]

AdmissionReturns ==
  /\ progress = "claiming" /\ batch = "returned"
  /\ progress' = "returned" /\ outcomes' = [c \in Candidate |-> Outcome(c)]
  /\ UNCHANGED <<admission, maps, probes, drafts, claimVars>>

AdmissionThrows ==
  /\ progress = "claiming" /\ batch = "thrown"
  /\ progress' = "thrown"
  /\ UNCHANGED <<maps, probes, drafts, callVars>>

-----------------------------------------------------------------------------
GroundingInit ==
  /\ admission \in AdmissionCases
  /\ progress = "probing" /\ maps = [stage \in Mapped |-> NotCalled]
  /\ probes = [c \in Candidate |-> Unknown] /\ drafts = [c \in Candidate |-> NoBundle]
  /\ outcomes = <<>>
  /\ ClaimsIdle(admission.faults)

GroundingNext ==
  \/ CallMap \/ MapThrows
  \/ \E c \in Candidate : ProbeAnswers(c) \/ DraftAnswers(c)
  \/ \E stage \in Mapped, i \in Candidate : MapCallFails(stage, i)
  \/ Drafted \/ Claimed \/ Claiming \/ AdmissionReturns \/ AdmissionThrows

\* Calls answer or time out, writes end, and continuations run.
GroundingSpec == GroundingInit /\ [][GroundingNext]_groundingVars /\ WF_groundingVars(GroundingNext)

-----------------------------------------------------------------------------
(* Correctness. *)

\* A candidate is admitted with exactly the passages none of whose claims the
\* judges would veto over every sample, if a definition is among them; else it
\* is rejected.  What lies beyond the boundary is held out whatever is judged.
AdmittedTextStands ==
  progress = "returned" => \A c \in Candidate :
    LET claims   == ClaimsOf(drafts[c])
        vetoed   == {t \in 1 .. Len(claims) : FullyVetoed(CHOOSE k \in 1 .. Len(Core) : Core[k] = c, t)}
        standing == {p \in ToSet(claims) : \A t \in vetoed : claims[t] # p}
        founded  == \E p \in standing : p[1] = "definitions"
    IN  IF probes[c] = "boundary" THEN outcomes[c].disposition = "held_out"
        ELSE outcomes[c] = IF founded THEN [disposition |-> "admitted", passages |-> standing]
                           ELSE [disposition |-> "rejected", passages |-> {}]

\* What the comment on mapWithConcurrency says: after a rejection no task starts.
NoTaskStartsAfterRejection ==
  [][\A stage \in Mapped :
       maps[stage].promise = "rejected" => maps'[stage].flying \subseteq maps[stage].flying]_groundingVars
=============================================================================
